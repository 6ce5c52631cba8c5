---------------------------- MODULE ControlPlane ----------------------------
(***************************************************************************)
(* The run lifecycle of services/control-plane/src/handler.ts over its one *)
(* DynamoDB table: runs, agent tasks, confirmations, task leases, signed   *)
(* execution grants and their replay markers.                              *)
(*                                                                         *)
(* A request is served by a Lambda invocation, a "call" in one of the      *)
(* slots of Slot.  A call reads whole documents, decides on what it read,  *)
(* and writes whole documents back; nothing locks a document in between,   *)
(* so each database access is a step of its own and calls interleave       *)
(* between them.  Only the lease and the replay marker are conditional     *)
(* writes.  A call may die between any two steps; the agent that waits for *)
(* it may stop waiting while it runs on.                                   *)
(***************************************************************************)
EXTENDS EngineSteps, Integers

CONSTANTS Run, Task, Grant, Agent, Slot, Sweeper,
          NoRun, NoTask, NoGrant, NoAgent, NoSlot,
          TaskTicks,      \* settings.taskExpiryMs
          ConfTicks,      \* settings.confirmationExpiryMs
          GrantSeconds,   \* GRANT_TTL_SECONDS
          TicksPerSecond, \* clock resolution: Date.now() against whole seconds
          MaxPasses,      \* passes advance() makes before it gives up (100)
          MaxReports,     \* attempts an agent makes to report a result (3)
          MaxTime,        \* bound: the clock stops here
          Ops,            \* bound: the optional requests of an instance
          Faults          \* bound: the faults of an instance

AllOps    == {"claim", "record", "operator", "confirm", "approve", "cancel", "sweep"}
AllFaults == {"crash", "sweepcrash", "lost", "agent"}

ASSUME ControlPlaneAssumption ==
    /\ NoRun \notin Run /\ NoTask \notin Task /\ NoGrant \notin Grant
    /\ NoAgent \notin Agent /\ NoSlot \notin Slot
    /\ TaskTicks \in Nat /\ ConfTicks \in Nat
    /\ GrantSeconds \in Nat \ {0} /\ TicksPerSecond \in Nat \ {0}
    /\ MaxPasses \in Nat \ {0} /\ MaxReports \in Nat \ {0} /\ MaxTime \in Nat
    /\ Ops \subseteq AllOps /\ Faults \subseteq AllFaults

VARIABLES now,       \* the clock every invocation reads with Date.now()
          run, task, conf,   \* RUN#, TASK# and CONFIRMATION# documents
          lease,     \* TASKCLAIM# items
          grant,     \* signed grants issued so far
          consumed,  \* GRANT#<id>#<tool> replay markers
          call,      \* invocations in flight
          sweep,     \* scheduled sweeps in flight
          agent      \* connected agents

(* History, read by properties only. *)
VARIABLES won,       \* lease windows granted so far
          vouched,   \* <<run, step>> pairs a person confirmed
          decided,   \* <<run, step, approved>> decisions taken
          absorbed,  \* tasks whose result some saved run contains
          spent,     \* how many results each grant got accepted
          tried      \* <<run, step>> a managed attempt may have acted on

db      == <<run, task, conf, lease, grant, consumed>>
history == <<won, vouched, decided, absorbed, spent, tried>>
vars    == <<now, db, call, sweep, agent, history>>

----------------------------------------------------------------------------
(* Documents. *)

NoDoc == [status |-> "ABSENT", step |-> NoStep, confirmed |-> {}, pending |-> NoConf]

TaskStatus == {"ABSENT", "PENDING", "CLAIMED", "COMPLETED", "EXPIRED", "CANCELLED"}
TaskDoc == [status : TaskStatus, run : Run \cup {NoRun}, step : Step \cup {NoStep},
            expires : Nat, claimedBy : Agent \cup {NoAgent}, claimUntil : Nat]
AbsentTask == [status |-> "ABSENT", run |-> NoRun, step |-> NoStep,
               expires |-> 0, claimedBy |-> NoAgent, claimUntil |-> 0]

ConfStatus == {"ABSENT", "PENDING", "EXPIRED", "CANCELLED"}
ConfDoc == [status : ConfStatus, run : Run \cup {NoRun}, step : Step \cup {NoStep},
            expires : Nat]
AbsentConf == [status |-> "ABSENT", run |-> NoRun, step |-> NoStep, expires |-> 0]

Lease   == [agent : Agent \cup {NoAgent}, until : Nat]
NoLease == [agent |-> NoAgent, until |-> 0]

GrantDoc == [task : Task \cup {NoTask}, agent : Agent \cup {NoAgent}, expires : Nat]
NoIssue  == [task |-> NoTask, agent |-> NoAgent, expires |-> 0]
Tool     == {"record_step_result", "agent.report_result"}

CallPc == {"idle", "claim_run", "claim_lease", "claim_task", "claim_save",
           "record_run", "record_save", "result_task", "result_run", "verify",
           "advance", "save", "finish", "cancel_save", "cancel_scan", "cancel_items"}
Call == [pc : CallPc, run : Run \cup {NoRun}, doc : RunDoc \cup {NoDoc},
         task : Task \cup {NoTask}, agent : Agent \cup {NoAgent},
         grant : Grant \cup {NoGrant}, until : Nat,
         tasks : SUBSET Task, confs : SUBSET Conf, passes : Nat]
Idle == [pc |-> "idle", run |-> NoRun, doc |-> NoDoc, task |-> NoTask,
         agent |-> NoAgent, grant |-> NoGrant, until |-> 0,
         tasks |-> {}, confs |-> {}, passes |-> 0]

Sweep == [pc : {"idle", "items", "runs"}, release : SUBSET Task, tasks : SUBSET Task,
          confs : SUBSET Conf, runs : SUBSET Run, docs : [Run -> RunDoc \cup {NoDoc}]]
Resting == [pc |-> "idle", release |-> {}, tasks |-> {}, confs |-> {},
            runs |-> {}, docs |-> [r \in Run |-> NoDoc]]

AgentPc == {"idle", "claiming", "claimed", "acted", "recording", "recorded", "reporting"}
AgentDoc == [pc : AgentPc, task : Task \cup {NoTask}, grant : Grant \cup {NoGrant},
             slot : Slot \cup {NoSlot}, tries : Nat]
NoWork == [pc |-> "idle", task |-> NoTask, grant |-> NoGrant,
           slot |-> NoSlot, tries |-> 0]

Window == [task : Task, agent : Agent, from : Nat, until : Nat]

TypeOK ==
    /\ now \in Nat
    /\ run \in [Run -> RunDoc \cup {NoDoc}]
    /\ task \in [Task -> TaskDoc]
    /\ conf \in [Conf -> ConfDoc]
    /\ lease \in [Task -> Lease]
    /\ grant \in [Grant -> GrantDoc]
    /\ consumed \subseteq Grant \X Tool
    /\ call \in [Slot -> Call]
    /\ sweep \in [Sweeper -> Sweep]
    /\ agent \in [Agent -> AgentDoc]
    /\ won \subseteq Window
    /\ vouched \subseteq Run \X Step
    /\ decided \subseteq Run \X Step \X BOOLEAN
    /\ absorbed \subseteq Task
    /\ spent \in [Grant -> Nat]
    /\ tried \subseteq Run \X Step

Init ==
    /\ now = 0
    /\ run = [r \in Run |-> NoDoc]
    /\ task = [t \in Task |-> AbsentTask]
    /\ conf = [c \in Conf |-> AbsentConf]
    /\ lease = [t \in Task |-> NoLease]
    /\ grant = [g \in Grant |-> NoIssue]
    /\ consumed = {}
    /\ call = [i \in Slot |-> Idle]
    /\ sweep = [w \in Sweeper |-> Resting]
    /\ agent = [a \in Agent |-> NoWork]
    /\ won = {} /\ vouched = {} /\ decided = {} /\ absorbed = {} /\ tried = {}
    /\ spent = [g \in Grant |-> 0]

----------------------------------------------------------------------------
(* Calls.  Serve(i, c) moves the call in slot i on; Ends(i) is its end,    *)
(* by a reply, a refusal or a 5xx: the agent that still waits sees a       *)
(* response either way, and carries on as its client code does.            *)

Serve(i, c) == call' = [call EXCEPT ![i] = c]

AfterReply(w) == IF w.pc = "recording"
                 THEN [w EXCEPT !.pc = "recorded", !.slot = NoSlot]
                 ELSE NoWork

Awaited(i) == call[i].agent # NoAgent /\ agent[call[i].agent].slot = i

Ends(i) ==
    /\ Serve(i, Idle)
    /\ agent' = IF Awaited(i)
                THEN [agent EXCEPT ![call[i].agent] = AfterReply(@)]
                ELSE agent

Second(t) == t \div TicksPerSecond
LeaseTicks == GrantSeconds * TicksPerSecond

Expired(doc) == doc.expires < now
Open(t) == task[t].status \in {"PENDING", "CLAIMED"}

(* Faulty variants of Verifies: no replay marker; the second the grant     *)
(* expires in still counts.                                                *)
VerifiesWithoutReplay(g, a, t, tool) ==
    /\ grant[g].expires > Second(now)
    /\ grant[g].agent = a
    /\ grant[g].task = t

VerifiesOneSecondLate(g, a, t, tool) ==
    /\ grant[g].expires >= Second(now)
    /\ grant[g].agent = a
    /\ grant[g].task = t
    /\ <<g, tool>> \notin consumed

(* verify() of execution-grant.ts: the grant is inside its lifetime, it    *)
(* names this agent and task, and the replay marker of the tool is new.    *)
Verifies(g, a, t, tool) ==
    /\ grant[g].expires > Second(now)
    /\ grant[g].agent = a
    /\ grant[g].task = t
    /\ <<g, tool>> \notin consumed
----------------------------------------------------------------------------
(* The engine inside a call.                                               *)

Looping(c) == c.doc.status = "RUNNING" /\ c.passes < MaxPasses

(* The method has its document; it enters the loop of advance(), or saves  *)
(* a document the resume itself already failed.                            *)
Advancing(c, d) ==
    [c EXCEPT !.doc = d, !.pc = IF d.status = "RUNNING" THEN "advance" ELSE "save"]

(* start(): the fresh run is saved RUNNING before anything else happens. *)
StartRun(i, r) ==
    /\ call[i] = Idle
    /\ run[r] = NoDoc
    /\ run' = [run EXCEPT ![r] = FreshRun]
    /\ Serve(i, Advancing([Idle EXCEPT !.run = r], FreshRun))
    /\ UNCHANGED <<now, task, conf, lease, grant, consumed, sweep, agent, history>>

(* The managed executor may have changed the outside world in this pass. *)
Marks(i, o) == tried' = IF o.acted THEN tried \cup {<<call[i].run, call[i].doc.step>>}
                        ELSE tried

(* A pass that writes nothing but the run, or skips even that. *)
PlainPass(i) ==
    /\ call[i].pc = "advance"
    /\ \E o \in Iteration(call[i].doc) :
          LET c == [call[i] EXCEPT !.doc = o.doc, !.passes = @ + 1]
          IN  /\ o.dispatch = "none"
              /\ \/ o.ends = "save" /\ Serve(i, [c EXCEPT !.pc = "save"])
                 \/ /\ o.ends = "skip"
                    /\ Serve(i, [c EXCEPT !.pc = IF Looping(c) THEN "advance" ELSE "finish"])
              /\ Marks(i, o)
    /\ UNCHANGED <<now, db, sweep, agent, won, vouched, decided, absorbed, spent>>

(* advance() throws: no end step, or the managed executor threw. *)
ThrowingPass(i) ==
    /\ call[i].pc = "advance"
    /\ \E o \in Iteration(call[i].doc) : o.ends = "throw" /\ Marks(i, o)
    /\ Ends(i)
    /\ UNCHANGED <<now, db, sweep, won, vouched, decided, absorbed, spent>>

(* Faulty variant of QueueTask: the task is never stored. *)
QueuesNothing(i) ==
    LET c == call[i]
    IN  /\ c.pc = "advance"
        /\ \E o \in Iteration(c.doc) :
              /\ o.dispatch = "task"
              /\ Serve(i, [c EXCEPT !.doc = o.doc, !.passes = @ + 1, !.pc = "save"])
        /\ UNCHANGED <<now, db, sweep, agent, history>>

(* queueConnectedTask(): the task is stored before the run that waits. *)
QueueTask(i) ==
    LET c == call[i]
    IN  /\ c.pc = "advance"
        /\ \E o \in Iteration(c.doc), t \in Task :
              /\ o.dispatch = "task"
              /\ task[t].status = "ABSENT"
              /\ task' = [task EXCEPT ![t] =
                            [AbsentTask EXCEPT !.status = "PENDING", !.run = c.run,
                                               !.step = o.doc.step,
                                               !.expires = now + TaskTicks]]
              /\ Serve(i, [c EXCEPT !.doc = o.doc, !.passes = @ + 1, !.pc = "save"])
        /\ UNCHANGED <<now, run, conf, lease, grant, consumed, sweep, agent, history>>

(* The confirmation gate: the record first, then the run that waits on it. *)
RequestConfirmation(i) ==
    LET c == call[i]
    IN  /\ c.pc = "advance"
        /\ \E o \in Iteration(c.doc), k \in Conf :
              /\ o.dispatch = "confirmation"
              /\ conf[k].status = "ABSENT"
              /\ conf' = [conf EXCEPT ![k] =
                            [status |-> "PENDING", run |-> c.run,
                             step |-> o.doc.step, expires |-> now + ConfTicks]]
              /\ Serve(i, [c EXCEPT !.doc = [o.doc EXCEPT !.pending = k],
                                    !.passes = @ + 1, !.pc = "save"])
        /\ UNCHANGED <<now, run, task, lease, grant, consumed, sweep, agent, history>>

(* saveRun(): the whole document, whatever the table holds by now. *)
SaveRun(i) ==
    LET c == call[i]
    IN  /\ c.pc = "save"
        /\ run' = [run EXCEPT ![c.run] = c.doc]
        /\ Serve(i, [c EXCEPT !.pc = IF Looping(c) THEN "advance" ELSE "finish"])
        /\ absorbed' = IF c.task = NoTask THEN absorbed ELSE absorbed \cup {c.task}
        /\ UNCHANGED <<now, task, conf, lease, grant, consumed, sweep, agent,
                       won, vouched, decided, spent, tried>>

(* The engine returned.  A result retires its task only now. *)
Finish(i) ==
    LET t == call[i].task
    IN  /\ call[i].pc = "finish"
        /\ task' = IF t = NoTask THEN task
                   ELSE [task EXCEPT ![t].status = "COMPLETED"]
        /\ Ends(i)
        /\ UNCHANGED <<now, run, conf, lease, grant, consumed, sweep, history>>
----------------------------------------------------------------------------
(* Claiming a task: read the task, read the run, take the lease, issue the *)
(* grant and store the claimed task, store the run with its audit entry.   *)

ClaimPc == {"claim_run", "claim_lease", "claim_task"}

(* Bound: a claim is made only if a grant is left for it. *)
GrantsLeft == Cardinality({j \in Slot : call[j].pc \in ClaimPc})
                < Cardinality({g \in Grant : grant[g] = NoIssue})

AgentClaims(a, i, t) ==
    /\ "claim" \in Ops
    /\ GrantsLeft
    /\ agent[a].pc = "idle"
    /\ call[i] = Idle
    /\ Open(t)
    /\ ~Expired(task[t])
    /\ task[t].status = "CLAIMED" => task[t].claimUntil < now
    /\ Serve(i, [Idle EXCEPT !.pc = "claim_run", !.task = t, !.agent = a,
                             !.run = task[t].run])
    /\ agent' = [agent EXCEPT ![a] = [NoWork EXCEPT !.pc = "claiming", !.slot = i]]
    /\ UNCHANGED <<now, db, sweep, history>>

Waits(d, t) == d.status = "WAITING_AGENT" /\ d.step = task[t].step

ClaimReadsRun(i) ==
    LET c == call[i]
    IN  /\ c.pc = "claim_run"
        /\ IF Waits(run[c.run], c.task)
           THEN /\ Serve(i, [c EXCEPT !.pc = "claim_lease", !.doc = run[c.run]])
                /\ UNCHANGED agent
           ELSE Ends(i)
        /\ UNCHANGED <<now, db, sweep, history>>

(* Faulty variant of LeaseFree: a lease can be taken in its last tick. *)
LeaseFreeEarly(t) == lease[t].agent = NoAgent \/ lease[t].until <= now

(* acquireTaskLease(): a conditional write on the lock item. *)
LeaseFree(t) == lease[t].agent = NoAgent \/ lease[t].until < now

(* Faulty variant of ClaimTakesLease: a refused claim carries on. *)
ClaimIgnoresRefusal(i) ==
    LET c == call[i]
        until == now + LeaseTicks
    IN  /\ c.pc = "claim_lease"
        /\ IF LeaseFree(c.task)
           THEN /\ lease' = [lease EXCEPT ![c.task] = [agent |-> c.agent, until |-> until]]
                /\ won' = won \cup {[task |-> c.task, agent |-> c.agent,
                                     from |-> now, until |-> until]}
           ELSE UNCHANGED <<lease, won>>
        /\ Serve(i, [c EXCEPT !.pc = "claim_task", !.until = until])
        /\ UNCHANGED <<now, run, task, conf, grant, consumed, sweep, agent,
                       vouched, decided, absorbed, spent, tried>>

ClaimTakesLease(i) ==
    LET c == call[i]
        until == now + LeaseTicks
    IN  /\ c.pc = "claim_lease"
        /\ IF LeaseFree(c.task)
           THEN /\ lease' = [lease EXCEPT ![c.task] = [agent |-> c.agent, until |-> until]]
                /\ won' = won \cup {[task |-> c.task, agent |-> c.agent,
                                     from |-> now, until |-> until]}
                /\ Serve(i, [c EXCEPT !.pc = "claim_task", !.until = until])
                /\ UNCHANGED agent
           ELSE Ends(i) /\ UNCHANGED <<lease, won>>
        /\ UNCHANGED <<now, run, task, conf, grant, consumed, sweep,
                       vouched, decided, absorbed, spent, tried>>

ClaimStoresTask(i) ==
    LET c == call[i]
    IN  /\ c.pc = "claim_task"
        /\ \E g \in Grant :
              /\ grant[g] = NoIssue
              /\ grant' = [grant EXCEPT ![g] =
                             [task |-> c.task, agent |-> c.agent,
                              expires |-> Second(now) + GrantSeconds]]
              /\ Serve(i, [c EXCEPT !.pc = "claim_save", !.grant = g])
        /\ task' = [task EXCEPT ![c.task].status = "CLAIMED",
                                ![c.task].claimedBy = c.agent,
                                ![c.task].claimUntil = c.until]
        /\ UNCHANGED <<now, run, conf, lease, consumed, sweep, agent, history>>

(* The run is written back whole, as it was read before the lease. *)
ClaimSavesRun(i) ==
    LET c == call[i]
    IN  /\ c.pc = "claim_save"
        /\ run' = [run EXCEPT ![c.run] = c.doc]
        /\ Serve(i, Idle)
        /\ agent' = IF Awaited(i)
                    THEN [agent EXCEPT ![c.agent] =
                            [NoWork EXCEPT !.pc = "claimed", !.task = c.task,
                                           !.grant = c.grant]]
                    ELSE agent
        /\ UNCHANGED <<now, task, conf, lease, grant, consumed, sweep, history>>

(* The agent performs the action on the page or in the application. *)
AgentActs(a) ==
    /\ agent[a].pc = "claimed"
    /\ agent' = [agent EXCEPT ![a].pc = "acted"]
    /\ UNCHANGED <<now, db, call, sweep, history>>
----------------------------------------------------------------------------
(* recordStepResult(): the grant alone identifies the run; neither status  *)
(* nor step is looked at before the run is written back whole.             *)

AgentRecords(a, i) ==
    LET g == agent[a].grant
    IN  /\ "record" \in Ops
        /\ agent[a].pc = "acted"
        /\ call[i] = Idle
        /\ IF Verifies(g, a, agent[a].task, "record_step_result")
           THEN /\ consumed' = consumed \cup {<<g, "record_step_result">>}
                /\ Serve(i, [Idle EXCEPT !.pc = "record_run", !.agent = a,
                                         !.run = task[agent[a].task].run])
                /\ agent' = [agent EXCEPT ![a].pc = "recording", ![a].slot = i]
           ELSE /\ agent' = [agent EXCEPT ![a].pc = "recorded"]
                /\ UNCHANGED <<consumed, call>>
        /\ UNCHANGED <<now, run, task, conf, lease, grant, sweep, history>>

RecordReadsRun(i) ==
    /\ call[i].pc = "record_run"
    /\ Serve(i, [call[i] EXCEPT !.pc = "record_save", !.doc = run[call[i].run]])
    /\ UNCHANGED <<now, db, sweep, agent, history>>

RecordSavesRun(i) ==
    /\ call[i].pc = "record_save"
    /\ run' = [run EXCEPT ![call[i].run] = call[i].doc]
    /\ Ends(i)
    /\ UNCHANGED <<now, task, conf, lease, grant, consumed, sweep, history>>
----------------------------------------------------------------------------
(* Results.  The agent route first checks who holds the claim, then        *)
(* resumeAgentTask() reads the task again, reads the run, and consumes the *)
(* grant.  The operator route has no grant.                                *)

MayReport(a) == agent[a].pc = IF "record" \in Ops THEN "recorded" ELSE "acted"

AgentReports(a, i) ==
    LET t == agent[a].task
    IN  /\ MayReport(a)
        /\ call[i] = Idle
        /\ IF task[t].claimedBy \in {NoAgent, a}
           THEN /\ Serve(i, [Idle EXCEPT !.pc = "result_task", !.task = t, !.agent = a,
                                         !.grant = agent[a].grant, !.run = task[t].run])
                /\ agent' = [agent EXCEPT ![a].pc = "reporting", ![a].slot = i]
           ELSE /\ agent' = [agent EXCEPT ![a] = NoWork]
                /\ UNCHANGED call
        /\ UNCHANGED <<now, db, sweep, history>>

(* Faulty variant of ResultReadsTask: the task is retired up front, the    *)
(* order the code used to have.                                            *)
ResultRetiresTask(i) ==
    LET c == call[i]
    IN  /\ c.pc = "result_task"
        /\ IF Open(c.task) /\ ~Expired(task[c.task])
           THEN /\ Serve(i, [c EXCEPT !.pc = "result_run"])
                /\ task' = [task EXCEPT ![c.task].status = "COMPLETED"]
                /\ UNCHANGED agent
           ELSE Ends(i) /\ UNCHANGED task
        /\ UNCHANGED <<now, run, conf, lease, grant, consumed, sweep, history>>

ResultReadsTask(i) ==
    LET c == call[i]
    IN  /\ c.pc = "result_task"
        /\ IF Open(c.task) /\ ~Expired(task[c.task])
           THEN Serve(i, [c EXCEPT !.pc = "result_run"]) /\ UNCHANGED agent
           ELSE Ends(i)
        /\ UNCHANGED <<now, db, sweep, history>>

OperatorReports(i, t) ==
    /\ "operator" \in Ops
    /\ call[i] = Idle
    /\ Open(t)
    /\ ~Expired(task[t])
    /\ Serve(i, [Idle EXCEPT !.pc = "result_run", !.task = t, !.run = task[t].run])
    /\ UNCHANGED <<now, db, sweep, agent, history>>

ResultReadsRun(i) ==
    LET c == call[i]
    IN  /\ c.pc = "result_run"
        /\ IF Waits(run[c.run], c.task)
           THEN /\ Serve(i, [c EXCEPT !.pc = "verify", !.doc = run[c.run]])
                /\ UNCHANGED agent
           ELSE Ends(i)
        /\ UNCHANGED <<now, db, sweep, history>>

(* resumeFromAgent() on the run as it was read.  What the agent claims and *)
(* whether the verify contract bears it out are free.                      *)
ResumeFromAgent(i) ==
    LET c == call[i]
    IN  \E claimed, holds \in BOOLEAN :
          Serve(i, Advancing(c, AfterAgent(c.doc, claimed, holds)))

OperatorResumes(i) ==
    /\ call[i].pc = "verify"
    /\ call[i].grant = NoGrant
    /\ ResumeFromAgent(i)
    /\ UNCHANGED <<now, db, sweep, agent, history>>

ConsumesGrant(i) ==
    LET c == call[i]
    IN  /\ c.pc = "verify"
        /\ c.grant # NoGrant
        /\ IF Verifies(c.grant, c.agent, c.task, "agent.report_result")
           THEN /\ consumed' = consumed \cup {<<c.grant, "agent.report_result">>}
                /\ ResumeFromAgent(i)
                /\ spent' = [spent EXCEPT ![c.grant] = @ + 1]
                /\ UNCHANGED agent
           ELSE Ends(i) /\ UNCHANGED <<consumed, spent>>
        /\ UNCHANGED <<now, run, task, conf, lease, grant, sweep,
                       won, vouched, decided, absorbed, tried>>
----------------------------------------------------------------------------
(* People: confirmations, approvals, cancellation.                         *)

(* confirmActionGate(): the CONFIRMATION# record is neither read nor       *)
(* written; only the run decides.                                          *)
Confirm(i, r) ==
    /\ "confirm" \in Ops
    /\ call[i] = Idle
    /\ run[r].status = "AWAITING_CONFIRMATION"
    /\ Serve(i, Advancing([Idle EXCEPT !.run = r], AfterConfirmation(run[r])))
    /\ vouched' = vouched \cup {<<r, run[r].step>>}
    /\ UNCHANGED <<now, db, sweep, agent, won, decided, absorbed, spent, tried>>

Approve(i, r) ==
    /\ "approve" \in Ops
    /\ call[i] = Idle
    /\ run[r].status = "WAITING_APPROVAL"
    /\ \E approved \in BOOLEAN :
          /\ Serve(i, Advancing([Idle EXCEPT !.run = r], AfterApproval(run[r], approved)))
          /\ decided' = decided \cup {<<r, run[r].step, approved>>}
    /\ UNCHANGED <<now, db, sweep, agent, won, vouched, absorbed, spent, tried>>

(* Faulty variant of Cancel: any run can be cancelled. *)
CancelsAnything(i, r) ==
    /\ "cancel" \in Ops
    /\ call[i] = Idle
    /\ run[r] # NoDoc
    /\ Serve(i, [Idle EXCEPT !.pc = "cancel_save", !.run = r,
                             !.doc = AfterCancel(run[r])])
    /\ UNCHANGED <<now, db, sweep, agent, history>>

(* cancelRun(): the run first, then every PENDING record a scan finds. *)
Cancel(i, r) ==
    /\ "cancel" \in Ops
    /\ call[i] = Idle
    /\ run[r].status \in Cancellable
    /\ Serve(i, [Idle EXCEPT !.pc = "cancel_save", !.run = r,
                             !.doc = AfterCancel(run[r])])
    /\ UNCHANGED <<now, db, sweep, agent, history>>

CancelSavesRun(i) ==
    /\ call[i].pc = "cancel_save"
    /\ run' = [run EXCEPT ![call[i].run] = call[i].doc]
    /\ Serve(i, [call[i] EXCEPT !.pc = "cancel_scan"])
    /\ UNCHANGED <<now, task, conf, lease, grant, consumed, sweep, agent, history>>

CancelScans(i) ==
    LET r == call[i].run
    IN  /\ call[i].pc = "cancel_scan"
        /\ Serve(i, [call[i] EXCEPT
                       !.pc = "cancel_items",
                       !.tasks = {t \in Task : task[t].run = r /\ task[t].status = "PENDING"},
                       !.confs = {k \in Conf : conf[k].run = r /\ conf[k].status = "PENDING"}])
        /\ UNCHANGED <<now, db, sweep, agent, history>>

CancelClosesTask(i) ==
    /\ call[i].pc = "cancel_items"
    /\ \E t \in call[i].tasks :
          /\ task' = [task EXCEPT ![t].status = "CANCELLED"]
          /\ Serve(i, [call[i] EXCEPT !.tasks = @ \ {t}])
    /\ UNCHANGED <<now, run, conf, lease, grant, consumed, sweep, agent, history>>

CancelClosesConf(i) ==
    /\ call[i].pc = "cancel_items"
    /\ call[i].tasks = {}
    /\ \E k \in call[i].confs :
          /\ conf' = [conf EXCEPT ![k].status = "CANCELLED"]
          /\ Serve(i, [call[i] EXCEPT !.confs = @ \ {k}])
    /\ UNCHANGED <<now, run, task, lease, grant, consumed, sweep, agent, history>>

CancelReturns(i) ==
    /\ call[i].pc = "cancel_items"
    /\ call[i].tasks = {} /\ call[i].confs = {}
    /\ Ends(i)
    /\ UNCHANGED <<now, db, sweep, history>>
----------------------------------------------------------------------------
(* sweepExpired(): one scan, then writes from that scan.                   *)

Stalled(t) == /\ task[t].status = "CLAIMED"
              /\ task[t].claimUntil < now
              /\ ~Expired(task[t])

(* Faulty variants: a claimed task is never overdue; a confirmation is     *)
(* overdue in its last tick.                                               *)
OverduePending(t)   == task[t].status = "PENDING" /\ Expired(task[t])
OverdueConfEarly(k) == conf[k].status = "PENDING" /\ conf[k].expires <= now

OverdueTask(t) == Open(t) /\ Expired(task[t])
OverdueConf(k) == conf[k].status = "PENDING" /\ Expired(conf[k])

SweepStep(w, s) ==
    sweep' = [sweep EXCEPT ![w] =
                IF s.release \cup s.tasks = {} /\ s.confs = {} /\ s.runs = {}
                THEN Resting ELSE s]

SweepScans(w) ==
    LET late  == {t \in Task : OverdueTask(t)}
        confs == {k \in Conf : OverdueConf(k)}
    IN  /\ "sweep" \in Ops
        /\ sweep[w].pc = "idle"
        /\ SweepStep(w, [Resting EXCEPT
                           !.pc = "items",
                           !.release = {t \in Task : Stalled(t)},
                           !.tasks = late, !.confs = confs,
                           !.runs = {task[t].run : t \in late} \cup {conf[k].run : k \in confs}])
        /\ UNCHANGED <<now, db, call, agent, history>>

SweepReleases(w) ==
    LET s == sweep[w]
    IN  /\ s.pc = "items"
        /\ \E t \in s.release :
              /\ task' = [task EXCEPT ![t].status = "PENDING",
                                      ![t].claimedBy = NoAgent, ![t].claimUntil = 0]
              /\ SweepStep(w, [s EXCEPT !.release = @ \ {t}])
        /\ UNCHANGED <<now, run, conf, lease, grant, consumed, call, agent, history>>

SweepExpiresTask(w) ==
    LET s == sweep[w]
    IN  /\ s.pc = "items" /\ s.release = {}
        /\ \E t \in s.tasks :
              /\ task' = [task EXCEPT ![t].status = "EXPIRED"]
              /\ SweepStep(w, [s EXCEPT !.tasks = @ \ {t}])
        /\ UNCHANGED <<now, run, conf, lease, grant, consumed, call, agent, history>>

SweepExpiresConf(w) ==
    LET s == sweep[w]
    IN  /\ s.pc = "items" /\ s.release = {} /\ s.tasks = {}
        /\ \E k \in s.confs :
              /\ conf' = [conf EXCEPT ![k].status = "EXPIRED"]
              /\ SweepStep(w, [s EXCEPT !.confs = @ \ {k}])
        /\ UNCHANGED <<now, run, task, lease, grant, consumed, call, agent, history>>

(* Only then are the runs read, and only the waiting ones are kept. *)
SweepReadsRuns(w) ==
    LET s == sweep[w]
    IN  /\ s.pc = "items" /\ s.release = {} /\ s.tasks = {} /\ s.confs = {}
        /\ SweepStep(w, [s EXCEPT !.pc = "runs", !.docs = run,
                           !.runs = {r \in @ : run[r].status \in
                                       {"WAITING_AGENT", "AWAITING_CONFIRMATION"}}])
        /\ UNCHANGED <<now, db, call, agent, history>>

SweepTimesOut(w) ==
    LET s == sweep[w]
    IN  /\ s.pc = "runs"
        /\ \E r \in s.runs :
              /\ run' = [run EXCEPT ![r] = AfterTimeout(s.docs[r])]
              /\ SweepStep(w, [s EXCEPT !.runs = @ \ {r}])
        /\ UNCHANGED <<now, task, conf, lease, grant, consumed, call, agent, history>>
----------------------------------------------------------------------------
(* Faults and time.                                                        *)

CallDies(i) ==
    /\ "crash" \in Faults
    /\ call[i] # Idle
    /\ Ends(i)
    /\ UNCHANGED <<now, db, sweep, history>>

SweepDies(w) ==
    /\ "sweepcrash" \in Faults
    /\ sweep[w] # Resting
    /\ sweep' = [sweep EXCEPT ![w] = Resting]
    /\ UNCHANGED <<now, db, call, agent, history>>

(* The agent's request fails on its side while the invocation runs on.     *)
(* Only a result is retried, and only after a network failure.             *)
ReplyLost(a) ==
    LET w == agent[a]
    IN  /\ "lost" \in Faults
        /\ w.slot # NoSlot
        /\ \/ agent' = [agent EXCEPT ![a] = AfterReply(w)]
           \/ /\ w.pc = "reporting"
              /\ w.tries + 1 < MaxReports
              /\ agent' = [agent EXCEPT ![a].slot = NoSlot, ![a].tries = @ + 1,
                             ![a].pc = IF "record" \in Ops THEN "recorded" ELSE "acted"]
        /\ UNCHANGED <<now, db, call, sweep, history>>

(* The tab is closed or the machine sleeps: whatever it held is forgotten. *)
AgentDies(a) ==
    /\ "agent" \in Faults
    /\ agent[a].pc # "idle"
    /\ agent' = [agent EXCEPT ![a] = NoWork]
    /\ UNCHANGED <<now, db, call, sweep, history>>

Tick ==
    /\ now < MaxTime
    /\ now' = now + 1
    /\ UNCHANGED <<db, call, sweep, agent, history>>

----------------------------------------------------------------------------
EngineStep(i) == \/ PlainPass(i) \/ ThrowingPass(i) \/ QueueTask(i)
                 \/ RequestConfirmation(i) \/ SaveRun(i) \/ Finish(i)

AgentCallStep(i) == \/ ClaimReadsRun(i) \/ ClaimTakesLease(i) \/ ClaimStoresTask(i)
                    \/ ClaimSavesRun(i) \/ RecordReadsRun(i) \/ RecordSavesRun(i)
                    \/ ResultReadsTask(i) \/ ResultReadsRun(i)
                    \/ OperatorResumes(i) \/ ConsumesGrant(i)

CancelStep(i) == \/ CancelSavesRun(i) \/ CancelScans(i) \/ CancelClosesTask(i)
                 \/ CancelClosesConf(i) \/ CancelReturns(i)

CallStep(i) == EngineStep(i) \/ AgentCallStep(i) \/ CancelStep(i)

Request(i) == \/ \E r \in Run : \/ StartRun(i, r) \/ Confirm(i, r)
                                \/ Approve(i, r) \/ Cancel(i, r)
              \/ \E t \in Task : OperatorReports(i, t)
              \/ \E a \in Agent : \/ AgentRecords(a, i) \/ AgentReports(a, i)
                                  \/ \E t \in Task : AgentClaims(a, i, t)

SweeperStep(w) == \/ SweepScans(w) \/ SweepReleases(w) \/ SweepExpiresTask(w)
                  \/ SweepExpiresConf(w) \/ SweepReadsRuns(w) \/ SweepTimesOut(w)

Work == \/ \E i \in Slot : Request(i) \/ CallStep(i) \/ CallDies(i)
        \/ \E w \in Sweeper : SweeperStep(w) \/ SweepDies(w)
        \/ \E a \in Agent : AgentActs(a) \/ ReplyLost(a) \/ AgentDies(a)

Next == Tick \/ Work

Spec == Init /\ [][Next]_vars

(* The same system while every invocation ends before the clock shows the  *)
(* next tick: calls still interleave with each other and may die, but none *)
(* outlives a deadline it checked.  Every invocation is run to its end,    *)
(* EventBridge keeps invoking the sweep, and time passes however many      *)
(* requests come (strong fairness: they disable Tick again and again).     *)
PromptTick == /\ \A i \in Slot : call[i] = Idle
              /\ \A w \in Sweeper : sweep[w] = Resting
              /\ Tick

(* No two invocations overlap: what a lock around each would give. *)
Serial == Cardinality({i \in Slot : call'[i] # Idle})
            + Cardinality({w \in Sweeper : sweep'[w] # Resting}) <= 1

PromptSpec == Init /\ [][PromptTick \/ Work]_vars

Fairness == /\ \A i \in Slot : WF_vars(CallStep(i))
            /\ \A w \in Sweeper : WF_vars(SweeperStep(w))
            /\ SF_vars(PromptTick)

FairSpec   == PromptSpec /\ Fairness
SerialSpec == Init /\ [][Next /\ Serial]_vars
----------------------------------------------------------------------------
(* Safety. *)

(* No two leases of one task overlap, however claims interleave and        *)
(* whichever of them died: the next window opens after the last one shut.  *)
LeaseWindowsDisjoint ==
    \A v, w \in won : v.task = w.task /\ v # w => v.until < w.from \/ w.until < v.from

(* A grant is minted only for the winner of a lease, and each lease mints  *)
(* at most one: grants never outnumber the windows their agents won.       *)
OneGrantPerWindow ==
    \A t \in Task :
        Cardinality({g \in Grant : grant[g].task = t})
          <= Cardinality({w \in won : w.task = t})

(* A grant gets at most one result accepted, whatever is retried, lost or  *)
(* crashed: the replay marker decides, not the order of replies.           *)
GrantSpentOnce == \A g \in Grant : spent[g] <= 1

(* A protected action reaches no agent unless a person confirmed that step *)
(* of that run, even though stale copies of the run are written back.      *)
GateHonoured ==
    \A t \in Task :
        task[t].status # "ABSENT" /\ Flow[task[t].step].gated
          => <<task[t].run, task[t].step>> \in vouched

(* What a step may lead to, every link counted, and what it leads to while *)
(* nobody approves step a.  Behind[a] are the steps a's approval is the    *)
(* only way to: outside some set that holds the start and all it leads to. *)
Approvals == {s \in Step : Flow[s].type = "approval"}
Ways(s)   == {Flow[s].next, Flow[s].otherwise} \cap Step
Unapproved(a, s) == IF s = a THEN {Flow[a].otherwise} \cap Step ELSE Ways(s)
Behind == [a \in Approvals |->
             {s \in Step : \E C \in SUBSET (Step \ {s}) :
                StartAt \in C /\ \A u \in C : Unapproved(a, u) \subseteq C}]

(* The decision covers the work: work at a step that only an approval      *)
(* leads to reaches an agent only once that step was decided for this run, *)
(* and approved, whatever stale copy of the run is written back.           *)
ReviewedWork ==
    \A t \in Task, a \in Approvals :
        task[t].status # "ABSENT" /\ task[t].step \in Behind[a]
          => <<task[t].run, a, TRUE>> \in decided

(* A run that waits has a record of the work it waits for: the record is   *)
(* stored first, so no crash leaves a run waiting for nothing at all.      *)
WaitingRunHasWork ==
    \A r \in Run :
        /\ run[r].status = "WAITING_AGENT" =>
             \E t \in Task : task[t].run = r /\ task[t].step = run[r].step
        /\ run[r].status = "AWAITING_CONFIRMATION" =>
             \E k \in Conf : conf[k].run = r /\ conf[k].step = run[r].step

(* No run is timed out before some piece of its work passed its deadline.  *)
TimedOutAfterDeadline ==
    \A r \in Run :
        run[r].status = "TIMED_OUT" =>
            \/ \E t \in Task : task[t].run = r /\ Expired(task[t])
            \/ \E k \in Conf : conf[k].run = r /\ Expired(conf[k])

(* A task is retired only after its result is in a saved run (the order    *)
(* resumeAgentTask() was changed to): a failed resume loses no result.     *)
CompletedTaskAbsorbed ==
    \A t \in Task : task[t].status = "COMPLETED" => t \in absorbed

(* A result is accepted only from the agent that holds the lease, while it *)
(* holds it: the grant's whole seconds and the lease's milliseconds are    *)
(* computed apart, one after the other.                                    *)
ResultInsideLease ==
    [][\A g \in Grant : spent'[g] # spent[g] =>
          /\ lease[grant[g].task].agent = grant[g].agent
          /\ now <= lease[grant[g].task].until]_vars

(* Liveness: a run stops waiting on a step, by an answer or by the sweep,  *)
(* if the clock of the instance runs long enough to pass the deadline.     *)
Late == now + TaskTicks >= MaxTime \/ now + ConfTicks >= MaxTime

WaitEnds ==
    \A r \in Run, s \in Step : \A st \in {"WAITING_AGENT", "AWAITING_CONFIRMATION"} :
        (run[r].status = st /\ run[r].step = s /\ ~Late)
          ~> (run[r].status # st \/ run[r].step # s)

(* Refinement: while invocations do not overlap, each run goes through the *)
(* life the status table allows.                                           *)
Life == INSTANCE RunLifecycle WITH status <- [r \in Run |-> run[r].status]
LifecycleRefined == Life!Spec
=============================================================================
