------------------------ MODULE ControlPlaneInvariant ------------------------
(***************************************************************************)
(* The inductive invariant behind the safety properties of ControlPlane.   *)
(* None of them is inductive alone: a handler acts on documents it read    *)
(* some steps ago, so what matters is what every COPY of a document, in    *)
(* the table, in an invocation or in a sweep, can still be.                *)
(***************************************************************************)
EXTENDS ControlPlane

(* What is on record.  Each of these sets only grows: a record is never    *)
(* deleted and never changes run, step or deadline.                        *)
KnownTasks == {t \in Task : task[t].status # "ABSENT"}
KnownConfs == {k \in Conf : conf[k].status # "ABSENT"}
TaskSteps  == {<<task[t].run, task[t].step>> : t \in KnownTasks}
ConfSteps  == {<<conf[k].run, conf[k].step>> : k \in KnownConfs}
OverdueRuns == {task[t].run : t \in {u \in KnownTasks : Expired(task[u])}}
                 \cup {conf[k].run : k \in {j \in KnownConfs : Expired(conf[j])}}

(* References held by records, calls, sweeps and agents resolve.           *)
TaskLinks == TaskSteps \subseteq Run \X Step
ConfLinks == ConfSteps \subseteq Run \X Step

TaskPc == {"claim_run", "claim_lease", "claim_task", "claim_save",
           "result_task", "result_run", "verify"}
ByAgentPc == {"claim_run", "claim_lease", "claim_task", "claim_save",
              "record_run", "record_save", "result_task"}

LinkedCall(c, tasks, confs) ==
    /\ c.pc # "idle" => c.run \in Run
    /\ c.task \in tasks \cup {NoTask}
    /\ c.tasks \subseteq tasks /\ c.confs \subseteq confs
    /\ c.pc \in TaskPc => c.task # NoTask
    /\ c.pc \in ByAgentPc \/ c.grant # NoGrant => c.agent # NoAgent
    /\ c.pc = "claim_save" => c.grant # NoGrant
    /\ c.pc = "verify" => c.doc.status = "WAITING_AGENT"
    /\ c.pc = "advance" => c.doc.status = "RUNNING"
CallLinks == \A i \in Slot : LinkedCall(call[i], KnownTasks, KnownConfs)

LinkedSweep(s, tasks, confs) ==
    /\ s.release \cup s.tasks \subseteq tasks /\ s.confs \subseteq confs
    /\ s.pc = "runs" => \A r \in s.runs : s.docs[r].status \in Waiting
SweepLinks == \A w \in Sweeper : LinkedSweep(sweep[w], KnownTasks, KnownConfs)

LinkedAgent(w, tasks) ==
    w.pc \notin {"idle", "claiming"} => w.grant # NoGrant /\ w.task \in tasks
AgentLinks == \A a \in Agent : LinkedAgent(agent[a], KnownTasks)

Linked == TaskLinks /\ ConfLinks /\ CallLinks /\ SweepLinks /\ AgentLinks

(* A grant with an accepted result has left its replay marker.             *)
SpentIsMarked ==
    \A g \in Grant : \/ spent[g] = 0
                     \/ spent[g] = 1 /\ <<g, "agent.report_result">> \in consumed

(* The lock item outlives every window it ever stood for.                  *)
LeaseCoversWindows ==
    \A w \in won : lease[w.task].agent # NoAgent /\ w.until <= lease[w.task].until

(* Every approval that is the only way to step s was given to run r.       *)
Cleared(r, s, taken) == \A a \in Approvals : s \in Behind[a] => <<r, a, TRUE>> \in taken

(* What any copy d of run r can be: its confirmed steps were confirmed by  *)
(* a person and its step approved by whoever had to, the work it waits for *)
(* is on record, and it is timed out only after a deadline.                *)
Sound(r, d, confirmed, tasks, confs, overdue, taken) ==
    /\ \A s \in d.confirmed : <<r, s>> \in confirmed
    /\ Cleared(r, d.step, taken)
    /\ d.status = "WAITING_AGENT" => <<r, d.step>> \in tasks /\ d.step \notin Approvals
    /\ d.status = "AWAITING_CONFIRMATION" => <<r, d.step>> \in confs
    /\ d.status = "TIMED_OUT" => r \in overdue
IsSound(r, d) == Sound(r, d, vouched, TaskSteps, ConfSteps, OverdueRuns, decided)

StoredSound == \A r \in Run : IsSound(r, run[r])
CallsSound  == \A i \in Slot : IsSound(call[i].run, call[i].doc)
SweepsSound == \A w \in Sweeper : /\ sweep[w].runs \subseteq OverdueRuns
                                  /\ \A r \in Run : IsSound(r, sweep[w].docs[r])
CopiesSound == StoredSound /\ CallsSound /\ SweepsSound

IInv == /\ TypeOK /\ Linked
        /\ SpentIsMarked
        /\ LeaseCoversWindows /\ LeaseWindowsDisjoint
        /\ CopiesSound /\ GateHonoured /\ ReviewedWork
=============================================================================
