-------------------------- MODULE ControlPlaneProofs --------------------------
(* The safety properties of ControlPlane, for every number of runs, tasks, *)
(* agents, grants and invocations, every workflow and every deadline.      *)
EXTENDS ControlPlaneTypes, FiniteSetTheorems

(***************************************************************************)
(* Copies: every copy of a run document, in the table, in an invocation or *)
(* in a sweep, stays Sound.  The gate, the waiting runs and the timeouts   *)
(* rest on it.                                                             *)
(***************************************************************************)
(* A copy d of run r is sound against the records of the next state.       *)
SoundNext(r, d) == Sound(r, d, vouched', TaskSteps', ConfSteps', OverdueRuns', decided')

(* A copy nobody touches stays sound: what it needs only grows.            *)
LEMMA StaysSound ==
    ASSUME RecordsGrow, NEW r, NEW d, IsSound(r, d)
    PROVE  SoundNext(r, d)
BY DEF RecordsGrow, IsSound, SoundNext, Sound, Cleared

(* A copy that waits for nothing and was not timed out needs only its      *)
(* confirmations, and to be where it may be.                               *)
LEMMA QuietSound ==
    ASSUME NEW r, NEW d, NEW e, SoundNext(r, d), e.confirmed = d.confirmed,
           Cleared(r, e.step, decided'),
           e.status \notin {"WAITING_AGENT", "AWAITING_CONFIRMATION", "TIMED_OUT"}
    PROVE  SoundNext(r, e)
BY DEF SoundNext, Sound

(* The empty document is sound.                                            *)
LEMMA NoDocSound == \A r : SoundNext(r, NoDoc)
<1>1. \A r : Cleared(r, NoStep, decided')
  BY NotBehind DEF Cleared
<1>2. QED  BY <1>1 DEF SoundNext, Sound, NoDoc

(* The copy an invocation holds is sound after any step.                   *)
LEMMA CallSound ==
    ASSUME TypeOK, RecordsGrow, CopiesSound, NEW i \in Slot
    PROVE  SoundNext(call[i].run, call[i].doc)
BY StaysSound DEF CopiesSound, CallsSound

(* The stored copy of a run is sound after any step that leaves it alone.  *)
LEMMA RunSound ==
    ASSUME TypeOK, RecordsGrow, CopiesSound, NEW r \in Run
    PROVE  SoundNext(r, run[r])
BY StaysSound DEF CopiesSound, StoredSound

(* The three kinds of copies, written or left alone. *)
LEMMA ServeSound ==
    ASSUME TypeOK, RecordsGrow, CopiesSound, NEW i \in Slot, NEW c, Serve(i, c),
           SoundNext(c.run, c.doc)
    PROVE  CallsSound'
<1>1. \A j \in Slot : SoundNext(call'[j].run, call'[j].doc)
  BY CallSound DEF Serve, TypeOK
<1>2. QED  BY <1>1 DEF CallsSound, IsSound, SoundNext

(* A step that moves no invocation keeps every invocation's copy sound.    *)
LEMMA SameCallsSound ==
    ASSUME TypeOK, RecordsGrow, CopiesSound, call' = call
    PROVE  CallsSound'
<1>1. \A j \in Slot : SoundNext(call'[j].run, call'[j].doc)
  BY CallSound
<1>2. QED  BY <1>1 DEF CallsSound, IsSound, SoundNext

(* An invocation that ends drops its copy and the others keep theirs.      *)
LEMMA EndsSound ==
    ASSUME TypeOK, RecordsGrow, CopiesSound, NEW i \in Slot, Ends(i) \/ Serve(i, Idle)
    PROVE  CallsSound'
<1>1. SoundNext(Idle.run, Idle.doc)
  BY NoDocSound DEF Idle
<1>2. QED  BY <1>1, ServeSound DEF Ends

(* saveRun() of a sound copy leaves the stored documents sound.            *)
LEMMA SaveSound ==
    ASSUME TypeOK, RecordsGrow, CopiesSound, NEW r \in Run, NEW d, SoundNext(r, d),
           run' = [run EXCEPT ![r] = d]
    PROVE  StoredSound'
<1>1. \A q \in Run : SoundNext(q, run'[q])
  BY RunSound DEF TypeOK
<1>2. QED  BY <1>1 DEF StoredSound, IsSound, SoundNext

(* A step that saves no run leaves the stored documents sound.             *)
LEMMA SameRunsSound ==
    ASSUME TypeOK, RecordsGrow, CopiesSound, run' = run
    PROVE  StoredSound'
<1>1. \A q \in Run : SoundNext(q, run'[q])
  BY RunSound
<1>2. QED  BY <1>1 DEF StoredSound, IsSound, SoundNext

(* A sweep that moves on with overdue runs and sound copies stays sound.   *)
LEMMA SweepServeSound ==
    ASSUME TypeOK, RecordsGrow, CopiesSound, NEW w \in Sweeper, NEW s, SweepStep(w, s),
           s.runs \subseteq OverdueRuns', \A r \in Run : SoundNext(r, s.docs[r])
    PROVE  SweepsSound'
<1>1. /\ Resting.runs \subseteq OverdueRuns'
      /\ \A r \in Run : SoundNext(r, Resting.docs[r])
  BY NoDocSound DEF Resting
<1>2. \A v \in Sweeper : /\ sweep[v].runs \subseteq OverdueRuns'
                         /\ \A r \in Run : SoundNext(r, sweep[v].docs[r])
  BY StaysSound DEF CopiesSound, SweepsSound, RecordsGrow
<1>3. sweep'[w] \in {Resting, s} /\ \A v \in Sweeper \ {w} : sweep'[v] = sweep[v]
  BY DEF SweepStep, TypeOK
<1>4. \A v \in Sweeper : /\ sweep'[v].runs \subseteq OverdueRuns'
                         /\ \A r \in Run : SoundNext(r, sweep'[v].docs[r])
  BY <1>1, <1>2, <1>3
<1>5. QED  BY <1>4 DEF SweepsSound, IsSound, SoundNext

(* A step that moves no sweep keeps every sweep's copies sound.            *)
LEMMA SameSweepsSound ==
    ASSUME TypeOK, RecordsGrow, CopiesSound, sweep' = sweep
    PROVE  SweepsSound'
<1>1. \A v \in Sweeper : /\ sweep'[v].runs \subseteq OverdueRuns'
                         /\ \A r \in Run : SoundNext(r, sweep'[v].docs[r])
  BY StaysSound DEF CopiesSound, SweepsSound, RecordsGrow
<1>2. QED  BY <1>1 DEF SweepsSound, IsSound, SoundNext
----------------------------------------------------------------------------
(* A call that enters the engine with document d. *)
LEMMA AdvancingSound ==
    ASSUME TypeOK, RecordsGrow, CopiesSound, NEW i \in Slot, NEW c \in Call, NEW d \in RunDoc,
           SoundNext(c.run, d), Serve(i, Advancing(c, d))
    PROVE  CallsSound'
<1>1. Advancing(c, d).doc = d /\ Advancing(c, d).run = c.run
  BY DEF Advancing, Call
<1>2. QED  BY <1>1, ServeSound

(* A request that arrives takes sound copies from the table and resumes    *)
(* them soundly.                                                           *)
LEMMA RequestSound ==
    ASSUME TypeOK, Linked, RecordsGrow, CopiesSound, NEW i \in Slot, Request(i)
    PROVE  CallsSound' /\ StoredSound'
<1>0. ASSUME NEW r \in Run PROVE [Idle EXCEPT !.run = r] \in Call /\ [Idle EXCEPT !.run = r].run = r
  BY IdleType DEF Idle, Call
<1>1. ASSUME NEW r \in Run, StartRun(i, r) PROVE CallsSound' /\ StoredSound'
  <2>1. FreshRun \in RunDoc
    BY GraphAssumption DEF FreshRun, RunDoc, RunStatus, Cancellable, Waiting
  <2>2. SoundNext(r, FreshRun)
    <3>1. Cleared(r, StartAt, decided')
      BY NotBehind DEF Cleared
    <3>2. QED  BY <3>1 DEF SoundNext, Sound, FreshRun
  <2>3. QED  BY <1>0, <1>1, <2>1, <2>2, AdvancingSound, SaveSound DEF StartRun
<1>2. ASSUME NEW r \in Run, Confirm(i, r) PROVE CallsSound' /\ StoredSound'
  <2> DEFINE d == AfterConfirmation(run[r])
  <2>1. run[r] \in RunDoc /\ run[r].step \in Step
    BY <1>2, WaitingDoc DEF TypeOK, Confirm, Waiting, Cancellable
  <2>2. /\ d \in RunDoc /\ d.status = "RUNNING" /\ d.step = run[r].step
        /\ d.confirmed = run[r].confirmed \cup {run[r].step}
    BY <2>1, ResumeSound, ResumeLeads
  <2>3. <<r, run[r].step>> \in vouched'
    BY <1>2 DEF Confirm
  <2>4. SoundNext(r, run[r])
    BY RunSound
  <2>5. Serve(i, Advancing([Idle EXCEPT !.run = r], d)) /\ run' = run
    BY <1>2 DEF Confirm, db
  <2> HIDE DEF d
  <2>6. SoundNext(r, d)
    BY <2>2, <2>3, <2>4 DEF SoundNext, Sound
  <2>7. QED  BY <1>0, <2>2, <2>5, <2>6, AdvancingSound, SameRunsSound
<1>3. ASSUME NEW r \in Run, Approve(i, r) PROVE CallsSound' /\ StoredSound'
  <2>1. run[r] \in RunDoc /\ run[r].step \in Step
    BY <1>3, WaitingDoc DEF TypeOK, Approve, Waiting, Cancellable
  <2>2. PICK b \in BOOLEAN :
          /\ Serve(i, Advancing([Idle EXCEPT !.run = r], AfterApproval(run[r], b)))
          /\ <<r, run[r].step, b>> \in decided'
    BY <1>3 DEF Approve
  <2> DEFINE d == AfterApproval(run[r], b)
  <2>3. d \in RunDoc /\ d.status = "RUNNING" /\ d.confirmed = run[r].confirmed
    BY <2>1, ResumeSound
  <2>4. Serve(i, Advancing([Idle EXCEPT !.run = r], d)) /\ run' = run
    BY <1>3, <2>2 DEF Approve, db
  <2>5. Cleared(r, d.step, decided')
    <3>1. Cleared(r, run[r].step, decided')
      BY RunSound DEF SoundNext, Sound
    <3>2. CASE b = TRUE
      BY <2>1, <2>2, <3>1, <3>2, ResumeLeads, ClearedOn
    <3>3. CASE b = FALSE
      BY <2>1, <3>1, <3>3, ResumeLeads, ClearedOn
    <3>4. QED  BY <3>2, <3>3
  <2> HIDE DEF d
  <2>6. SoundNext(r, d)
    BY <2>3, <2>5, RunSound, QuietSound
  <2>7. QED  BY <1>0, <2>3, <2>4, <2>6, AdvancingSound, SameRunsSound
<1>4. ASSUME NEW r \in Run, Cancel(i, r) PROVE CallsSound' /\ StoredSound'
  <2> DEFINE d == AfterCancel(run[r])
             c == [Idle EXCEPT !.pc = "cancel_save", !.run = r, !.doc = d]
  <2>1. run[r] \in RunDoc
    BY <1>4, WaitingDoc DEF TypeOK, Cancel
  <2>2. d.status = "CANCELLED" /\ d.confirmed = run[r].confirmed /\ Cleared(r, d.step, decided')
    <3>1. d.step = NoStep
      BY <2>1 DEF AfterCancel, RunDoc
    <3>2. QED  BY <2>1, <3>1, StopSound, NotBehind DEF Cleared
  <2>3. Serve(i, c) /\ run' = run
    BY <1>4 DEF Cancel, db
  <2>4. c.run = r /\ c.doc = d
    BY DEF Idle
  <2> HIDE DEF c, d
  <2>5. SoundNext(r, d)
    BY <2>2, RunSound, QuietSound
  <2>6. QED  BY <2>3, <2>4, <2>5, ServeSound, SameRunsSound
<1>5. ASSUME NEW c, c.doc = NoDoc, Serve(i, c), run' = run PROVE CallsSound' /\ StoredSound'
  BY <1>5, NoDocSound, ServeSound, SameRunsSound
<1>6. ASSUME NEW t \in Task, OperatorReports(i, t) PROVE CallsSound' /\ StoredSound'
  <2>1. [Idle EXCEPT !.pc = "result_run", !.task = t, !.run = task[t].run].doc = NoDoc
    BY DEF Idle
  <2>2. QED  BY <1>5, <1>6, <2>1 DEF OperatorReports, db
<1>7. ASSUME NEW a \in Agent, AgentRecords(a, i) PROVE CallsSound' /\ StoredSound'
  <2>1. [Idle EXCEPT !.pc = "record_run", !.agent = a, !.run = task[agent[a].task].run].doc = NoDoc
    BY DEF Idle
  <2>2. QED  BY <1>5, <1>7, <2>1, SameCallsSound, SameRunsSound DEF AgentRecords
<1>8. ASSUME NEW a \in Agent, AgentReports(a, i) PROVE CallsSound' /\ StoredSound'
  <2>1. [Idle EXCEPT !.pc = "result_task", !.task = agent[a].task, !.agent = a,
                     !.grant = agent[a].grant, !.run = task[agent[a].task].run].doc = NoDoc
    BY DEF Idle
  <2>2. QED  BY <1>5, <1>8, <2>1, SameCallsSound, SameRunsSound DEF AgentReports, db
<1>9. ASSUME NEW a \in Agent, NEW t \in Task, AgentClaims(a, i, t)
      PROVE  CallsSound' /\ StoredSound'
  <2>1. [Idle EXCEPT !.pc = "claim_run", !.task = t, !.agent = a, !.run = task[t].run].doc = NoDoc
    BY DEF Idle
  <2>2. QED  BY <1>5, <1>9, <2>1 DEF AgentClaims, db
<1>10. QED
  BY <1>1, <1>2, <1>3, <1>4, <1>6, <1>7, <1>8, <1>9 DEF Request

(* A pass takes a run only where it may be, and queues no task at an       *)
(* approval.                                                               *)
LEMMA PassCleared ==
    ASSUME TypeOK, Linked, RecordsGrow, CopiesSound, NEW i \in Slot, call[i].pc = "advance",
           NEW o \in Iteration(call[i].doc)
    PROVE  /\ Cleared(call[i].run, o.doc.step, decided')
           /\ o.dispatch = "task" => o.doc.step \notin Approvals
<1> DEFINE d == call[i].doc
           r == call[i].run
<1>1. PassLeads(d, o)
  BY AdvanceDoc, IterationLeads
<1>2. Cleared(r, d.step, decided')
  BY CallSound DEF SoundNext, Sound
<1>3. CASE o.doc.step = NoStep
  BY <1>1, <1>3, NotBehind DEF Cleared, PassLeads
<1>4. CASE o.doc.step # NoStep
  BY <1>1, <1>2, <1>4, ClearedOn DEF PassLeads
<1>5. QED  BY <1>3, <1>4

(* The engine waits only with the record it stored first. *)
LEMMA EngineSound ==
    ASSUME TypeOK, Linked, RecordsGrow, CopiesSound, NEW i \in Slot, EngineStep(i)
    PROVE  CallsSound' /\ StoredSound'
<1> DEFINE c == call[i]
<1>0. c \in Call /\ SoundNext(c.run, c.doc)
  BY CallType, CallSound
<1>1. ASSUME NEW d, NEW pc, SoundNext(c.run, d),
             Serve(i, [c EXCEPT !.doc = d, !.passes = @ + 1, !.pc = pc])
      PROVE  CallsSound'
  <2>1. \A n : /\ [c EXCEPT !.doc = d, !.passes = n, !.pc = pc].run = c.run
               /\ [c EXCEPT !.doc = d, !.passes = n, !.pc = pc].doc = d
    BY <1>0 DEF Call
  <2>2. QED  BY <1>1, <2>1, ServeSound
<1>2. CASE PlainPass(i)
  <2>1. PICK o \in Iteration(c.doc) :
          LET e == [c EXCEPT !.doc = o.doc, !.passes = @ + 1]
          IN  /\ o.dispatch = "none"
              /\ \/ Serve(i, [e EXCEPT !.pc = "save"])
                 \/ Serve(i, [e EXCEPT !.pc = IF Looping(e) THEN "advance" ELSE "finish"])
    BY <1>2 DEF PlainPass
  <2>2. PICK pc : Serve(i, [c EXCEPT !.doc = o.doc, !.passes = @ + 1, !.pc = pc])
    BY <2>1
  <2>3. PassOf(c.doc, o)
    BY <1>2, AdvanceDoc, IterationSound DEF PlainPass
  <2>4. SoundNext(c.run, o.doc)
    <3>1. Cleared(c.run, o.doc.step, decided')
      BY <1>2, PassCleared DEF PlainPass
    <3>2. QED  BY <1>0, <2>1, <2>3, <3>1, QuietSound DEF PassOf
  <2>5. run' = run
    BY <1>2 DEF PlainPass, db
  <2>6. QED  BY <1>1, <2>2, <2>4, <2>5, SameRunsSound
<1>3. CASE ThrowingPass(i)
  BY <1>3, EndsSound, SameRunsSound DEF ThrowingPass, db
<1>4. CASE QueueTask(i)
  <2>1. PICK o \in Iteration(c.doc), t \in Task :
          /\ PassOf(c.doc, o) /\ o.dispatch = "task"
          /\ task'[t].run = c.run /\ task'[t].step = o.doc.step
          /\ KnownTasks' = KnownTasks \cup {t}
          /\ call' = [call EXCEPT ![i] = [c EXCEPT !.doc = o.doc,
                                             !.passes = @ + 1, !.pc = "save"]]
    BY <1>4, QueuedTask
  <2>2. <<c.run, o.doc.step>> \in TaskSteps'
    BY <2>1 DEF TaskSteps
  <2>3. SoundNext(c.run, o.doc)
    <3>1. o.doc.step \notin Approvals /\ Cleared(c.run, o.doc.step, decided')
      BY <1>4, <2>1, PassCleared DEF QueueTask
    <3>2. QED  BY <1>0, <2>1, <2>2, <3>1 DEF SoundNext, Sound, PassOf
  <2>4. Serve(i, [c EXCEPT !.doc = o.doc, !.passes = @ + 1, !.pc = "save"])
    BY <2>1 DEF Serve
  <2>5. run' = run
    BY <1>4 DEF QueueTask
  <2>6. QED  BY <1>1, <2>3, <2>4, <2>5, SameRunsSound
<1>5. CASE RequestConfirmation(i)
  <2>1. PICK o \in Iteration(c.doc), k \in Conf :
          /\ PassOf(c.doc, o) /\ o.dispatch = "confirmation"
          /\ c.run \in Run
          /\ conf'[k].run = c.run /\ conf'[k].step = o.doc.step
          /\ KnownConfs' = KnownConfs \cup {k}
          /\ \A j \in Conf \ {k} : conf'[j] = conf[j]
          /\ call' = [call EXCEPT ![i] = [c EXCEPT !.doc = [o.doc EXCEPT !.pending = k],
                                             !.passes = @ + 1, !.pc = "save"]]
    BY <1>5, RequestedConf, Zenon
  <2> DEFINE d == [o.doc EXCEPT !.pending = k]
  <2>2. <<c.run, o.doc.step>> \in ConfSteps'
    BY <2>1 DEF ConfSteps
  <2>3. d.status = o.doc.status /\ d.step = o.doc.step /\ d.confirmed = o.doc.confirmed
    BY <2>1 DEF PassOf, Outcome, RunDoc
  <2>4. Serve(i, [c EXCEPT !.doc = d, !.passes = @ + 1, !.pc = "save"])
    BY <2>1 DEF Serve
  <2>5. run' = run
    BY <1>5 DEF RequestConfirmation
  <2>6. Cleared(c.run, d.step, decided')
    BY <1>5, <2>1, <2>3, PassCleared DEF RequestConfirmation
  <2> HIDE DEF d
  <2>7. SoundNext(c.run, d)
    BY <1>0, <2>1, <2>2, <2>3, <2>6 DEF SoundNext, Sound, PassOf
  <2>8. QED  BY <1>1, <2>4, <2>5, <2>7, SameRunsSound
<1>6. CASE SaveRun(i)
  <2>1. c.run \in Run /\ run' = [run EXCEPT ![c.run] = c.doc]
    BY <1>6 DEF SaveRun, Linked, CallLinks, LinkedCall
  <2>2. PICK pc : Serve(i, [c EXCEPT !.pc = pc])
    BY <1>6 DEF SaveRun
  <2>3. [c EXCEPT !.pc = pc].run = c.run /\ [c EXCEPT !.pc = pc].doc = c.doc
    BY <1>0 DEF Call
  <2>4. QED  BY <1>0, <2>1, <2>2, <2>3, ServeSound, SaveSound
<1>7. CASE Finish(i)
  BY <1>7, EndsSound, SameRunsSound DEF Finish
<1>8. QED  BY <1>2, <1>3, <1>4, <1>5, <1>6, <1>7 DEF EngineStep

(* Claims, evidence and results hold, resume and write back sound copies.  *)
LEMMA AgentCallSound ==
    ASSUME TypeOK, Linked, RecordsGrow, CopiesSound, NEW i \in Slot, AgentCallStep(i)
    PROVE  CallsSound' /\ StoredSound'
<1> DEFINE c == call[i]
<1>0. /\ c \in Call /\ SoundNext(c.run, c.doc)
      /\ c.pc # "idle" => c.run \in Run
  BY CallType, CallSound DEF Linked, CallLinks, LinkedCall
<1>1. ASSUME NEW e, e.run = c.run, e.doc = c.doc, Serve(i, e) PROVE CallsSound'
  BY <1>0, <1>1, ServeSound
<1>2. ASSUME NEW e, e.run = c.run, c.run \in Run, e.doc = run[c.run], Serve(i, e)
      PROVE  CallsSound'
  BY <1>2, RunSound, ServeSound
<1>3. CASE ClaimReadsRun(i)
  <2>1. /\ [c EXCEPT !.pc = "claim_lease", !.doc = run[c.run]].run = c.run
        /\ [c EXCEPT !.pc = "claim_lease", !.doc = run[c.run]].doc = run[c.run]
    BY <1>0 DEF Call
  <2>2. c.run \in Run /\ run' = run
    BY <1>0, <1>3 DEF ClaimReadsRun, db
  <2>3. QED  BY <1>2, <1>3, <2>1, <2>2, EndsSound, SameRunsSound DEF ClaimReadsRun
<1>4. CASE ClaimTakesLease(i)
  <2>1. \A u : /\ [c EXCEPT !.pc = "claim_task", !.until = u].run = c.run
               /\ [c EXCEPT !.pc = "claim_task", !.until = u].doc = c.doc
    BY <1>0 DEF Call
  <2>2. QED  BY <1>1, <1>4, <2>1, EndsSound, SameRunsSound DEF ClaimTakesLease
<1>5. CASE ClaimStoresTask(i)
  <2>1. \A g : /\ [c EXCEPT !.pc = "claim_save", !.grant = g].run = c.run
               /\ [c EXCEPT !.pc = "claim_save", !.grant = g].doc = c.doc
    BY <1>0 DEF Call
  <2>2. QED  BY <1>1, <1>5, <2>1, SameRunsSound DEF ClaimStoresTask
<1>6. CASE ClaimSavesRun(i) \/ RecordSavesRun(i)
  BY <1>0, <1>6, EndsSound, SaveSound DEF ClaimSavesRun, RecordSavesRun
<1>7. CASE RecordReadsRun(i)
  <2>1. /\ [c EXCEPT !.pc = "record_save", !.doc = run[c.run]].run = c.run
        /\ [c EXCEPT !.pc = "record_save", !.doc = run[c.run]].doc = run[c.run]
    BY <1>0 DEF Call
  <2>2. QED  BY <1>0, <1>2, <1>7, <2>1, SameRunsSound DEF RecordReadsRun, db
<1>8. CASE ResultReadsTask(i)
  <2>1. /\ [c EXCEPT !.pc = "result_run"].run = c.run
        /\ [c EXCEPT !.pc = "result_run"].doc = c.doc
    BY <1>0 DEF Call
  <2>2. QED  BY <1>1, <1>8, <2>1, EndsSound, SameRunsSound DEF ResultReadsTask, db
<1>9. CASE ResultReadsRun(i)
  <2>1. /\ [c EXCEPT !.pc = "verify", !.doc = run[c.run]].run = c.run
        /\ [c EXCEPT !.pc = "verify", !.doc = run[c.run]].doc = run[c.run]
    BY <1>0 DEF Call
  <2>2. c.run \in Run /\ run' = run
    BY <1>0, <1>9 DEF ResultReadsRun, db
  <2>3. QED  BY <1>2, <1>9, <2>1, <2>2, EndsSound, SameRunsSound DEF ResultReadsRun
<1>10. ASSUME c.pc = "verify", ResumeFromAgent(i) PROVE CallsSound'
  <2>1. c.doc \in RunDoc /\ c.doc.step \in Step
    BY <1>10, CallType, WaitingDoc DEF Linked, CallLinks, LinkedCall, Waiting, Cancellable
  <2>2. PICK claimed, holds \in BOOLEAN :
          Serve(i, Advancing(c, AfterAgent(c.doc, claimed, holds)))
    BY <1>10 DEF ResumeFromAgent
  <2> DEFINE d == AfterAgent(c.doc, claimed, holds)
  <2>3. d \in RunDoc /\ d.status \in {"RUNNING", "FAILED"} /\ d.confirmed = c.doc.confirmed
    BY <2>1, ResumeSound
  <2>4. Cleared(c.run, d.step, decided')
    <3>1. c.doc.step \notin Approvals /\ Cleared(c.run, c.doc.step, decided')
      BY <1>0, <1>10 DEF SoundNext, Sound, Linked, CallLinks, LinkedCall
    <3>2. d.step \in {NoStep} \cup Ways(c.doc.step)
      BY <2>1, ResumeLeads
    <3>3. QED  BY <2>1, <3>1, <3>2, ClearedOn
  <2> HIDE DEF d
  <2>5. SoundNext(c.run, d)
    BY <1>0, <2>3, <2>4, QuietSound
  <2>6. Serve(i, Advancing(c, d))
    BY <2>2 DEF d
  <2>7. QED  BY <1>0, <2>3, <2>5, <2>6, AdvancingSound
<1>11. CASE OperatorResumes(i)
  BY <1>10, <1>11, SameRunsSound DEF OperatorResumes, db
<1>12. CASE ConsumesGrant(i)
  BY <1>10, <1>12, EndsSound, SameRunsSound DEF ConsumesGrant
<1>13. QED
  BY <1>3, <1>4, <1>5, <1>6, <1>7, <1>8, <1>9, <1>11, <1>12 DEF AgentCallStep

(* cancelRun() writes a CANCELLED copy, which needs nothing but its        *)
(* confirmations.                                                          *)
LEMMA CancelSound ==
    ASSUME TypeOK, Linked, RecordsGrow, CopiesSound, NEW i \in Slot, CancelStep(i)
    PROVE  CallsSound' /\ StoredSound'
<1> DEFINE c == call[i]
<1>0. c \in Call /\ SoundNext(c.run, c.doc)
  BY CallType, CallSound
<1>1. ASSUME NEW e, e.run = c.run, e.doc = c.doc, Serve(i, e) PROVE CallsSound'
  BY <1>0, <1>1, ServeSound
<1>2. CASE CancelSavesRun(i)
  <2>1. /\ [c EXCEPT !.pc = "cancel_scan"].run = c.run
        /\ [c EXCEPT !.pc = "cancel_scan"].doc = c.doc
    BY <1>0 DEF Call
  <2>2. c.run \in Run
    BY <1>2 DEF CancelSavesRun, Linked, CallLinks, LinkedCall
  <2>3. QED  BY <1>0, <1>1, <1>2, <2>1, <2>2, SaveSound DEF CancelSavesRun
<1>3. CASE CancelScans(i)
  <2>1. \A ts, ks : /\ [c EXCEPT !.pc = "cancel_items", !.tasks = ts, !.confs = ks].run = c.run
                    /\ [c EXCEPT !.pc = "cancel_items", !.tasks = ts, !.confs = ks].doc = c.doc
    BY <1>0 DEF Call
  <2>2. QED  BY <1>1, <1>3, <2>1, SameRunsSound DEF CancelScans, db
<1>4. CASE CancelClosesTask(i)
  <2>1. \A t : /\ [c EXCEPT !.tasks = @ \ {t}].run = c.run
               /\ [c EXCEPT !.tasks = @ \ {t}].doc = c.doc
    BY <1>0 DEF Call
  <2>2. QED  BY <1>1, <1>4, <2>1, SameRunsSound DEF CancelClosesTask
<1>5. CASE CancelClosesConf(i)
  <2>1. \A k : /\ [c EXCEPT !.confs = @ \ {k}].run = c.run
               /\ [c EXCEPT !.confs = @ \ {k}].doc = c.doc
    BY <1>0 DEF Call
  <2>2. QED  BY <1>1, <1>5, <2>1, SameRunsSound DEF CancelClosesConf
<1>6. CASE CancelReturns(i)
  BY <1>6, EndsSound, SameRunsSound DEF CancelReturns, db
<1>7. QED  BY <1>2, <1>3, <1>4, <1>5, <1>6 DEF CancelStep

(* A sweep times out only runs whose work it saw overdue. *)
LEMMA SweeperSound ==
    ASSUME TypeOK, Linked, RecordsGrow, CopiesSound, NEW w \in Sweeper, SweeperStep(w)
    PROVE  SweepsSound' /\ StoredSound'
<1> DEFINE s == sweep[w]
<1>0. /\ s \in Sweep /\ s.runs \subseteq OverdueRuns' /\ s.runs \subseteq Run
      /\ \A r \in Run : SoundNext(r, s.docs[r])
  BY SweepType, StaysSound DEF CopiesSound, SweepsSound, RecordsGrow
<1>1. ASSUME NEW e, e.runs \subseteq s.runs, e.docs = s.docs, SweepStep(w, e)
      PROVE  SweepsSound'
  BY <1>0, <1>1, SweepServeSound
<1>2. CASE SweepScans(w)
  <2> DEFINE late  == {t \in Task : OverdueTask(t)}
             confs == {k \in Conf : OverdueConf(k)}
             rel   == {t \in Task : Stalled(t)}
             runs  == {task[t].run : t \in late} \cup {conf[k].run : k \in confs}
             e     == [Resting EXCEPT !.pc = "items", !.release = rel,
                                      !.tasks = late, !.confs = confs, !.runs = runs]
  <2>1. runs \subseteq OverdueRuns
    BY DEF OverdueRuns, KnownTasks, KnownConfs, OverdueTask, OverdueConf, Open
  <2>2. SweepStep(w, e) /\ run' = run
    BY <1>2 DEF SweepScans, db
  <2>3. e.runs = runs /\ e.docs = [r \in Run |-> NoDoc]
    BY DEF Resting
  <2> HIDE DEF runs, e
  <2>4. e.runs \subseteq OverdueRuns' /\ \A r \in Run : SoundNext(r, e.docs[r])
    BY <2>1, <2>3, NoDocSound DEF RecordsGrow
  <2>5. QED  BY <2>2, <2>4, SweepServeSound, SameRunsSound
<1>3. CASE SweepReleases(w)
  <2>1. \A t : /\ [s EXCEPT !.release = @ \ {t}].runs = s.runs
               /\ [s EXCEPT !.release = @ \ {t}].docs = s.docs
    BY <1>0 DEF Sweep
  <2>2. QED  BY <1>1, <1>3, <2>1, SameRunsSound DEF SweepReleases
<1>4. CASE SweepExpiresTask(w)
  <2>1. \A t : /\ [s EXCEPT !.tasks = @ \ {t}].runs = s.runs
               /\ [s EXCEPT !.tasks = @ \ {t}].docs = s.docs
    BY <1>0 DEF Sweep
  <2>2. QED  BY <1>1, <1>4, <2>1, SameRunsSound DEF SweepExpiresTask
<1>5. CASE SweepExpiresConf(w)
  <2>1. \A k : /\ [s EXCEPT !.confs = @ \ {k}].runs = s.runs
               /\ [s EXCEPT !.confs = @ \ {k}].docs = s.docs
    BY <1>0 DEF Sweep
  <2>2. QED  BY <1>1, <1>5, <2>1, SameRunsSound DEF SweepExpiresConf
<1>6. CASE SweepReadsRuns(w)
  <2> DEFINE rs == {r \in s.runs : run[r].status \in {"WAITING_AGENT", "AWAITING_CONFIRMATION"}}
             e  == [s EXCEPT !.pc = "runs", !.docs = run, !.runs = rs]
  <2>1. SweepStep(w, e) /\ run' = run
    BY <1>6 DEF SweepReadsRuns, db
  <2>2. e.runs = rs /\ e.docs = run
    BY <1>0 DEF Sweep
  <2>3. rs \subseteq OverdueRuns'
    BY <1>0
  <2> HIDE DEF rs, e
  <2>4. QED  BY <2>1, <2>2, <2>3, RunSound, SweepServeSound, SameRunsSound
<1>7. CASE SweepTimesOut(w)
  <2>1. PICK r \in s.runs : /\ run' = [run EXCEPT ![r] = AfterTimeout(s.docs[r])]
                            /\ SweepStep(w, [s EXCEPT !.runs = @ \ {r}])
    BY <1>7 DEF SweepTimesOut
  <2>2. /\ [s EXCEPT !.runs = @ \ {r}].runs = s.runs \ {r}
        /\ [s EXCEPT !.runs = @ \ {r}].docs = s.docs
    BY <1>0 DEF Sweep
  <2>3. r \in Run /\ r \in OverdueRuns' /\ SoundNext(r, s.docs[r])
    BY <1>0
  <2>4. s.docs[r] \in RunDoc
    <3>1. s.docs[r] \in RunDoc \cup {NoDoc} /\ s.docs[r].status \in Waiting
      BY <1>0, <1>7, <2>3, SweepType DEF SweepTimesOut, Linked, SweepLinks, LinkedSweep
    <3>2. QED  BY <3>1, WaitingDoc DEF Cancellable
  <2> DEFINE d == AfterTimeout(s.docs[r])
  <2>5. d.status = "TIMED_OUT" /\ d.confirmed = s.docs[r].confirmed /\ d.step = s.docs[r].step
    BY <2>4, StopSound DEF AfterTimeout, RunDoc
  <2> HIDE DEF d
  <2>6. SoundNext(r, d)
    BY <2>3, <2>5 DEF SoundNext, Sound
  <2>7. StoredSound'
    BY <2>1, <2>3, <2>6, SaveSound DEF d
  <2>8. QED  BY <1>1, <2>1, <2>2, <2>7
<1>8. QED  BY <1>2, <1>3, <1>4, <1>5, <1>6, <1>7 DEF SweeperStep

(* No step of the system makes a copy unsound, stale writes and faults     *)
(* included.                                                               *)
THEOREM CopiesStep == TypeOK /\ Linked /\ CopiesSound /\ [Next]_vars => CopiesSound'
<1> SUFFICES ASSUME TypeOK, Linked, CopiesSound, [Next]_vars PROVE CopiesSound'
  OBVIOUS
<1>0. RecordsGrow
  BY GrowStep
<1>1. ASSUME NEW i \in Slot, Request(i) PROVE CopiesSound'
  <2>1. sweep' = sweep
    BY <1>1 DEF Request, StartRun, Confirm, Approve, Cancel, OperatorReports, AgentRecords,
       AgentReports, AgentClaims
  <2>2. QED  BY <1>0, <1>1, <2>1, RequestSound, SameSweepsSound DEF CopiesSound
<1>2. ASSUME NEW i \in Slot, EngineStep(i) \/ CancelStep(i) PROVE CopiesSound'
  <2>1. sweep' = sweep
    BY <1>2 DEF EngineStep, PlainPass, ThrowingPass, QueueTask, RequestConfirmation, SaveRun,
       Finish, CancelStep, CancelSavesRun, CancelScans, CancelClosesTask, CancelClosesConf,
       CancelReturns
  <2>2. QED  BY <1>0, <1>2, <2>1, EngineSound, CancelSound, SameSweepsSound DEF CopiesSound
<1>3. ASSUME NEW i \in Slot, AgentCallStep(i) PROVE CopiesSound'
  <2>1. sweep' = sweep
    BY <1>3 DEF AgentCallStep, ClaimReadsRun, ClaimTakesLease, ClaimStoresTask, ClaimSavesRun,
       RecordReadsRun, RecordSavesRun, ResultReadsTask, ResultReadsRun, OperatorResumes,
       ConsumesGrant
  <2>2. QED  BY <1>0, <1>3, <2>1, AgentCallSound, SameSweepsSound DEF CopiesSound
<1>4. ASSUME NEW i \in Slot, CallDies(i) PROVE CopiesSound'
  BY <1>0, <1>4, EndsSound, SameRunsSound, SameSweepsSound DEF CallDies, db, CopiesSound
<1>5. ASSUME NEW w \in Sweeper, SweeperStep(w) PROVE CopiesSound'
  <2>1. call' = call
    BY <1>5 DEF SweeperStep, SweepScans, SweepReleases, SweepExpiresTask,
       SweepExpiresConf, SweepReadsRuns, SweepTimesOut
  <2>2. QED  BY <1>0, <1>5, <2>1, SweeperSound, SameCallsSound DEF CopiesSound
<1>6. ASSUME NEW w \in Sweeper, SweepDies(w) PROVE CopiesSound'
  <2>1. \A v \in Sweeper : sweep'[v] \in {sweep[v], Resting}
    BY <1>6 DEF SweepDies, TypeOK
  <2>2. \A v \in Sweeper : /\ sweep'[v].runs \subseteq OverdueRuns'
                           /\ \A r \in Run : SoundNext(r, sweep'[v].docs[r])
    BY <1>0, <2>1, StaysSound, NoDocSound DEF CopiesSound, SweepsSound, RecordsGrow, Resting
  <2>3. SweepsSound'
    BY <2>2 DEF SweepsSound, IsSound, SoundNext
  <2>4. QED  BY <1>0, <1>6, <2>3, SameCallsSound, SameRunsSound DEF SweepDies, db, CopiesSound
<1>7. ASSUME \/ Tick \/ UNCHANGED vars
             \/ \E a \in Agent : AgentActs(a) \/ ReplyLost(a) \/ AgentDies(a)
      PROVE  CopiesSound'
  <2>1. call' = call /\ run' = run /\ sweep' = sweep
    BY <1>7 DEF Tick, vars, AgentActs, ReplyLost, AgentDies, db
  <2>2. QED
    BY <1>0, <2>1, SameCallsSound, SameRunsSound, SameSweepsSound DEF CopiesSound
<1>8. QED  BY <1>1, <1>2, <1>3, <1>4, <1>5, <1>6, <1>7 DEF Next, Work, CallStep

(* At first every copy is the empty document.                              *)
LEMMA InitCopies == Init => CopiesSound
<1>1. \A r : Cleared(r, NoStep, decided)
  BY NotBehind DEF Cleared
<1>2. QED
  BY <1>1 DEF Init, CopiesSound, StoredSound, CallsSound, SweepsSound, IsSound, Sound, NoDoc,
     Idle, Resting

(* Every copy of a run document is sound, in every reachable state. *)
THEOREM CopiesCorrect == Spec => []CopiesSound
<1>1. TypeOK /\ Linked /\ CopiesSound /\ [Next]_vars => CopiesSound'
  BY CopiesStep
<1>2. QED  BY <1>1, InitCopies, TypeCorrect, PTL DEF Spec

(***************************************************************************)
(* The properties                                                          *)
(***************************************************************************)
(* Only the consumption of a grant accepts a result, and no step removes   *)
(* a marker.                                                               *)
LEMMA SpendsOnlyByGrant ==
    ASSUME [Next]_vars, ~\E i \in Slot : ConsumesGrant(i)
    PROVE  spent' = spent /\ consumed \subseteq consumed'
<1>1. ASSUME NEW i \in Slot, Request(i) PROVE spent' = spent /\ consumed \subseteq consumed'
  BY <1>1 DEF Request, StartRun, Confirm, Approve, Cancel, OperatorReports, AgentRecords,
     AgentReports, AgentClaims, db, history
<1>2. ASSUME NEW i \in Slot, EngineStep(i) \/ CancelStep(i)
      PROVE  spent' = spent /\ consumed' = consumed
  BY <1>2 DEF EngineStep, PlainPass, ThrowingPass, QueueTask, RequestConfirmation, SaveRun,
     Finish, CancelStep, CancelSavesRun, CancelScans, CancelClosesTask, CancelClosesConf,
     CancelReturns, db, history
<1>3. ASSUME NEW i \in Slot, AgentCallStep(i) PROVE spent' = spent /\ consumed' = consumed
  BY <1>3 DEF AgentCallStep, ClaimReadsRun, ClaimTakesLease, ClaimStoresTask, ClaimSavesRun,
     RecordReadsRun, RecordSavesRun, ResultReadsTask, ResultReadsRun, OperatorResumes,
     db, history
<1>4. ASSUME NEW w \in Sweeper, SweeperStep(w) \/ SweepDies(w)
      PROVE  spent' = spent /\ consumed' = consumed
  BY <1>4 DEF SweeperStep, SweepScans, SweepReleases, SweepExpiresTask,
     SweepExpiresConf, SweepReadsRuns, SweepTimesOut, SweepDies, db, history
<1>5. ASSUME \/ Tick \/ UNCHANGED vars \/ \E i \in Slot : CallDies(i)
             \/ \E a \in Agent : AgentActs(a) \/ ReplyLost(a) \/ AgentDies(a)
      PROVE  spent' = spent /\ consumed' = consumed
  BY <1>5 DEF Tick, vars, CallDies, AgentActs, ReplyLost, AgentDies, db, history
<1>6. QED  BY <1>1, <1>2, <1>3, <1>4, <1>5 DEF Next, Work, CallStep

(* The replay marker is written in the step that accepts the result. *)
LEMMA SpentStep ==
    ASSUME TypeOK, SpentIsMarked, [Next]_vars
    PROVE  SpentIsMarked'
<1>1. CASE \E i \in Slot : ConsumesGrant(i)
  <2>1. PICK i \in Slot : ConsumesGrant(i)
    BY <1>1
  <2>2. CASE Verifies(call[i].grant, call[i].agent, call[i].task, "agent.report_result")
    <3>1. call[i].grant \in Grant
      BY <2>1, CallType DEF ConsumesGrant
    <3>2. /\ consumed' = consumed \cup {<<call[i].grant, "agent.report_result">>}
          /\ spent' = [spent EXCEPT ![call[i].grant] = @ + 1]
      BY <2>1, <2>2 DEF ConsumesGrant
    <3>3. spent[call[i].grant] = 0
      BY <2>2, <3>1 DEF Verifies, SpentIsMarked
    <3>4. spent'[call[i].grant] = 1
      BY <3>1, <3>2, <3>3 DEF TypeOK
    <3>5. \A g \in Grant \ {call[i].grant} : spent'[g] = spent[g]
      BY <3>2 DEF TypeOK
    <3>6. consumed \subseteq consumed'
      BY <3>2
    <3>7. QED  BY <3>1, <3>2, <3>4, <3>5, <3>6 DEF SpentIsMarked
  <2>3. CASE ~Verifies(call[i].grant, call[i].agent, call[i].task, "agent.report_result")
    BY <2>1, <2>3 DEF ConsumesGrant, SpentIsMarked
  <2>4. QED  BY <2>2, <2>3
<1>2. CASE ~\E i \in Slot : ConsumesGrant(i)
  BY <1>2, SpendsOnlyByGrant DEF SpentIsMarked
<1>3. QED  BY <1>1, <1>2

(* A signed grant gets one result accepted at most, however often it is    *)
(* presented and whichever reply was lost.                                 *)
THEOREM GrantsSpentOnce == Spec => []GrantSpentOnce
<1>1. Init => SpentIsMarked
  BY DEF Init, SpentIsMarked
<1>2. TypeOK /\ Linked /\ SpentIsMarked /\ [Next]_vars => SpentIsMarked'
  BY SpentStep
<1>3. SpentIsMarked => GrantSpentOnce
  <2> SUFFICES ASSUME SpentIsMarked, NEW g \in Grant PROVE spent[g] <= 1
    BY DEF GrantSpentOnce
  <2>1. spent[g] = 0 \/ spent[g] = 1
    BY DEF SpentIsMarked
  <2>2. QED  BY <2>1
<1>4. QED  BY <1>1, <1>2, <1>3, TypeCorrect, PTL DEF Spec
----------------------------------------------------------------------------
(* Only acquireTaskLease() writes a lease or opens a window.               *)
LEMMA LeasesOnlyByClaim ==
    ASSUME [Next]_vars, ~\E i \in Slot : ClaimTakesLease(i)
    PROVE  lease' = lease /\ won' = won
<1>1. ASSUME NEW i \in Slot, Request(i) PROVE lease' = lease /\ won' = won
  BY <1>1 DEF Request, StartRun, Confirm, Approve, Cancel, OperatorReports, AgentRecords,
     AgentReports, AgentClaims, db, history
<1>2. ASSUME NEW i \in Slot, EngineStep(i) \/ CancelStep(i) PROVE lease' = lease /\ won' = won
  BY <1>2 DEF EngineStep, PlainPass, ThrowingPass, QueueTask, RequestConfirmation, SaveRun,
     Finish, CancelStep, CancelSavesRun, CancelScans, CancelClosesTask, CancelClosesConf,
     CancelReturns, db, history
<1>3. ASSUME NEW i \in Slot, AgentCallStep(i) PROVE lease' = lease /\ won' = won
  BY <1>3 DEF AgentCallStep, ClaimReadsRun, ClaimStoresTask, ClaimSavesRun,
     RecordReadsRun, RecordSavesRun, ResultReadsTask, ResultReadsRun, OperatorResumes,
     ConsumesGrant, db, history
<1>4. ASSUME NEW w \in Sweeper, SweeperStep(w) \/ SweepDies(w)
      PROVE  lease' = lease /\ won' = won
  BY <1>4 DEF SweeperStep, SweepScans, SweepReleases, SweepExpiresTask,
     SweepExpiresConf, SweepReadsRuns, SweepTimesOut, SweepDies, db, history
<1>5. ASSUME \/ Tick \/ UNCHANGED vars \/ \E i \in Slot : CallDies(i)
             \/ \E a \in Agent : AgentActs(a) \/ ReplyLost(a) \/ AgentDies(a)
      PROVE  lease' = lease /\ won' = won
  BY <1>5 DEF Tick, vars, CallDies, AgentActs, ReplyLost, AgentDies, db, history
<1>6. QED  BY <1>1, <1>2, <1>3, <1>4, <1>5 DEF Next, Work, CallStep

Exclusive == LeaseCoversWindows /\ LeaseWindowsDisjoint

(* A lease is granted only past the end of every window granted before. *)
LEMMA ExclusiveStep ==
    ASSUME TypeOK, Linked, Exclusive, [Next]_vars
    PROVE  Exclusive'
<1>1. ASSUME NEW i \in Slot, ClaimTakesLease(i), LeaseFree(call[i].task) PROVE Exclusive'
  <2> DEFINE t == call[i].task
             new == [task |-> t, agent |-> call[i].agent,
                     from |-> now, until |-> now + LeaseTicks]
  <2>1. t \in Task /\ call[i].agent \in Agent
    BY <1>1, CallType DEF ClaimTakesLease, Linked, CallLinks, LinkedCall, TaskPc, ByAgentPc
  <2>2. /\ lease' = [lease EXCEPT ![t] = [agent |-> call[i].agent, until |-> now + LeaseTicks]]
        /\ won' = won \cup {new}
    BY <1>1 DEF ClaimTakesLease
  <2>3. now \in Nat /\ now + LeaseTicks \in Nat /\ now <= now + LeaseTicks
    BY ControlPlaneAssumption DEF TypeOK, LeaseTicks
  <2>4. \A w \in won : w \in Window /\ w.task \in Task /\ w.until \in Nat
                        /\ lease[w.task].until \in Nat
    BY DEF TypeOK, Window, Lease
  <2>5. \A w \in won : w.task = t => w.until < now
    <3> TAKE w \in won
    <3> HAVE w.task = t
    <3>1. lease[t].agent # NoAgent /\ w.until <= lease[t].until
      BY DEF Exclusive, LeaseCoversWindows
    <3>2. lease[t].until < now
      BY <1>1, <3>1 DEF LeaseFree
    <3>3. QED  BY <2>3, <2>4, <3>1, <3>2
  <2>6. lease'[t].agent # NoAgent /\ lease'[t].until = now + LeaseTicks
    BY <2>1, <2>2, ControlPlaneAssumption DEF TypeOK
  <2>7. \A u \in Task \ {t} : lease'[u] = lease[u]
    BY <2>2 DEF TypeOK
  <2>8. new.task = t /\ new.until = now + LeaseTicks /\ new.from = now
    OBVIOUS
  <2> HIDE DEF t, new
  <2>9. LeaseCoversWindows'
    <3> SUFFICES ASSUME NEW w \in won'
                 PROVE  lease'[w.task].agent # NoAgent /\ w.until <= lease'[w.task].until
      BY DEF LeaseCoversWindows
    <3>1. CASE w = new
      BY <2>3, <2>6, <2>8, <3>1
    <3>2. CASE w \in won /\ w.task = t
      BY <2>3, <2>4, <2>5, <2>6, <3>2
    <3>3. CASE w \in won /\ w.task # t
      BY <2>4, <2>7, <3>3 DEF Exclusive, LeaseCoversWindows
    <3>4. QED  BY <2>2, <3>1, <3>2, <3>3
  <2>10. LeaseWindowsDisjoint'
    <3> SUFFICES ASSUME NEW v \in won', NEW w \in won', v.task = w.task, v # w
                 PROVE  v.until < w.from \/ w.until < v.from
      BY DEF LeaseWindowsDisjoint
    <3>1. CASE v \in won /\ w \in won
      BY <3>1 DEF Exclusive, LeaseWindowsDisjoint
    <3>2. CASE v = new /\ w \in won
      BY <2>5, <2>8, <3>2
    <3>3. CASE w = new /\ v \in won
      BY <2>5, <2>8, <3>3
    <3>4. QED  BY <2>2, <3>1, <3>2, <3>3
  <2>11. QED  BY <2>9, <2>10 DEF Exclusive
<1>2. ASSUME lease' = lease, won' = won PROVE Exclusive'
  BY <1>2 DEF Exclusive, LeaseCoversWindows, LeaseWindowsDisjoint
<1>3. QED  BY <1>1, <1>2, LeasesOnlyByClaim DEF ClaimTakesLease

(* No two agents are ever inside a lease of the same task at one time.     *)
THEOREM LeasesDisjoint == Spec => []LeaseWindowsDisjoint
<1>1. Init => Exclusive
  BY DEF Init, Exclusive, LeaseCoversWindows, LeaseWindowsDisjoint
<1>2. TypeOK /\ Linked /\ Exclusive /\ [Next]_vars => Exclusive'
  BY ExclusiveStep
<1>3. Exclusive => LeaseWindowsDisjoint
  BY DEF Exclusive
<1>4. QED  BY <1>1, <1>2, <1>3, TypeCorrect, PTL DEF Spec
----------------------------------------------------------------------------
(* A run waiting for an agent or a confirmation has a record of that work, *)
(* whichever invocation died between the two writes.                       *)
THEOREM WaitingRunsHaveWork == Spec => []WaitingRunHasWork
<1>1. TypeOK /\ CopiesSound => WaitingRunHasWork
  <2> SUFFICES ASSUME TypeOK, CopiesSound, NEW r \in Run
               PROVE  /\ run[r].status = "WAITING_AGENT" =>
                           \E t \in Task : task[t].run = r /\ task[t].step = run[r].step
                      /\ run[r].status = "AWAITING_CONFIRMATION" =>
                           \E k \in Conf : conf[k].run = r /\ conf[k].step = run[r].step
    BY DEF WaitingRunHasWork
  <2>1. IsSound(r, run[r])
    BY DEF CopiesSound, StoredSound
  <2>2. <<r, run[r].step>> \in TaskSteps =>
          \E t \in Task : task[t].run = r /\ task[t].step = run[r].step
    BY DEF TaskSteps, KnownTasks
  <2>3. <<r, run[r].step>> \in ConfSteps =>
          \E k \in Conf : conf[k].run = r /\ conf[k].step = run[r].step
    BY DEF ConfSteps, KnownConfs
  <2>4. QED  BY <2>1, <2>2, <2>3 DEF IsSound, Sound
<1>2. QED  BY <1>1, TypeCorrect, CopiesCorrect, PTL

(* A run is timed out only after a deadline of its work has passed.        *)
THEOREM TimeoutsAreLate == Spec => []TimedOutAfterDeadline
<1>1. CopiesSound => TimedOutAfterDeadline
  <2> SUFFICES ASSUME CopiesSound, NEW r \in Run, run[r].status = "TIMED_OUT"
               PROVE  \/ \E t \in Task : task[t].run = r /\ Expired(task[t])
                      \/ \E k \in Conf : conf[k].run = r /\ Expired(conf[k])
    BY DEF TimedOutAfterDeadline
  <2>1. r \in OverdueRuns
    BY DEF CopiesSound, StoredSound, IsSound, Sound
  <2>2. QED  BY <2>1 DEF OverdueRuns, KnownTasks, KnownConfs
<1>2. QED  BY <1>1, CopiesCorrect, PTL
----------------------------------------------------------------------------
(* A protected task is queued only from a copy that holds its              *)
(* confirmation.                                                           *)
LEMMA GateStep ==
    ASSUME TypeOK, Linked, CopiesSound, GateHonoured, [Next]_vars
    PROVE  GateHonoured'
<1>1. KeepsRecords
  BY KeepStep
<1>2. ASSUME NEW t \in KnownTasks, Flow[task'[t].step].gated
      PROVE  <<task'[t].run, task'[t].step>> \in vouched'
  BY <1>1, <1>2 DEF KeepsRecords, GateHonoured, KnownTasks
<1>3. CASE \E i \in Slot : QueueTask(i)
  <2>1. PICK i \in Slot : QueueTask(i)
    BY <1>3
  <2>2. PICK o \in Iteration(call[i].doc), t \in Task :
          /\ PassOf(call[i].doc, o) /\ o.dispatch = "task"
          /\ task'[t].run = call[i].run /\ task'[t].step = o.doc.step
          /\ KnownTasks' = KnownTasks \cup {t}
    BY <2>1, QueuedTask
  <2>3. Flow[task'[t].step].gated => <<task'[t].run, task'[t].step>> \in vouched'
    <3>1. \A s \in call[i].doc.confirmed : <<call[i].run, s>> \in vouched
      BY DEF CopiesSound, CallsSound, IsSound, Sound
    <3>2. QED  BY <1>1, <2>2, <3>1 DEF PassOf, KeepsRecords
  <2>4. QED  BY <1>2, <2>2, <2>3 DEF GateHonoured, KnownTasks
<1>4. CASE ~\E i \in Slot : QueueTask(i)
  <2>1. KnownTasks' \subseteq KnownTasks
    BY <1>4, NoNewTasks
  <2>2. QED  BY <1>2, <2>1 DEF GateHonoured, KnownTasks
<1>5. QED  BY <1>3, <1>4

(* Whatever interleaves, retries or dies, a protected step reaches an      *)
(* agent only if a person confirmed that step of that run.                 *)
THEOREM GatesHonoured == Spec => []GateHonoured
<1>1. Init => GateHonoured
  BY DEF Init, GateHonoured, AbsentTask
<1>2. TypeOK /\ Linked /\ CopiesSound /\ GateHonoured /\ [Next]_vars => GateHonoured'
  BY GateStep
<1>3. QED  BY <1>1, <1>2, TypeCorrect, CopiesCorrect, PTL DEF Spec
----------------------------------------------------------------------------
(* A task is queued only for a step its run may be at, and decisions stay. *)
LEMMA ReviewStep ==
    ASSUME TypeOK, Linked, CopiesSound, ReviewedWork, [Next]_vars
    PROVE  ReviewedWork'
<1>1. KeepsRecords /\ RecordsGrow
  BY KeepStep, GrowStep
<1>2. ASSUME NEW t \in KnownTasks PROVE Cleared(task'[t].run, task'[t].step, decided')
  BY <1>1, <1>2 DEF KeepsRecords, ReviewedWork, KnownTasks, Cleared
<1>3. CASE \E i \in Slot : QueueTask(i)
  <2>1. PICK i \in Slot : QueueTask(i)
    BY <1>3
  <2>2. PICK o \in Iteration(call[i].doc), t \in Task :
          /\ task'[t].run = call[i].run /\ task'[t].step = o.doc.step
          /\ KnownTasks' = KnownTasks \cup {t}
    BY <2>1, QueuedTask
  <2>3. Cleared(task'[t].run, task'[t].step, decided')
    BY <1>1, <2>1, <2>2, PassCleared DEF QueueTask
  <2>4. QED  BY <1>2, <2>2, <2>3 DEF ReviewedWork, KnownTasks, Cleared
<1>4. CASE ~\E i \in Slot : QueueTask(i)
  <2>1. KnownTasks' \subseteq KnownTasks
    BY <1>4, NoNewTasks
  <2>2. QED  BY <1>2, <2>1 DEF ReviewedWork, KnownTasks, Cleared
<1>5. QED  BY <1>3, <1>4

(* In any workflow, however decisions and stale copies cross: work that    *)
(* only an approval leads to reaches an agent only after it was given.     *)
THEOREM WorkIsReviewed == Spec => []ReviewedWork
<1>1. Init => ReviewedWork
  BY DEF Init, ReviewedWork, AbsentTask
<1>2. TypeOK /\ Linked /\ CopiesSound /\ ReviewedWork /\ [Next]_vars => ReviewedWork'
  BY ReviewStep
<1>3. QED  BY <1>1, <1>2, TypeCorrect, CopiesCorrect, PTL DEF Spec
----------------------------------------------------------------------------
(***************************************************************************)
(* Invocations that hold a lease without its grant, and those that return  *)
(***************************************************************************)
(* An invocation comes to hold a lease only by taking it, and returns with *)
(* a run that goes on no further only after it saved it: everywhere else   *)
(* it is as it was, or gets to Other.                                      *)
Other(c) == c.pc # "claim_task" /\ (c.pc = "finish" => c.doc.status = "RUNNING")
Elsewhere == \A j \in Slot : call'[j] = call[j] \/ Other(call'[j])

LEMMA ServesElsewhere ==
    ASSUME TypeOK, NEW i \in Slot, NEW c, Serve(i, c), Other(c)
    PROVE  Elsewhere
<1>1. \A j \in Slot : call'[j] = IF j = i THEN c ELSE call[j]
  BY DEF TypeOK, Serve
<1>2. QED  BY <1>1 DEF Elsewhere

LEMMA EndsElsewhere ==
    ASSUME TypeOK, NEW i \in Slot, Ends(i)
    PROVE  Elsewhere
<1>1. Serve(i, Idle) /\ Other(Idle)
  BY DEF Ends, Idle, Other
<1>2. QED  BY <1>1, ServesElsewhere

LEMMA TurnsTo ==
    ASSUME NEW c \in Call, NEW pc \in CallPc \ {"claim_task", "finish"}
    PROVE  /\ Other([c EXCEPT !.pc = pc])
           /\ \A d : Other([c EXCEPT !.pc = pc, !.doc = d])
BY DEF Call, Other

LEMMA AdvancesTo == ASSUME NEW c \in Call, NEW d PROVE Other(Advancing(c, d))
BY DEF Call, Advancing, Other

LEMMA RequestElsewhere ==
    ASSUME TypeOK, NEW i \in Slot, Request(i)
    PROVE  Elsewhere
<1>1. ASSUME NEW r \in Run PROVE [Idle EXCEPT !.run = r] \in Call
  BY <1>1, IdleType DEF Call
<1>2. ASSUME NEW r \in Run, NEW d, Serve(i, Advancing([Idle EXCEPT !.run = r], d)) PROVE Elsewhere
  <2>1. Other(Advancing([Idle EXCEPT !.run = r], d))
    BY <1>1, AdvancesTo
  <2>2. QED  BY <1>2, <2>1, ServesElsewhere
<1>3. ASSUME NEW r \in Run, StartRun(i, r) \/ Confirm(i, r) \/ Approve(i, r) PROVE Elsewhere
  BY <1>2, <1>3 DEF StartRun, Confirm, Approve
<1>4. ASSUME NEW r \in Run, Cancel(i, r) PROVE Elsewhere
  <2>1. Other([Idle EXCEPT !.pc = "cancel_save", !.run = r, !.doc = AfterCancel(run[r])])
    BY DEF Idle, Other
  <2>2. QED  BY <1>4, <2>1, ServesElsewhere DEF Cancel
<1>5. ASSUME NEW t \in Task, OperatorReports(i, t) PROVE Elsewhere
  <2>1. Other([Idle EXCEPT !.pc = "result_run", !.task = t, !.run = task[t].run])
    BY DEF Idle, Other
  <2>2. QED  BY <1>5, <2>1, ServesElsewhere DEF OperatorReports
<1>6. ASSUME NEW a \in Agent, AgentRecords(a, i) PROVE Elsewhere
  <2>1. Other([Idle EXCEPT !.pc = "record_run", !.agent = a, !.run = task[agent[a].task].run])
    BY DEF Idle, Other
  <2>2. CASE call' = call
    BY <2>2 DEF Elsewhere
  <2>3. QED  BY <1>6, <2>1, <2>2, ServesElsewhere DEF AgentRecords
<1>7. ASSUME NEW a \in Agent, AgentReports(a, i) PROVE Elsewhere
  <2> DEFINE t == agent[a].task
  <2>1. Other([Idle EXCEPT !.pc = "result_task", !.task = t, !.agent = a,
                           !.grant = agent[a].grant, !.run = task[t].run])
    BY DEF Idle, Other
  <2>2. CASE call' = call
    BY <2>2 DEF Elsewhere
  <2>3. QED  BY <1>7, <2>1, <2>2, ServesElsewhere DEF AgentReports
<1>8. ASSUME NEW a \in Agent, NEW t \in Task, AgentClaims(a, i, t) PROVE Elsewhere
  <2>1. Other([Idle EXCEPT !.pc = "claim_run", !.task = t, !.agent = a, !.run = task[t].run])
    BY DEF Idle, Other
  <2>2. QED  BY <1>8, <2>1, ServesElsewhere DEF AgentClaims
<1>9. QED  BY <1>3, <1>4, <1>5, <1>6, <1>7, <1>8 DEF Request

LEMMA EngineElsewhere ==
    ASSUME TypeOK, Linked, NEW i \in Slot, EngineStep(i), ~SaveRun(i)
    PROVE  Elsewhere
<1>1. call[i] \in Call
  BY CallType
<1>2. CASE PlainPass(i)
  <2>1. PICK o \in Iteration(call[i].doc) :
          LET c == [call[i] EXCEPT !.doc = o.doc, !.passes = @ + 1]
          IN  \/ Serve(i, [c EXCEPT !.pc = "save"])
              \/ /\ o.ends = "skip"
                 /\ Serve(i, [c EXCEPT !.pc = IF Looping(c) THEN "advance" ELSE "finish"])
    BY <1>2 DEF PlainPass
  <2> DEFINE c == [call[i] EXCEPT !.doc = o.doc, !.passes = @ + 1]
             at == IF Looping(c) THEN "advance" ELSE "finish"
  <2>2. ASSUME o.ends = "skip" PROVE o.doc.status = "RUNNING"
    <3> DEFINE d == call[i].doc
    <3>1. o \in AiPasses(d)
      BY <2>1, <2>2 DEF Iteration, BranchPasses, ActionPasses, ManagedPasses, EndPass,
         AwaitConfirmation, QueueConnectedTask, Saved, Thrown, Pass
    <3>2. o.doc = Goto(d, Flow[d.step].next)
      BY <2>2, <3>1 DEF AiPasses, Saved, Pass
    <3>3. d \in RunDoc
      BY <1>1, <1>2, AdvanceDoc DEF PlainPass
    <3>4. QED  BY <3>2, <3>3 DEF Goto, RunDoc
  <2>3. [c EXCEPT !.pc = "save"].pc = "save"
    BY <1>1 DEF Call
  <2>4. [c EXCEPT !.pc = at].pc = at /\ [c EXCEPT !.pc = at].doc = o.doc
    BY <1>1 DEF Call
  <2>5. at \in {"advance", "finish"}
    OBVIOUS
  <2>6. \/ Serve(i, [c EXCEPT !.pc = "save"])
        \/ o.ends = "skip" /\ Serve(i, [c EXCEPT !.pc = at])
    BY <2>1
  <2> HIDE DEF at, c
  <2>7. CASE Serve(i, [c EXCEPT !.pc = "save"])
    BY <2>3, <2>7, ServesElsewhere DEF Other
  <2>8. CASE o.ends = "skip" /\ Serve(i, [c EXCEPT !.pc = at])
    <3>1. Other([c EXCEPT !.pc = at])
      BY <2>2, <2>4, <2>5, <2>8 DEF Other
    <3>2. QED  BY <2>8, <3>1, ServesElsewhere
  <2>9. QED  BY <2>6, <2>7, <2>8
<1>3. CASE ThrowingPass(i) \/ Finish(i)
  BY <1>3, EndsElsewhere DEF ThrowingPass, Finish
<1>4. CASE QueueTask(i)
  <2>1. PICK o \in Iteration(call[i].doc) :
          Serve(i, [call[i] EXCEPT !.doc = o.doc, !.passes = @ + 1, !.pc = "save"])
    BY <1>4 DEF QueueTask
  <2>2. Other([call[i] EXCEPT !.doc = o.doc, !.passes = @ + 1, !.pc = "save"])
    BY <1>1 DEF Call, Other
  <2>3. QED  BY <2>1, <2>2, ServesElsewhere
<1>5. CASE RequestConfirmation(i)
  <2>1. PICK o \in Iteration(call[i].doc), k \in Conf :
          Serve(i, [call[i] EXCEPT !.doc = [o.doc EXCEPT !.pending = k],
                                   !.passes = @ + 1, !.pc = "save"])
    BY <1>5 DEF RequestConfirmation
  <2>2. Other([call[i] EXCEPT !.doc = [o.doc EXCEPT !.pending = k], !.passes = @ + 1, !.pc = "save"])
    BY <1>1 DEF Call, Other
  <2>3. QED  BY <2>1, <2>2, ServesElsewhere
<1>6. QED  BY <1>2, <1>3, <1>4, <1>5 DEF EngineStep

LEMMA AgentCallElsewhere ==
    ASSUME TypeOK, NEW i \in Slot, AgentCallStep(i), ~ClaimTakesLease(i)
    PROVE  Elsewhere
<1>1. call[i] \in Call
  BY CallType
<1>2. ASSUME NEW pc \in CallPc \ {"claim_task", "finish"}, NEW d,
             Serve(i, [call[i] EXCEPT !.pc = pc]) \/ Serve(i, [call[i] EXCEPT !.pc = pc, !.doc = d])
      PROVE  Elsewhere
  BY <1>1, <1>2, TurnsTo, ServesElsewhere
<1>3. CASE Ends(i)
  BY <1>3, EndsElsewhere
<1>4. CASE ~Ends(i) /\ (ClaimReadsRun(i) \/ RecordReadsRun(i) \/ RecordSavesRun(i) \/ ResultReadsTask(i)
                          \/ ResultReadsRun(i))
  <2>1. {"claim_lease", "record_save", "result_run", "verify"} \subseteq CallPc \ {"claim_task", "finish"}
    BY DEF CallPc
  <2>2. CASE ClaimReadsRun(i)
    BY <1>2, <1>4, <2>1, <2>2 DEF ClaimReadsRun
  <2>3. CASE RecordReadsRun(i)
    BY <1>2, <2>1, <2>3 DEF RecordReadsRun
  <2>4. CASE RecordSavesRun(i)
    BY <1>4, <2>4 DEF RecordSavesRun
  <2>5. CASE ResultReadsTask(i)
    BY <1>2, <1>4, <2>1, <2>5 DEF ResultReadsTask
  <2>6. CASE ResultReadsRun(i)
    BY <1>2, <1>4, <2>1, <2>6 DEF ResultReadsRun
  <2>7. QED  BY <1>4, <2>2, <2>3, <2>4, <2>5, <2>6
<1>5. CASE ClaimStoresTask(i)
  <2>1. PICK g \in Grant : Serve(i, [call[i] EXCEPT !.pc = "claim_save", !.grant = g])
    BY <1>5 DEF ClaimStoresTask
  <2>2. Other([call[i] EXCEPT !.pc = "claim_save", !.grant = g])
    BY <1>1 DEF Call, Other
  <2>3. QED  BY <2>1, <2>2, ServesElsewhere
<1>6. CASE ClaimSavesRun(i)
  <2>1. Other(Idle)
    BY DEF Idle, Other
  <2>2. QED  BY <1>6, <2>1, ServesElsewhere DEF ClaimSavesRun
<1>7. CASE ~Ends(i) /\ (OperatorResumes(i) \/ ConsumesGrant(i))
  <2>1. ResumeFromAgent(i)
    BY <1>7 DEF OperatorResumes, ConsumesGrant
  <2>2. PICK claimed \in BOOLEAN, holds \in BOOLEAN :
          Serve(i, Advancing(call[i], AfterAgent(call[i].doc, claimed, holds)))
    BY <2>1 DEF ResumeFromAgent
  <2>3. Other(Advancing(call[i], AfterAgent(call[i].doc, claimed, holds)))
    BY <1>1, AdvancesTo
  <2>4. QED  BY <2>2, <2>3, ServesElsewhere
<1>8. QED  BY <1>3, <1>4, <1>5, <1>6, <1>7 DEF AgentCallStep

LEMMA CancelElsewhere ==
    ASSUME TypeOK, NEW i \in Slot, CancelStep(i)
    PROVE  Elsewhere
<1>1. call[i] \in Call
  BY CallType
<1>2. CASE CancelSavesRun(i)
  <2>1. Other([call[i] EXCEPT !.pc = "cancel_scan"])
    BY <1>1 DEF Call, Other
  <2>2. QED  BY <1>2, <2>1, ServesElsewhere DEF CancelSavesRun
<1>3. CASE CancelScans(i)
  <2>1. \A ts, ks : Other([call[i] EXCEPT !.pc = "cancel_items", !.tasks = ts, !.confs = ks])
    BY <1>1 DEF Call, Other
  <2>2. \E ts, ks : Serve(i, [call[i] EXCEPT !.pc = "cancel_items", !.tasks = ts, !.confs = ks])
    BY <1>3 DEF CancelScans
  <2>3. QED  BY <2>1, <2>2, ServesElsewhere
<1>4. CASE CancelClosesTask(i) \/ CancelClosesConf(i)
  <2>1. call[i].pc = "cancel_items"
    BY <1>4 DEF CancelClosesTask, CancelClosesConf
  <2>2. \A ts : Other([call[i] EXCEPT !.tasks = ts]) /\ Other([call[i] EXCEPT !.confs = ts])
    BY <1>1, <2>1 DEF Call, Other
  <2>3. CASE CancelClosesTask(i)
    <3>1. PICK t \in call[i].tasks : Serve(i, [call[i] EXCEPT !.tasks = call[i].tasks \ {t}])
      BY <2>3 DEF CancelClosesTask
    <3>2. QED  BY <2>2, <3>1, ServesElsewhere
  <2>4. CASE CancelClosesConf(i)
    <3>1. PICK k \in call[i].confs : Serve(i, [call[i] EXCEPT !.confs = call[i].confs \ {k}])
      BY <2>4 DEF CancelClosesConf
    <3>2. QED  BY <2>2, <3>1, ServesElsewhere
  <2>5. QED  BY <1>4, <2>3, <2>4
<1>5. CASE CancelReturns(i)
  BY <1>5, EndsElsewhere DEF CancelReturns
<1>6. QED  BY <1>2, <1>3, <1>4, <1>5 DEF CancelStep

LEMMA AlwaysElsewhere ==
    ASSUME TypeOK, Linked, [Next]_vars, ~\E i \in Slot : ClaimTakesLease(i) \/ SaveRun(i)
    PROVE  Elsewhere
<1>1. ASSUME NEW i \in Slot, Request(i) \/ CallStep(i) PROVE Elsewhere
  BY <1>1, RequestElsewhere, EngineElsewhere, AgentCallElsewhere, CancelElsewhere DEF CallStep
<1>2. ASSUME NEW i \in Slot, CallDies(i) PROVE Elsewhere
  BY <1>2, EndsElsewhere DEF CallDies
<1>3. CASE call' = call
  BY <1>3 DEF Elsewhere
<1>4. ASSUME NEW w \in Sweeper, SweeperStep(w) \/ SweepDies(w) PROVE call' = call
  BY <1>4 DEF SweeperStep, SweepScans, SweepReleases, SweepExpiresTask,
     SweepExpiresConf, SweepReadsRuns, SweepTimesOut, SweepDies
<1>5. ASSUME \/ Tick \/ UNCHANGED vars
             \/ \E a \in Agent : AgentActs(a) \/ ReplyLost(a) \/ AgentDies(a)
      PROVE  call' = call
  BY <1>5 DEF Tick, vars, AgentActs, ReplyLost, AgentDies
<1>6. QED  BY <1>1, <1>2, <1>3, <1>4, <1>5 DEF Next, Work
----------------------------------------------------------------------------
(***************************************************************************)
(* Retired tasks                                                           *)
(***************************************************************************)
(* advance() returned because the run stopped or waits, and not because it *)
(* used up its passes.                                                     *)
NoneGaveUp == \A i \in Slot : call[i].pc = "finish" => call[i].doc.status # "RUNNING"

(* A call that is about to retire its task saved its result.               *)
SavedFirst ==
    \A i \in Slot : call[i].pc = "finish" /\ call[i].task # NoTask /\ call[i].doc.status # "RUNNING"
                      => call[i].task \in absorbed

(* Only saveRun() absorbs a result. *)
LEMMA AbsorbsOnlyBySave ==
    ASSUME [Next]_vars
    PROVE  absorbed \subseteq absorbed'
<1>1. ASSUME NEW i \in Slot, Request(i) PROVE absorbed' = absorbed
  BY <1>1 DEF Request, StartRun, Confirm, Approve, Cancel, OperatorReports, AgentRecords,
     AgentReports, AgentClaims, db, history
<1>2. ASSUME NEW i \in Slot, EngineStep(i) \/ CancelStep(i) PROVE absorbed \subseteq absorbed'
  BY <1>2 DEF EngineStep, PlainPass, ThrowingPass, QueueTask, RequestConfirmation, SaveRun,
     Finish, CancelStep, CancelSavesRun, CancelScans, CancelClosesTask, CancelClosesConf,
     CancelReturns, db, history
<1>3. ASSUME NEW i \in Slot, AgentCallStep(i) PROVE absorbed' = absorbed
  BY <1>3 DEF AgentCallStep, ClaimReadsRun, ClaimTakesLease, ClaimStoresTask, ClaimSavesRun,
     RecordReadsRun, RecordSavesRun, ResultReadsTask, ResultReadsRun, OperatorResumes,
     ConsumesGrant, db, history
<1>4. ASSUME NEW w \in Sweeper, SweeperStep(w) \/ SweepDies(w) PROVE absorbed' = absorbed
  BY <1>4 DEF SweeperStep, SweepScans, SweepReleases, SweepExpiresTask,
     SweepExpiresConf, SweepReadsRuns, SweepTimesOut, SweepDies, db, history
<1>5. ASSUME \/ Tick \/ UNCHANGED vars \/ \E i \in Slot : CallDies(i)
             \/ \E a \in Agent : AgentActs(a) \/ ReplyLost(a) \/ AgentDies(a)
      PROVE  absorbed' = absorbed
  BY <1>5 DEF Tick, vars, CallDies, AgentActs, ReplyLost, AgentDies, db, history
<1>6. QED  BY <1>1, <1>2, <1>3, <1>4, <1>5 DEF Next, Work, CallStep

(* Only the end of a resumption retires a task. *)
Completed == {t \in Task : task[t].status = "COMPLETED"}

LEMMA NotCompleted ==
    ASSUME TypeOK, NEW t, NEW st, st # "COMPLETED", task' = [task EXCEPT ![t].status = st]
    PROVE  Completed' \subseteq Completed
<1>1. \A u \in Task : task'[u].status = "COMPLETED" => task[u].status = "COMPLETED"
  BY DEF TypeOK, TaskDoc
<1>2. QED  BY <1>1 DEF Completed

LEMMA CompletesOnlyAtEnd ==
    ASSUME TypeOK, Linked, [Next]_vars, ~\E i \in Slot : Finish(i)
    PROVE  Completed' \subseteq Completed
<1>1. ASSUME task' = task PROVE Completed' \subseteq Completed
  BY <1>1 DEF Completed
<1>2. ASSUME NEW i \in Slot, QueueTask(i) PROVE Completed' \subseteq Completed
  <2>1. PICK o \in Iteration(call[i].doc), t \in Task :
          task' = [task EXCEPT ![t] = [AbsentTask EXCEPT !.status = "PENDING", !.run = call[i].run,
                                         !.step = o.doc.step, !.expires = now + TaskTicks]]
    BY <1>2 DEF QueueTask
  <2> DEFINE N == [AbsentTask EXCEPT !.status = "PENDING", !.run = call[i].run,
                     !.step = o.doc.step, !.expires = now + TaskTicks]
  <2>2. N.status = "PENDING"
    BY DEF AbsentTask
  <2> HIDE DEF N
  <2>3. task' = [task EXCEPT ![t] = N]
    BY <2>1 DEF N
  <2>4. QED  BY <2>2, <2>3 DEF TypeOK, Completed
<1>3. ASSUME NEW i \in Slot, ClaimStoresTask(i) PROVE Completed' \subseteq Completed
  <2>1. PICK t, a, u : task' = [task EXCEPT ![t].status = "CLAIMED", ![t].claimedBy = a, ![t].claimUntil = u]
    BY <1>3 DEF ClaimStoresTask
  <2>2. \A x \in Task : task'[x].status = "COMPLETED" => task[x].status = "COMPLETED"
    BY <2>1 DEF TypeOK, TaskDoc
  <2>3. QED  BY <2>2 DEF Completed
<1>4. ASSUME NEW i \in Slot, CancelClosesTask(i) PROVE Completed' \subseteq Completed
  <2>1. PICK t : task' = [task EXCEPT ![t].status = "CANCELLED"]
    BY <1>4 DEF CancelClosesTask
  <2>2. QED  BY <2>1, NotCompleted
<1>5. ASSUME NEW w \in Sweeper, SweepReleases(w) PROVE Completed' \subseteq Completed
  <2>1. PICK t : task' = [task EXCEPT ![t].status = "PENDING", ![t].claimedBy = NoAgent, ![t].claimUntil = 0]
    BY <1>5 DEF SweepReleases
  <2>2. \A x \in Task : task'[x].status = "COMPLETED" => task[x].status = "COMPLETED"
    BY <2>1 DEF TypeOK, TaskDoc
  <2>3. QED  BY <2>2 DEF Completed
<1>6. ASSUME NEW w \in Sweeper, SweepExpiresTask(w) PROVE Completed' \subseteq Completed
  <2>1. PICK t : task' = [task EXCEPT ![t].status = "EXPIRED"]
    BY <1>6 DEF SweepExpiresTask
  <2>2. QED  BY <2>1, NotCompleted
<1>7. ASSUME NEW i \in Slot, Request(i) PROVE task' = task
  BY <1>7 DEF Request, StartRun, Confirm, Approve, Cancel, OperatorReports, AgentRecords,
     AgentReports, AgentClaims, db, history
<1>8. ASSUME NEW i \in Slot, EngineStep(i) \/ CancelStep(i)
      PROVE  task' = task \/ QueueTask(i) \/ CancelClosesTask(i)
  BY <1>8 DEF EngineStep, PlainPass, ThrowingPass, RequestConfirmation, SaveRun,
     CancelStep, CancelSavesRun, CancelScans, CancelClosesConf, CancelReturns, db, history
<1>9. ASSUME NEW i \in Slot, AgentCallStep(i) PROVE task' = task \/ ClaimStoresTask(i)
  BY <1>9 DEF AgentCallStep, ClaimReadsRun, ClaimTakesLease, ClaimSavesRun,
     RecordReadsRun, RecordSavesRun, ResultReadsTask, ResultReadsRun, OperatorResumes,
     ConsumesGrant, db, history
<1>10. ASSUME NEW w \in Sweeper, SweeperStep(w) \/ SweepDies(w)
       PROVE  task' = task \/ SweepReleases(w) \/ SweepExpiresTask(w)
  BY <1>10 DEF SweeperStep, SweepScans, SweepExpiresConf, SweepReadsRuns, SweepTimesOut, SweepDies,
     db, history
<1>11. ASSUME \/ Tick \/ UNCHANGED vars \/ \E i \in Slot : CallDies(i)
              \/ \E a \in Agent : AgentActs(a) \/ ReplyLost(a) \/ AgentDies(a)
       PROVE  task' = task
  BY <1>11 DEF Tick, vars, CallDies, AgentActs, ReplyLost, AgentDies, db, history
<1>12. QED  BY <1>1, <1>2, <1>3, <1>4, <1>5, <1>6, <1>7, <1>8, <1>9, <1>10, <1>11
            DEF Next, Work, CallStep

LEMMA SavedFirstStep ==
    ASSUME TypeOK, Linked, SavedFirst, [Next]_vars
    PROVE  SavedFirst'
<1>1. absorbed \subseteq absorbed'
  BY AbsorbsOnlyBySave
<1>2. CASE Elsewhere
  BY <1>1, <1>2 DEF Elsewhere, Other, SavedFirst
<1>3. ASSUME NEW i \in Slot, ClaimTakesLease(i) PROVE Elsewhere \/ \A j \in Slot : call'[j] = call[j] \/ call'[j].pc = "claim_task"
  <2>1. CASE Ends(i)
    BY <2>1, EndsElsewhere
  <2>2. CASE ~Ends(i)
    <3>1. Serve(i, [call[i] EXCEPT !.pc = "claim_task", !.until = now + LeaseTicks])
      BY <1>3, <2>2 DEF ClaimTakesLease
    <3>2. [call[i] EXCEPT !.pc = "claim_task", !.until = now + LeaseTicks].pc = "claim_task"
      BY CallType DEF Call
    <3>3. QED  BY <3>1, <3>2 DEF Serve, TypeOK
  <2>3. QED  BY <2>1, <2>2
<1>4. ASSUME NEW i \in Slot, SaveRun(i) PROVE SavedFirst'
  <2> DEFINE at == IF Looping(call[i]) THEN "advance" ELSE "finish"
  <2>1. /\ call' = [call EXCEPT ![i] = [call[i] EXCEPT !.pc = at]]
        /\ call[i].task # NoTask => call[i].task \in absorbed'
    BY <1>4 DEF SaveRun, Serve
  <2> HIDE DEF at
  <2>2. call'[i].task = call[i].task /\ \A j \in Slot : j # i => call'[j] = call[j]
    BY <2>1, CallType DEF TypeOK, Call
  <2>3. ASSUME NEW j \in Slot, call'[j].pc = "finish", call'[j].task # NoTask, call'[j].doc.status # "RUNNING"
        PROVE  call'[j].task \in absorbed'
    <3>1. CASE j = i
      BY <2>1, <2>2, <2>3, <3>1
    <3>2. CASE j # i
      BY <1>1, <2>2, <2>3, <3>2 DEF SavedFirst
    <3>3. QED  BY <3>1, <3>2
  <2>4. QED  BY <2>3 DEF SavedFirst
<1>5. CASE \E i \in Slot : ClaimTakesLease(i)
  BY <1>1, <1>2, <1>3, <1>5 DEF SavedFirst
<1>6. QED  BY <1>2, <1>4, <1>5, AlwaysElsewhere

(* A task is retired only after its result is in a saved run, wherever a   *)
(* resumption fails or dies, as long as advance() stops before it used up  *)
(* its passes: where it does not, README.md says, the result is lost.      *)
THEOREM AbsorbedUnlessGaveUp == Spec /\ []NoneGaveUp => []CompletedTaskAbsorbed
<1>1. Init => SavedFirst /\ CompletedTaskAbsorbed
  BY DEF Init, SavedFirst, CompletedTaskAbsorbed, AbsentTask, Idle
<1>2. TypeOK /\ Linked /\ SavedFirst /\ [Next]_vars => SavedFirst'
  BY SavedFirstStep
<1>3. ASSUME TypeOK, Linked, SavedFirst, NoneGaveUp, CompletedTaskAbsorbed, [Next]_vars
      PROVE  CompletedTaskAbsorbed'
  <2>1. absorbed \subseteq absorbed'
    BY <1>3, AbsorbsOnlyBySave
  <2>2. CASE Completed' \subseteq Completed
    <3>1. \A t \in Task : task'[t].status = "COMPLETED" => task[t].status = "COMPLETED"
      BY <2>2 DEF Completed
    <3>2. \A t \in Task : task[t].status = "COMPLETED" => t \in absorbed
      BY <1>3 DEF CompletedTaskAbsorbed
    <3>3. QED  BY <2>1, <3>1, <3>2 DEF CompletedTaskAbsorbed
  <2>3. ASSUME NEW i \in Slot, Finish(i), ~(Completed' \subseteq Completed) PROVE CompletedTaskAbsorbed'
    <3> DEFINE t == call[i].task
    <3>1. t # NoTask /\ task' = [task EXCEPT ![t].status = "COMPLETED"] /\ call[i].pc = "finish"
      BY <2>3 DEF Finish, Completed
    <3>2. t \in absorbed
      BY <1>3, <3>1 DEF SavedFirst, NoneGaveUp
    <3>3. \A u \in Task : u # t => task'[u] = task[u]
      BY <1>3, <3>1 DEF TypeOK
    <3>4. QED  BY <1>3, <2>1, <3>2, <3>3 DEF CompletedTaskAbsorbed
  <2>4. QED  BY <1>3, <2>2, <2>3, CompletesOnlyAtEnd
<1>4. QED  BY <1>1, <1>2, <1>3, TypeCorrect, PTL DEF Spec
----------------------------------------------------------------------------
(* Grants: each is paid for by a window.  The books of one task hold the   *)
(* grants issued for it, the invocations between their lease and their     *)
(* grant, and the windows won: the first two never outnumber the third.    *)
Balanced(G, C, W) ==
    /\ IsFiniteSet(G) /\ IsFiniteSet(C) /\ IsFiniteSet(W)
    /\ Cardinality(G) + Cardinality(C) <= Cardinality(W)

LEMMA FewerClaimers ==
    ASSUME NEW G, NEW C, NEW W, Balanced(G, C, W), NEW D \in SUBSET C
    PROVE  Balanced(G, D, W)
<1>1. IsFiniteSet(D) /\ Cardinality(D) <= Cardinality(C)
  BY FS_Subset DEF Balanced
<1>2. /\ Cardinality(G) \in Nat /\ Cardinality(C) \in Nat
      /\ Cardinality(W) \in Nat /\ Cardinality(D) \in Nat
  BY <1>1, FS_CardinalityType DEF Balanced
<1>3. QED  BY <1>1, <1>2 DEF Balanced

LEMMA OneMoreWindow ==
    ASSUME NEW G, NEW C, NEW W, Balanced(G, C, W), NEW w, w \notin W, NEW i
    PROVE  Balanced(G, C \cup {i}, W \cup {w})
<1>1. /\ IsFiniteSet(W \cup {w}) /\ Cardinality(W \cup {w}) = Cardinality(W) + 1
      /\ IsFiniteSet(C \cup {i})
      /\ Cardinality(C \cup {i}) = IF i \in C THEN Cardinality(C) ELSE Cardinality(C) + 1
  BY FS_AddElement DEF Balanced
<1>2. /\ Cardinality(G) \in Nat /\ Cardinality(C) \in Nat /\ Cardinality(W) \in Nat
  BY FS_CardinalityType DEF Balanced
<1>3. QED  BY <1>1, <1>2 DEF Balanced

LEMMA OneMoreGrant ==
    ASSUME NEW G, NEW C, NEW W, Balanced(G, C, W), NEW i \in C, NEW g
    PROVE  Balanced(G \cup {g}, C \ {i}, W)
<1>1. /\ IsFiniteSet(G \cup {g})
      /\ Cardinality(G \cup {g}) = IF g \in G THEN Cardinality(G) ELSE Cardinality(G) + 1
      /\ IsFiniteSet(C \ {i}) /\ Cardinality(C \ {i}) = Cardinality(C) - 1
  BY FS_AddElement, FS_RemoveElement DEF Balanced
<1>2. /\ Cardinality(G) \in Nat /\ Cardinality(C) \in Nat /\ Cardinality(W) \in Nat
  BY FS_CardinalityType DEF Balanced
<1>3. QED  BY <1>1, <1>2 DEF Balanced

Issued(t)   == {g \in Grant : grant[g].task = t}
Claimers(t) == {i \in Slot : call[i].pc = "claim_task" /\ call[i].task = t}
Windows(t)  == {w \in won : w.task = t}
Paid == \A t \in Task : Balanced(Issued(t), Claimers(t), Windows(t))

(* Only a claim that stores its task issues a grant.                       *)
LEMMA GrantsOnlyByStore ==
    ASSUME [Next]_vars, ~\E i \in Slot : ClaimStoresTask(i)
    PROVE  grant' = grant
<1>1. ASSUME NEW i \in Slot, Request(i) PROVE grant' = grant
  BY <1>1 DEF Request, StartRun, Confirm, Approve, Cancel, OperatorReports, AgentRecords,
     AgentReports, AgentClaims, db, history
<1>2. ASSUME NEW i \in Slot, EngineStep(i) \/ CancelStep(i) PROVE grant' = grant
  BY <1>2 DEF EngineStep, PlainPass, ThrowingPass, QueueTask, RequestConfirmation, SaveRun,
     Finish, CancelStep, CancelSavesRun, CancelScans, CancelClosesTask, CancelClosesConf,
     CancelReturns, db, history
<1>3. ASSUME NEW i \in Slot, AgentCallStep(i) PROVE grant' = grant
  BY <1>3 DEF AgentCallStep, ClaimReadsRun, ClaimTakesLease, ClaimSavesRun,
     RecordReadsRun, RecordSavesRun, ResultReadsTask, ResultReadsRun, OperatorResumes,
     ConsumesGrant, db, history
<1>4. ASSUME NEW w \in Sweeper, SweeperStep(w) \/ SweepDies(w) PROVE grant' = grant
  BY <1>4 DEF SweeperStep, SweepScans, SweepReleases, SweepExpiresTask,
     SweepExpiresConf, SweepReadsRuns, SweepTimesOut, SweepDies, db, history
<1>5. ASSUME \/ Tick \/ UNCHANGED vars \/ \E i \in Slot : CallDies(i)
             \/ \E a \in Agent : AgentActs(a) \/ ReplyLost(a) \/ AgentDies(a)
      PROVE  grant' = grant
  BY <1>5 DEF Tick, vars, CallDies, AgentActs, ReplyLost, AgentDies, db, history
<1>6. QED  BY <1>1, <1>2, <1>3, <1>4, <1>5 DEF Next, Work, CallStep

(* Where nobody wins a lease and no grant is issued the books stay paid.   *)
LEMMA PaidElsewhere ==
    ASSUME Paid, grant' = grant, won' = won, Elsewhere
    PROVE  Paid'
<1> SUFFICES ASSUME NEW t \in Task PROVE Balanced(Issued(t)', Claimers(t)', Windows(t)')
  BY DEF Paid
<1>1. Balanced(Issued(t), Claimers(t), Windows(t))
  BY DEF Paid
<1>2. Issued(t)' = Issued(t) /\ Windows(t)' = Windows(t)
  BY DEF Issued, Windows
<1>3. Claimers(t)' \subseteq Claimers(t)
  BY DEF Claimers, Elsewhere, Other
<1>4. QED  BY <1>1, <1>2, <1>3, FewerClaimers

(* A lease won opens a window nobody was paid from yet.                    *)
LEMMA PaidByLease ==
    ASSUME TypeOK, Linked, Exclusive, Paid, NEW i \in Slot, ClaimTakesLease(i)
    PROVE  Paid'
<1>1. CASE ~LeaseFree(call[i].task)
  <2>1. Ends(i) /\ won' = won /\ grant' = grant
    BY <1>1 DEF ClaimTakesLease
  <2>2. QED  BY <2>1, EndsElsewhere, PaidElsewhere
<1>2. CASE LeaseFree(call[i].task)
  <2> DEFINE own == call[i].task
             new == [task |-> own, agent |-> call[i].agent,
                     from |-> now, until |-> now + LeaseTicks]
             next == [call[i] EXCEPT !.pc = "claim_task", !.until = now + LeaseTicks]
  <2>1. own \in Task
    BY CallType DEF ClaimTakesLease, Linked, CallLinks, LinkedCall, TaskPc
  <2>2. won' = won \cup {new} /\ call' = [call EXCEPT ![i] = next] /\ grant' = grant
    BY <1>2 DEF ClaimTakesLease, Serve
  <2>3. next.task = own /\ new.task = own /\ new.until = now + LeaseTicks
    BY CallType DEF Call
  <2>4. now \in Nat /\ now + LeaseTicks \in Nat /\ now <= now + LeaseTicks
    BY ControlPlaneAssumption DEF TypeOK, LeaseTicks
  <2>5. new \notin won
    <3> SUFFICES ASSUME new \in won PROVE FALSE
      OBVIOUS
    <3>1. lease[own].agent # NoAgent /\ now + LeaseTicks <= lease[own].until
      BY <2>3 DEF Exclusive, LeaseCoversWindows
    <3>2. lease[own].until < now
      BY <1>2, <3>1 DEF LeaseFree
    <3>3. lease[own].until \in Nat
      BY <2>1 DEF TypeOK, Lease
    <3>4. QED  BY <2>4, <3>1, <3>2, <3>3
  <2> HIDE DEF new, next
  <2>6. \A j \in Slot : j # i => call'[j] = call[j]
    BY <2>2 DEF TypeOK
  <2>7. call'[i].task = own
    BY <2>2, <2>3 DEF TypeOK
  <2> SUFFICES ASSUME NEW t \in Task PROVE Balanced(Issued(t)', Claimers(t)', Windows(t)')
    BY DEF Paid
  <2>8. Balanced(Issued(t), Claimers(t), Windows(t)) /\ Issued(t)' = Issued(t)
    BY <2>2 DEF Paid, Issued
  <2>9. CASE t = own
    <3>1. Windows(t)' = Windows(t) \cup {new} /\ new \notin Windows(t)
      BY <2>2, <2>3, <2>5, <2>9 DEF Windows
    <3>2. Claimers(t)' \subseteq Claimers(t) \cup {i}
      BY <2>6 DEF Claimers
    <3>3. Balanced(Issued(t), Claimers(t) \cup {i}, Windows(t) \cup {new})
      BY <2>8, <3>1, OneMoreWindow
    <3>4. QED  BY <2>8, <3>1, <3>2, <3>3, FewerClaimers
  <2>10. CASE t # own
    <3>1. Windows(t)' = Windows(t)
      BY <2>2, <2>3, <2>10 DEF Windows
    <3>2. Claimers(t)' \subseteq Claimers(t)
      BY <2>6, <2>7, <2>10 DEF Claimers
    <3>3. QED  BY <2>8, <3>1, <3>2, FewerClaimers
  <2>11. QED  BY <2>9, <2>10
<1>3. QED  BY <1>1, <1>2

(* A grant issued is paid for by the claim that issues it.                 *)
LEMMA PaidByStore ==
    ASSUME TypeOK, Linked, Paid, NEW i \in Slot, ClaimStoresTask(i)
    PROVE  Paid'
<1> DEFINE own == call[i].task
<1>1. PICK g \in Grant :
         /\ grant[g] = NoIssue
         /\ grant' = [grant EXCEPT ![g] = [task |-> own, agent |-> call[i].agent,
                                           expires |-> Second(now) + GrantSeconds]]
         /\ Serve(i, [call[i] EXCEPT !.pc = "claim_save", !.grant = g])
  BY DEF ClaimStoresTask
<1>2. own \in Task /\ call[i].pc = "claim_task" /\ won' = won
  BY CallType DEF ClaimStoresTask, Linked, CallLinks, LinkedCall, TaskPc, history
<1>3. /\ \A h \in Grant : h # g => grant'[h] = grant[h]
      /\ grant'[g].task = own /\ grant[g].task = NoTask
  BY <1>1 DEF TypeOK, NoIssue
<1>4. call'[i].pc = "claim_save" /\ \A j \in Slot : j # i => call'[j] = call[j]
  BY <1>1, CallType DEF TypeOK, Serve, Call
<1> SUFFICES ASSUME NEW t \in Task PROVE Balanced(Issued(t)', Claimers(t)', Windows(t)')
  BY DEF Paid
<1>5. Balanced(Issued(t), Claimers(t), Windows(t)) /\ Windows(t)' = Windows(t)
  BY <1>2 DEF Paid, Windows
<1>6. Claimers(t)' \subseteq Claimers(t) \ {i}
  BY <1>4 DEF Claimers
<1>7. CASE t = own
  <2>1. Issued(t)' = Issued(t) \cup {g}
    BY <1>3, <1>7, ControlPlaneAssumption DEF Issued
  <2>2. i \in Claimers(t)
    BY <1>2, <1>7 DEF Claimers
  <2>3. Balanced(Issued(t) \cup {g}, Claimers(t) \ {i}, Windows(t))
    BY <1>5, <2>2, OneMoreGrant
  <2>4. QED  BY <1>5, <1>6, <2>1, <2>3, FewerClaimers
<1>8. CASE t # own
  <2>1. Issued(t)' = Issued(t)
    BY <1>2, <1>3, <1>8, ControlPlaneAssumption DEF Issued
  <2>2. QED  BY <1>5, <1>6, <2>1, FewerClaimers
<1>9. QED  BY <1>7, <1>8

LEMMA PaidStep ==
    ASSUME TypeOK, Linked, Exclusive, Paid, [Next]_vars
    PROVE  Paid'
<1>1. CASE \E i \in Slot : ClaimTakesLease(i)
  BY <1>1, PaidByLease
<1>2. CASE \E i \in Slot : ClaimStoresTask(i)
  BY <1>2, PaidByStore
<1>3. ASSUME NEW i \in Slot, SaveRun(i) PROVE Paid'
  <2>1. PICK p : call' = [call EXCEPT ![i] = [call[i] EXCEPT !.pc = p]]
                 /\ p # "claim_task" /\ call[i].pc = "save"
    BY <1>3 DEF SaveRun, Serve
  <2>2. grant' = grant /\ won' = won
    BY <1>3 DEF SaveRun
  <2>3. call'[i].pc # "claim_task" /\ \A j \in Slot : j # i => call'[j] = call[j]
    BY <2>1, CallType DEF TypeOK, Call
  <2> SUFFICES ASSUME NEW t \in Task PROVE Balanced(Issued(t)', Claimers(t)', Windows(t)')
    BY DEF Paid
  <2>4. /\ Balanced(Issued(t), Claimers(t), Windows(t))
        /\ Issued(t)' = Issued(t) /\ Windows(t)' = Windows(t)
    BY <2>2 DEF Paid, Issued, Windows
  <2>5. Claimers(t)' \subseteq Claimers(t)
    BY <2>3 DEF Claimers
  <2>6. QED  BY <2>4, <2>5, FewerClaimers
<1>4. CASE ~\E i \in Slot : ClaimTakesLease(i) \/ ClaimStoresTask(i) \/ SaveRun(i)
  <2>1. lease' = lease /\ won' = won
    BY <1>4, LeasesOnlyByClaim
  <2>2. grant' = grant
    BY <1>4, GrantsOnlyByStore
  <2>3. Elsewhere
    BY <1>4, AlwaysElsewhere
  <2>4. QED  BY <2>1, <2>2, <2>3, PaidElsewhere
<1>5. QED  BY <1>1, <1>2, <1>3, <1>4

(* No lease mints two grants: a task has at most as many grants as windows *)
(* won, wherever a claim died between the two.                             *)
THEOREM GrantPerWindow == Spec => []OneGrantPerWindow
<1>1. Init => Exclusive /\ Paid
  <2> SUFFICES ASSUME Init PROVE Exclusive /\ Paid
    OBVIOUS
  <2>1. Exclusive
    BY DEF Init, Exclusive, LeaseCoversWindows, LeaseWindowsDisjoint
  <2>2. \A t \in Task : Issued(t) = {} /\ Claimers(t) = {} /\ Windows(t) = {}
    BY ControlPlaneAssumption DEF Init, Issued, Claimers, Windows, NoIssue, Idle
  <2>3. QED  BY <2>1, <2>2, FS_EmptySet DEF Paid, Balanced
<1>2. TypeOK /\ Linked /\ Exclusive /\ Paid /\ [Next]_vars => Exclusive' /\ Paid'
  BY ExclusiveStep, PaidStep
<1>3. Paid => OneGrantPerWindow
  <2> SUFFICES ASSUME Paid, NEW t \in Task
               PROVE  Cardinality(Issued(t)) <= Cardinality(Windows(t))
    BY DEF OneGrantPerWindow, Issued, Windows
  <2>1. Balanced(Issued(t), Claimers(t), Windows(t))
    BY DEF Paid
  <2>2. /\ Cardinality(Issued(t)) \in Nat /\ Cardinality(Claimers(t)) \in Nat
        /\ Cardinality(Windows(t)) \in Nat
    BY <2>1, FS_CardinalityType DEF Balanced
  <2>3. QED  BY <2>1, <2>2 DEF Balanced
<1>4. QED  BY <1>1, <1>2, <1>3, TypeCorrect, PTL DEF Spec
----------------------------------------------------------------------------
(* Lifetimes: a grant counts whole seconds, its lease milliseconds.  While *)
(* every invocation ends before the clock moves, the two are set at one    *)
(* instant, and a grant that is still good was issued to whoever holds the *)
(* lease.                                                                  *)
LEMMA SecondsPass ==
    ASSUME NEW s \in Nat, NEW t \in Nat, s <= t
    PROVE  Second(s) \in Nat /\ Second(t) \in Nat /\ Second(s) <= Second(t)
BY ControlPlaneAssumption DEF Second

LEMMA LeaseEndsInSeconds ==
    ASSUME NEW t \in Nat
    PROVE  t + LeaseTicks \in Nat /\ t < t + LeaseTicks
           /\ Second(t + LeaseTicks) = Second(t) + GrantSeconds
<1>1. /\ t + GrantSeconds * TicksPerSecond \in Nat
      /\ (t + GrantSeconds * TicksPerSecond) \div TicksPerSecond
           = (t \div TicksPerSecond) + GrantSeconds
  BY ControlPlaneAssumption
<1>2. GrantSeconds * TicksPerSecond \in Nat \ {0}
  BY ControlPlaneAssumption
<1>3. QED  BY <1>1, <1>2 DEF Second, LeaseTicks

PromptNext == PromptTick \/ Work

LEMMA PromptMeansNext == [PromptNext]_vars => [Next]_vars
BY DEF PromptNext, PromptTick, Next

(* Every other action reads the clock without moving it.                   *)
LEMMA TimeStands ==
    ASSUME [PromptNext]_vars, ~PromptTick
    PROVE  now' = now
<1>1. ASSUME NEW i \in Slot, Request(i) PROVE now' = now
  BY <1>1 DEF Request, StartRun, Confirm, Approve, Cancel, OperatorReports, AgentRecords,
     AgentReports, AgentClaims
<1>2. ASSUME NEW i \in Slot, EngineStep(i) \/ CancelStep(i) PROVE now' = now
  BY <1>2 DEF EngineStep, PlainPass, ThrowingPass, QueueTask, RequestConfirmation, SaveRun,
     Finish, CancelStep, CancelSavesRun, CancelScans, CancelClosesTask, CancelClosesConf,
     CancelReturns
<1>3. ASSUME NEW i \in Slot, AgentCallStep(i) PROVE now' = now
  BY <1>3 DEF AgentCallStep, ClaimReadsRun, ClaimTakesLease, ClaimStoresTask, ClaimSavesRun,
     RecordReadsRun, RecordSavesRun, ResultReadsTask, ResultReadsRun, OperatorResumes,
     ConsumesGrant
<1>4. ASSUME NEW w \in Sweeper, SweeperStep(w) \/ SweepDies(w) PROVE now' = now
  BY <1>4 DEF SweeperStep, SweepScans, SweepReleases, SweepExpiresTask,
     SweepExpiresConf, SweepReadsRuns, SweepTimesOut, SweepDies
<1>5. ASSUME \/ UNCHANGED vars \/ \E i \in Slot : CallDies(i)
             \/ \E a \in Agent : AgentActs(a) \/ ReplyLost(a) \/ AgentDies(a)
      PROVE  now' = now
  BY <1>5 DEF vars, CallDies, AgentActs, ReplyLost, AgentDies
<1>6. QED  BY <1>1, <1>2, <1>3, <1>4, <1>5 DEF PromptNext, Work, CallStep

(* An invocation between its lease and its grant holds a fresh lease.      *)
Holding == \A i \in Slot : call[i].pc = "claim_task" =>
              lease[call[i].task] = [agent |-> call[i].agent, until |-> now + LeaseTicks]

(* A grant that is still good is its lease holder's, and ends with it.     *)
Backed == \A g \in Grant : grant[g].task # NoTask =>
             /\ grant[g].agent # NoAgent
             /\ \/ grant[g].expires <= Second(now)
                \/ /\ lease[grant[g].task].agent = grant[g].agent
                   /\ grant[g].expires = Second(lease[grant[g].task].until)

LEMMA HoldingElsewhere ==
    ASSUME Holding, Elsewhere, lease' = lease, now' = now
    PROVE  Holding'
BY DEF Holding, Elsewhere, Other

LEMMA HoldingStep ==
    ASSUME TypeOK, Linked, Holding, [PromptNext]_vars
    PROVE  Holding'
<1>1. CASE PromptTick
  BY <1>1 DEF PromptTick, Tick, Holding, Idle
<1>2. ASSUME NEW i \in Slot, ClaimTakesLease(i), ~LeaseFree(call[i].task) PROVE Holding'
  <2>1. Ends(i) /\ lease' = lease /\ now' = now
    BY <1>2 DEF ClaimTakesLease
  <2>2. QED  BY <2>1, EndsElsewhere, HoldingElsewhere
<1>3. ASSUME NEW i \in Slot, ClaimTakesLease(i), LeaseFree(call[i].task) PROVE Holding'
  <2> DEFINE own == call[i].task
             next == [call[i] EXCEPT !.pc = "claim_task", !.until = now + LeaseTicks]
             got == [agent |-> call[i].agent, until |-> now + LeaseTicks]
  <2>1. own \in Task
    BY <1>3, CallType DEF ClaimTakesLease, Linked, CallLinks, LinkedCall, TaskPc
  <2>2. lease' = [lease EXCEPT ![own] = got] /\ call' = [call EXCEPT ![i] = next] /\ now' = now
    BY <1>3 DEF ClaimTakesLease, Serve
  <2>3. next.task = own /\ next.agent = call[i].agent
    BY CallType DEF Call
  <2>4. call'[i] = next /\ \A j \in Slot : j # i => call'[j] = call[j]
    BY <2>2 DEF TypeOK
  <2>5. lease'[own] = got /\ \A t \in Task : t # own => lease'[t] = lease[t]
    BY <2>1, <2>2 DEF TypeOK
  <2> HIDE DEF next, own
  <2> SUFFICES ASSUME NEW j \in Slot, call'[j].pc = "claim_task"
               PROVE  lease'[call'[j].task] = [agent |-> call'[j].agent, until |-> now' + LeaseTicks]
    BY DEF Holding
  <2>6. CASE j = i
    BY <2>2, <2>3, <2>4, <2>5, <2>6
  <2>7. CASE j # i
    <3>1. /\ call'[j] = call[j] /\ call[j].task \in Task /\ call[j].agent \in Agent
          /\ lease[call[j].task] = [agent |-> call[j].agent, until |-> now + LeaseTicks]
      BY <2>4, <2>7, CallType DEF Holding, Linked, CallLinks, LinkedCall, TaskPc, ByAgentPc
    <3>2. call[j].task # own
      <4> SUFFICES ASSUME call[j].task = own PROVE FALSE
        OBVIOUS
      <4>1. lease[own].agent # NoAgent /\ lease[own].until = now + LeaseTicks
        BY <3>1, ControlPlaneAssumption
      <4>2. lease[own].until < now
        BY <1>3, <4>1 DEF LeaseFree, own
      <4>3. QED  BY <4>1, <4>2, LeaseEndsInSeconds DEF TypeOK
    <3>3. QED  BY <2>2, <2>5, <3>1, <3>2
  <2>8. QED  BY <2>6, <2>7
<1>4. ASSUME NEW i \in Slot, SaveRun(i) PROVE Holding'
  <2> DEFINE at == IF Looping(call[i]) THEN "advance" ELSE "finish"
  <2>1. call' = [call EXCEPT ![i] = [call[i] EXCEPT !.pc = at]] /\ at # "claim_task"
    BY <1>4 DEF SaveRun, Serve
  <2> HIDE DEF at
  <2>2. lease' = lease /\ now' = now
    BY <1>4 DEF SaveRun
  <2>3. call'[i].pc # "claim_task" /\ \A j \in Slot : j # i => call'[j] = call[j]
    BY <2>1, CallType DEF TypeOK, Call
  <2>4. QED  BY <2>2, <2>3 DEF Holding
<1>5. CASE ~PromptTick /\ ~\E i \in Slot : ClaimTakesLease(i) \/ SaveRun(i)
  <2>1. [Next]_vars
    BY PromptMeansNext
  <2>2. now' = now
    BY <1>5, TimeStands
  <2>3. lease' = lease
    BY <1>5, <2>1, LeasesOnlyByClaim
  <2>4. Elsewhere
    BY <1>5, <2>1, AlwaysElsewhere
  <2>5. QED  BY <2>2, <2>3, <2>4, HoldingElsewhere
<1>6. QED  BY <1>1, <1>2, <1>3, <1>4, <1>5

(* Winning a lease takes it from nobody whose grant is still good.         *)
LEMMA BackedByLease ==
    ASSUME TypeOK, Linked, Backed, NEW i \in Slot, ClaimTakesLease(i), LeaseFree(call[i].task)
    PROVE  Backed'
<1> DEFINE own == call[i].task
<1>1. own \in Task /\ grant' = grant /\ now' = now
  BY CallType DEF ClaimTakesLease, Linked, CallLinks, LinkedCall, TaskPc
<1>2. \A t \in Task : t # own => lease'[t] = lease[t]
  BY DEF ClaimTakesLease, TypeOK
<1> SUFFICES ASSUME NEW g \in Grant, grant[g].task # NoTask
             PROVE  /\ grant[g].agent # NoAgent
                    /\ \/ grant[g].expires <= Second(now)
                       \/ /\ lease'[grant[g].task].agent = grant[g].agent
                          /\ grant[g].expires = Second(lease'[grant[g].task].until)
  BY <1>1 DEF Backed, Second
<1>3. /\ grant[g].task \in Task /\ grant[g].agent # NoAgent
      /\ \/ grant[g].expires <= Second(now)
         \/ /\ lease[grant[g].task].agent = grant[g].agent
            /\ grant[g].expires = Second(lease[grant[g].task].until)
  BY DEF Backed, TypeOK, GrantDoc
<1>4. CASE grant[g].task # own
  BY <1>2, <1>3, <1>4
<1>5. CASE grant[g].task = own
  <2>1. CASE lease[own].agent = grant[g].agent /\ grant[g].expires = Second(lease[own].until)
    <3>1. lease[own].until < now
      BY <1>3, <2>1 DEF LeaseFree
    <3>2. lease[own].until \in Nat /\ now \in Nat
      BY <1>1 DEF TypeOK, Lease
    <3>3. Second(lease[own].until) <= Second(now)
      BY <3>1, <3>2, SecondsPass
    <3>4. QED  BY <1>3, <2>1, <3>3
  <2>2. QED  BY <1>3, <1>5, <2>1
<1>6. QED  BY <1>4, <1>5

(* A grant is issued for the lease the invocation holds.                   *)
LEMMA BackedByStore ==
    ASSUME TypeOK, Linked, Holding, Backed, NEW i \in Slot, ClaimStoresTask(i)
    PROVE  Backed'
<1> DEFINE own == call[i].task
<1>1. PICK g \in Grant : grant' = [grant EXCEPT ![g] = [task |-> own, agent |-> call[i].agent,
                                           expires |-> Second(now) + GrantSeconds]]
  BY DEF ClaimStoresTask
<1>2. /\ own \in Task /\ call[i].agent # NoAgent /\ call[i].pc = "claim_task"
      /\ lease' = lease /\ now' = now
  BY CallType DEF ClaimStoresTask, Linked, CallLinks, LinkedCall, TaskPc, ByAgentPc, db
<1>3. /\ \A h \in Grant : h # g => grant'[h] = grant[h]
      /\ grant'[g].task = own /\ grant'[g].agent = call[i].agent
      /\ grant'[g].expires = Second(now) + GrantSeconds
  BY <1>1 DEF TypeOK
<1>4. lease[own].agent = call[i].agent /\ lease[own].until = now + LeaseTicks
  <2>1. lease[own] = [agent |-> call[i].agent, until |-> now + LeaseTicks]
    BY <1>2 DEF Holding
  <2>2. QED  BY <2>1
<1>5. Second(now + LeaseTicks) = Second(now) + GrantSeconds
  BY LeaseEndsInSeconds DEF TypeOK
<1> SUFFICES ASSUME NEW h \in Grant, grant'[h].task # NoTask
             PROVE  /\ grant'[h].agent # NoAgent
                    /\ \/ grant'[h].expires <= Second(now)
                       \/ /\ lease[grant'[h].task].agent = grant'[h].agent
                          /\ grant'[h].expires = Second(lease[grant'[h].task].until)
  BY <1>2 DEF Backed, Second
<1>6. CASE h = g
  BY <1>2, <1>3, <1>4, <1>5, <1>6
<1>7. CASE h # g
  BY <1>3, <1>7 DEF Backed
<1>8. QED  BY <1>6, <1>7

LEMMA BackedStep ==
    ASSUME TypeOK, Linked, Holding, Backed, [PromptNext]_vars
    PROVE  Backed'
<1>1. [Next]_vars
  BY PromptMeansNext
<1>2. ASSUME grant' = grant, lease' = lease, Second(now) <= Second(now') PROVE Backed'
  <2> SUFFICES ASSUME NEW g \in Grant, grant[g].task # NoTask
               PROVE  /\ grant[g].agent # NoAgent
                      /\ \/ grant[g].expires <= Second(now')
                         \/ /\ lease[grant[g].task].agent = grant[g].agent
                            /\ grant[g].expires = Second(lease[grant[g].task].until)
    BY <1>2 DEF Backed, Second
  <2>1. grant[g].expires \in Nat
    BY DEF TypeOK, GrantDoc
  <2>2. now' \in Nat
    BY <1>1, TypeStep DEF TypeOK
  <2>3. Second(now) \in Nat /\ Second(now') \in Nat
    BY <2>2, SecondsPass DEF TypeOK
  <2>4. QED  BY <1>2, <2>1, <2>3 DEF Backed
<1>3. now \in Nat /\ Second(now) \in Nat
  BY SecondsPass DEF TypeOK
<1>4. CASE PromptTick
  <2>1. now' = now + 1 /\ grant' = grant /\ lease' = lease
    BY <1>4 DEF PromptTick, Tick, db
  <2>2. Second(now) <= Second(now + 1)
    BY <1>3, SecondsPass
  <2>3. QED  BY <1>2, <2>1, <2>2
<1>5. ASSUME NEW i \in Slot, ClaimTakesLease(i), ~LeaseFree(call[i].task) PROVE Backed'
  <2>1. grant' = grant /\ lease' = lease /\ now' = now
    BY <1>5 DEF ClaimTakesLease
  <2>2. QED  BY <1>2, <1>3, <2>1
<1>6. CASE ~PromptTick /\ ~\E i \in Slot : ClaimTakesLease(i) \/ ClaimStoresTask(i)
  <2>1. now' = now
    BY <1>6, TimeStands
  <2>2. lease' = lease
    BY <1>1, <1>6, LeasesOnlyByClaim
  <2>3. grant' = grant
    BY <1>1, <1>6, GrantsOnlyByStore
  <2>4. QED  BY <1>2, <1>3, <2>1, <2>2, <2>3
<1>7. QED  BY <1>4, <1>5, <1>6, BackedByLease, BackedByStore

(* A result is accepted only from whoever holds the task's lease, and only *)
(* while the lease lasts, if every invocation ends before the clock moves. *)
THEOREM ResultsInsideLease == PromptSpec => ResultInsideLease
<1>1. Init => Holding /\ Backed
  BY DEF Init, Holding, Backed, Idle, NoIssue
<1>2. TypeOK /\ Linked /\ Holding /\ Backed /\ [PromptNext]_vars => Holding' /\ Backed'
  BY HoldingStep, BackedStep
<1>3. ASSUME TypeOK, Linked, Backed, [PromptNext]_vars, NEW g \in Grant, spent'[g] # spent[g]
      PROVE  lease[grant[g].task].agent = grant[g].agent /\ now <= lease[grant[g].task].until
  <2>1. PICK i \in Slot : ConsumesGrant(i)
    BY <1>3, PromptMeansNext, SpendsOnlyByGrant
  <2>2. /\ Verifies(call[i].grant, call[i].agent, call[i].task, "agent.report_result")
        /\ spent' = [spent EXCEPT ![call[i].grant] = @ + 1] /\ call[i].pc = "verify"
    BY <1>3, <2>1 DEF ConsumesGrant
  <2>3. call[i].grant = g
    BY <1>3, <2>2 DEF TypeOK
  <2>4. call[i].task \in Task
    BY <1>3, <2>2, CallType DEF Linked, CallLinks, LinkedCall, TaskPc
  <2>5. grant[g].expires > Second(now) /\ grant[g].task \in Task
    BY <2>2, <2>3, <2>4 DEF Verifies
  <2>6. grant[g].expires \in Nat /\ now \in Nat /\ lease[grant[g].task].until \in Nat
    BY <1>3, <2>5 DEF TypeOK, GrantDoc, Lease
  <2>7. Second(now) \in Nat
    BY <2>6, SecondsPass
  <2>8. /\ lease[grant[g].task].agent = grant[g].agent
        /\ Second(lease[grant[g].task].until) > Second(now)
    BY <1>3, <2>5, <2>6, <2>7, ControlPlaneAssumption DEF Backed
  <2>9. now <= lease[grant[g].task].until
    <3> SUFFICES ASSUME lease[grant[g].task].until <= now PROVE FALSE
      BY <2>6
    <3>1. QED  BY <2>6, <2>8, SecondsPass
  <2>10. QED  BY <2>8, <2>9
<1>4. TypeOK /\ Linked /\ Backed /\ [PromptNext]_vars =>
         [\A g \in Grant : spent'[g] # spent[g] =>
             /\ lease[grant[g].task].agent = grant[g].agent
             /\ now <= lease[grant[g].task].until]_vars
  BY <1>3
<1>5. QED  BY <1>1, <1>2, <1>4, PromptMeansNext, TypeCorrect, PTL
           DEF Spec, PromptSpec, PromptNext, ResultInsideLease
----------------------------------------------------------------------------
(* Serial executions: what an invocation or a sweep read is still stored   *)
(* when it writes, and each write moves the run the way its life allows.   *)
Alone ==
    /\ \A i, j \in Slot : call[i] # Idle /\ call[j] # Idle => i = j
    /\ \A i \in Slot, w \in Sweeper : call[i] = Idle \/ sweep[w] = Resting
    /\ \A v, w \in Sweeper : sweep[v] # Resting /\ sweep[w] # Resting => v = w

(* How a call c fits d, what is stored of its run: it holds what is stored *)
(* until it resumes it; it resumes only a run that has not ended; and what *)
(* follows a confirmation is an action, which at most fails the run.       *)
HoldsPc == {"claim_lease", "claim_task", "claim_save", "record_save", "verify"}
InStep(c, d) ==
    /\ c.pc \in HoldsPc => c.doc = d
    /\ c.pc = "cancel_save" => c.doc.status = "CANCELLED" /\ d.status \in Cancellable
    /\ c.pc \in {"advance", "save"} => d.status \in Cancellable
    /\ c.pc = "advance" /\ d.status = "AWAITING_CONFIRMATION" => Acting(c.doc)
    /\ c.pc = "save" => /\ c.doc.status \in Cancellable \cup {"COMPLETED", "FAILED"}
                        /\ c.doc.status = "AWAITING_CONFIRMATION" => Acting(c.doc)
                        /\ d.status = "AWAITING_CONFIRMATION" => c.doc.status # "COMPLETED"

CallsInStep  == \A i \in Slot : InStep(call[i], run[call[i].run])
SweepInStep(s) == s.pc = "runs" => \A r \in s.runs :
                     /\ s.docs[r] = run[r]
                     /\ run[r].status \in {"WAITING_AGENT", "AWAITING_CONFIRMATION"}
SweepsInStep == \A w \in Sweeper : SweepInStep(sweep[w])
GatesAct     == \A r \in Run : run[r].status = "AWAITING_CONFIRMATION" => Acting(run[r])
SerialInv    == Alone /\ CallsInStep /\ SweepsInStep /\ GatesAct

(* A write of run r the lifecycle allows.                                  *)
Allowed(a, b) ==
    \/ a = b
    \/ a = "ABSENT" /\ b = "RUNNING"
    \/ a \in Cancellable /\ b \in Waiting \cup {"FAILED", "CANCELLED"}
    \/ a \in Waiting /\ b = "RUNNING"
    \/ a \in {"RUNNING", "WAITING_AGENT", "WAITING_APPROVAL"} /\ b = "COMPLETED"
    \/ a \in {"WAITING_AGENT", "AWAITING_CONFIRMATION"} /\ b = "TIMED_OUT"

Writes(r, d) == /\ run' = [run EXCEPT ![r] = d]
                /\ Allowed(run[r].status, d.status)
                /\ d.status = "AWAITING_CONFIRMATION" => Acting(d)
RunsMove == run' = run \/ \E r \in Run : \E d : Writes(r, d)

(* At most one of finitely many is busy.                                   *)
LEMMA SerialMeansAlone ==
    ASSUME IsFiniteSet(Slot), IsFiniteSet(Sweeper), Serial
    PROVE  Alone'
<1> DEFINE C == {i \in Slot : call'[i] # Idle}
           W == {w \in Sweeper : sweep'[w] # Resting}
<1>1. IsFiniteSet(C) /\ IsFiniteSet(W)
  BY FS_Subset
<1>2. Cardinality(C) \in Nat /\ Cardinality(W) \in Nat /\ Cardinality(C) + Cardinality(W) <= 1
  BY <1>1, FS_CardinalityType DEF Serial
<1>3. (Cardinality(C) = 0 => C = {}) /\ (Cardinality(W) = 0 => W = {})
  BY <1>1, FS_EmptySet
<1>4. /\ Cardinality(C) = 1 => \E x : C = {x}
      /\ Cardinality(W) = 1 => \E x : W = {x}
  BY <1>1, FS_Singleton
<1>5. \/ C = {} /\ W = {}
      \/ C = {} /\ \E x : W = {x}
      \/ W = {} /\ \E x : C = {x}
  BY <1>2, <1>3, <1>4
<1>6. QED  BY <1>5 DEF Alone

LEMMA IdleInStep == \A d : InStep(Idle, d)
BY DEF InStep, Idle, HoldsPc

(* The invocation in slot i moves on, and nobody else is busy.             *)
LEMMA SoloServes ==
    ASSUME TypeOK, Alone, Alone', NEW i \in Slot, NEW c, Serve(i, c), sweep' = sweep,
           call[i] # Idle \/ c # Idle, InStep(c, run'[c.run])
    PROVE  CallsInStep' /\ SweepsInStep'
<1>1. call'[i] = c /\ \A j \in Slot : j # i => call'[j] = call[j]
  BY DEF TypeOK, Serve
<1>2. \A j \in Slot : j # i => call'[j] = Idle
  BY <1>1 DEF Alone
<1>3. \A w \in Sweeper : sweep'[w] = Resting
  BY <1>1 DEF Alone
<1>4. CallsInStep'
  BY <1>1, <1>2, IdleInStep DEF CallsInStep
<1>5. \A w \in Sweeper : sweep'[w].pc # "runs"
  BY <1>3 DEF Resting
<1>6. SweepsInStep'
  BY <1>5 DEF SweepsInStep, SweepInStep
<1>7. QED  BY <1>4, <1>6

(* In most places an invocation is free to find its run anyhow.            *)
MindsPc == HoldsPc \cup {"cancel_save", "advance", "save"}
LEMMA FreeInStep == \A c, d : c.pc \notin MindsPc => InStep(c, d)
BY DEF InStep, MindsPc, HoldsPc

LEMMA SoloServesFree ==
    ASSUME TypeOK, Alone, Alone', NEW i \in Slot, NEW c, Serve(i, c), sweep' = sweep,
           call[i] # Idle \/ c # Idle, c.pc \notin MindsPc
    PROVE  CallsInStep' /\ SweepsInStep'
<1>1. InStep(c, run'[c.run])
  BY FreeInStep
<1>2. QED  BY <1>1, SoloServes

LEMMA SoloEnds ==
    ASSUME TypeOK, Alone, Alone', NEW i \in Slot, Ends(i), sweep' = sweep, call[i] # Idle
    PROVE  CallsInStep' /\ SweepsInStep'
<1>1. Serve(i, Idle) /\ Idle.pc \notin MindsPc
  BY DEF Ends, Idle, MindsPc, HoldsPc
<1>2. QED  BY <1>1, SoloServesFree

(* Where no invocation, sweep or run changes, all stay in step.            *)
LEMMA StillInStep ==
    ASSUME CallsInStep, SweepsInStep, call' = call, sweep' = sweep, run' = run
    PROVE  CallsInStep' /\ SweepsInStep' /\ RunsMove
BY DEF CallsInStep, SweepsInStep, SweepInStep, RunsMove

Together == CallsInStep' /\ SweepsInStep' /\ RunsMove

LEMMA AdvancingFields ==
    ASSUME NEW c \in Call, NEW d
    PROVE  /\ Advancing(c, d).run = c.run /\ Advancing(c, d).doc = d
           /\ Advancing(c, d).pc = IF d.status = "RUNNING" THEN "advance" ELSE "save"
BY DEF Advancing, Call

(* A run is started or resumed from what is stored of it.                  *)
LEMMA ResumesTogether ==
    ASSUME TypeOK, Alone, Alone', NEW i \in Slot, NEW c \in Call, NEW d,
           Serve(i, Advancing(c, d)), sweep' = sweep,
           run'[c.run].status \in Cancellable,
           d.status \in {"RUNNING", "FAILED"},
           run'[c.run].status = "AWAITING_CONFIRMATION" /\ d.status = "RUNNING" => Acting(d)
    PROVE  CallsInStep' /\ SweepsInStep'
<1> DEFINE e == Advancing(c, d)
<1>1. e.run = c.run /\ e.doc = d /\ e.pc = IF d.status = "RUNNING" THEN "advance" ELSE "save"
  BY AdvancingFields
<1>2. e # Idle
  BY <1>1 DEF Idle
<1> HIDE DEF e
<1>3. InStep(e, run'[e.run])
  BY <1>1 DEF InStep, HoldsPc
<1>4. QED  BY <1>2, <1>3, SoloServes DEF e

LEMMA RequestTogether ==
    ASSUME TypeOK, Linked, SerialInv, Alone', NEW i \in Slot, Request(i)
    PROVE  Together
<1> USE DEF Together
<1>1. ASSUME NEW r \in Run, StartRun(i, r) PROVE Together
  <2> DEFINE c == [Idle EXCEPT !.run = r]
  <2>1. c \in Call /\ c.run = r
    BY IdleType DEF Call, Idle
  <2>2. /\ run[r] = NoDoc /\ run' = [run EXCEPT ![r] = FreshRun] /\ sweep' = sweep
        /\ Serve(i, Advancing(c, FreshRun))
    BY <1>1 DEF StartRun
  <2>3. FreshRun.status = "RUNNING" /\ NoDoc.status = "ABSENT"
    BY DEF FreshRun, NoDoc
  <2> HIDE DEF c
  <2>4. run'[c.run] = FreshRun
    BY <2>1, <2>2 DEF TypeOK
  <2>5. CallsInStep' /\ SweepsInStep'
    BY <2>1, <2>2, <2>3, <2>4, ResumesTogether DEF SerialInv, Cancellable
  <2>6. Writes(r, FreshRun)
    BY <2>2, <2>3 DEF Writes, Allowed
  <2>7. QED  BY <2>5, <2>6 DEF RunsMove
<1>2. ASSUME NEW r \in Run, NEW d, run[r].status \in Waiting,
             Serve(i, Advancing([Idle EXCEPT !.run = r], d)), sweep' = sweep, run' = run,
             d.status = "RUNNING", run[r].status = "AWAITING_CONFIRMATION" => Acting(d)
      PROVE  Together
  <2> DEFINE c == [Idle EXCEPT !.run = r]
  <2>1. c \in Call /\ c.run = r /\ Serve(i, Advancing(c, d))
    BY <1>2, IdleType DEF Call, Idle
  <2> HIDE DEF c
  <2>2. run'[c.run].status \in Cancellable
    BY <1>2, <2>1 DEF Cancellable
  <2>3. CallsInStep' /\ SweepsInStep'
    BY <1>2, <2>1, <2>2, ResumesTogether DEF SerialInv
  <2>4. QED  BY <1>2, <2>3 DEF RunsMove
<1>3. ASSUME NEW r \in Run, Confirm(i, r) PROVE Together
  <2> DEFINE d == AfterConfirmation(run[r])
  <2>1. /\ run[r].status = "AWAITING_CONFIRMATION" /\ run' = run /\ sweep' = sweep
        /\ Serve(i, Advancing([Idle EXCEPT !.run = r], d))
    BY <1>3 DEF Confirm, db
  <2>2. run[r] \in RunDoc
    BY <2>1 DEF TypeOK, NoDoc
  <2>3. d.status = "RUNNING" /\ d.step = run[r].step
    BY <2>2 DEF AfterConfirmation, RunDoc
  <2>4. Acting(d)
    BY <2>1, <2>3 DEF SerialInv, GatesAct, Acting
  <2> HIDE DEF d
  <2>5. QED  BY <1>2, <2>1, <2>3, <2>4 DEF Waiting
<1>4. ASSUME NEW r \in Run, Approve(i, r) PROVE Together
  <2>1. PICK approved \in BOOLEAN :
           Serve(i, Advancing([Idle EXCEPT !.run = r], AfterApproval(run[r], approved)))
    BY <1>4 DEF Approve
  <2>2. run[r].status = "WAITING_APPROVAL" /\ run' = run /\ sweep' = sweep
    BY <1>4 DEF Approve, db
  <2>3. run[r] \in RunDoc /\ run[r].step \in Step
    BY <2>2 DEF TypeOK, NoDoc, RunDoc, Waiting
  <2>4. AfterApproval(run[r], approved).status = "RUNNING"
    BY <2>3, ResumeSound
  <2>5. QED  BY <1>2, <2>1, <2>2, <2>4 DEF Waiting
<1>5. ASSUME NEW r \in Run, Cancel(i, r) PROVE Together
  <2> DEFINE c == [Idle EXCEPT !.pc = "cancel_save", !.run = r, !.doc = AfterCancel(run[r])]
  <2>1. run[r].status \in Cancellable /\ Serve(i, c) /\ run' = run /\ sweep' = sweep
    BY <1>5 DEF Cancel, db
  <2>2. run[r] \in RunDoc
    BY <2>1 DEF TypeOK, NoDoc, Cancellable, Waiting
  <2>3. c.pc = "cancel_save" /\ c.run = r /\ c.doc.status = "CANCELLED"
    BY <2>2, StopSound DEF Idle
  <2>4. c # Idle
    BY <2>3 DEF Idle
  <2> HIDE DEF c
  <2>5. InStep(c, run'[c.run])
    BY <2>1, <2>3 DEF InStep, HoldsPc
  <2>6. QED  BY <2>1, <2>4, <2>5, SoloServes DEF SerialInv, RunsMove
<1>6. ASSUME NEW c, Serve(i, c), c.pc \in {"claim_run", "record_run", "result_task", "result_run"},
             sweep' = sweep, run' = run
      PROVE  Together
  <2>1. c # Idle /\ c.pc \notin MindsPc
    BY <1>6 DEF Idle, MindsPc, HoldsPc
  <2>2. QED  BY <1>6, <2>1, SoloServesFree DEF SerialInv, RunsMove
<1>7. ASSUME NEW t \in Task, OperatorReports(i, t) PROVE Together
  <2> DEFINE c == [Idle EXCEPT !.pc = "result_run", !.task = t, !.run = task[t].run]
  <2>1. c.pc = "result_run" /\ Serve(i, c) /\ sweep' = sweep /\ run' = run
    BY <1>7 DEF OperatorReports, Idle, db
  <2> HIDE DEF c
  <2>2. QED  BY <1>6, <2>1
<1>8. ASSUME NEW a \in Agent, AgentRecords(a, i) PROVE Together
  <2> DEFINE c == [Idle EXCEPT !.pc = "record_run", !.agent = a, !.run = task[agent[a].task].run]
  <2>1. c.pc = "record_run" /\ sweep' = sweep /\ run' = run /\ (Serve(i, c) \/ call' = call)
    BY <1>8 DEF AgentRecords, Idle
  <2> HIDE DEF c
  <2>2. QED  BY <1>6, <2>1, StillInStep DEF SerialInv
<1>9. ASSUME NEW a \in Agent, AgentReports(a, i) PROVE Together
  <2> DEFINE t == agent[a].task
             c == [Idle EXCEPT !.pc = "result_task", !.task = t, !.agent = a,
                               !.grant = agent[a].grant, !.run = task[t].run]
  <2>1. c.pc = "result_task" /\ sweep' = sweep /\ run' = run /\ (Serve(i, c) \/ call' = call)
    BY <1>9 DEF AgentReports, Idle, db
  <2> HIDE DEF c
  <2>2. QED  BY <1>6, <2>1, StillInStep DEF SerialInv
<1>10. ASSUME NEW a \in Agent, NEW t \in Task, AgentClaims(a, i, t) PROVE Together
  <2> DEFINE c == [Idle EXCEPT !.pc = "claim_run", !.task = t, !.agent = a, !.run = task[t].run]
  <2>1. c.pc = "claim_run" /\ Serve(i, c) /\ sweep' = sweep /\ run' = run
    BY <1>10 DEF AgentClaims, Idle, db
  <2> HIDE DEF c
  <2>2. QED  BY <1>6, <2>1
<1>11. QED  BY <1>1, <1>3, <1>4, <1>5, <1>7, <1>8, <1>9, <1>10 DEF Request

(* One pass of the engine: a call goes on to save what the pass made, or   *)
(* to the next pass without saving, or ends.                               *)
LEMMA PassTogether ==
    ASSUME TypeOK, Linked, SerialInv, Alone', NEW i \in Slot, call[i].pc = "advance",
           NEW o \in Iteration(call[i].doc), NEW c, Serve(i, c), sweep' = sweep, run' = run,
           c.run = call[i].run,
           \/ c.pc = "finish"
           \/ c.pc = "save" /\ c.doc.status = o.doc.status /\ c.doc.step = o.doc.step
           \/ c.pc = "advance" /\ o.ends = "skip"
    PROVE  Together
<1> DEFINE d == run[c.run]
<1>1. PassMoves(call[i].doc, o)
  BY AdvanceDoc, IterationMoves
<1>2. InStep(call[i], d)
  BY DEF SerialInv, CallsInStep
<1>3. d.status \in Cancellable /\ (d.status = "AWAITING_CONFIRMATION" => Acting(call[i].doc))
  BY <1>2 DEF InStep
<1>4. call[i] # Idle
  BY DEF Idle
<1> HIDE DEF d
<1>5. InStep(c, d)
  <2>1. CASE c.pc = "finish"
    BY <2>1, FreeInStep DEF MindsPc, HoldsPc
  <2>2. CASE c.pc = "save" /\ c.doc.status = o.doc.status /\ c.doc.step = o.doc.step
    BY <1>1, <1>3, <2>2 DEF InStep, HoldsPc, PassMoves, Acting
  <2>3. CASE c.pc = "advance" /\ o.ends = "skip"
    BY <1>1, <1>3, <2>3 DEF InStep, HoldsPc, PassMoves
  <2>4. QED  BY <2>1, <2>2, <2>3
<1>6. InStep(c, run'[c.run])
  BY <1>5 DEF d
<1>7. QED  BY <1>4, <1>6, SoloServes DEF SerialInv, Together, RunsMove

LEMMA EngineTogether ==
    ASSUME TypeOK, Linked, SerialInv, Alone', NEW i \in Slot, EngineStep(i)
    PROVE  Together
<1>1. call[i] \in Call
  BY CallType
<1>2. CASE PlainPass(i)
  <2>1. PICK o \in Iteration(call[i].doc) :
          LET c == [call[i] EXCEPT !.doc = o.doc, !.passes = @ + 1]
          IN  \/ Serve(i, [c EXCEPT !.pc = "save"])
              \/ /\ o.ends = "skip"
                 /\ Serve(i, [c EXCEPT !.pc = IF Looping(c) THEN "advance" ELSE "finish"])
    BY <1>2 DEF PlainPass
  <2> DEFINE c == [call[i] EXCEPT !.doc = o.doc, !.passes = @ + 1]
             at == IF Looping(c) THEN "advance" ELSE "finish"
  <2>2. \A pc \in {"save", "advance", "finish"} :
           /\ [c EXCEPT !.pc = pc].pc = pc /\ [c EXCEPT !.pc = pc].run = call[i].run
           /\ [c EXCEPT !.pc = pc].doc = o.doc
    BY <1>1 DEF Call
  <2>3. at \in {"advance", "finish"}
    OBVIOUS
  <2>4. \/ Serve(i, [c EXCEPT !.pc = "save"])
        \/ o.ends = "skip" /\ Serve(i, [c EXCEPT !.pc = at])
    BY <2>1
  <2>5. call[i].pc = "advance" /\ sweep' = sweep /\ run' = run
    BY <1>2 DEF PlainPass, db
  <2> HIDE DEF at, c
  <2>6. CASE Serve(i, [c EXCEPT !.pc = "save"])
    BY <2>2, <2>5, <2>6, PassTogether
  <2>7. CASE o.ends = "skip" /\ Serve(i, [c EXCEPT !.pc = at])
    BY <2>2, <2>3, <2>5, <2>7, PassTogether
  <2>8. QED  BY <2>4, <2>6, <2>7
<1>3. CASE ThrowingPass(i) \/ Finish(i)
  <2>1. Ends(i) /\ call[i].pc \in {"advance", "finish"} /\ sweep' = sweep /\ run' = run
    BY <1>3 DEF ThrowingPass, Finish, db
  <2>2. call[i] # Idle
    BY <2>1 DEF Idle
  <2>3. QED  BY <2>1, <2>2, SoloEnds DEF SerialInv, Together, RunsMove
<1>4. CASE QueueTask(i)
  <2>1. PICK o \in Iteration(call[i].doc) :
          Serve(i, [call[i] EXCEPT !.doc = o.doc, !.passes = @ + 1, !.pc = "save"])
    BY <1>4 DEF QueueTask
  <2> DEFINE c == [call[i] EXCEPT !.doc = o.doc, !.passes = @ + 1, !.pc = "save"]
  <2>2. c.pc = "save" /\ c.run = call[i].run /\ c.doc = o.doc
    BY <1>1 DEF Call
  <2>3. call[i].pc = "advance" /\ sweep' = sweep /\ run' = run
    BY <1>4 DEF QueueTask
  <2> HIDE DEF c
  <2>4. QED  BY <2>1, <2>2, <2>3, PassTogether DEF c
<1>5. CASE RequestConfirmation(i)
  <2>1. PICK o \in Iteration(call[i].doc), k \in Conf :
          Serve(i, [call[i] EXCEPT !.doc = [o.doc EXCEPT !.pending = k],
                                   !.passes = @ + 1, !.pc = "save"])
    BY <1>5 DEF RequestConfirmation
  <2> DEFINE c == [call[i] EXCEPT !.doc = [o.doc EXCEPT !.pending = k],
                                  !.passes = @ + 1, !.pc = "save"]
  <2>2. call[i].pc = "advance" /\ sweep' = sweep /\ run' = run
    BY <1>5 DEF RequestConfirmation
  <2>3. o.doc \in RunDoc
    BY <2>2, AdvanceDoc, IterationSound DEF PassOf, Outcome
  <2>4. c.pc = "save" /\ c.run = call[i].run /\ c.doc = [o.doc EXCEPT !.pending = k]
    BY <1>1 DEF Call
  <2>5. c.doc.status = o.doc.status /\ c.doc.step = o.doc.step
    BY <2>3, <2>4 DEF RunDoc
  <2> HIDE DEF c
  <2>6. QED  BY <2>1, <2>2, <2>4, <2>5, PassTogether DEF c
<1>6. CASE SaveRun(i)
  <2> DEFINE at == IF Looping(call[i]) THEN "advance" ELSE "finish"
             c == [call[i] EXCEPT !.pc = at]
             r == call[i].run
             d == call[i].doc
  <2>1. /\ call[i].pc = "save" /\ run' = [run EXCEPT ![r] = d] /\ sweep' = sweep
        /\ Serve(i, c)
    BY <1>6 DEF SaveRun
  <2>2. c.pc = at /\ c.run = r /\ c.doc = d
    BY <1>1 DEF Call
  <2>3. at = "finish" \/ (at = "advance" /\ d.status = "RUNNING")
    BY DEF Looping
  <2>4. r \in Run
    BY <2>1, CallType DEF Linked, CallLinks, LinkedCall
  <2>5. InStep(call[i], run[r])
    BY DEF SerialInv, CallsInStep
  <2>6. run'[r] = d
    BY <2>1, <2>4 DEF TypeOK
  <2> HIDE DEF c, at, r, d
  <2>7. InStep(c, run'[c.run])
    BY <2>2, <2>3, <2>6 DEF InStep, HoldsPc, Cancellable
  <2>8. Writes(r, d)
    BY <2>1, <2>5 DEF Writes, InStep, d, Allowed, Cancellable, Waiting
  <2>9. call[i] # Idle
    BY <2>1 DEF Idle
  <2>10. QED  BY <2>1, <2>4, <2>7, <2>8, <2>9, SoloServes DEF SerialInv, Together, RunsMove
<1>7. QED  BY <1>2, <1>3, <1>4, <1>5, <1>6 DEF EngineStep

LEMMA AgentCallTogether ==
    ASSUME TypeOK, Linked, SerialInv, Alone', NEW i \in Slot, AgentCallStep(i)
    PROVE  Together
<1>1. call[i] \in Call
  BY CallType
<1>2. call[i].pc \in {"claim_run", "claim_lease", "claim_task", "claim_save", "record_run",
                      "record_save", "result_task", "result_run", "verify"}
  BY DEF AgentCallStep, ClaimReadsRun, ClaimTakesLease, ClaimStoresTask, ClaimSavesRun,
     RecordReadsRun, RecordSavesRun, ResultReadsTask, ResultReadsRun, OperatorResumes,
     ConsumesGrant
<1>3. call[i] # Idle /\ call[i].run \in Run
  BY <1>2, CallType DEF Idle, Linked, CallLinks, LinkedCall
<1>4. sweep' = sweep
  BY DEF AgentCallStep, ClaimReadsRun, ClaimTakesLease, ClaimStoresTask, ClaimSavesRun,
     RecordReadsRun, RecordSavesRun, ResultReadsTask, ResultReadsRun, OperatorResumes,
     ConsumesGrant
<1>5. call[i].pc \in HoldsPc => call[i].doc = run[call[i].run]
  BY DEF SerialInv, CallsInStep, InStep
<1>6. ASSUME call[i].pc \in HoldsPc, run' = [run EXCEPT ![call[i].run] = call[i].doc]
      PROVE  run' = run
  <2>1. run' = [run EXCEPT ![call[i].run] = run[call[i].run]]
    BY <1>5, <1>6
  <2>2. QED  BY <1>3, <2>1 DEF TypeOK
<1>7. run' = run
  <2>1. CASE ClaimSavesRun(i)
    BY <1>6, <2>1 DEF ClaimSavesRun, HoldsPc
  <2>2. CASE RecordSavesRun(i)
    BY <1>6, <2>2 DEF RecordSavesRun, HoldsPc
  <2>3. CASE ~ClaimSavesRun(i) /\ ~RecordSavesRun(i)
    BY <2>3 DEF AgentCallStep, ClaimReadsRun, ClaimTakesLease, ClaimStoresTask,
       RecordReadsRun, ResultReadsTask, ResultReadsRun, OperatorResumes, ConsumesGrant, db
  <2>4. QED  BY <2>1, <2>2, <2>3
<1>8. CASE Ends(i)
  BY <1>3, <1>4, <1>7, <1>8, SoloEnds DEF SerialInv, Together, RunsMove
<1>9. ASSUME NEW c, Serve(i, c), c.pc \notin MindsPc \/ (c.pc \in HoldsPc /\ c.doc = run[c.run])
      PROVE  Together
  <2>1. InStep(c, run[c.run])
    BY <1>9, FreeInStep DEF InStep, HoldsPc
  <2>2. QED  BY <1>3, <1>4, <1>7, <1>9, <2>1, SoloServes DEF SerialInv, Together, RunsMove
<1>10. ASSUME ~Ends(i), ClaimReadsRun(i) PROVE Together
  <2> DEFINE c == [call[i] EXCEPT !.pc = "claim_lease", !.doc = run[call[i].run]]
  <2>1. Serve(i, c)
    BY <1>10 DEF ClaimReadsRun
  <2>2. c.pc = "claim_lease" /\ c.doc = run[c.run]
    BY <1>1 DEF Call
  <2> HIDE DEF c
  <2>3. QED  BY <1>9, <2>1, <2>2 DEF HoldsPc
<1>11. ASSUME ~Ends(i), ClaimTakesLease(i) PROVE Together
  <2> DEFINE c == [call[i] EXCEPT !.pc = "claim_task", !.until = now + LeaseTicks]
  <2>1. Serve(i, c) /\ call[i].pc = "claim_lease"
    BY <1>11 DEF ClaimTakesLease
  <2>2. c.pc = "claim_task" /\ c.doc = call[i].doc /\ c.run = call[i].run
    BY <1>1 DEF Call
  <2> HIDE DEF c
  <2>3. QED  BY <1>5, <1>9, <2>1, <2>2 DEF HoldsPc
<1>12. ASSUME ClaimStoresTask(i) PROVE Together
  <2>1. PICK g \in Grant : Serve(i, [call[i] EXCEPT !.pc = "claim_save", !.grant = g])
    BY <1>12 DEF ClaimStoresTask
  <2> DEFINE c == [call[i] EXCEPT !.pc = "claim_save", !.grant = g]
  <2>2. Serve(i, c) /\ call[i].pc = "claim_task"
    BY <1>12, <2>1 DEF ClaimStoresTask
  <2>3. c.pc = "claim_save" /\ c.doc = call[i].doc /\ c.run = call[i].run
    BY <1>1 DEF Call
  <2> HIDE DEF c
  <2>4. QED  BY <1>5, <1>9, <2>2, <2>3 DEF HoldsPc
<1>13. ASSUME ClaimSavesRun(i) PROVE Together
  <2>1. Serve(i, Idle) /\ Idle.pc \notin MindsPc
    BY <1>13 DEF ClaimSavesRun, Idle, MindsPc, HoldsPc
  <2>2. QED  BY <1>9, <2>1
<1>14. ASSUME RecordReadsRun(i) PROVE Together
  <2> DEFINE c == [call[i] EXCEPT !.pc = "record_save", !.doc = run[call[i].run]]
  <2>1. Serve(i, c)
    BY <1>14 DEF RecordReadsRun
  <2>2. c.pc = "record_save" /\ c.doc = run[c.run]
    BY <1>1 DEF Call
  <2> HIDE DEF c
  <2>3. QED  BY <1>9, <2>1, <2>2 DEF HoldsPc
<1>15. ASSUME ~Ends(i), ResultReadsTask(i) PROVE Together
  <2>1. Serve(i, [call[i] EXCEPT !.pc = "result_run"])
    BY <1>15 DEF ResultReadsTask
  <2>2. [call[i] EXCEPT !.pc = "result_run"].pc \notin MindsPc
    BY <1>1 DEF Call, MindsPc, HoldsPc
  <2>3. QED  BY <1>9, <2>1, <2>2
<1>16. ASSUME ~Ends(i), ResultReadsRun(i) PROVE Together
  <2> DEFINE c == [call[i] EXCEPT !.pc = "verify", !.doc = run[call[i].run]]
  <2>1. Serve(i, c)
    BY <1>16 DEF ResultReadsRun
  <2>2. c.pc = "verify" /\ c.doc = run[c.run]
    BY <1>1 DEF Call
  <2> HIDE DEF c
  <2>3. QED  BY <1>9, <2>1, <2>2 DEF HoldsPc
<1>17. ASSUME ~Ends(i), OperatorResumes(i) \/ ConsumesGrant(i) PROVE Together
  <2>1. ResumeFromAgent(i) /\ call[i].pc = "verify"
    BY <1>17 DEF OperatorResumes, ConsumesGrant
  <2>2. PICK claimed \in BOOLEAN, holds \in BOOLEAN :
          Serve(i, Advancing(call[i], AfterAgent(call[i].doc, claimed, holds)))
    BY <2>1 DEF ResumeFromAgent
  <2>3. call[i].doc = run[call[i].run] /\ call[i].doc.status = "WAITING_AGENT"
    BY <1>5, <2>1 DEF HoldsPc, Linked, CallLinks, LinkedCall
  <2>4. call[i].doc \in RunDoc /\ call[i].doc.step \in Step
    BY <2>3, CallType DEF NoDoc, RunDoc, Waiting
  <2>5. AfterAgent(call[i].doc, claimed, holds).status \in {"RUNNING", "FAILED"}
    BY <2>4, ResumeSound
  <2>6. run'[call[i].run].status = "WAITING_AGENT"
    BY <1>7, <2>3
  <2> DEFINE d == AfterAgent(call[i].doc, claimed, holds)
  <2> HIDE DEF d
  <2>7. Serve(i, Advancing(call[i], d)) /\ d.status \in {"RUNNING", "FAILED"}
    BY <2>2, <2>5 DEF d
  <2>8. CallsInStep' /\ SweepsInStep'
    BY <1>1, <1>4, <2>6, <2>7, ResumesTogether DEF SerialInv, Cancellable, Waiting
  <2>9. QED  BY <1>7, <2>8 DEF Together, RunsMove
<1>18. ASSUME ~Ends(i) PROVE ~RecordSavesRun(i)
  BY <1>18 DEF RecordSavesRun
<1>19. QED  BY <1>8, <1>10, <1>11, <1>12, <1>13, <1>14, <1>15, <1>16, <1>17, <1>18 DEF AgentCallStep

LEMMA CancelTogether ==
    ASSUME TypeOK, Linked, SerialInv, Alone', NEW i \in Slot, CancelStep(i)
    PROVE  Together
<1>1. call[i] \in Call
  BY CallType
<1>2. /\ call[i].pc \in {"cancel_save", "cancel_scan", "cancel_items"}
      /\ sweep' = sweep
  BY DEF CancelStep, CancelSavesRun, CancelScans, CancelClosesTask, CancelClosesConf,
     CancelReturns
<1>3. call[i] # Idle /\ call[i].run \in Run
  BY <1>2, CallType DEF Idle, Linked, CallLinks, LinkedCall
<1>4. ASSUME NEW c, Serve(i, c), c.pc \notin MindsPc
      PROVE  CallsInStep' /\ SweepsInStep'
  BY <1>2, <1>3, <1>4, SoloServesFree DEF SerialInv
<1>5. CallsInStep' /\ SweepsInStep'
  <2>1. CASE CancelSavesRun(i)
    <3>1. [call[i] EXCEPT !.pc = "cancel_scan"].pc \notin MindsPc
      BY <1>1 DEF Call, MindsPc, HoldsPc
    <3>2. QED  BY <1>4, <2>1, <3>1 DEF CancelSavesRun
  <2>2. CASE CancelScans(i)
    <3>1. \A ts, ks : [call[i] EXCEPT !.pc = "cancel_items", !.tasks = ts, !.confs = ks].pc \notin MindsPc
      BY <1>1 DEF Call, MindsPc, HoldsPc
    <3>2. \E ts, ks : Serve(i, [call[i] EXCEPT !.pc = "cancel_items", !.tasks = ts, !.confs = ks])
      BY <2>2 DEF CancelScans
    <3>3. QED  BY <1>4, <3>1, <3>2
  <2>3. CASE CancelClosesTask(i) \/ CancelClosesConf(i)
    <3>1. call[i].pc = "cancel_items"
      BY <2>3 DEF CancelClosesTask, CancelClosesConf
    <3>2. \A ts : /\ [call[i] EXCEPT !.tasks = ts].pc \notin MindsPc
                  /\ [call[i] EXCEPT !.confs = ts].pc \notin MindsPc
      BY <1>1, <3>1 DEF Call, MindsPc, HoldsPc
    <3>3. CASE CancelClosesTask(i)
      <4>1. PICK t \in call[i].tasks : Serve(i, [call[i] EXCEPT !.tasks = call[i].tasks \ {t}])
        BY <3>3 DEF CancelClosesTask
      <4>2. QED  BY <1>4, <3>2, <4>1
    <3>4. CASE CancelClosesConf(i)
      <4>1. PICK k \in call[i].confs : Serve(i, [call[i] EXCEPT !.confs = call[i].confs \ {k}])
        BY <3>4 DEF CancelClosesConf
      <4>2. QED  BY <1>4, <3>2, <4>1
    <3>5. QED  BY <2>3, <3>3, <3>4
  <2>4. CASE CancelReturns(i)
    BY <1>2, <1>3, <2>4, SoloEnds DEF CancelReturns, SerialInv
  <2>5. QED  BY <2>1, <2>2, <2>3, <2>4 DEF CancelStep
<1>6. RunsMove
  <2>1. CASE CancelSavesRun(i)
    <3>1. /\ run' = [run EXCEPT ![call[i].run] = call[i].doc]
          /\ call[i].pc = "cancel_save"
      BY <2>1 DEF CancelSavesRun
    <3>2. call[i].doc.status = "CANCELLED" /\ run[call[i].run].status \in Cancellable
      BY <3>1 DEF SerialInv, CallsInStep, InStep
    <3>3. Writes(call[i].run, call[i].doc)
      BY <3>1, <3>2 DEF Writes, Allowed
    <3>4. QED  BY <1>3, <3>3 DEF RunsMove
  <2>2. CASE ~CancelSavesRun(i)
    <3>1. run' = run
      BY <2>2 DEF CancelStep, CancelScans, CancelClosesTask, CancelClosesConf, CancelReturns, db
    <3>2. QED  BY <3>1 DEF RunsMove
  <2>3. QED  BY <2>1, <2>2
<1>7. QED  BY <1>5, <1>6 DEF Together

LEMMA SweepTogether ==
    ASSUME TypeOK, SerialInv, Alone', NEW w \in Sweeper, SweeperStep(w) \/ SweepDies(w)
    PROVE  Together
<1> DEFINE s == sweep[w]
<1>1. s \in Sweep /\ Resting.pc = "idle"
  BY DEF TypeOK, Resting
<1>2. ASSUME NEW x, SweepStep(w, x)
      PROVE  /\ \A v \in Sweeper : v # w => sweep'[v] = sweep[v]
             /\ sweep'[w] = Resting \/ sweep'[w] = x
  BY <1>2 DEF SweepStep, TypeOK
<1>3. ASSUME NEW x, SweepStep(w, x), x.pc # "runs", call' = call, run' = run
      PROVE  Together
  <2>1. \A v \in Sweeper : sweep'[v].pc = "runs" => v # w /\ sweep'[v] = sweep[v]
    BY <1>1, <1>2, <1>3
  <2>2. SweepsInStep'
    BY <1>3, <2>1 DEF SerialInv, SweepsInStep, SweepInStep
  <2>3. QED  BY <1>3, <2>2 DEF SerialInv, CallsInStep, Together, RunsMove
<1>4. CASE SweepScans(w)
  <2>1. \E f, t, c, r : SweepStep(w, [Resting EXCEPT !.pc = "items", !.release = f, !.tasks = t,
                                                     !.confs = c, !.runs = r])
    BY <1>4 DEF SweepScans
  <2>2. \A f, t, c, r : [Resting EXCEPT !.pc = "items", !.release = f, !.tasks = t,
                                        !.confs = c, !.runs = r].pc # "runs"
    BY DEF Resting
  <2>3. call' = call /\ run' = run
    BY <1>4 DEF SweepScans, db
  <2>4. QED  BY <1>3, <2>1, <2>2, <2>3
<1>5. CASE SweepReleases(w) \/ SweepExpiresTask(w) \/ SweepExpiresConf(w)
  <2>1. s.pc = "items" /\ call' = call /\ run' = run
    BY <1>5 DEF SweepReleases, SweepExpiresTask, SweepExpiresConf
  <2>2. \A x : /\ [s EXCEPT !.release = x].pc # "runs" /\ [s EXCEPT !.tasks = x].pc # "runs"
               /\ [s EXCEPT !.confs = x].pc # "runs"
    BY <1>1, <2>1 DEF Sweep
  <2>3. \E x : \/ SweepStep(w, [s EXCEPT !.release = x]) \/ SweepStep(w, [s EXCEPT !.tasks = x])
               \/ SweepStep(w, [s EXCEPT !.confs = x])
    <3>1. CASE SweepReleases(w)
      <4>1. PICK t \in s.release : SweepStep(w, [s EXCEPT !.release = s.release \ {t}])
        BY <3>1 DEF SweepReleases
      <4>2. QED  BY <4>1
    <3>2. CASE SweepExpiresTask(w)
      <4>1. PICK t \in s.tasks : SweepStep(w, [s EXCEPT !.tasks = s.tasks \ {t}])
        BY <3>2 DEF SweepExpiresTask
      <4>2. QED  BY <4>1
    <3>3. CASE SweepExpiresConf(w)
      <4>1. PICK k \in s.confs : SweepStep(w, [s EXCEPT !.confs = s.confs \ {k}])
        BY <3>3 DEF SweepExpiresConf
      <4>2. QED  BY <4>1
    <3>4. QED  BY <1>5, <3>1, <3>2, <3>3
  <2> HIDE DEF s
  <2>4. QED  BY <1>3, <2>1, <2>2, <2>3
<1>6. CASE SweepReadsRuns(w)
  <2> DEFINE late == {r \in s.runs : run[r].status \in {"WAITING_AGENT", "AWAITING_CONFIRMATION"}}
             x == [s EXCEPT !.pc = "runs", !.docs = run, !.runs = late]
  <2>1. SweepStep(w, x) /\ call' = call /\ run' = run
    BY <1>6 DEF SweepReadsRuns, db
  <2>2. x.docs = run /\ x.runs = late
    BY <1>1 DEF Sweep
  <2>3. \A r \in x.runs : x.docs[r] = run[r]
                          /\ run[r].status \in {"WAITING_AGENT", "AWAITING_CONFIRMATION"}
    BY <2>2
  <2> HIDE DEF x
  <2>4. \A v \in Sweeper : sweep'[v].pc = "runs" => sweep'[v] = sweep[v] \/ sweep'[v] = x
    BY <1>1, <1>2, <2>1
  <2>5. SweepsInStep'
    BY <2>1, <2>3, <2>4 DEF SerialInv, SweepsInStep, SweepInStep
  <2>6. QED  BY <2>1, <2>5 DEF SerialInv, CallsInStep, Together, RunsMove
<1>7. CASE SweepTimesOut(w)
  <2>1. PICK r \in s.runs : /\ run' = [run EXCEPT ![r] = AfterTimeout(s.docs[r])]
                            /\ SweepStep(w, [s EXCEPT !.runs = s.runs \ {r}])
    BY <1>7 DEF SweepTimesOut
  <2>2. s.pc = "runs" /\ call' = call
    BY <1>7 DEF SweepTimesOut
  <2>3. sweep[w] # Resting
    BY <2>2, <1>1
  <2>4. /\ \A i \in Slot : call[i] = Idle
        /\ \A v \in Sweeper : v # w => sweep[v] = Resting
    BY <2>3 DEF SerialInv, Alone
  <2>5. CallsInStep'
    BY <2>2, <2>4, IdleInStep DEF CallsInStep
  <2>6. \A q \in s.runs : s.docs[q] = run[q]
                          /\ run[q].status \in {"WAITING_AGENT", "AWAITING_CONFIRMATION"}
    BY <2>2 DEF SerialInv, SweepsInStep, SweepInStep
  <2>7. r \in Run
    BY <1>1, <2>1 DEF Sweep
  <2>8. \A q \in s.runs \ {r} : run'[q] = run[q]
    BY <1>1, <2>1 DEF TypeOK, Sweep
  <2> DEFINE x == [s EXCEPT !.runs = s.runs \ {r}]
  <2>9. x.runs = s.runs \ {r} /\ x.docs = s.docs
    BY <1>1 DEF Sweep
  <2> HIDE DEF x
  <2>10. \A v \in Sweeper : sweep'[v].pc = "runs" => sweep'[v] = x
    BY <1>1, <1>2, <2>1, <2>4 DEF x
  <2>11. SweepsInStep'
    BY <2>6, <2>8, <2>9, <2>10 DEF SweepsInStep, SweepInStep
  <2>12. run[r] \in RunDoc
    BY <2>1, <2>6, <2>7 DEF TypeOK, NoDoc
  <2>13. AfterTimeout(run[r]).status = "TIMED_OUT"
    BY <2>12, StopSound
  <2>14. Writes(r, AfterTimeout(run[r]))
    BY <2>1, <2>6, <2>13 DEF Writes, Allowed
  <2>15. QED  BY <2>5, <2>7, <2>11, <2>14 DEF Together, RunsMove
<1>8. CASE SweepDies(w)
  <2>1. SweepStep(w, Resting) /\ call' = call /\ run' = run
    BY <1>8 DEF SweepDies, SweepStep, db
  <2>2. QED  BY <1>1, <1>3, <2>1
<1>9. QED  BY <1>4, <1>5, <1>6, <1>7, <1>8 DEF SweeperStep

LEMMA SerialStep ==
    ASSUME TypeOK, Linked, SerialInv, Alone', [Next]_vars
    PROVE  SerialInv' /\ RunsMove
<1>1. ASSUME NEW i \in Slot, CallStep(i) PROVE Together
  BY <1>1, EngineTogether, AgentCallTogether, CancelTogether DEF CallStep
<1>2. ASSUME NEW i \in Slot, CallDies(i) PROVE Together
  <2>1. Ends(i) /\ call[i] # Idle /\ sweep' = sweep /\ run' = run
    BY <1>2 DEF CallDies, db
  <2>2. QED  BY <2>1, SoloEnds DEF SerialInv, Together, RunsMove
<1>3. ASSUME \/ Tick \/ UNCHANGED vars
             \/ \E a \in Agent : AgentActs(a) \/ ReplyLost(a) \/ AgentDies(a)
      PROVE  Together
  <2>1. call' = call /\ sweep' = sweep /\ run' = run
    BY <1>3 DEF Tick, vars, AgentActs, ReplyLost, AgentDies, db
  <2>2. QED  BY <2>1, StillInStep DEF SerialInv, Together
<1>4. Together
  BY <1>1, <1>2, <1>3, RequestTogether, SweepTogether DEF Next, Work
<1>5. GatesAct'
  <2>1. CASE run' = run
    BY <2>1 DEF SerialInv, GatesAct
  <2>2. ASSUME NEW r \in Run, NEW d, Writes(r, d) PROVE GatesAct'
    <3>1. run'[r] = d /\ \A q \in Run : q # r => run'[q] = run[q]
      BY <2>2 DEF Writes, TypeOK
    <3>2. QED  BY <2>2, <3>1 DEF Writes, SerialInv, GatesAct
  <2>3. QED  BY <1>4, <2>1, <2>2 DEF Together, RunsMove
<1>6. QED  BY <1>4, <1>5 DEF Together, SerialInv

(* A permitted write is a step of the run's life.                          *)
LEMMA WritesAreLife ==
    ASSUME TypeOK, NEW r \in Run, NEW d, Writes(r, d)
    PROVE  [Life!Next]_([q \in Run |-> run[q].status])
<1> DEFINE was == [q \in Run |-> run[q].status]
           is  == [q \in Run |-> run'[q].status]
<1>1. was[r] = run[r].status /\ is = [was EXCEPT ![r] = d.status]
  BY DEF Writes, TypeOK
<1>2. CASE run[r].status = d.status
  <2>1. is = was
    BY <1>1, <1>2
  <2>2. QED  BY <2>1
<1>3. CASE run[r].status # d.status
  <2>1. ASSUME NEW from, NEW to, run[r].status \in from, d.status \in to
        PROVE  Life!Move(r, from, to)
    BY <1>1, <2>1 DEF Life!Move
  <2>2. Allowed(run[r].status, d.status)
    BY DEF Writes
  <2>3. \/ Life!Start(r) \/ Life!Park(r) \/ Life!Resume(r) \/ Life!Complete(r)
        \/ Life!FailRun(r) \/ Life!CancelRun(r) \/ Life!TimeOut(r)
    BY <1>3, <2>1, <2>2 DEF Allowed, Life!Start, Life!Park, Life!Resume, Life!Complete,
       Life!FailRun, Life!CancelRun, Life!TimeOut, Life!Live, Life!Parked, Cancellable, Waiting
  <2>4. QED  BY <2>3 DEF Life!Next
<1>4. QED  BY <1>2, <1>3

(* While invocations do not overlap, the control plane implements the life *)
(* of a run: every write of a run is a step of RunLifecycle, or changes no *)
(* status.  Only finitely many invocations and sweeps run at once.         *)
THEOREM SerialRunsHaveALife ==
    ASSUME IsFiniteSet(Slot), IsFiniteSet(Sweeper)
    PROVE  SerialSpec => LifecycleRefined
<1>1. Init => SerialInv
  BY IdleInStep DEF Init, SerialInv, Alone, CallsInStep, SweepsInStep, SweepInStep, GatesAct,
     NoDoc, Resting
<1>2. TypeOK /\ Linked /\ SerialInv /\ [Next /\ Serial]_vars => SerialInv' /\ RunsMove
  <2>1. CASE Next /\ Serial
    BY <2>1, SerialMeansAlone, SerialStep
  <2>2. CASE UNCHANGED vars
    <3>1. SerialInv => Alone'
      BY <2>2 DEF vars, Alone, SerialInv
    <3>2. QED  BY <2>2, <3>1, SerialStep
  <2>3. QED  BY <2>1, <2>2
<1>3. Init => Life!Init
  BY DEF Init, Life!Init, NoDoc
<1>4. TypeOK /\ RunsMove => [Life!Next]_([r \in Run |-> run[r].status])
  <2> SUFFICES ASSUME TypeOK, RunsMove
               PROVE  [Life!Next]_([r \in Run |-> run[r].status])
    OBVIOUS
  <2>1. CASE run' = run
    BY <2>1
  <2>2. QED  BY <2>1, WritesAreLife DEF RunsMove
<1>5. [Next /\ Serial]_vars => [Next]_vars
  OBVIOUS
<1>6. QED  BY <1>1, <1>2, <1>3, <1>4, <1>5, TypeCorrect, PTL
           DEF Spec, SerialSpec, LifecycleRefined, Life!Spec
=============================================================================
