-------------------------- MODULE ControlPlaneTypes --------------------------
(* What the engine's passes may do; type correctness of ControlPlane, and  *)
(* its records: they are never deleted and never change run, step or       *)
(* deadline, and so whatever a call, a sweep or an agent refers to stays   *)
(* there (Linked).  An action is typed only because the references it      *)
(* follows resolve: a call past its claim has a task, an agent that acts   *)
(* has a grant.                                                            *)
EXTENDS ControlPlaneInvariant, TLAPS

(***************************************************************************)
(* The engine: what one pass of advance() and the resume methods can make  *)
(* of a run document, for every workflow graph the schema allows.          *)
(***************************************************************************)
USE GraphAssumption

(* The fields of a step definition. *)
LEMMA StepFields ==
    ASSUME NEW s \in Step
    PROVE  /\ Flow[s] \in StepDef
           /\ Flow[s].next \in Step \cup {NoStep}
           /\ Flow[s].otherwise \in Step \cup {NoStep}
BY DEF StepDef

(* Going to a step makes a RUNNING document.                               *)
LEMMA GotoType ==
    ASSUME NEW d \in RunDoc, NEW s \in Step \cup {NoStep}
    PROVE  /\ Goto(d, s) \in RunDoc
           /\ Goto(d, s).status = "RUNNING"
           /\ Goto(d, s).confirmed = d.confirmed
BY DEF Goto, RunDoc, RunStatus, Cancellable, Waiting

(* Failing makes a FAILED document.                                        *)
LEMMA FailType ==
    ASSUME NEW d \in RunDoc
    PROVE  /\ Fail(d) \in RunDoc
           /\ Fail(d).status = "FAILED"
           /\ Fail(d).confirmed = d.confirmed
BY DEF Fail, RunDoc, RunStatus, Cancellable, Waiting, Terminal

(* What an outcome o of a pass over d promises the handlers: it forgets no *)
(* confirmation, it waits for an agent or a confirmation only with the     *)
(* record that goes with it, and a protected step is handed to an agent    *)
(* only when it is confirmed.                                              *)
PassOf(d, o) ==
    /\ o \in Outcome
    /\ o.doc.confirmed = d.confirmed
    /\ o.dispatch = "none" =>
          o.doc.status \notin {"WAITING_AGENT", "AWAITING_CONFIRMATION", "TIMED_OUT"}
    /\ o.dispatch = "task" =>
          /\ o.doc.status = "WAITING_AGENT" /\ o.doc.step \in Step
          /\ Flow[o.doc.step].gated => o.doc.step \in d.confirmed
    /\ o.dispatch = "confirmation" =>
          o.doc.status = "AWAITING_CONFIRMATION" /\ o.doc.step \in Step
    /\ o.ends = "skip" => o.doc.status = "RUNNING"

(* A pass that keeps the confirmations and does not wait is sound.         *)
LEMMA QuietPass ==
    ASSUME NEW d \in RunDoc, NEW e \in RunDoc, e.confirmed = d.confirmed,
           e.status \notin {"WAITING_AGENT", "AWAITING_CONFIRMATION", "TIMED_OUT"},
           NEW did \in BOOLEAN, NEW how \in {"save", "skip", "throw"},
           how = "skip" => e.status = "RUNNING"
    PROVE  PassOf(d, Pass(e, "none", did, how))
BY DEF PassOf, Pass, Outcome

(* Queueing a task is sound once the gate is passed.                       *)
LEMMA QueuePass ==
    ASSUME NEW d \in RunDoc, d.step \in Step, ~NeedsConfirmation(d),
           Flow[d.step].type = "action"
    PROVE  PassOf(d, QueueConnectedTask(d))
<1>1. [d EXCEPT !.status = "WAITING_AGENT"] \in RunDoc
  BY DEF RunDoc, RunStatus, Cancellable, Waiting
<1>2. QED  BY <1>1 DEF PassOf, Pass, Outcome, QueueConnectedTask, NeedsConfirmation, RunDoc

(* Stopping at the gate is sound.                                          *)
LEMMA ConfirmationPass ==
    ASSUME NEW d \in RunDoc, d.step \in Step
    PROVE  PassOf(d, AwaitConfirmation(d))
<1>1. [d EXCEPT !.status = "AWAITING_CONFIRMATION"] \in RunDoc
  BY DEF RunDoc, RunStatus, Cancellable, Waiting
<1>2. QED  BY <1>1 DEF PassOf, Pass, Outcome, AwaitConfirmation, RunDoc

(* Every outcome of a managed attempt is sound.                            *)
LEMMA ManagedPass ==
    ASSUME NEW d \in RunDoc, d.status = "RUNNING", d.step \in Step,
           ~NeedsConfirmation(d), Flow[d.step].type = "action",
           NEW o \in ManagedPasses(d)
    PROVE  PassOf(d, o)
<1> DEFINE s == Flow[d.step]
           f == GotoOrFail(d, s.otherwise)
<1>1. /\ Goto(d, s.next) \in RunDoc /\ Goto(d, s.next).status = "RUNNING"
      /\ Goto(d, s.next).confirmed = d.confirmed
  BY StepFields, GotoType
<1>2. f \in RunDoc /\ f.status \in {"RUNNING", "FAILED"} /\ f.confirmed = d.confirmed
  BY StepFields, GotoType, FailType DEF GotoOrFail
<1>3. PassOf(d, Pass(Goto(d, s.next), "none", TRUE, "save"))
  BY <1>1, QuietPass
<1>4. \A did \in BOOLEAN : PassOf(d, Pass(f, "none", did, "save"))
  <2> HIDE DEF f
  <2> QED  BY <1>2, QuietPass
<1>5. \A did \in BOOLEAN : PassOf(d, Pass(d, "none", did, "throw"))
  BY QuietPass
<1>6. PassOf(d, QueueConnectedTask(d))
  BY QueuePass
<1>7. \/ o = Pass(Goto(d, s.next), "none", TRUE, "save")
      \/ o = Pass(f, "none", TRUE, "save") \/ o = Pass(f, "none", FALSE, "save")
      \/ o = Pass(d, "none", TRUE, "throw") \/ o = Pass(d, "none", FALSE, "throw")
      \/ o = QueueConnectedTask(d)
  BY DEF ManagedPasses, Thrown
<1>8. QED  BY <1>3, <1>4, <1>5, <1>6, <1>7

(* Every pass over a running document keeps those promises, whatever the   *)
(* workflow and whatever the managed executor or the AI provider returns.  *)
THEOREM IterationSound ==
    ASSUME NEW d \in RunDoc, d.status = "RUNNING", NEW o \in Iteration(d)
    PROVE  PassOf(d, o)
<1> DEFINE s == Flow[d.step]
<1>1. d.step \in Step \cup {NoStep}
  BY DEF RunDoc
<1>2. CASE d.step = NoStep
  <2>1. o = Pass(d, "none", FALSE, "throw")
    BY <1>2 DEF Iteration, Thrown
  <2>2. QED  BY <2>1, QuietPass
<1>3. CASE d.step \in Step /\ NeedsConfirmation(d)
  <2>1. o = AwaitConfirmation(d)
    BY <1>3 DEF Iteration
  <2>2. QED  BY <1>3, <2>1, ConfirmationPass
<1>4. CASE d.step \in Step /\ ~NeedsConfirmation(d)
  <2>0. d.step # NoStep
    BY <1>4
  <2>1. \A e \in {s.next, s.otherwise} :
          Goto(d, e) \in RunDoc /\ Goto(d, e).status = "RUNNING"
            /\ Goto(d, e).confirmed = d.confirmed
    BY <1>4, StepFields, GotoType
  <2>2. \A e \in {s.next, s.otherwise} :
          /\ PassOf(d, Saved(Goto(d, e)))
          /\ PassOf(d, Pass(Goto(d, e), "none", FALSE, "skip"))
    BY <2>1, QuietPass DEF Saved
  <2>3. PassOf(d, Saved(Fail(d)))
    BY FailType, QuietPass DEF Saved
  <2>4. CASE s.type = "ai"
    <3>1. o \in AiPasses(d)
      BY <1>4, <2>0, <2>4 DEF Iteration
    <3>2. QED  BY <3>1, <2>2, <2>3 DEF AiPasses
  <2>5. CASE s.type \in {"condition", "verify"}
    <3>1. o \in BranchPasses(d)
      BY <1>4, <2>0, <2>5 DEF Iteration
    <3>2. QED  BY <3>1, <2>2 DEF BranchPasses
  <2>6. CASE s.type = "approval"
    <3> DEFINE e == [d EXCEPT !.status = "WAITING_APPROVAL"]
    <3>1. o = Saved(e)
      BY <1>4, <2>0, <2>6 DEF Iteration
    <3>2. e \in RunDoc /\ e.confirmed = d.confirmed /\ e.status = "WAITING_APPROVAL"
      BY <1>4 DEF RunDoc, RunStatus, Cancellable, Waiting
    <3> HIDE DEF e
    <3>3. QED  BY <3>1, <3>2, QuietPass DEF Saved
  <2>7. CASE s.type = "action"
    <3>1. o \in ActionPasses(d)
      BY <1>4, <2>0, <2>7 DEF Iteration
    <3>2. CASE s.route = "mock"
      BY <3>1, <3>2, <2>2 DEF ActionPasses
    <3>3. CASE s.route = "connected"
      BY <1>4, <2>7, <3>1, <3>3, QueuePass DEF ActionPasses
    <3>4. CASE s.route \notin {"mock", "connected"}
      BY <1>4, <2>7, <3>1, <3>4, ManagedPass DEF ActionPasses
    <3>5. QED  BY <3>2, <3>3, <3>4
  <2>8. CASE s.type \notin {"ai", "condition", "verify", "approval", "action"}
    <3> DEFINE e == [d EXCEPT !.status = IF s.success THEN "COMPLETED" ELSE "FAILED",
                              !.step = NoStep]
    <3>1. o = Saved(e)
      BY <1>4, <2>0, <2>8 DEF Iteration, EndPass
    <3>2. e \in RunDoc /\ e.confirmed = d.confirmed /\ e.status \in {"COMPLETED", "FAILED"}
      BY DEF RunDoc, RunStatus, Cancellable, Waiting, Terminal
    <3> HIDE DEF e
    <3>3. QED  BY <3>1, <3>2, QuietPass DEF Saved
  <2>9. QED  BY <2>4, <2>5, <2>6, <2>7, <2>8
<1>5. QED  BY <1>1, <1>2, <1>3, <1>4

(* The resume methods turn a run that waits at a step into a document      *)
(* advance() can take, or one already failed; none adds a confirmation     *)
(* but AfterConfirmation, and that one only for the step it waited on.     *)
LEMMA ResumeSound ==
    ASSUME NEW d \in RunDoc, d.step \in Step, NEW b \in BOOLEAN, NEW h \in BOOLEAN
    PROVE  /\ AfterAgent(d, b, h) \in RunDoc
           /\ AfterAgent(d, b, h).status \in {"RUNNING", "FAILED"}
           /\ AfterAgent(d, b, h).confirmed = d.confirmed
           /\ AfterApproval(d, b) \in RunDoc
           /\ AfterApproval(d, b).status = "RUNNING"
           /\ AfterApproval(d, b).confirmed = d.confirmed
           /\ AfterConfirmation(d) \in RunDoc
           /\ AfterConfirmation(d).status = "RUNNING"
           /\ AfterConfirmation(d).confirmed = d.confirmed \cup {d.step}
<1>1. /\ AfterAgent(d, b, h) \in RunDoc
      /\ AfterAgent(d, b, h).status \in {"RUNNING", "FAILED"}
      /\ AfterAgent(d, b, h).confirmed = d.confirmed
  BY StepFields, GotoType, FailType DEF AfterAgent, GotoOrFail
<1>2. /\ AfterApproval(d, b) \in RunDoc
      /\ AfterApproval(d, b).status = "RUNNING"
      /\ AfterApproval(d, b).confirmed = d.confirmed
  BY StepFields, GotoType DEF AfterApproval
<1>3. /\ AfterConfirmation(d) \in RunDoc
      /\ AfterConfirmation(d).status = "RUNNING"
      /\ AfterConfirmation(d).confirmed = d.confirmed \cup {d.step}
  BY DEF AfterConfirmation, RunDoc, RunStatus, Cancellable, Waiting
<1>4. QED  BY <1>1, <1>2, <1>3

(* cancel() and timeout() keep the confirmations.                          *)
LEMMA StopSound ==
    ASSUME NEW d \in RunDoc
    PROVE  /\ AfterCancel(d) \in RunDoc
           /\ AfterCancel(d).status = "CANCELLED"
           /\ AfterCancel(d).confirmed = d.confirmed
           /\ AfterTimeout(d) \in RunDoc
           /\ AfterTimeout(d).status = "TIMED_OUT"
           /\ AfterTimeout(d).confirmed = d.confirmed
BY DEF AfterCancel, AfterTimeout, RunDoc, RunStatus, Cancellable, Waiting, Terminal

(* Where a pass may take a run.  It times nothing out and cancels nothing; *)
(* it asks for confirmation only at an action; and a pass over an action   *)
(* neither completes the run nor returns to the loop without saving it.    *)
Acting(d) == d.step \in Step /\ Flow[d.step].type = "action"

PassMoves(d, o) ==
    /\ o.doc.status \in Cancellable \cup {"COMPLETED", "FAILED"}
    /\ o.doc.status = "AWAITING_CONFIRMATION" => Acting(o.doc)
    /\ Acting(d) => o.ends # "skip" /\ o.doc.status # "COMPLETED"

LEMMA RunningPass ==
    ASSUME NEW d, NEW e, e.status \in {"RUNNING", "FAILED", "WAITING_AGENT"}
    PROVE  \A what : \A did \in BOOLEAN :
              /\ PassMoves(d, Pass(e, what, did, "save"))
              /\ PassMoves(d, Pass(e, what, did, "throw"))
              /\ ~Acting(d) => PassMoves(d, Pass(e, what, did, "skip"))
BY DEF PassMoves, Pass, Cancellable, Waiting

LEMMA ActionMoves ==
    ASSUME NEW d \in RunDoc, d.status = "RUNNING", Acting(d), ~NeedsConfirmation(d),
           NEW o \in ActionPasses(d)
    PROVE  PassMoves(d, o)
<1> DEFINE s == Flow[d.step]
           f == GotoOrFail(d, s.otherwise)
<1>1. Goto(d, s.next).status = "RUNNING" /\ f.status \in {"RUNNING", "FAILED"}
  BY StepFields, GotoType, FailType DEF GotoOrFail, Acting
<1>2. [d EXCEPT !.status = "WAITING_AGENT"].status = "WAITING_AGENT"
  BY DEF RunDoc
<1>3. PassMoves(d, QueueConnectedTask(d))
  <2> DEFINE e == [d EXCEPT !.status = "WAITING_AGENT"]
  <2>1. QueueConnectedTask(d) = Pass(e, "task", FALSE, "save") /\ e.status = "WAITING_AGENT"
    BY <1>2 DEF QueueConnectedTask
  <2> HIDE DEF e
  <2>2. \A what : \A did \in BOOLEAN : PassMoves(d, Pass(e, what, did, "save"))
    BY <2>1, RunningPass
  <2>3. QED  BY <2>1, <2>2
<1>4. \A what : \A did \in BOOLEAN : PassMoves(d, Pass(Goto(d, s.next), what, did, "save"))
  BY <1>1, RunningPass
<1>5. \A what : \A did \in BOOLEAN : PassMoves(d, Pass(f, what, did, "save"))
  <2> HIDE DEF f
  <2> QED  BY <1>1, RunningPass
<1>6. \A what : \A did \in BOOLEAN : PassMoves(d, Pass(d, what, did, "throw"))
  BY RunningPass
<1>7. CASE s.route = "mock"
  BY <1>4, <1>7 DEF ActionPasses, Saved
<1>8. CASE s.route = "connected"
  BY <1>3, <1>8 DEF ActionPasses
<1>9. CASE s.route \notin {"mock", "connected"}
  <2>1. o \in ManagedPasses(d)
    BY <1>9 DEF ActionPasses
  <2>2. \/ o = Pass(Goto(d, s.next), "none", TRUE, "save")
        \/ o = Pass(f, "none", TRUE, "save") \/ o = Pass(f, "none", FALSE, "save")
        \/ o = Pass(d, "none", TRUE, "throw") \/ o = Pass(d, "none", FALSE, "throw")
        \/ o = QueueConnectedTask(d)
    BY <2>1 DEF ManagedPasses, Thrown
  <2>3. QED  BY <1>3, <1>4, <1>5, <1>6, <2>2
<1>10. QED  BY <1>7, <1>8, <1>9

(* One pass moves a run only there, whatever step it is at and whatever    *)
(* the AI provider, the executor or a condition answers.                   *)
THEOREM IterationMoves ==
    ASSUME NEW d \in RunDoc, d.status = "RUNNING", NEW o \in Iteration(d)
    PROVE  PassMoves(d, o)
<1> DEFINE s == Flow[d.step]
<1>1. d.step \in Step \cup {NoStep}
  BY DEF RunDoc
<1>2. CASE d.step = NoStep
  <2>1. o = Pass(d, "none", FALSE, "throw")
    BY <1>2 DEF Iteration, Thrown
  <2>2. \A did \in BOOLEAN : PassMoves(d, Pass(d, "none", did, "throw"))
    BY RunningPass
  <2>3. QED  BY <2>1, <2>2
<1>3. CASE d.step \in Step /\ NeedsConfirmation(d)
  <2>1. o = AwaitConfirmation(d)
    BY <1>3 DEF Iteration
  <2>2. s.type = "action"
    BY <1>3 DEF NeedsConfirmation
  <2> DEFINE e == [d EXCEPT !.status = "AWAITING_CONFIRMATION"]
  <2>3. e.status = "AWAITING_CONFIRMATION" /\ e.step = d.step
    BY DEF RunDoc
  <2>4. o.doc = e /\ o.ends = "save"
    BY <2>1 DEF AwaitConfirmation, Pass
  <2> HIDE DEF e
  <2>5. QED  BY <1>3, <2>2, <2>3, <2>4 DEF PassMoves, Acting, Cancellable, Waiting
<1>4. CASE d.step \in Step /\ ~NeedsConfirmation(d) /\ s.type = "action"
  <2>1. o \in ActionPasses(d)
    BY <1>4 DEF Iteration
  <2>2. QED  BY <1>4, <2>1, ActionMoves DEF Acting
<1>5. CASE d.step \in Step /\ ~NeedsConfirmation(d) /\ s.type # "action"
  <2>0. d.step # NoStep /\ ~Acting(d)
    BY <1>5 DEF Acting
  <2>1. \A e \in {s.next, s.otherwise} : Goto(d, e).status = "RUNNING"
    BY <1>5, StepFields, GotoType
  <2>2. \A e \in {s.next, s.otherwise} :
          /\ PassMoves(d, Saved(Goto(d, e)))
          /\ PassMoves(d, Pass(Goto(d, e), "none", FALSE, "skip"))
    <3>1. \A e \in {s.next, s.otherwise} : \A did \in BOOLEAN :
            /\ PassMoves(d, Pass(Goto(d, e), "none", did, "save"))
            /\ PassMoves(d, Pass(Goto(d, e), "none", did, "skip"))
      BY <2>0, <2>1, RunningPass
    <3>2. QED  BY <3>1 DEF Saved
  <2>3. PassMoves(d, Saved(Fail(d)))
    <3>1. Fail(d).status = "FAILED"
      BY FailType
    <3>2. \A what : \A did \in BOOLEAN : PassMoves(d, Pass(Fail(d), what, did, "save"))
      BY <3>1, RunningPass
    <3>3. QED  BY <3>2 DEF Saved
  <2>4. CASE s.type = "ai"
    <3>1. o \in AiPasses(d)
      BY <1>5, <2>0, <2>4 DEF Iteration
    <3>2. QED  BY <3>1, <2>2, <2>3 DEF AiPasses
  <2>5. CASE s.type \in {"condition", "verify"}
    <3>1. o \in BranchPasses(d)
      BY <1>5, <2>0, <2>5 DEF Iteration
    <3>2. QED  BY <3>1, <2>2 DEF BranchPasses
  <2>6. CASE s.type = "approval"
    <3> DEFINE e == [d EXCEPT !.status = "WAITING_APPROVAL"]
    <3>1. o = Saved(e)
      BY <1>5, <2>0, <2>6 DEF Iteration
    <3>2. e.status = "WAITING_APPROVAL"
      BY DEF RunDoc
    <3>3. o.doc = e
      BY <3>1 DEF Saved, Pass
    <3> HIDE DEF e
    <3>4. QED  BY <2>0, <3>2, <3>3 DEF PassMoves, Cancellable, Waiting
  <2>7. CASE s.type \notin {"ai", "condition", "verify", "approval"}
    <3> DEFINE e == [d EXCEPT !.status = IF s.success THEN "COMPLETED" ELSE "FAILED",
                              !.step = NoStep]
    <3>1. o = Saved(e)
      BY <1>5, <2>0, <2>7 DEF Iteration, EndPass
    <3>2. e.status \in {"COMPLETED", "FAILED"}
      BY DEF RunDoc
    <3>3. o.doc = e
      BY <3>1 DEF Saved, Pass
    <3> HIDE DEF e
    <3>4. QED  BY <2>0, <3>2, <3>3 DEF PassMoves
  <2>8. QED  BY <2>4, <2>5, <2>6, <2>7
<1>6. QED  BY <1>1, <1>2, <1>3, <1>4, <1>5

(* Where a pass may take a run: nowhere, where it is, or, unless that is   *)
(* an approval, to a step its own leads to.  A task is for the step the    *)
(* run is at.                                                              *)
PassLeads(d, o) ==
    /\ \/ o.doc.step \in {d.step, NoStep}
       \/ d.step \in Step \ Approvals /\ o.doc.step \in Ways(d.step)
    /\ o.dispatch = "task" => d.step \in Step \ Approvals /\ o.doc.step = d.step

LEMMA GoingLeads ==
    ASSUME NEW d \in RunDoc, d.step \in Step \ Approvals,
           NEW e \in {Goto(d, Flow[d.step].next), Goto(d, Flow[d.step].otherwise),
                      GotoOrFail(d, Flow[d.step].otherwise), Fail(d)}
    PROVE  e.step = NoStep \/ e.step \in Ways(d.step)
<1>1. e.step \in {NoStep, Flow[d.step].next, Flow[d.step].otherwise}
  BY DEF Goto, Fail, GotoOrFail, RunDoc
<1>2. QED  BY <1>1, StepFields DEF Ways

(* One pass never takes a run past an approval.                            *)
LEMMA IterationLeads ==
    ASSUME NEW d \in RunDoc, d.status = "RUNNING", NEW o \in Iteration(d)
    PROVE  PassLeads(d, o)
<1>1. d.step \in Step \cup {NoStep}
  BY DEF RunDoc
<1>2. CASE d.step = NoStep
  <2>1. o = Thrown(d)
    BY <1>2 DEF Iteration
  <2>2. QED  BY <2>1 DEF PassLeads, Pass, Thrown
<1>3. ASSUME d.step \in Step, NeedsConfirmation(d) PROVE PassLeads(d, o)
  <2>1. o = AwaitConfirmation(d)
    BY <1>3 DEF Iteration
  <2>2. [d EXCEPT !.status = "AWAITING_CONFIRMATION"].step = d.step
    BY DEF RunDoc
  <2>3. QED  BY <2>1, <2>2 DEF PassLeads, Pass, AwaitConfirmation
<1> DEFINE s == Flow[d.step]
<1>4. ASSUME d.step \in Step, ~NeedsConfirmation(d), s.type = "approval" PROVE PassLeads(d, o)
  <2>1. o = Saved([d EXCEPT !.status = "WAITING_APPROVAL"])
    BY <1>4 DEF Iteration
  <2>2. [d EXCEPT !.status = "WAITING_APPROVAL"].step = d.step
    BY DEF RunDoc
  <2>3. QED  BY <2>1, <2>2 DEF PassLeads, Pass, Saved
<1>5. ASSUME d.step \in Step, ~NeedsConfirmation(d), s.type = "end" PROVE PassLeads(d, o)
  <2>1. o = EndPass(d)
    BY <1>5 DEF Iteration
  <2>2. \A st : [d EXCEPT !.status = st, !.step = NoStep].step = NoStep
    BY DEF RunDoc
  <2>3. QED  BY <2>1, <2>2 DEF PassLeads, Pass, EndPass, Saved
<1>6. ASSUME d.step \in Step, s.type # "approval", o \in AiPasses(d) \cup BranchPasses(d)
      PROVE  PassLeads(d, o)
  <2>1. d.step \in Step \ Approvals
    BY <1>6 DEF Approvals
  <2>2. o.dispatch = "none" /\ o.doc \in {Goto(d, s.next), Goto(d, s.otherwise), Fail(d)}
    BY <1>6 DEF AiPasses, BranchPasses, Saved, Pass
  <2>3. o.doc.step = NoStep \/ o.doc.step \in Ways(d.step)
    BY <2>1, <2>2, GoingLeads
  <2>4. QED  BY <2>1, <2>2, <2>3 DEF PassLeads
<1>7. ASSUME d.step \in Step, s.type # "approval", o \in ActionPasses(d) PROVE PassLeads(d, o)
  <2>1. d.step \in Step \ Approvals
    BY <1>7 DEF Approvals
  <2>2. CASE o = QueueConnectedTask(d)
    <3>1. [d EXCEPT !.status = "WAITING_AGENT"].step = d.step
      BY DEF RunDoc
    <3>2. QED  BY <2>1, <2>2, <3>1 DEF PassLeads, Pass, QueueConnectedTask
  <2>3. CASE o = Thrown(d) \/ o = Pass(d, "none", TRUE, "throw")
    BY <2>3 DEF PassLeads, Pass, Thrown
  <2>4. CASE \E e \in {Goto(d, s.next), GotoOrFail(d, s.otherwise)}, did \in BOOLEAN :
               o = Pass(e, "none", did, "save")
    <3>1. o.dispatch = "none" /\ o.doc \in {Goto(d, s.next), GotoOrFail(d, s.otherwise)}
      BY <2>4 DEF Pass
    <3>2. o.doc.step = NoStep \/ o.doc.step \in Ways(d.step)
      BY <2>1, <3>1, GoingLeads
    <3>3. QED  BY <2>1, <3>1, <3>2 DEF PassLeads
  <2>5. QED  BY <1>7, <2>2, <2>3, <2>4 DEF ActionPasses, ManagedPasses, Saved
<1>8. ASSUME d.step \in Step PROVE PassLeads(d, o)
  <2>1. CASE NeedsConfirmation(d)
    BY <1>8, <1>3, <2>1
  <2>2. CASE ~NeedsConfirmation(d)
    <3>1. s.type \in StepType
      BY <1>8, StepFields DEF StepDef
    <3>2. CASE s.type \in {"ai", "condition", "verify"}
      BY <1>6, <1>8, <2>2, <3>2 DEF Iteration
    <3>3. CASE s.type = "action"
      BY <1>7, <1>8, <2>2, <3>3 DEF Iteration
    <3>4. QED  BY <1>4, <1>5, <1>8, <2>2, <3>1, <3>2, <3>3 DEF StepType
  <2>3. QED  BY <2>1, <2>2
<1>9. QED  BY <1>1, <1>2, <1>8

(* Where the resume methods take a run.                                    *)
LEMMA ResumeLeads ==
    ASSUME NEW d \in RunDoc, d.step \in Step, NEW b \in BOOLEAN, NEW h \in BOOLEAN
    PROVE  /\ AfterAgent(d, b, h).step \in {NoStep} \cup Ways(d.step)
           /\ AfterApproval(d, TRUE).step \in {NoStep} \cup Ways(d.step)
           /\ AfterApproval(d, FALSE).step \in {NoStep} \cup Unapproved(d.step, d.step)
           /\ AfterConfirmation(d).step = d.step
           /\ AfterCancel(d).step = NoStep
           /\ AfterTimeout(d).step = d.step
<1>1. \A s \in Step \cup {NoStep} : Goto(d, s).step = s /\ GotoOrFail(d, s).step = s
  BY DEF Goto, GotoOrFail, Fail, RunDoc
<1>2. AfterAgent(d, b, h).step \in {Flow[d.step].next, Flow[d.step].otherwise}
  BY <1>1, StepFields DEF AfterAgent
<1>3. AfterApproval(d, TRUE).step = Flow[d.step].next /\ AfterApproval(d, FALSE).step = Flow[d.step].otherwise
  BY <1>1, StepFields DEF AfterApproval
<1>4. /\ AfterConfirmation(d).step = d.step /\ AfterCancel(d).step = NoStep
      /\ AfterTimeout(d).step = d.step
  BY DEF AfterConfirmation, AfterCancel, AfterTimeout, RunDoc
<1>5. QED  BY <1>2, <1>3, <1>4, StepFields DEF Ways, Unapproved

(* Leading on: what lies behind an approval is reached only over it.       *)
LEMMA NotBehind ==
    ASSUME NEW a \in Approvals
    PROVE  /\ StartAt \notin Behind[a]
           /\ NoStep \notin Behind[a]
           /\ \A s \in Step \ Behind[a] : Unapproved(a, s) \cap Behind[a] = {}
<1>1. Behind[a] = {s \in Step : \E C \in SUBSET (Step \ {s}) :
                     StartAt \in C /\ \A u \in C : Unapproved(a, u) \subseteq C}
  BY DEF Behind
<1>2. QED  BY <1>1

(* So a run that may be at s may be wherever s leads, unless s is an       *)
(* approval, and from an approval wherever the decision takes it.          *)
LEMMA ClearedOn ==
    ASSUME NEW r, NEW s \in Step, NEW taken, Cleared(r, s, taken), NEW t
    PROVE  /\ t = NoStep \/ t = StartAt => Cleared(r, t, taken)
           /\ s \notin Approvals /\ t \in Ways(s) => Cleared(r, t, taken)
           /\ t \in Unapproved(s, s) => Cleared(r, t, taken)
           /\ t \in Ways(s) /\ <<r, s, TRUE>> \in taken => Cleared(r, t, taken)
<1> SUFFICES ASSUME NEW a \in Approvals, t \in Behind[a], <<r, a, TRUE>> \notin taken,
                    \/ t = NoStep \/ t = StartAt
                    \/ s \notin Approvals /\ t \in Ways(s)
                    \/ t \in Unapproved(s, s)
                    \/ t \in Ways(s) /\ <<r, s, TRUE>> \in taken
             PROVE  FALSE
  BY DEF Cleared
<1>1. s \notin Behind[a]
  BY DEF Cleared
<1>2. t \notin Unapproved(a, s) /\ t # NoStep /\ t # StartAt
  BY <1>1, NotBehind
<1>3. t \in Unapproved(s, s) => t \in Unapproved(a, s)
  BY DEF Unapproved, Ways
<1>4. a # s => Unapproved(a, s) = Ways(s)
  BY DEF Unapproved
<1>5. QED  BY <1>2, <1>3, <1>4

HIDE GraphAssumption

(***************************************************************************)
(* Types                                                                   *)
(***************************************************************************)
(* A free slot is well typed.                                              *)
LEMMA IdleType == Idle \in Call
BY ControlPlaneAssumption DEF Idle, Call, CallPc

(* An invocation that enters advance() with a run document is well typed.  *)
LEMMA AdvancingType ==
    ASSUME NEW c \in Call, NEW d \in RunDoc
    PROVE  /\ Advancing(c, d) \in Call
           /\ Advancing(c, d).doc = d
           /\ Advancing(c, d).pc = IF d.status = "RUNNING" THEN "advance" ELSE "save"
BY DEF Advancing, Call, CallPc

(* The fields of an invocation have their types.                           *)
LEMMA CallType ==
    ASSUME TypeOK, NEW i \in Slot
    PROVE  /\ call[i] \in Call
           /\ call[i].task \in Task \cup {NoTask}
           /\ call[i].run \in Run \cup {NoRun}
           /\ call[i].agent \in Agent \cup {NoAgent}
           /\ call[i].grant \in Grant \cup {NoGrant}
           /\ call[i].doc \in RunDoc \cup {NoDoc}
           /\ call[i].until \in Nat /\ call[i].passes \in Nat
           /\ call[i].tasks \subseteq Task /\ call[i].confs \subseteq Conf
BY DEF TypeOK, Call

(* Moving one invocation to a well-typed state keeps all of them well      *)
(* typed.                                                                  *)
LEMMA ServeType ==
    ASSUME TypeOK, NEW i \in Slot, NEW c \in Call, Serve(i, c)
    PROVE  call' \in [Slot -> Call]
BY DEF TypeOK, Serve

(* Ending an invocation keeps invocations and agents well typed.           *)
LEMMA EndsType ==
    ASSUME TypeOK, NEW i \in Slot, Ends(i)
    PROVE  call' \in [Slot -> Call] /\ agent' \in [Agent -> AgentDoc]
<1>1. call' \in [Slot -> Call]
  BY IdleType DEF Ends, Serve, TypeOK
<1>2. \A w \in AgentDoc : AfterReply(w) \in AgentDoc
  BY DEF AfterReply, NoWork, AgentDoc, AgentPc
<1>3. agent' \in [Agent -> AgentDoc]
  BY <1>2, ControlPlaneAssumption DEF Ends, Awaited, TypeOK, Call
<1>4. QED  BY <1>1, <1>3

(* Changing a task's status keeps the table well typed.                    *)
LEMMA TaskUpdateType ==
    ASSUME TypeOK, NEW t \in Task, NEW st \in TaskStatus \ {"ABSENT"}
    PROVE  [task EXCEPT ![t].status = st] \in [Task -> TaskDoc]
BY DEF TypeOK, TaskDoc

(* So does returning a stalled task to the pool.                           *)
LEMMA ReleaseType ==
    ASSUME TypeOK, NEW t \in Task
    PROVE  [task EXCEPT ![t].status = "PENDING", ![t].claimedBy = NoAgent,
                        ![t].claimUntil = 0] \in [Task -> TaskDoc]
<1>1. [task[t] EXCEPT !.status = "PENDING", !.claimedBy = NoAgent, !.claimUntil = 0]
        \in TaskDoc
  BY DEF TypeOK, TaskDoc, TaskStatus
<1>2. [task EXCEPT ![t].status = "PENDING", ![t].claimedBy = NoAgent, ![t].claimUntil = 0]
        = [task EXCEPT ![t] = [task[t] EXCEPT !.status = "PENDING", !.claimedBy = NoAgent,
                                              !.claimUntil = 0]]
  BY DEF TypeOK
<1>3. QED  BY <1>1, <1>2 DEF TypeOK

(* So does changing the status of a confirmation record.                   *)
LEMMA ConfUpdateType ==
    ASSUME TypeOK, NEW k \in Conf, NEW st \in ConfStatus \ {"ABSENT"}
    PROVE  [conf EXCEPT ![k].status = st] \in [Conf -> ConfDoc]
BY DEF TypeOK, ConfDoc

(* Whole seconds are naturals.                                             *)
LEMMA SecondType == \A t \in Nat : Second(t) \in Nat
BY ControlPlaneAssumption DEF Second

(* An invocation after a pass of the engine is well typed.                 *)
LEMMA PassCallType ==
    ASSUME NEW c \in Call, NEW d \in RunDoc, NEW pc \in CallPc
    PROVE  /\ [c EXCEPT !.doc = d, !.passes = @ + 1] \in Call
           /\ [c EXCEPT !.doc = d, !.passes = @ + 1, !.pc = pc] \in Call
<1>1. c.passes + 1 \in Nat
  BY DEF Call
<1>2. \A n \in Nat : /\ [c EXCEPT !.doc = d, !.passes = n] \in Call
                     /\ [c EXCEPT !.doc = d, !.passes = n, !.pc = pc] \in Call
  BY DEF Call
<1>3. QED  BY <1>1, <1>2

(* The task queueConnectedTask() stores is well typed.                     *)
LEMMA NewTaskType ==
    ASSUME NEW r \in Run, NEW s \in Step \cup {NoStep}, NEW e \in Nat
    PROVE  [AbsentTask EXCEPT !.status = "PENDING", !.run = r, !.step = s, !.expires = e]
             \in TaskDoc
BY DEF AbsentTask, TaskDoc, TaskStatus

(* A record names a run and a step. *)
LEMMA RecordType ==
    ASSUME Linked
    PROVE  /\ \A t \in KnownTasks : task[t].run \in Run /\ task[t].step \in Step
           /\ \A k \in KnownConfs : conf[k].run \in Run /\ conf[k].step \in Step
<1>1. ASSUME NEW t \in KnownTasks PROVE task[t].run \in Run /\ task[t].step \in Step
  <2>1. <<task[t].run, task[t].step>> \in Run \X Step
    BY DEF Linked, TaskLinks, TaskSteps
  <2>2. QED  BY <2>1
<1>2. ASSUME NEW k \in KnownConfs PROVE conf[k].run \in Run /\ conf[k].step \in Step
  <2>1. <<conf[k].run, conf[k].step>> \in Run \X Step
    BY DEF Linked, ConfLinks, ConfSteps
  <2>2. QED  BY <2>1
<1>3. QED  BY <1>1, <1>2

(* The document an engine step works on. *)
LEMMA AdvanceDoc ==
    ASSUME TypeOK, Linked, NEW i \in Slot, call[i].pc = "advance"
    PROVE  call[i].doc \in RunDoc /\ call[i].doc.status = "RUNNING" /\ call[i].run \in Run
BY CallType DEF Linked, CallLinks, LinkedCall, NoDoc

(* start() keeps every variable in its type.                               *)
LEMMA StartRunType ==
    ASSUME TypeOK, Linked, NEW i \in Slot, NEW r \in Run, StartRun(i, r)
    PROVE  TypeOK'
<1>1. FreshRun \in RunDoc
  BY GraphAssumption DEF FreshRun, RunDoc, RunStatus, Cancellable, Waiting
<1>2. Advancing([Idle EXCEPT !.run = r], FreshRun) \in Call
  BY <1>1, IdleType, AdvancingType DEF Idle, Call
<1>3. QED BY <1>1, <1>2, ServeType DEF TypeOK, StartRun, history

(* The history of managed attempts is well typed.                          *)
LEMMA MarksType ==
    ASSUME TypeOK, NEW i \in Slot, call[i].run \in Run, call[i].doc \in RunDoc,
           call[i].doc.status = "RUNNING", NEW o \in Iteration(call[i].doc), Marks(i, o)
    PROVE  tried' \subseteq Run \X Step
<1>1. CASE call[i].doc.step \in Step
  BY <1>1 DEF TypeOK, Marks
<1>2. CASE call[i].doc.step = NoStep
  BY <1>2 DEF TypeOK, Marks, Iteration, Thrown, Pass
<1>3. QED  BY <1>1, <1>2 DEF RunDoc

(* A pass without a dispatch keeps every variable in its type.             *)
LEMMA PlainPassType ==
    ASSUME TypeOK, Linked, NEW i \in Slot, PlainPass(i)
    PROVE  TypeOK'
<1>1. call[i].doc \in RunDoc /\ call[i].doc.status = "RUNNING" /\ call[i].run \in Run
  BY AdvanceDoc DEF PlainPass
<1>2. PICK o \in Iteration(call[i].doc) :
          LET c == [call[i] EXCEPT !.doc = o.doc, !.passes = @ + 1]
          IN  /\ \/ o.ends = "save" /\ Serve(i, [c EXCEPT !.pc = "save"])
                 \/ /\ o.ends = "skip"
                    /\ Serve(i, [c EXCEPT !.pc = IF Looping(c) THEN "advance" ELSE "finish"])
              /\ Marks(i, o)
  BY DEF PlainPass
<1>3. o.doc \in RunDoc
  BY <1>1, IterationSound DEF PassOf, Outcome
<1> DEFINE c == [call[i] EXCEPT !.doc = o.doc, !.passes = @ + 1]
<1>4. c \in Call
  BY <1>3, CallType, PassCallType DEF CallPc
<1>5. \A pc \in {"save", "advance", "finish"} : [c EXCEPT !.pc = pc] \in Call
  BY <1>4 DEF Call, CallPc
<1>6. call' \in [Slot -> Call]
  BY <1>2, <1>5, ServeType
<1>7. tried' \subseteq Run \X Step
  BY <1>1, <1>2, MarksType
<1>8. QED  BY <1>6, <1>7 DEF TypeOK, PlainPass, db

(* A pass that throws keeps every variable in its type.                    *)
LEMMA ThrowingPassType ==
    ASSUME TypeOK, Linked, NEW i \in Slot, ThrowingPass(i)
    PROVE  TypeOK'
<1>1. call[i].doc \in RunDoc /\ call[i].doc.status = "RUNNING" /\ call[i].run \in Run
  BY AdvanceDoc DEF ThrowingPass
<1>2. tried' \subseteq Run \X Step
  BY <1>1, MarksType DEF ThrowingPass
<1>3. QED  BY <1>2, EndsType DEF TypeOK, ThrowingPass, db

(* queueConnectedTask() keeps every variable in its type.                  *)
LEMMA QueueTaskType ==
    ASSUME TypeOK, Linked, NEW i \in Slot, QueueTask(i)
    PROVE  TypeOK'
<1>1. call[i].doc \in RunDoc /\ call[i].doc.status = "RUNNING" /\ call[i].run \in Run
  BY AdvanceDoc DEF QueueTask
<1>2. PICK o \in Iteration(call[i].doc), t \in Task :
              /\ task' = [task EXCEPT ![t] =
                            [AbsentTask EXCEPT !.status = "PENDING", !.run = call[i].run,
                                               !.step = o.doc.step,
                                               !.expires = now + TaskTicks]]
              /\ Serve(i, [call[i] EXCEPT !.doc = o.doc, !.passes = @ + 1, !.pc = "save"])
  BY DEF QueueTask
<1>3. o.doc \in RunDoc
  BY <1>1, IterationSound DEF PassOf, Outcome
<1>4. [call[i] EXCEPT !.doc = o.doc, !.passes = @ + 1, !.pc = "save"] \in Call
  BY <1>3, CallType, PassCallType DEF CallPc
<1>5. [AbsentTask EXCEPT !.status = "PENDING", !.run = call[i].run, !.step = o.doc.step,
                         !.expires = now + TaskTicks] \in TaskDoc
  <2>1. now + TaskTicks \in Nat
    BY ControlPlaneAssumption DEF TypeOK
  <2>2. o.doc.step \in Step \cup {NoStep}
    BY <1>3 DEF RunDoc
  <2>3. QED  BY <1>1, <2>1, <2>2, NewTaskType
<1>6. call' \in [Slot -> Call] /\ task' \in [Task -> TaskDoc]
  BY <1>2, <1>4, <1>5, ServeType DEF TypeOK
<1>7. QED  BY <1>6 DEF TypeOK, QueueTask, history

(* The gate of advance() keeps every variable in its type.                 *)
LEMMA RequestConfirmationType ==
    ASSUME TypeOK, Linked, NEW i \in Slot, RequestConfirmation(i)
    PROVE  TypeOK'
<1>1. call[i].doc \in RunDoc /\ call[i].doc.status = "RUNNING" /\ call[i].run \in Run
  BY AdvanceDoc DEF RequestConfirmation
<1>2. PICK o \in Iteration(call[i].doc), k \in Conf :
              /\ conf' = [conf EXCEPT ![k] =
                            [status |-> "PENDING", run |-> call[i].run,
                             step |-> o.doc.step, expires |-> now + ConfTicks]]
              /\ Serve(i, [call[i] EXCEPT !.doc = [o.doc EXCEPT !.pending = k],
                                          !.passes = @ + 1, !.pc = "save"])
  BY DEF RequestConfirmation
<1>3. o.doc \in RunDoc
  BY <1>1, IterationSound DEF PassOf, Outcome
<1>4. [o.doc EXCEPT !.pending = k] \in RunDoc
  BY <1>3 DEF RunDoc
<1>5. [call[i] EXCEPT !.doc = [o.doc EXCEPT !.pending = k],
                      !.passes = @ + 1, !.pc = "save"] \in Call
  BY <1>4, CallType, PassCallType DEF CallPc
<1>6. [status |-> "PENDING", run |-> call[i].run,
       step |-> o.doc.step, expires |-> now + ConfTicks] \in ConfDoc
  BY <1>1, <1>3, ControlPlaneAssumption DEF TypeOK, ConfDoc, ConfStatus, RunDoc
<1>7. call' \in [Slot -> Call] /\ conf' \in [Conf -> ConfDoc]
  BY <1>2, <1>5, <1>6, ServeType DEF TypeOK
<1>8. QED  BY <1>7 DEF TypeOK, RequestConfirmation, history

(* saveRun() keeps every variable in its type.                             *)
LEMMA SaveRunType ==
    ASSUME TypeOK, Linked, NEW i \in Slot, SaveRun(i)
    PROVE  TypeOK'
<1>1. /\ call[i].run \in Run
      /\ \A pc \in {"advance", "finish"} : [call[i] EXCEPT !.pc = pc] \in Call
  BY CallType DEF SaveRun, Linked, CallLinks, LinkedCall, Call, CallPc
<1>2. run' \in [Run -> RunDoc \cup {NoDoc}] /\ call' \in [Slot -> Call]
  BY <1>1, CallType, ServeType DEF TypeOK, SaveRun
<1>3. absorbed' \subseteq Task
  BY CallType DEF TypeOK, SaveRun
<1>4. QED  BY <1>2, <1>3 DEF TypeOK, SaveRun

(* The end of a handler keeps every variable in its type.                  *)
LEMMA FinishType ==
    ASSUME TypeOK, Linked, NEW i \in Slot, Finish(i)
    PROVE  TypeOK'
<1>1. task' \in [Task -> TaskDoc]
  <2>1. CASE call[i].task = NoTask
    BY <2>1 DEF TypeOK, Finish
  <2>2. CASE call[i].task \in Task
    BY <2>2, TaskUpdateType, ControlPlaneAssumption DEF Finish, TaskStatus
  <2>3. QED  BY <2>1, <2>2, CallType
<1>2. QED  BY <1>1, EndsType DEF TypeOK, Finish, history

(* claimAgentTask(), reading the task, keeps every variable in its type.   *)
LEMMA AgentClaimsType ==
    ASSUME TypeOK, Linked, NEW a \in Agent, NEW i \in Slot, NEW t \in Task,
           AgentClaims(a, i, t)
    PROVE  TypeOK'
<1>1. task[t].run \in Run \cup {NoRun}
  BY DEF TypeOK, TaskDoc
<1>2. [Idle EXCEPT !.pc = "claim_run", !.task = t, !.agent = a, !.run = task[t].run] \in Call
  BY <1>1, IdleType DEF Call, CallPc
<1>3. [NoWork EXCEPT !.pc = "claiming", !.slot = i] \in AgentDoc
  BY DEF NoWork, AgentDoc, AgentPc
<1>4. call' \in [Slot -> Call] /\ agent' \in [Agent -> AgentDoc]
  BY <1>2, <1>3, ServeType DEF TypeOK, AgentClaims
<1>5. QED  BY <1>4 DEF TypeOK, AgentClaims, db, history

(* claimAgentTask(), reading the run, keeps every variable in its type.    *)
LEMMA ClaimReadsRunType ==
    ASSUME TypeOK, Linked, NEW i \in Slot, ClaimReadsRun(i)
    PROVE  TypeOK'
<1>1. call[i].run \in Run
  BY DEF ClaimReadsRun, Linked, CallLinks, LinkedCall
<1>2. run[call[i].run] \in RunDoc \cup {NoDoc} /\ call[i] \in Call
  BY <1>1, CallType DEF TypeOK
<1>3. [call[i] EXCEPT !.pc = "claim_lease", !.doc = run[call[i].run]] \in Call
  BY <1>2 DEF Call, CallPc
<1>4. call' \in [Slot -> Call] /\ agent' \in [Agent -> AgentDoc]
  BY <1>3, ServeType, EndsType DEF TypeOK, ClaimReadsRun
<1>5. QED  BY <1>4 DEF TypeOK, ClaimReadsRun, db, history

(* acquireTaskLease() keeps every variable in its type.                    *)
LEMMA ClaimTakesLeaseType ==
    ASSUME TypeOK, Linked, NEW i \in Slot, ClaimTakesLease(i)
    PROVE  TypeOK'
<1> DEFINE c == call[i]
           until == now + LeaseTicks
<1>1. c.task \in Task /\ c.agent \in Agent
  BY CallType DEF ClaimTakesLease, Linked, CallLinks, LinkedCall, TaskPc, ByAgentPc
<1>2. until \in Nat
  BY ControlPlaneAssumption DEF TypeOK, LeaseTicks
<1> HIDE DEF until
<1>3. CASE LeaseFree(c.task)
  <2>1. [c EXCEPT !.pc = "claim_task", !.until = until] \in Call
    BY <1>2, CallType DEF Call, CallPc
  <2>2. [agent |-> c.agent, until |-> until] \in Lease
    BY <1>1, <1>2 DEF Lease
  <2>3. [task |-> c.task, agent |-> c.agent, from |-> now, until |-> until] \in Window
    BY <1>1, <1>2 DEF Window, TypeOK
  <2>4. /\ lease' = [lease EXCEPT ![c.task] = [agent |-> c.agent, until |-> until]]
        /\ won' = won \cup {[task |-> c.task, agent |-> c.agent,
                             from |-> now, until |-> until]}
        /\ Serve(i, [c EXCEPT !.pc = "claim_task", !.until = until])
        /\ agent' = agent
    BY <1>3 DEF ClaimTakesLease, until
  <2>5. call' \in [Slot -> Call] /\ lease' \in [Task -> Lease] /\ won' \subseteq Window
    BY <2>1, <2>2, <2>3, <2>4, ServeType DEF TypeOK
  <2>6. QED  BY <2>4, <2>5 DEF TypeOK, ClaimTakesLease
<1>4. CASE ~LeaseFree(c.task)
  BY <1>4, EndsType DEF TypeOK, ClaimTakesLease
<1>5. QED  BY <1>3, <1>4

(* Storing the claimed task keeps every variable in its type.              *)
LEMMA ClaimStoresTaskType ==
    ASSUME TypeOK, Linked, NEW i \in Slot, ClaimStoresTask(i)
    PROVE  TypeOK'
<1> DEFINE c == call[i]
<1>1. /\ c \in Call /\ c.task \in Task /\ c.agent \in Agent
      /\ c.until \in Nat
  BY CallType DEF Linked, CallLinks, LinkedCall, TaskPc, ByAgentPc, ClaimStoresTask
<1>2. task' \in [Task -> TaskDoc]
  BY <1>1 DEF TypeOK, ClaimStoresTask, TaskDoc, TaskStatus
<1>3. Second(now) + GrantSeconds \in Nat
  BY SecondType, ControlPlaneAssumption DEF TypeOK
<1>4. grant' \in [Grant -> GrantDoc] /\ call' \in [Slot -> Call]
  <2>1. PICK g \in Grant :
              /\ grant' = [grant EXCEPT ![g] =
                             [task |-> c.task, agent |-> c.agent,
                              expires |-> Second(now) + GrantSeconds]]
              /\ Serve(i, [c EXCEPT !.pc = "claim_save", !.grant = g])
    BY DEF ClaimStoresTask
  <2>2. [task |-> c.task, agent |-> c.agent, expires |-> Second(now) + GrantSeconds]
          \in GrantDoc
    BY <1>1, <1>3 DEF GrantDoc
  <2>3. [c EXCEPT !.pc = "claim_save", !.grant = g] \in Call
    BY <1>1 DEF Call, CallPc
  <2>4. QED  BY <2>1, <2>2, <2>3, ServeType DEF TypeOK
<1>5. QED  BY <1>2, <1>4 DEF TypeOK, ClaimStoresTask, history

(* The claim's save of the run keeps every variable in its type.           *)
LEMMA ClaimSavesRunType ==
    ASSUME TypeOK, Linked, NEW i \in Slot, ClaimSavesRun(i)
    PROVE  TypeOK'
<1>1. /\ call[i].run \in Run /\ call[i].task \in Task
      /\ call[i].grant \in Grant
  BY CallType DEF ClaimSavesRun, Linked, CallLinks, LinkedCall, TaskPc, ByAgentPc
<1>2. [NoWork EXCEPT !.pc = "claimed", !.task = call[i].task, !.grant = call[i].grant]
        \in AgentDoc
  BY <1>1 DEF NoWork, AgentDoc, AgentPc
<1>3. run' \in [Run -> RunDoc \cup {NoDoc}] /\ call' \in [Slot -> Call]
  BY CallType, IdleType, ServeType DEF TypeOK, ClaimSavesRun
<1>4. agent' \in [Agent -> AgentDoc]
  BY <1>2 DEF TypeOK, ClaimSavesRun
<1>5. QED  BY <1>3, <1>4 DEF TypeOK, ClaimSavesRun, history

(* An agent's action keeps every variable in its type.                     *)
LEMMA AgentActsType ==
    ASSUME TypeOK, Linked, NEW a \in Agent, AgentActs(a)
    PROVE  TypeOK'
<1>1. agent' \in [Agent -> AgentDoc]
  BY DEF TypeOK, AgentActs, AgentDoc, AgentPc
<1>2. QED  BY <1>1 DEF TypeOK, AgentActs, db, history

(* recordStepResult(), consuming the grant, keeps every variable in its    *)
(* type.                                                                   *)
LEMMA AgentRecordsType ==
    ASSUME TypeOK, Linked, NEW a \in Agent, NEW i \in Slot, AgentRecords(a, i)
    PROVE  TypeOK'
<1>1. agent[a].task \in Task /\ agent[a].grant \in Grant
  BY DEF TypeOK, AgentRecords, AgentDoc, Linked, AgentLinks, LinkedAgent, KnownTasks
<1>2. task[agent[a].task].run \in Run \cup {NoRun}
  BY <1>1 DEF TypeOK, TaskDoc
<1>3. [Idle EXCEPT !.pc = "record_run", !.agent = a, !.run = task[agent[a].task].run]
        \in Call
  BY <1>2, IdleType DEF Call, CallPc
<1>4. agent' \in [Agent -> AgentDoc]
  BY DEF TypeOK, AgentRecords, AgentDoc, AgentPc
<1>5. call' \in [Slot -> Call]
  BY <1>3, ServeType DEF TypeOK, AgentRecords
<1>6. consumed' \subseteq Grant \X Tool
  BY <1>1 DEF TypeOK, AgentRecords, Tool
<1>7. QED  BY <1>4, <1>5, <1>6 DEF TypeOK, AgentRecords, history

(* recordStepResult(), reading the run, keeps every variable in its type.  *)
LEMMA RecordReadsRunType ==
    ASSUME TypeOK, Linked, NEW i \in Slot, RecordReadsRun(i)
    PROVE  TypeOK'
<1>1. call[i].run \in Run
  BY DEF RecordReadsRun, Linked, CallLinks, LinkedCall
<1>2. run[call[i].run] \in RunDoc \cup {NoDoc} /\ call[i] \in Call
  BY <1>1, CallType DEF TypeOK
<1>3. [call[i] EXCEPT !.pc = "record_save", !.doc = run[call[i].run]] \in Call
  BY <1>2 DEF Call, CallPc
<1>4. QED  BY <1>3, ServeType DEF TypeOK, RecordReadsRun, db, history

(* recordStepResult(), saving the run, keeps every variable in its type.   *)
LEMMA RecordSavesRunType ==
    ASSUME TypeOK, Linked, NEW i \in Slot, RecordSavesRun(i)
    PROVE  TypeOK'
<1>1. run' \in [Run -> RunDoc \cup {NoDoc}]
  BY CallType DEF TypeOK, RecordSavesRun
<1>2. QED  BY <1>1, EndsType DEF TypeOK, RecordSavesRun, history

(* A report of an agent keeps every variable in its type.                  *)
LEMMA AgentReportsType ==
    ASSUME TypeOK, Linked, NEW a \in Agent, NEW i \in Slot, AgentReports(a, i)
    PROVE  TypeOK'
<1> DEFINE t == agent[a].task
<1>1. t \in Task /\ agent[a].grant \in Grant
  BY DEF TypeOK, AgentReports, MayReport, AgentDoc, Linked, AgentLinks, LinkedAgent, KnownTasks
<1>2. task[t].run \in Run \cup {NoRun}
  BY <1>1 DEF TypeOK, TaskDoc
<1>3. [Idle EXCEPT !.pc = "result_task", !.task = t, !.agent = a,
                   !.grant = agent[a].grant, !.run = task[t].run] \in Call
  BY <1>1, <1>2, IdleType DEF Call, CallPc
<1>4. agent' \in [Agent -> AgentDoc]
  BY DEF TypeOK, AgentReports, AgentDoc, AgentPc, NoWork
<1>5. call' \in [Slot -> Call]
  BY <1>3, ServeType DEF TypeOK, AgentReports
<1>6. QED  BY <1>4, <1>5 DEF TypeOK, AgentReports, db, history

(* resumeAgentTask(), reading the task, keeps every variable in its type.  *)
LEMMA ResultReadsTaskType ==
    ASSUME TypeOK, Linked, NEW i \in Slot, ResultReadsTask(i)
    PROVE  TypeOK'
<1>1. [call[i] EXCEPT !.pc = "result_run"] \in Call
  BY CallType DEF Call, CallPc
<1>2. call' \in [Slot -> Call] /\ agent' \in [Agent -> AgentDoc]
  BY <1>1, ServeType, EndsType DEF TypeOK, ResultReadsTask
<1>3. QED  BY <1>2 DEF TypeOK, ResultReadsTask, db, history

(* A report of an operator keeps every variable in its type.               *)
LEMMA OperatorReportsType ==
    ASSUME TypeOK, Linked, NEW i \in Slot, NEW t \in Task, OperatorReports(i, t)
    PROVE  TypeOK'
<1>1. task[t].run \in Run \cup {NoRun}
  BY DEF TypeOK, TaskDoc
<1>2. [Idle EXCEPT !.pc = "result_run", !.task = t, !.run = task[t].run] \in Call
  BY <1>1, IdleType DEF Call, CallPc
<1>3. QED  BY <1>2, ServeType DEF TypeOK, OperatorReports, db, history

(* resumeAgentTask(), reading the run, keeps every variable in its type.   *)
LEMMA ResultReadsRunType ==
    ASSUME TypeOK, Linked, NEW i \in Slot, ResultReadsRun(i)
    PROVE  TypeOK'
<1>1. call[i].run \in Run
  BY DEF ResultReadsRun, Linked, CallLinks, LinkedCall
<1>2. run[call[i].run] \in RunDoc \cup {NoDoc} /\ call[i] \in Call
  BY <1>1, CallType DEF TypeOK
<1>3. [call[i] EXCEPT !.pc = "verify", !.doc = run[call[i].run]] \in Call
  BY <1>2 DEF Call, CallPc
<1>4. call' \in [Slot -> Call] /\ agent' \in [Agent -> AgentDoc]
  BY <1>3, ServeType, EndsType DEF TypeOK, ResultReadsRun
<1>5. QED  BY <1>4 DEF TypeOK, ResultReadsRun, db, history

(* A document that waits is a run document at a step. *)
LEMMA WaitingDoc ==
    ASSUME NEW d \in RunDoc \cup {NoDoc}, d.status \in Cancellable
    PROVE  d \in RunDoc /\ (d.status \in Waiting => d.step \in Step)
BY DEF NoDoc, RunDoc, Waiting, Cancellable

(* resumeFromAgent() leaves a well-typed invocation.                       *)
LEMMA ResumeFromAgentType ==
    ASSUME TypeOK, Linked, NEW i \in Slot, call[i].pc = "verify", ResumeFromAgent(i)
    PROVE  call' \in [Slot -> Call]
<1>1. call[i].doc \in RunDoc /\ call[i].doc.step \in Step
  BY CallType, WaitingDoc DEF Linked, CallLinks, LinkedCall, Waiting, Cancellable
<1>2. \A b, h \in BOOLEAN : Advancing(call[i], AfterAgent(call[i].doc, b, h)) \in Call
  BY <1>1, CallType, ResumeSound, AdvancingType
<1>3. QED  BY <1>2, ServeType DEF ResumeFromAgent

(* Resuming on an operator's report keeps every variable in its type.      *)
LEMMA OperatorResumesType ==
    ASSUME TypeOK, Linked, NEW i \in Slot, OperatorResumes(i)
    PROVE  TypeOK'
<1>1. call' \in [Slot -> Call]
  BY ResumeFromAgentType DEF OperatorResumes
<1>2. QED  BY <1>1 DEF TypeOK, OperatorResumes, db, history

(* Resuming on an agent's report keeps every variable in its type.         *)
LEMMA ConsumesGrantType ==
    ASSUME TypeOK, Linked, NEW i \in Slot, ConsumesGrant(i)
    PROVE  TypeOK'
<1> DEFINE c == call[i]
<1>1. c.grant \in Grant /\ c.pc = "verify"
  BY CallType DEF ConsumesGrant
<1>2. CASE Verifies(c.grant, c.agent, c.task, "agent.report_result")
  <2>1. call' \in [Slot -> Call]
    BY <1>1, <1>2, ResumeFromAgentType DEF ConsumesGrant
  <2>2. spent' \in [Grant -> Nat] /\ consumed' \subseteq Grant \X Tool
    BY <1>1, <1>2 DEF TypeOK, ConsumesGrant, Tool
  <2>3. QED  BY <1>2, <2>1, <2>2 DEF TypeOK, ConsumesGrant
<1>3. CASE ~Verifies(c.grant, c.agent, c.task, "agent.report_result")
  BY <1>3, EndsType DEF TypeOK, ConsumesGrant
<1>4. QED  BY <1>2, <1>3

(* confirmActionGate(), resumeApproval() and cancelRun() keep types.       *)
LEMMA PeopleType ==
    ASSUME TypeOK, Linked, NEW i \in Slot, NEW r \in Run
    PROVE  /\ Confirm(i, r) => TypeOK'
           /\ Approve(i, r) => TypeOK'
           /\ Cancel(i, r) => TypeOK'
<1> DEFINE d == run[r]
<1>1. d \in RunDoc \cup {NoDoc} /\ [Idle EXCEPT !.run = r] \in Call
  BY IdleType DEF TypeOK, Call
<1>2. ASSUME Confirm(i, r) PROVE TypeOK'
  <2>1. d \in RunDoc /\ d.step \in Step
    BY <1>1, <1>2, WaitingDoc DEF Confirm, Waiting, Cancellable
  <2>2. call' \in [Slot -> Call]
    BY <1>1, <1>2, <2>1, ResumeSound, AdvancingType, ServeType DEF Confirm
  <2>3. QED  BY <1>2, <2>1, <2>2 DEF TypeOK, Confirm, db
<1>3. ASSUME Approve(i, r) PROVE TypeOK'
  <2>1. d \in RunDoc /\ d.step \in Step
    BY <1>1, <1>3, WaitingDoc DEF Approve, Waiting, Cancellable
  <2>2. PICK b \in BOOLEAN :
          /\ Serve(i, Advancing([Idle EXCEPT !.run = r], AfterApproval(d, b)))
          /\ decided' = decided \cup {<<r, d.step, b>>}
    BY <1>3 DEF Approve
  <2>3. call' \in [Slot -> Call]
    BY <1>1, <2>1, <2>2, ResumeSound, AdvancingType, ServeType
  <2>4. decided' \subseteq Run \X Step \X BOOLEAN
    BY <2>1, <2>2 DEF TypeOK
  <2>5. QED  BY <1>3, <2>3, <2>4 DEF TypeOK, Approve, db
<1>4. ASSUME Cancel(i, r) PROVE TypeOK'
  <2>1. d \in RunDoc
    BY <1>1, <1>4, WaitingDoc DEF Cancel
  <2>2. AfterCancel(d) \in RunDoc
    BY <2>1, StopSound
  <2> DEFINE e == AfterCancel(d)
  <2> HIDE DEF e
  <2>3. [Idle EXCEPT !.pc = "cancel_save", !.run = r, !.doc = e] \in Call
    BY <2>2, IdleType DEF Call, CallPc, e
  <2>4. call' \in [Slot -> Call]
    BY <1>4, <2>3, ServeType DEF Cancel, e
  <2>5. QED  BY <1>4, <2>4 DEF TypeOK, Cancel, db, history
<1>5. QED  BY <1>2, <1>3, <1>4

(* The writes of cancelRun() keep types.                                   *)
LEMMA CancelStepType ==
    ASSUME TypeOK, Linked, NEW i \in Slot, CancelStep(i)
    PROVE  TypeOK'
<1>1. CASE CancelSavesRun(i)
  <2>1. [call[i] EXCEPT !.pc = "cancel_scan"] \in Call
    BY CallType DEF Call, CallPc
  <2>2. run' \in [Run -> RunDoc \cup {NoDoc}]
    BY <1>1, CallType DEF TypeOK, CancelSavesRun
  <2>3. QED  BY <1>1, <2>1, <2>2, ServeType DEF TypeOK, CancelSavesRun, history
<1>2. CASE CancelScans(i)
  <2>1. \A ts \in SUBSET Task, ks \in SUBSET Conf :
          [call[i] EXCEPT !.pc = "cancel_items", !.tasks = ts, !.confs = ks] \in Call
    BY CallType DEF Call, CallPc
  <2>2. call' \in [Slot -> Call]
    BY <1>2, <2>1, ServeType DEF CancelScans
  <2>3. QED  BY <1>2, <2>2 DEF TypeOK, CancelScans, db, history
<1>3. CASE CancelClosesTask(i)
  <2>1. PICK t \in call[i].tasks :
          /\ task' = [task EXCEPT ![t].status = "CANCELLED"]
          /\ Serve(i, [call[i] EXCEPT !.tasks = @ \ {t}])
    BY <1>3 DEF CancelClosesTask
  <2>2. [call[i] EXCEPT !.tasks = @ \ {t}] \in Call
    BY CallType DEF Call
  <2>3. task' \in [Task -> TaskDoc]
    BY <2>1, CallType, TaskUpdateType DEF TaskStatus
  <2>4. QED  BY <1>3, <2>1, <2>2, <2>3, ServeType DEF TypeOK, CancelClosesTask, history
<1>4. CASE CancelClosesConf(i)
  <2>1. PICK k \in call[i].confs :
          /\ conf' = [conf EXCEPT ![k].status = "CANCELLED"]
          /\ Serve(i, [call[i] EXCEPT !.confs = @ \ {k}])
    BY <1>4 DEF CancelClosesConf
  <2>2. [call[i] EXCEPT !.confs = @ \ {k}] \in Call
    BY CallType DEF Call
  <2>3. conf' \in [Conf -> ConfDoc]
    BY <2>1, CallType, ConfUpdateType DEF ConfStatus
  <2>4. QED  BY <1>4, <2>1, <2>2, <2>3, ServeType DEF TypeOK, CancelClosesConf, history
<1>5. CASE CancelReturns(i)
  BY <1>5, EndsType DEF TypeOK, CancelReturns, db, history
<1>6. QED  BY <1>1, <1>2, <1>3, <1>4, <1>5 DEF CancelStep

(* The fields of a sweep have their types.                                 *)
LEMMA SweepType ==
    ASSUME TypeOK, NEW w \in Sweeper
    PROVE  /\ sweep[w] \in Sweep /\ Resting \in Sweep
           /\ sweep[w].release \subseteq Task /\ sweep[w].tasks \subseteq Task
           /\ sweep[w].confs \subseteq Conf /\ sweep[w].runs \subseteq Run
           /\ sweep[w].docs \in [Run -> RunDoc \cup {NoDoc}]
<1>1. sweep[w] \in Sweep
  BY DEF TypeOK
<1>2. Resting \in Sweep
  BY DEF Resting, Sweep
<1>3. QED  BY <1>1, <1>2 DEF Sweep

(* Moving one sweep to a well-typed state keeps all of them well typed.    *)
LEMMA SweepStepType ==
    ASSUME TypeOK, NEW w \in Sweeper, NEW s \in Sweep, SweepStep(w, s)
    PROVE  sweep' \in [Sweeper -> Sweep]
BY SweepType DEF TypeOK, SweepStep

(* The steps of sweepExpired() keep types.                                 *)
LEMMA SweeperStepType ==
    ASSUME TypeOK, Linked, NEW w \in Sweeper, SweeperStep(w)
    PROVE  TypeOK'
<1> DEFINE s == sweep[w]
<1>0. s \in Sweep /\ s.release \subseteq Task /\ s.tasks \subseteq Task
      /\ s.confs \subseteq Conf /\ s.runs \subseteq Run
  BY SweepType
<1>1. CASE SweepScans(w)
  <2> DEFINE late  == {t \in Task : OverdueTask(t)}
             confs == {k \in Conf : OverdueConf(k)}
             rel   == {t \in Task : Stalled(t)}
             runs  == {task[t].run : t \in late} \cup {conf[k].run : k \in confs}
  <2>1. runs \subseteq Run
    <3>1. \A t \in late : task[t].run \in Run
      BY RecordType DEF KnownTasks, OverdueTask, Open
    <3>2. \A k \in confs : conf[k].run \in Run
      BY RecordType DEF KnownConfs, OverdueConf
    <3>3. QED  BY <3>1, <3>2
  <2>2. late \subseteq Task /\ confs \subseteq Conf /\ rel \subseteq Task
    OBVIOUS
  <2>3. SweepStep(w, [Resting EXCEPT !.pc = "items", !.release = rel,
                                     !.tasks = late, !.confs = confs, !.runs = runs])
    BY <1>1 DEF SweepScans
  <2> HIDE DEF late, confs, rel, runs
  <2>4. [Resting EXCEPT !.pc = "items", !.release = rel,
                        !.tasks = late, !.confs = confs, !.runs = runs] \in Sweep
    BY <2>1, <2>2, SweepType DEF Sweep
  <2>5. sweep' \in [Sweeper -> Sweep]
    BY <2>3, <2>4, SweepStepType
  <2>6. QED  BY <1>1, <2>5 DEF TypeOK, SweepScans, db, history
<1>2. CASE SweepReleases(w)
  <2>1. PICK t \in s.release :
          /\ task' = [task EXCEPT ![t].status = "PENDING",
                                  ![t].claimedBy = NoAgent, ![t].claimUntil = 0]
          /\ SweepStep(w, [s EXCEPT !.release = @ \ {t}])
    BY <1>2 DEF SweepReleases
  <2>2. [s EXCEPT !.release = @ \ {t}] \in Sweep
    BY <1>0 DEF Sweep
  <2>3. task' \in [Task -> TaskDoc]
    BY <1>0, <2>1, ReleaseType
  <2>4. QED  BY <1>2, <2>1, <2>2, <2>3, SweepStepType DEF TypeOK, SweepReleases, history
<1>3. CASE SweepExpiresTask(w)
  <2>1. PICK t \in s.tasks :
          /\ task' = [task EXCEPT ![t].status = "EXPIRED"]
          /\ SweepStep(w, [s EXCEPT !.tasks = @ \ {t}])
    BY <1>3 DEF SweepExpiresTask
  <2>2. [s EXCEPT !.tasks = @ \ {t}] \in Sweep
    BY <1>0 DEF Sweep
  <2>3. task' \in [Task -> TaskDoc]
    BY <1>0, <2>1, TaskUpdateType DEF TaskStatus
  <2>4. QED  BY <1>3, <2>1, <2>2, <2>3, SweepStepType DEF TypeOK, SweepExpiresTask, history
<1>4. CASE SweepExpiresConf(w)
  <2>1. PICK k \in s.confs :
          /\ conf' = [conf EXCEPT ![k].status = "EXPIRED"]
          /\ SweepStep(w, [s EXCEPT !.confs = @ \ {k}])
    BY <1>4 DEF SweepExpiresConf
  <2>2. [s EXCEPT !.confs = @ \ {k}] \in Sweep
    BY <1>0 DEF Sweep
  <2>3. conf' \in [Conf -> ConfDoc]
    BY <1>0, <2>1, ConfUpdateType DEF ConfStatus
  <2>4. QED  BY <1>4, <2>1, <2>2, <2>3, SweepStepType DEF TypeOK, SweepExpiresConf, history
<1>5. CASE SweepReadsRuns(w)
  <2> DEFINE rs == {r \in s.runs : run[r].status \in {"WAITING_AGENT", "AWAITING_CONFIRMATION"}}
  <2>1. rs \subseteq Run
    BY <1>0
  <2>2. SweepStep(w, [s EXCEPT !.pc = "runs", !.docs = run, !.runs = rs])
    BY <1>5 DEF SweepReadsRuns
  <2> HIDE DEF rs
  <2>3. [s EXCEPT !.pc = "runs", !.docs = run, !.runs = rs] \in Sweep
    BY <1>0, <2>1 DEF Sweep, TypeOK
  <2>4. sweep' \in [Sweeper -> Sweep]
    BY <2>2, <2>3, SweepStepType
  <2>5. QED  BY <1>5, <2>4 DEF TypeOK, SweepReadsRuns, db, history
<1>6. CASE SweepTimesOut(w)
  <2>1. PICK r \in s.runs :
          /\ run' = [run EXCEPT ![r] = AfterTimeout(s.docs[r])]
          /\ SweepStep(w, [s EXCEPT !.runs = @ \ {r}])
    BY <1>6 DEF SweepTimesOut
  <2>2. s.docs[r] \in RunDoc
    <3>1. s.docs[r].status \in Cancellable
      BY <1>6 DEF SweepTimesOut, Linked, SweepLinks, LinkedSweep, Cancellable
    <3>2. QED  BY <1>0, <3>1, SweepType, WaitingDoc
  <2>3. AfterTimeout(s.docs[r]) \in RunDoc
    BY <2>2, StopSound
  <2>4. [s EXCEPT !.runs = @ \ {r}] \in Sweep
    BY <1>0 DEF Sweep
  <2>5. run' \in [Run -> RunDoc \cup {NoDoc}]
    BY <2>1, <2>3 DEF TypeOK
  <2>6. QED  BY <1>6, <2>1, <2>4, <2>5, SweepStepType DEF TypeOK, SweepTimesOut, history
<1>7. QED  BY <1>1, <1>2, <1>3, <1>4, <1>5, <1>6 DEF SweeperStep

(* Faults keep types.                                                      *)
LEMMA FaultType ==
    ASSUME TypeOK, Linked
    PROVE  /\ \A i \in Slot : CallDies(i) => TypeOK'
           /\ \A w \in Sweeper : SweepDies(w) => TypeOK'
           /\ \A a \in Agent : ReplyLost(a) \/ AgentDies(a) => TypeOK'
           /\ Tick => TypeOK'
<1>1. ASSUME NEW i \in Slot, CallDies(i) PROVE TypeOK'
  BY <1>1, EndsType DEF TypeOK, CallDies, db, history
<1>2. ASSUME NEW w \in Sweeper, SweepDies(w) PROVE TypeOK'
  BY <1>2, SweepType DEF TypeOK, SweepDies, db, history
<1>3. ASSUME NEW a \in Agent, ReplyLost(a) PROVE TypeOK'
  <2>1. AfterReply(agent[a]) \in AgentDoc
    BY DEF TypeOK, AfterReply, NoWork, AgentDoc, AgentPc
  <2>2. agent' \in [Agent -> AgentDoc]
    <3>1. CASE agent' = [agent EXCEPT ![a] = AfterReply(agent[a])]
      BY <2>1, <3>1 DEF TypeOK
    <3>2. CASE agent' = [agent EXCEPT ![a].slot = NoSlot, ![a].tries = @ + 1,
                             ![a].pc = IF "record" \in Ops THEN "recorded" ELSE "acted"]
      <4>1. agent[a].tries + 1 \in Nat
        BY DEF TypeOK, AgentDoc
      <4>2. \A n \in Nat : \A pc \in AgentPc :
              [agent[a] EXCEPT !.slot = NoSlot, !.tries = n, !.pc = pc] \in AgentDoc
        BY DEF TypeOK, AgentDoc
      <4>3. agent' = [agent EXCEPT ![a] =
              [agent[a] EXCEPT !.slot = NoSlot, !.tries = agent[a].tries + 1,
                 !.pc = IF "record" \in Ops THEN "recorded" ELSE "acted"]]
        BY <3>2 DEF TypeOK, AgentDoc
      <4>4. QED  BY <4>1, <4>2, <4>3 DEF TypeOK, AgentPc
    <3>3. QED  BY <1>3, <3>1, <3>2 DEF ReplyLost
  <2>3. QED  BY <1>3, <2>2 DEF TypeOK, ReplyLost, db, history
<1>4. ASSUME NEW a \in Agent, AgentDies(a) PROVE TypeOK'
  BY <1>4 DEF TypeOK, AgentDies, db, history, NoWork, AgentDoc, AgentPc
<1>5. ASSUME Tick PROVE TypeOK'
  BY <1>5, ControlPlaneAssumption DEF TypeOK, Tick, db, history
<1>6. QED  BY <1>1, <1>2, <1>3, <1>4, <1>5

(* Every step of the system keeps the types, while references resolve. *)
THEOREM TypeStep == TypeOK /\ Linked /\ [Next]_vars => TypeOK'
<1> SUFFICES ASSUME TypeOK, Linked, [Next]_vars PROVE TypeOK'
  OBVIOUS
<1>1. ASSUME NEW i \in Slot, Request(i) PROVE TypeOK'
  BY <1>1, StartRunType, PeopleType, OperatorReportsType, AgentRecordsType,
     AgentReportsType, AgentClaimsType DEF Request
<1>2. ASSUME NEW i \in Slot, EngineStep(i) PROVE TypeOK'
  BY <1>2, PlainPassType, ThrowingPassType, QueueTaskType, RequestConfirmationType,
     SaveRunType, FinishType DEF EngineStep
<1>3. ASSUME NEW i \in Slot, AgentCallStep(i) PROVE TypeOK'
  BY <1>3, ClaimReadsRunType, ClaimTakesLeaseType, ClaimStoresTaskType, ClaimSavesRunType,
     RecordReadsRunType, RecordSavesRunType, ResultReadsTaskType, ResultReadsRunType,
     OperatorResumesType, ConsumesGrantType DEF AgentCallStep
<1>4. ASSUME NEW a \in Agent, AgentActs(a) PROVE TypeOK'
  BY <1>4, AgentActsType
<1>5. CASE UNCHANGED vars
  BY <1>5 DEF TypeOK, vars, db, history
<1>6. QED
  BY <1>1, <1>2, <1>3, <1>4, <1>5, CancelStepType, SweeperStepType, FaultType
  DEF Next, Work, CallStep

(***************************************************************************)
(* Records and references                                                  *)
(***************************************************************************)
KeepsRecords ==
    /\ now <= now' /\ vouched \subseteq vouched' /\ decided \subseteq decided'
    /\ \A t \in KnownTasks :
          /\ task'[t].status # "ABSENT"   /\ task'[t].run = task[t].run
          /\ task'[t].step = task[t].step /\ task'[t].expires = task[t].expires
    /\ \A k \in KnownConfs :
          /\ conf'[k].status # "ABSENT"   /\ conf'[k].run = conf[k].run
          /\ conf'[k].step = conf[k].step /\ conf'[k].expires = conf[k].expires

RecordsGrow ==
    /\ KnownTasks \subseteq KnownTasks' /\ KnownConfs \subseteq KnownConfs'
    /\ TaskSteps \subseteq TaskSteps'   /\ ConfSteps \subseteq ConfSteps'
    /\ OverdueRuns \subseteq OverdueRuns'
    /\ vouched \subseteq vouched' /\ decided \subseteq decided'

(* If records keep run, step and deadline, everything a copy may need      *)
(* only grows.                                                             *)
LEMMA KeepsMeansGrow ==
    ASSUME TypeOK, TypeOK', KeepsRecords
    PROVE  RecordsGrow
<1>1. KnownTasks \subseteq KnownTasks' /\ KnownConfs \subseteq KnownConfs'
  BY DEF KeepsRecords, KnownTasks, KnownConfs
<1>2. TaskSteps \subseteq TaskSteps'
  BY <1>1 DEF KeepsRecords, TaskSteps
<1>3. ConfSteps \subseteq ConfSteps'
  BY <1>1 DEF KeepsRecords, ConfSteps
<1>4. \A t \in KnownTasks : Expired(task[t]) => task'[t].expires < now'
  <2> TAKE t \in KnownTasks
  <2>1. task[t].expires \in Nat
    BY DEF TypeOK, TaskDoc, KnownTasks
  <2>2. now \in Nat /\ now' \in Nat /\ now <= now' /\ task'[t].expires = task[t].expires
    BY DEF TypeOK, KeepsRecords
  <2>3. QED  BY <2>1, <2>2 DEF Expired
<1>5. \A k \in KnownConfs : Expired(conf[k]) => conf'[k].expires < now'
  <2> TAKE k \in KnownConfs
  <2>1. conf[k].expires \in Nat
    BY DEF TypeOK, ConfDoc, KnownConfs
  <2>2. now \in Nat /\ now' \in Nat /\ now <= now' /\ conf'[k].expires = conf[k].expires
    BY DEF TypeOK, KeepsRecords
  <2>3. QED  BY <2>1, <2>2 DEF Expired
<1>6. OverdueRuns \subseteq OverdueRuns'
  <2>1. ASSUME NEW t \in KnownTasks, Expired(task[t]) PROVE task[t].run \in OverdueRuns'
    <3>1. t \in KnownTasks' /\ Expired(task[t])' /\ task'[t].run = task[t].run
      BY <1>1, <1>4, <2>1 DEF KeepsRecords, Expired
    <3>2. QED  BY <3>1 DEF OverdueRuns
  <2>2. ASSUME NEW k \in KnownConfs, Expired(conf[k]) PROVE conf[k].run \in OverdueRuns'
    <3>1. k \in KnownConfs' /\ Expired(conf[k])' /\ conf'[k].run = conf[k].run
      BY <1>1, <1>5, <2>2 DEF KeepsRecords, Expired
    <3>2. QED  BY <3>1 DEF OverdueRuns
  <2>3. QED  BY <2>1, <2>2 DEF OverdueRuns
<1>7. QED  BY <1>1, <1>2, <1>3, <1>6 DEF RecordsGrow, KeepsRecords

(* A change of status other than back to ABSENT keeps every record. *)
LEMMA TaskStatusKeeps ==
    ASSUME TypeOK, now' = now, vouched' = vouched, decided' = decided, conf' = conf,
           NEW t \in Task, NEW st \in TaskStatus \ {"ABSENT"},
           task' = [task EXCEPT ![t].status = st]
    PROVE  KeepsRecords
BY DEF TypeOK, TaskDoc, KeepsRecords, KnownTasks, KnownConfs

(* Changing the status of a confirmation record keeps the records.         *)
LEMMA ConfStatusKeeps ==
    ASSUME TypeOK, now' = now, vouched' = vouched, decided' = decided, task' = task,
           NEW k \in Conf, NEW st \in ConfStatus \ {"ABSENT"},
           conf' = [conf EXCEPT ![k].status = st]
    PROVE  KeepsRecords
BY DEF TypeOK, ConfDoc, KeepsRecords, KnownTasks, KnownConfs

(* A step that touches neither tasks nor confirmation records keeps them.  *)
LEMMA UntouchedKeeps ==
    ASSUME TypeOK, now' = now, vouched \subseteq vouched', decided \subseteq decided',
           task' = task, conf' = conf
    PROVE  KeepsRecords
BY DEF TypeOK, KeepsRecords, KnownTasks, KnownConfs

(* The engine creates records and changes none but the task it retires.    *)
LEMMA EngineKeeps ==
    ASSUME TypeOK, Linked, NEW i \in Slot, EngineStep(i)
    PROVE  KeepsRecords
<1>1. CASE PlainPass(i) \/ ThrowingPass(i) \/ SaveRun(i)
  BY <1>1, UntouchedKeeps DEF PlainPass, ThrowingPass, SaveRun, db
<1>2. CASE QueueTask(i)
  BY <1>2 DEF QueueTask, history, TypeOK, KeepsRecords, KnownTasks, KnownConfs
<1>3. CASE RequestConfirmation(i)
  BY <1>3 DEF RequestConfirmation, history, TypeOK, KeepsRecords, KnownTasks, KnownConfs
<1>4. CASE Finish(i)
  <2>1. CASE call[i].task = NoTask
    BY <1>4, <2>1, UntouchedKeeps DEF Finish, history
  <2>2. CASE call[i].task \in Task
    BY <1>4, <2>2, TaskStatusKeeps, ControlPlaneAssumption DEF Finish, history, TaskStatus
  <2>3. QED  BY <2>1, <2>2, CallType
<1>5. QED  BY <1>1, <1>2, <1>3, <1>4 DEF EngineStep

(* Of the agent's calls only the claim writes a task, and it keeps run,    *)
(* step and deadline.                                                      *)
LEMMA AgentCallKeeps ==
    ASSUME TypeOK, Linked, NEW i \in Slot, AgentCallStep(i)
    PROVE  KeepsRecords
<1>1. CASE ClaimStoresTask(i)
  BY <1>1 DEF ClaimStoresTask, history, TypeOK, TaskDoc, KeepsRecords, KnownTasks, KnownConfs
<1>2. CASE ClaimReadsRun(i) \/ ClaimTakesLease(i) \/ ClaimSavesRun(i)
  BY <1>2, UntouchedKeeps DEF ClaimReadsRun, ClaimTakesLease, ClaimSavesRun, db, history
<1>3. CASE RecordReadsRun(i) \/ RecordSavesRun(i) \/ ResultReadsTask(i)
  BY <1>3, UntouchedKeeps DEF RecordReadsRun, RecordSavesRun, ResultReadsTask, db, history
<1>4. CASE ResultReadsRun(i) \/ OperatorResumes(i) \/ ConsumesGrant(i)
  BY <1>4, UntouchedKeeps DEF ResultReadsRun, OperatorResumes, ConsumesGrant, db, history
<1>5. QED  BY <1>1, <1>2, <1>3, <1>4 DEF AgentCallStep

(* cancelRun() changes the status of records and nothing else.             *)
LEMMA CancelKeeps ==
    ASSUME TypeOK, Linked, NEW i \in Slot, CancelStep(i)
    PROVE  KeepsRecords
<1>1. CASE CancelClosesTask(i)
  BY <1>1, CallType, TaskStatusKeeps DEF CancelClosesTask, history, TaskStatus
<1>2. CASE CancelClosesConf(i)
  BY <1>2, CallType, ConfStatusKeeps DEF CancelClosesConf, history, ConfStatus
<1>3. CASE CancelSavesRun(i) \/ CancelScans(i) \/ CancelReturns(i)
  BY <1>3, UntouchedKeeps DEF CancelSavesRun, CancelScans, CancelReturns, db, history
<1>4. QED  BY <1>1, <1>2, <1>3 DEF CancelStep

(* The sweep releases and expires records and changes neither run, step    *)
(* nor deadline.                                                           *)
LEMMA SweepKeeps ==
    ASSUME TypeOK, Linked, NEW w \in Sweeper, SweeperStep(w)
    PROVE  KeepsRecords
<1>1. CASE SweepReleases(w)
  <2>1. PICK t \in sweep[w].release :
          task' = [task EXCEPT ![t].status = "PENDING",
                               ![t].claimedBy = NoAgent, ![t].claimUntil = 0]
    BY <1>1 DEF SweepReleases
  <2>2. t \in Task
    BY SweepType
  <2>3. \A u \in Task : /\ task'[u].run = task[u].run /\ task'[u].step = task[u].step
                        /\ task'[u].expires = task[u].expires
                        /\ task'[u].status \in {task[u].status, "PENDING"}
    BY <2>1, <2>2 DEF TypeOK, TaskDoc
  <2>4. now' = now /\ vouched' = vouched /\ decided' = decided /\ conf' = conf
    BY <1>1 DEF SweepReleases, history
  <2>5. QED  BY <2>3, <2>4 DEF TypeOK, KeepsRecords, KnownTasks, KnownConfs
<1>2. CASE SweepExpiresTask(w)
  BY <1>2, SweepType, TaskStatusKeeps DEF SweepExpiresTask, history, TaskStatus
<1>3. CASE SweepExpiresConf(w)
  BY <1>3, SweepType, ConfStatusKeeps DEF SweepExpiresConf, history, ConfStatus
<1>4. CASE SweepScans(w) \/ SweepReadsRuns(w) \/ SweepTimesOut(w)
  BY <1>4, UntouchedKeeps DEF SweepScans, SweepReadsRuns, SweepTimesOut, db, history
<1>5. QED  BY <1>1, <1>2, <1>3, <1>4 DEF SweeperStep

(* The first step of a request writes no record.                           *)
LEMMA RequestKeeps ==
    ASSUME TypeOK, Linked, NEW i \in Slot, Request(i)
    PROVE  KeepsRecords
<1>1. ASSUME NEW r \in Run, StartRun(i, r) \/ Confirm(i, r) \/ Approve(i, r) \/ Cancel(i, r)
      PROVE  KeepsRecords
  BY <1>1, UntouchedKeeps DEF StartRun, Confirm, Approve, Cancel, db, history
<1>2. ASSUME NEW t \in Task, OperatorReports(i, t)
      PROVE  KeepsRecords
  BY <1>2, UntouchedKeeps DEF OperatorReports, db, history
<1>3. ASSUME NEW a \in Agent, AgentRecords(a, i) \/ AgentReports(a, i)
      PROVE  KeepsRecords
  BY <1>3, UntouchedKeeps DEF AgentRecords, AgentReports, db, history
<1>4. ASSUME NEW a \in Agent, NEW t \in Task, AgentClaims(a, i, t)
      PROVE  KeepsRecords
  BY <1>4, UntouchedKeeps DEF AgentClaims, db, history
<1>5. QED  BY <1>1, <1>2, <1>3, <1>4 DEF Request

(* No step of the system deletes a record or moves it to another run, step *)
(* or deadline.                                                            *)
THEOREM KeepStep == TypeOK /\ Linked /\ [Next]_vars => KeepsRecords
<1> SUFFICES ASSUME TypeOK, Linked, [Next]_vars PROVE KeepsRecords
  OBVIOUS
<1>1. ASSUME NEW i \in Slot, CallDies(i) PROVE KeepsRecords
  BY <1>1, UntouchedKeeps DEF CallDies, db, history
<1>2. ASSUME NEW w \in Sweeper, SweepDies(w) PROVE KeepsRecords
  BY <1>2, UntouchedKeeps DEF SweepDies, db, history
<1>3. ASSUME NEW a \in Agent, AgentActs(a) \/ ReplyLost(a) \/ AgentDies(a)
      PROVE  KeepsRecords
  BY <1>3, UntouchedKeeps DEF AgentActs, ReplyLost, AgentDies, db, history
<1>4. CASE Tick
  BY <1>4 DEF Tick, db, history, TypeOK, KeepsRecords, KnownTasks, KnownConfs
<1>5. CASE UNCHANGED vars
  BY <1>5, UntouchedKeeps DEF vars, db, history
<1>6. QED
  BY <1>1, <1>2, <1>3, <1>4, <1>5, RequestKeeps, EngineKeeps, AgentCallKeeps,
     CancelKeeps, SweepKeeps
  DEF Next, Work, CallStep

(* In every step, what a copy of a run may need only grows.                *)
COROLLARY GrowStep == TypeOK /\ Linked /\ [Next]_vars => RecordsGrow
BY KeepStep, TypeStep, KeepsMeansGrow

(* Only the engine creates records. *)
LEMMA SameTasks ==
    ASSUME TypeOK, NEW t \in KnownTasks, NEW st, task' = [task EXCEPT ![t].status = st]
    PROVE  KnownTasks' \subseteq KnownTasks
BY DEF TypeOK, TaskDoc, KnownTasks

(* A status change creates no confirmation record.                         *)
LEMMA SameConfs ==
    ASSUME TypeOK, NEW k \in KnownConfs, NEW st, conf' = [conf EXCEPT ![k].status = st]
    PROVE  KnownConfs' \subseteq KnownConfs
BY DEF TypeOK, ConfDoc, KnownConfs

(* Only queueConnectedTask() creates a task.                               *)
LEMMA NoNewTasks ==
    ASSUME TypeOK, Linked, [Next]_vars, ~\E i \in Slot : QueueTask(i)
    PROVE  KnownTasks' \subseteq KnownTasks
<1>1. task' = task => KnownTasks' \subseteq KnownTasks
  BY DEF KnownTasks
<1>2. ASSUME NEW i \in Slot, Request(i) PROVE task' = task
  BY <1>2 DEF Request, StartRun, Confirm, Approve, Cancel, OperatorReports, AgentRecords,
     AgentReports, AgentClaims, db, history
<1>3. ASSUME NEW i \in Slot, EngineStep(i) PROVE KnownTasks' \subseteq KnownTasks
  <2>1. CASE Finish(i)
    <3>1. call[i].task \in KnownTasks \cup {NoTask}
      BY DEF Linked, CallLinks, LinkedCall
    <3>2. QED  BY <1>1, <2>1, <3>1, SameTasks DEF Finish
  <2>2. CASE PlainPass(i) \/ ThrowingPass(i) \/ SaveRun(i) \/ RequestConfirmation(i)
    BY <1>1, <2>2 DEF PlainPass, ThrowingPass, SaveRun, RequestConfirmation, db, history
  <2>3. QED  BY <1>3, <2>1, <2>2 DEF EngineStep
<1>4. ASSUME NEW i \in Slot, AgentCallStep(i) PROVE KnownTasks' \subseteq KnownTasks
  <2>1. CASE ClaimStoresTask(i)
    <3>1. call[i].task \in KnownTasks
      BY <2>1 DEF Linked, CallLinks, LinkedCall, TaskPc, ClaimStoresTask
    <3>2. QED  BY <2>1, <3>1 DEF ClaimStoresTask, TypeOK, TaskDoc, KnownTasks
  <2>2. CASE ClaimReadsRun(i) \/ ClaimTakesLease(i) \/ ClaimSavesRun(i)
    BY <1>1, <2>2 DEF ClaimReadsRun, ClaimTakesLease, ClaimSavesRun, db, history
  <2>3. CASE RecordReadsRun(i) \/ RecordSavesRun(i) \/ ResultReadsTask(i)
    BY <1>1, <2>3 DEF RecordReadsRun, RecordSavesRun, ResultReadsTask, db, history
  <2>4. CASE ResultReadsRun(i) \/ OperatorResumes(i) \/ ConsumesGrant(i)
    BY <1>1, <2>4 DEF ResultReadsRun, OperatorResumes, ConsumesGrant, db, history
  <2>5. QED  BY <1>4, <2>1, <2>2, <2>3, <2>4 DEF AgentCallStep
<1>5. ASSUME NEW i \in Slot, CancelStep(i) PROVE KnownTasks' \subseteq KnownTasks
  <2>1. CASE CancelClosesTask(i)
    <3>1. call[i].tasks \subseteq KnownTasks
      BY DEF Linked, CallLinks, LinkedCall
    <3>2. QED  BY <2>1, <3>1, SameTasks DEF CancelClosesTask
  <2>2. CASE ~CancelClosesTask(i)
    BY <1>1, <1>5, <2>2 DEF CancelStep, CancelSavesRun, CancelScans, CancelClosesConf,
       CancelReturns, db, history
  <2>3. QED  BY <2>1, <2>2
<1>6. ASSUME NEW w \in Sweeper, SweeperStep(w) PROVE KnownTasks' \subseteq KnownTasks
  <2>0. sweep[w].release \subseteq KnownTasks /\ sweep[w].tasks \subseteq KnownTasks
    BY DEF Linked, SweepLinks, LinkedSweep
  <2>1. CASE SweepReleases(w)
    BY <2>0, <2>1 DEF SweepReleases, TypeOK, TaskDoc, KnownTasks
  <2>2. CASE SweepExpiresTask(w)
    BY <2>0, <2>2, SameTasks DEF SweepExpiresTask
  <2>3. CASE SweepScans(w) \/ SweepExpiresConf(w) \/ SweepReadsRuns(w) \/ SweepTimesOut(w)
    BY <1>1, <2>3 DEF SweepScans, SweepExpiresConf, SweepReadsRuns, SweepTimesOut, db, history
  <2>4. QED  BY <1>6, <2>1, <2>2, <2>3 DEF SweeperStep
<1>7. ASSUME \/ Tick \/ UNCHANGED vars
             \/ \E i \in Slot : CallDies(i)
             \/ \E w \in Sweeper : SweepDies(w)
             \/ \E a \in Agent : AgentActs(a) \/ ReplyLost(a) \/ AgentDies(a)
      PROVE  task' = task
  BY <1>7 DEF Tick, vars, CallDies, SweepDies, AgentActs, ReplyLost, AgentDies, db, history
<1>8. QED  BY <1>1, <1>2, <1>3, <1>4, <1>5, <1>6, <1>7 DEF Next, Work, CallStep

(* Only the gate of advance() creates a confirmation record.               *)
LEMMA NoNewConfs ==
    ASSUME TypeOK, Linked, [Next]_vars, ~\E i \in Slot : RequestConfirmation(i)
    PROVE  KnownConfs' \subseteq KnownConfs
<1>1. conf' = conf => KnownConfs' \subseteq KnownConfs
  BY DEF KnownConfs
<1>2. ASSUME NEW i \in Slot, Request(i) PROVE conf' = conf
  BY <1>2 DEF Request, StartRun, Confirm, Approve, Cancel, OperatorReports, AgentRecords,
     AgentReports, AgentClaims, db, history
<1>3. ASSUME NEW i \in Slot, EngineStep(i) PROVE conf' = conf
  BY <1>3 DEF EngineStep, PlainPass, ThrowingPass, SaveRun, QueueTask, Finish, db, history
<1>4. ASSUME NEW i \in Slot, AgentCallStep(i) PROVE conf' = conf
  <2>1. CASE ClaimReadsRun(i) \/ ClaimTakesLease(i) \/ ClaimStoresTask(i) \/ ClaimSavesRun(i)
    BY <2>1 DEF ClaimReadsRun, ClaimTakesLease, ClaimStoresTask, ClaimSavesRun, db, history
  <2>2. CASE RecordReadsRun(i) \/ RecordSavesRun(i) \/ ResultReadsTask(i)
    BY <2>2 DEF RecordReadsRun, RecordSavesRun, ResultReadsTask, db, history
  <2>3. CASE ResultReadsRun(i) \/ OperatorResumes(i) \/ ConsumesGrant(i)
    BY <2>3 DEF ResultReadsRun, OperatorResumes, ConsumesGrant, db, history
  <2>4. QED  BY <1>4, <2>1, <2>2, <2>3 DEF AgentCallStep
<1>5. ASSUME NEW i \in Slot, CancelStep(i) PROVE KnownConfs' \subseteq KnownConfs
  <2>1. CASE CancelClosesConf(i)
    <3>1. call[i].confs \subseteq KnownConfs
      BY DEF Linked, CallLinks, LinkedCall
    <3>2. QED  BY <2>1, <3>1, SameConfs DEF CancelClosesConf
  <2>2. CASE ~CancelClosesConf(i)
    BY <1>1, <1>5, <2>2 DEF CancelStep, CancelSavesRun, CancelScans, CancelClosesTask,
       CancelReturns, db, history
  <2>3. QED  BY <2>1, <2>2
<1>6. ASSUME NEW w \in Sweeper, SweeperStep(w) PROVE KnownConfs' \subseteq KnownConfs
  <2>1. CASE SweepExpiresConf(w)
    <3>1. sweep[w].confs \subseteq KnownConfs
      BY DEF Linked, SweepLinks, LinkedSweep
    <3>2. QED  BY <2>1, <3>1, SameConfs DEF SweepExpiresConf
  <2>2. CASE SweepScans(w) \/ SweepReleases(w) \/ SweepExpiresTask(w)
    BY <1>1, <2>2 DEF SweepScans, SweepReleases, SweepExpiresTask, db, history
  <2>3. CASE SweepReadsRuns(w) \/ SweepTimesOut(w)
    BY <1>1, <2>3 DEF SweepReadsRuns, SweepTimesOut, db, history
  <2>4. QED  BY <1>6, <2>1, <2>2, <2>3 DEF SweeperStep
<1>7. ASSUME \/ Tick \/ UNCHANGED vars
             \/ \E i \in Slot : CallDies(i)
             \/ \E w \in Sweeper : SweepDies(w)
             \/ \E a \in Agent : AgentActs(a) \/ ReplyLost(a) \/ AgentDies(a)
      PROVE  conf' = conf
  BY <1>7 DEF Tick, vars, CallDies, SweepDies, AgentActs, ReplyLost, AgentDies, db, history
<1>8. QED  BY <1>1, <1>2, <1>3, <1>4, <1>5, <1>6, <1>7 DEF Next, Work, CallStep

(* The task an engine step queues, the confirmation it requests. *)
LEMMA QueuedTask ==
    ASSUME TypeOK, Linked, NEW i \in Slot, QueueTask(i)
    PROVE  \E o \in Iteration(call[i].doc), t \in Task :
              /\ PassOf(call[i].doc, o) /\ o.dispatch = "task"
              /\ call[i].run \in Run
              /\ task[t].status = "ABSENT"
              /\ task'[t].run = call[i].run /\ task'[t].step = o.doc.step
              /\ KnownTasks' = KnownTasks \cup {t}
              /\ \A u \in Task \ {t} : task'[u] = task[u]
              /\ call' = [call EXCEPT ![i] = [call[i] EXCEPT !.doc = o.doc,
                                                 !.passes = @ + 1, !.pc = "save"]]
<1>1. call[i].doc \in RunDoc /\ call[i].doc.status = "RUNNING" /\ call[i].run \in Run
  BY AdvanceDoc DEF QueueTask
<1>2. PICK o \in Iteration(call[i].doc), t \in Task :
          /\ o.dispatch = "task"
          /\ task[t].status = "ABSENT"
          /\ task' = [task EXCEPT ![t] =
                        [AbsentTask EXCEPT !.status = "PENDING", !.run = call[i].run,
                                           !.step = o.doc.step,
                                           !.expires = now + TaskTicks]]
          /\ Serve(i, [call[i] EXCEPT !.doc = o.doc, !.passes = @ + 1, !.pc = "save"])
  BY DEF QueueTask
<1>3. PassOf(call[i].doc, o)
  BY <1>1, IterationSound
<1>4. /\ task'[t].run = call[i].run /\ task'[t].step = o.doc.step
      /\ task'[t].status = "PENDING"
      /\ \A u \in Task \ {t} : task'[u] = task[u]
  BY <1>2 DEF TypeOK, AbsentTask
<1>5. KnownTasks' = KnownTasks \cup {t}
  BY <1>4 DEF KnownTasks
<1>6. QED  BY <1>1, <1>2, <1>3, <1>4, <1>5 DEF Serve

(* The gate creates the record of the run and step it stops at, and no     *)
(* other.                                                                  *)
LEMMA RequestedConf ==
    ASSUME TypeOK, Linked, NEW i \in Slot, RequestConfirmation(i)
    PROVE  \E o \in Iteration(call[i].doc), k \in Conf :
              /\ PassOf(call[i].doc, o) /\ o.dispatch = "confirmation"
              /\ call[i].run \in Run
              /\ conf'[k].run = call[i].run /\ conf'[k].step = o.doc.step
              /\ KnownConfs' = KnownConfs \cup {k}
              /\ \A j \in Conf \ {k} : conf'[j] = conf[j]
              /\ call' = [call EXCEPT ![i] =
                            [call[i] EXCEPT !.doc = [o.doc EXCEPT !.pending = k],
                                            !.passes = @ + 1, !.pc = "save"]]
<1>1. call[i].doc \in RunDoc /\ call[i].doc.status = "RUNNING" /\ call[i].run \in Run
  BY AdvanceDoc DEF RequestConfirmation
<1>2. PICK o \in Iteration(call[i].doc), k \in Conf :
          /\ o.dispatch = "confirmation"
          /\ conf[k].status = "ABSENT"
          /\ conf' = [conf EXCEPT ![k] =
                        [status |-> "PENDING", run |-> call[i].run,
                         step |-> o.doc.step, expires |-> now + ConfTicks]]
          /\ Serve(i, [call[i] EXCEPT !.doc = [o.doc EXCEPT !.pending = k],
                                      !.passes = @ + 1, !.pc = "save"])
  BY DEF RequestConfirmation
<1>3. PassOf(call[i].doc, o)
  BY <1>1, IterationSound
<1>4. /\ conf'[k].run = call[i].run /\ conf'[k].step = o.doc.step
      /\ conf'[k].status = "PENDING"
      /\ \A j \in Conf \ {k} : conf'[j] = conf[j]
  BY <1>2 DEF TypeOK
<1>5. KnownConfs' = KnownConfs \cup {k}
  BY <1>4 DEF KnownConfs
<1>6. QED  BY <1>1, <1>2, <1>3, <1>4, <1>5 DEF Serve

(* Every record belongs to a run and a step, after any step of the         *)
(* system.                                                                 *)
LEMMA RecordLinksStep ==
    ASSUME TypeOK, Linked, [Next]_vars
    PROVE  TaskLinks' /\ ConfLinks'
<1>0. KeepsRecords
  BY KeepStep
<1>1. \A t \in KnownTasks' : task'[t].run \in Run /\ task'[t].step \in Step
  <2>1. CASE \E i \in Slot : QueueTask(i)
    <3>1. PICK i \in Slot : QueueTask(i)
      BY <2>1
    <3>2. PICK o \in Iteration(call[i].doc), t \in Task :
              /\ PassOf(call[i].doc, o) /\ o.dispatch = "task"
              /\ call[i].run \in Run
              /\ task'[t].run = call[i].run /\ task'[t].step = o.doc.step
              /\ KnownTasks' = KnownTasks \cup {t}
      BY <3>1, QueuedTask
    <3>3. task'[t].run \in Run /\ task'[t].step \in Step
      BY <3>2 DEF PassOf
    <3>4. QED  BY <1>0, <3>2, <3>3, RecordType DEF KeepsRecords
  <2>2. CASE ~\E i \in Slot : QueueTask(i)
    BY <1>0, <2>2, NoNewTasks, RecordType DEF KeepsRecords
  <2>3. QED  BY <2>1, <2>2
<1>2. \A k \in KnownConfs' : conf'[k].run \in Run /\ conf'[k].step \in Step
  <2>1. CASE \E i \in Slot : RequestConfirmation(i)
    <3>1. PICK i \in Slot : RequestConfirmation(i)
      BY <2>1
    <3>2. PICK o \in Iteration(call[i].doc), k \in Conf :
              /\ PassOf(call[i].doc, o) /\ o.dispatch = "confirmation"
              /\ call[i].run \in Run
              /\ conf'[k].run = call[i].run /\ conf'[k].step = o.doc.step
              /\ KnownConfs' = KnownConfs \cup {k}
      BY <3>1, RequestedConf
    <3>3. conf'[k].run \in Run /\ conf'[k].step \in Step
      BY <3>2 DEF PassOf
    <3>4. QED  BY <1>0, <3>2, <3>3, RecordType DEF KeepsRecords
  <2>2. CASE ~\E i \in Slot : RequestConfirmation(i)
    BY <1>0, <2>2, NoNewConfs, RecordType DEF KeepsRecords
  <2>3. QED  BY <2>1, <2>2
<1>3. QED  BY <1>1, <1>2 DEF TaskLinks, TaskSteps, ConfLinks, ConfSteps

(* An invocation that moves to a state whose references resolve keeps      *)
(* CallLinks.                                                              *)
LEMMA ServeLinks ==
    ASSUME TypeOK, Linked, RecordsGrow, NEW i \in Slot, NEW c,
           LinkedCall(c, KnownTasks, KnownConfs), Serve(i, c)
    PROVE  CallLinks'
<1>1. \A j \in Slot : LinkedCall(call'[j], KnownTasks, KnownConfs)
  BY DEF TypeOK, Linked, CallLinks, Serve
<1>2. \A d : LinkedCall(d, KnownTasks, KnownConfs) => LinkedCall(d, KnownTasks', KnownConfs')
  BY DEF LinkedCall, RecordsGrow
<1>3. QED  BY <1>1, <1>2 DEF CallLinks

(* A free slot refers to nothing.                                          *)
LEMMA IdleLinks == LinkedCall(Idle, KnownTasks, KnownConfs)
BY DEF LinkedCall, Idle, TaskPc, ByAgentPc

(* An invocation that ends leaves no dangling reference, nor does its      *)
(* agent.                                                                  *)
LEMMA EndsLinks ==
    ASSUME TypeOK, Linked, RecordsGrow, NEW i \in Slot, Ends(i)
    PROVE  CallLinks' /\ AgentLinks'
<1>1. CallLinks'
  BY IdleLinks, ServeLinks DEF Ends
<1>2. \A w, ts : LinkedAgent(w, ts) => LinkedAgent(AfterReply(w), ts)
  BY DEF LinkedAgent, AfterReply, NoWork
<1>3. \A a \in Agent : agent'[a] = agent[a] \/ agent'[a] = AfterReply(agent[a])
  BY DEF Ends, TypeOK
<1>4. \A a \in Agent : LinkedAgent(agent'[a], KnownTasks)
  BY <1>2, <1>3 DEF Linked, AgentLinks
<1>5. AgentLinks'
  BY <1>4 DEF AgentLinks, LinkedAgent, RecordsGrow
<1>6. QED  BY <1>1, <1>5

(* References of invocations that do not move keep resolving.              *)
LEMMA SameCallLinks ==
    ASSUME Linked, RecordsGrow, call' = call
    PROVE  CallLinks'
BY DEF Linked, CallLinks, LinkedCall, RecordsGrow

(* An agent that moves to a state whose references resolve keeps           *)
(* AgentLinks.                                                             *)
LEMMA AgentLinksOf ==
    ASSUME Linked, RecordsGrow, TypeOK, NEW a \in Agent, NEW w,
           LinkedAgent(w, KnownTasks), agent' = [agent EXCEPT ![a] = w]
    PROVE  AgentLinks'
<1>1. \A b \in Agent : LinkedAgent(agent'[b], KnownTasks)
  BY DEF Linked, AgentLinks, TypeOK
<1>2. QED  BY <1>1 DEF AgentLinks, LinkedAgent, RecordsGrow

(* References of agents that do not move keep resolving.                   *)
LEMMA SameAgentLinks ==
    ASSUME Linked, RecordsGrow, agent' = agent
    PROVE  AgentLinks'
BY DEF Linked, AgentLinks, LinkedAgent, RecordsGrow

(* A call that enters the engine. *)
LEMMA AdvancingLinks ==
    ASSUME NEW c \in Call, NEW d \in RunDoc, LinkedCall(c, KnownTasks, KnownConfs),
           c.run \in Run
    PROVE  LinkedCall(Advancing(c, d), KnownTasks, KnownConfs)
BY DEF Advancing, LinkedCall, Call, TaskPc, ByAgentPc

(* A request enters its handler with references that resolve.              *)
LEMMA RequestLinks ==
    ASSUME TypeOK, Linked, RecordsGrow, NEW i \in Slot, Request(i)
    PROVE  CallLinks' /\ AgentLinks'
<1>0. \A r \in Run : /\ [Idle EXCEPT !.run = r] \in Call
                     /\ [Idle EXCEPT !.run = r].run = r
                     /\ LinkedCall([Idle EXCEPT !.run = r], KnownTasks, KnownConfs)
  BY IdleType DEF Idle, Call, LinkedCall, TaskPc, ByAgentPc
<1>1. ASSUME NEW r \in Run, NEW d \in RunDoc, agent' = agent,
             Serve(i, Advancing([Idle EXCEPT !.run = r], d))
      PROVE  CallLinks' /\ AgentLinks'
  BY <1>0, <1>1, AdvancingLinks, ServeLinks, SameAgentLinks
<1>2. ASSUME NEW r \in Run, StartRun(i, r) PROVE CallLinks' /\ AgentLinks'
  <2>1. FreshRun \in RunDoc
    BY GraphAssumption DEF FreshRun, RunDoc, RunStatus, Cancellable, Waiting
  <2>2. QED  BY <1>1, <1>2, <2>1 DEF StartRun
<1>3. ASSUME NEW r \in Run, Confirm(i, r) PROVE CallLinks' /\ AgentLinks'
  <2>1. run[r] \in RunDoc /\ run[r].step \in Step
    BY <1>3, WaitingDoc DEF TypeOK, Confirm, Waiting, Cancellable
  <2>2. AfterConfirmation(run[r]) \in RunDoc
    BY <2>1, ResumeSound
  <2>3. QED  BY <1>1, <1>3, <2>2 DEF Confirm
<1>4. ASSUME NEW r \in Run, Approve(i, r) PROVE CallLinks' /\ AgentLinks'
  <2>1. run[r] \in RunDoc /\ run[r].step \in Step
    BY <1>4, WaitingDoc DEF TypeOK, Approve, Waiting, Cancellable
  <2>2. \A b \in BOOLEAN : AfterApproval(run[r], b) \in RunDoc
    BY <2>1, ResumeSound
  <2>3. QED  BY <1>1, <1>4, <2>2 DEF Approve
<1>5. ASSUME NEW r \in Run, Cancel(i, r) PROVE CallLinks' /\ AgentLinks'
  <2>1. LinkedCall([Idle EXCEPT !.pc = "cancel_save", !.run = r, !.doc = AfterCancel(run[r])],
                   KnownTasks, KnownConfs)
    BY DEF Idle, LinkedCall, TaskPc, ByAgentPc
  <2>2. QED  BY <1>5, <2>1, ServeLinks, SameAgentLinks DEF Cancel
<1>6. ASSUME NEW t \in Task, OperatorReports(i, t) PROVE CallLinks' /\ AgentLinks'
  <2>1. t \in KnownTasks
    BY <1>6 DEF OperatorReports, Open, KnownTasks
  <2>2. LinkedCall([Idle EXCEPT !.pc = "result_run", !.task = t, !.run = task[t].run],
                   KnownTasks, KnownConfs)
    BY <2>1, RecordType, ControlPlaneAssumption
    DEF Idle, LinkedCall, TaskPc, ByAgentPc, KnownTasks
  <2>3. QED  BY <1>6, <2>2, ServeLinks, SameAgentLinks DEF OperatorReports
<1>7. ASSUME NEW a \in Agent, AgentRecords(a, i) PROVE CallLinks' /\ AgentLinks'
  <2>1. agent[a].grant # NoGrant /\ agent[a].task \in KnownTasks
    BY <1>7 DEF AgentRecords, Linked, AgentLinks, LinkedAgent
  <2>2. LinkedCall([Idle EXCEPT !.pc = "record_run", !.agent = a, !.run = task[agent[a].task].run],
                   KnownTasks, KnownConfs)
    BY <2>1, RecordType, ControlPlaneAssumption DEF Idle, LinkedCall, TaskPc, ByAgentPc
  <2>3. CallLinks'
    BY <1>7, <2>2, ServeLinks, SameCallLinks DEF AgentRecords
  <2>4. \/ agent' = [agent EXCEPT ![a].pc = "recording", ![a].slot = i]
        \/ agent' = [agent EXCEPT ![a].pc = "recorded"]
    BY <1>7 DEF AgentRecords
  <2>5. CASE agent' = [agent EXCEPT ![a].pc = "recording", ![a].slot = i]
    <3>1. LinkedAgent([agent[a] EXCEPT !.pc = "recording", !.slot = i], KnownTasks)
      BY <2>1 DEF LinkedAgent, TypeOK, AgentDoc
    <3>2. agent' = [agent EXCEPT ![a] = [agent[a] EXCEPT !.pc = "recording", !.slot = i]]
      BY <2>5 DEF TypeOK, AgentDoc
    <3>3. QED  BY <2>3, <3>1, <3>2, AgentLinksOf
  <2>6. CASE agent' = [agent EXCEPT ![a].pc = "recorded"]
    <3>1. LinkedAgent([agent[a] EXCEPT !.pc = "recorded"], KnownTasks)
      BY <2>1 DEF LinkedAgent, TypeOK, AgentDoc
    <3>2. agent' = [agent EXCEPT ![a] = [agent[a] EXCEPT !.pc = "recorded"]]
      BY <2>6 DEF TypeOK, AgentDoc
    <3>3. QED  BY <2>3, <3>1, <3>2, AgentLinksOf
  <2>7. QED  BY <2>4, <2>5, <2>6
<1>8. ASSUME NEW a \in Agent, AgentReports(a, i) PROVE CallLinks' /\ AgentLinks'
  <2> DEFINE t == agent[a].task
  <2>1. agent[a].grant # NoGrant /\ agent[a].task \in KnownTasks
    BY <1>8 DEF AgentReports, MayReport, Linked, AgentLinks, LinkedAgent
  <2>2. LinkedCall([Idle EXCEPT !.pc = "result_task", !.task = t, !.agent = a,
                                !.grant = agent[a].grant, !.run = task[t].run],
                   KnownTasks, KnownConfs)
    BY <2>1, RecordType, ControlPlaneAssumption
    DEF Idle, LinkedCall, TaskPc, ByAgentPc, KnownTasks
  <2>3. CallLinks'
    BY <1>8, <2>2, ServeLinks, SameCallLinks DEF AgentReports
  <2>4. \/ agent' = [agent EXCEPT ![a].pc = "reporting", ![a].slot = i]
        \/ agent' = [agent EXCEPT ![a] = NoWork]
    BY <1>8 DEF AgentReports
  <2>5. CASE agent' = [agent EXCEPT ![a].pc = "reporting", ![a].slot = i]
    <3>1. LinkedAgent([agent[a] EXCEPT !.pc = "reporting", !.slot = i], KnownTasks)
      BY <2>1 DEF LinkedAgent, TypeOK, AgentDoc
    <3>2. agent' = [agent EXCEPT ![a] = [agent[a] EXCEPT !.pc = "reporting", !.slot = i]]
      BY <2>5 DEF TypeOK, AgentDoc
    <3>3. QED  BY <2>3, <3>1, <3>2, AgentLinksOf
  <2>6. CASE agent' = [agent EXCEPT ![a] = NoWork]
    <3>1. LinkedAgent(NoWork, KnownTasks)
      BY DEF LinkedAgent, NoWork
    <3>2. QED  BY <2>3, <2>6, <3>1, AgentLinksOf
  <2>7. QED  BY <2>4, <2>5, <2>6
<1>9. ASSUME NEW a \in Agent, NEW t \in Task, AgentClaims(a, i, t)
      PROVE  CallLinks' /\ AgentLinks'
  <2>1. t \in KnownTasks
    BY <1>9 DEF AgentClaims, Open, KnownTasks
  <2>2. LinkedCall([Idle EXCEPT !.pc = "claim_run", !.task = t, !.agent = a,
                                !.run = task[t].run],
                   KnownTasks, KnownConfs)
    BY <2>1, RecordType, ControlPlaneAssumption
    DEF Idle, LinkedCall, TaskPc, ByAgentPc, KnownTasks
  <2>3. LinkedAgent([NoWork EXCEPT !.pc = "claiming", !.slot = i], KnownTasks)
    BY DEF LinkedAgent, NoWork
  <2>4. QED  BY <1>9, <2>2, <2>3, ServeLinks, AgentLinksOf DEF AgentClaims
<1>10. QED
  BY <1>2, <1>3, <1>4, <1>5, <1>6, <1>7, <1>8, <1>9 DEF Request

(* e is call c with another document, pass count or program point of the   *)
(* engine.                                                                 *)
Continues(c, e) ==
    /\ e \in Call
    /\ e.run = c.run /\ e.task = c.task /\ e.agent = c.agent
    /\ e.grant = c.grant /\ e.tasks = c.tasks /\ e.confs = c.confs
    /\ e.pc \in {"save", "finish"} \/ (e.pc = "advance" /\ e.doc.status = "RUNNING")

(* A pass of the engine changes neither the run, the task nor the agent    *)
(* of its invocation.                                                      *)
LEMMA PassContinues ==
    ASSUME NEW c \in Call, NEW d \in RunDoc, NEW pc \in {"save", "finish", "advance"},
           pc = "advance" => d.status = "RUNNING"
    PROVE  Continues(c, [c EXCEPT !.doc = d, !.passes = @ + 1, !.pc = pc])
<1> DEFINE e == [c EXCEPT !.doc = d, !.passes = @ + 1, !.pc = pc]
<1>1. e \in Call
  BY PassCallType DEF CallPc
<1>2. /\ e.run = c.run /\ e.task = c.task /\ e.agent = c.agent
      /\ e.grant = c.grant /\ e.tasks = c.tasks /\ e.confs = c.confs
      /\ e.pc = pc /\ e.doc = d
  BY DEF Call
<1> HIDE DEF e
<1>3. e.pc \in {"save", "finish"} \/ (e.pc = "advance" /\ e.doc.status = "RUNNING")
  BY <1>2
<1>4. Continues(c, e)
  BY <1>1, <1>2, <1>3 DEF Continues
<1>5. QED  BY <1>4 DEF e

(* Nor does the save after it.                                             *)
LEMMA SaveContinues ==
    ASSUME NEW c \in Call, NEW pc \in {"finish", "advance"},
           pc = "advance" => c.doc.status = "RUNNING"
    PROVE  Continues(c, [c EXCEPT !.pc = pc])
<1> DEFINE e == [c EXCEPT !.pc = pc]
<1>1. e \in Call
  BY DEF Call, CallPc
<1>2. /\ e.run = c.run /\ e.task = c.task /\ e.agent = c.agent
      /\ e.grant = c.grant /\ e.tasks = c.tasks /\ e.confs = c.confs
      /\ e.pc = pc /\ e.doc = c.doc
  BY DEF Call
<1> HIDE DEF e
<1>3. e.pc \in {"save", "finish"} \/ (e.pc = "advance" /\ e.doc.status = "RUNNING")
  BY <1>2
<1>4. Continues(c, e)
  BY <1>1, <1>2, <1>3 DEF Continues
<1>5. QED  BY <1>4 DEF e

(* An invocation that continues with the same references keeps CallLinks   *)
(* and AgentLinks.                                                         *)
LEMMA EngineServeLinks ==
    ASSUME TypeOK, Linked, RecordsGrow, NEW i \in Slot, call[i].run \in Run,
           NEW e, Continues(call[i], e), Serve(i, e), agent' = agent
    PROVE  CallLinks' /\ AgentLinks'
<1>1. LinkedCall(call[i], KnownTasks, KnownConfs)
  BY DEF Linked, CallLinks
<1>2. LinkedCall(e, KnownTasks, KnownConfs)
  BY <1>1 DEF Continues, LinkedCall, TaskPc, ByAgentPc
<1>3. QED  BY <1>2, ServeLinks, SameAgentLinks

(* The engine keeps the references of its invocation.                      *)
LEMMA EngineLinks ==
    ASSUME TypeOK, Linked, RecordsGrow, NEW i \in Slot, EngineStep(i)
    PROVE  CallLinks' /\ AgentLinks'
<1> DEFINE c == call[i]
<1>0. c \in Call
  BY CallType
<1>1. c.pc = "advance" => /\ c.run \in Run
                          /\ \A o \in Iteration(c.doc) : o.doc \in RunDoc
  BY AdvanceDoc, IterationSound DEF PassOf, Outcome
<1>2. CASE PlainPass(i)
  <2>1. PICK o \in Iteration(c.doc) :
          LET e == [c EXCEPT !.doc = o.doc, !.passes = @ + 1]
          IN  \/ Serve(i, [e EXCEPT !.pc = "save"])
              \/ Serve(i, [e EXCEPT !.pc = IF Looping(e) THEN "advance" ELSE "finish"])
    BY <1>2 DEF PlainPass
  <2> DEFINE e(pc) == [c EXCEPT !.doc = o.doc, !.passes = @ + 1, !.pc = pc]
  <2>2. \/ Serve(i, e("save")) \/ Serve(i, e("finish"))
        \/ (Serve(i, e("advance")) /\ o.doc.status = "RUNNING")
    BY <1>0, <2>1 DEF Looping, Call
  <2>3. agent' = agent /\ c.run \in Run /\ o.doc \in RunDoc
    BY <1>1, <1>2 DEF PlainPass
  <2>4. Continues(c, e("save")) /\ Continues(c, e("finish"))
    BY <1>0, <2>3, PassContinues
  <2>5. o.doc.status = "RUNNING" => Continues(c, e("advance"))
    BY <1>0, <2>3, PassContinues
  <2> HIDE DEF e
  <2>6. QED  BY <2>2, <2>3, <2>4, <2>5, EngineServeLinks
<1>3. CASE ThrowingPass(i)
  BY <1>3, EndsLinks DEF ThrowingPass
<1>4. ASSUME NEW d \in RunDoc, c.run \in Run, agent' = agent,
             Serve(i, [c EXCEPT !.doc = d, !.passes = @ + 1, !.pc = "save"])
      PROVE  CallLinks' /\ AgentLinks'
  <2>1. Continues(c, [c EXCEPT !.doc = d, !.passes = @ + 1, !.pc = "save"])
    BY <1>0, PassContinues
  <2>2. QED  BY <1>4, <2>1, EngineServeLinks
<1>5. CASE QueueTask(i)
  BY <1>1, <1>4, <1>5 DEF QueueTask
<1>6. CASE RequestConfirmation(i)
  <2>1. PICK o \in Iteration(c.doc), k \in Conf :
          Serve(i, [c EXCEPT !.doc = [o.doc EXCEPT !.pending = k],
                             !.passes = @ + 1, !.pc = "save"])
    BY <1>6 DEF RequestConfirmation
  <2>2. c.run \in Run /\ o.doc \in RunDoc /\ agent' = agent
    BY <1>1, <1>6 DEF RequestConfirmation
  <2> DEFINE d == [o.doc EXCEPT !.pending = k]
  <2>3. d \in RunDoc
    BY <2>2 DEF RunDoc
  <2>4. Serve(i, [c EXCEPT !.doc = d, !.passes = @ + 1, !.pc = "save"])
    BY <2>1
  <2> HIDE DEF d
  <2>5. QED  BY <1>4, <2>2, <2>3, <2>4
<1>7. CASE SaveRun(i)
  <2>1. \/ Serve(i, [c EXCEPT !.pc = "finish"])
        \/ Serve(i, [c EXCEPT !.pc = "advance"]) /\ c.doc.status = "RUNNING"
    BY <1>7 DEF SaveRun, Looping
  <2>2. c.run \in Run /\ agent' = agent
    BY <1>7 DEF SaveRun, Linked, CallLinks, LinkedCall
  <2>3. Continues(c, [c EXCEPT !.pc = "finish"])
    BY <1>0, SaveContinues
  <2>4. c.doc.status = "RUNNING" => Continues(c, [c EXCEPT !.pc = "advance"])
    BY <1>0, SaveContinues
  <2>5. QED  BY <2>1, <2>2, <2>3, <2>4, EngineServeLinks
<1>8. CASE Finish(i)
  BY <1>8, EndsLinks DEF Finish
<1>9. QED  BY <1>2, <1>3, <1>5, <1>6, <1>7, <1>8 DEF EngineStep

(* claimAgentTask() keeps references, and hands the agent a task with a    *)
(* grant.                                                                  *)
LEMMA ClaimLinks ==
    ASSUME TypeOK, Linked, RecordsGrow, NEW i \in Slot,
           ClaimReadsRun(i) \/ ClaimTakesLease(i) \/ ClaimStoresTask(i) \/ ClaimSavesRun(i)
    PROVE  CallLinks' /\ AgentLinks'
<1> DEFINE c == call[i]
<1>0. LinkedCall(c, KnownTasks, KnownConfs) /\ c \in Call
  BY CallType DEF Linked, CallLinks
<1>1. CASE ClaimReadsRun(i)
  <2>1. LinkedCall([c EXCEPT !.pc = "claim_lease", !.doc = run[c.run]], KnownTasks, KnownConfs)
    BY <1>0, <1>1 DEF ClaimReadsRun, LinkedCall, Call, TaskPc, ByAgentPc
  <2>2. QED  BY <1>1, <2>1, ServeLinks, EndsLinks, SameAgentLinks DEF ClaimReadsRun
<1>2. CASE ClaimTakesLease(i)
  <2>1. \A u \in Nat : LinkedCall([c EXCEPT !.pc = "claim_task", !.until = u],
                                  KnownTasks, KnownConfs)
    BY <1>0, <1>2 DEF ClaimTakesLease, LinkedCall, Call, TaskPc, ByAgentPc
  <2>2. now + LeaseTicks \in Nat
    BY ControlPlaneAssumption DEF TypeOK, LeaseTicks
  <2>3. \/ Ends(i)
        \/ Serve(i, [c EXCEPT !.pc = "claim_task", !.until = now + LeaseTicks])
             /\ agent' = agent
    BY <1>2 DEF ClaimTakesLease
  <2>4. LinkedCall([c EXCEPT !.pc = "claim_task", !.until = now + LeaseTicks],
                   KnownTasks, KnownConfs)
    BY <2>1, <2>2
  <2>5. QED  BY <2>3, <2>4, ServeLinks, EndsLinks, SameAgentLinks
<1>3. CASE ClaimStoresTask(i)
  <2>1. \A g \in Grant : LinkedCall([c EXCEPT !.pc = "claim_save", !.grant = g],
                                    KnownTasks, KnownConfs)
    BY <1>0, <1>3, ControlPlaneAssumption
    DEF ClaimStoresTask, LinkedCall, Call, TaskPc, ByAgentPc
  <2>2. QED  BY <1>3, <2>1, ServeLinks, SameAgentLinks DEF ClaimStoresTask
<1>4. CASE ClaimSavesRun(i)
  <2>1. c.task \in KnownTasks /\ c.grant # NoGrant /\ c.agent \in Agent
    BY <1>0, <1>4 DEF ClaimSavesRun, LinkedCall, Call, TaskPc, ByAgentPc
  <2>2. LinkedAgent([NoWork EXCEPT !.pc = "claimed", !.task = c.task, !.grant = c.grant],
                    KnownTasks)
    BY <2>1 DEF LinkedAgent, NoWork
  <2>3. CallLinks'
    BY <1>4, IdleLinks, ServeLinks DEF ClaimSavesRun
  <2>4. AgentLinks'
    BY <1>4, <2>1, <2>2, AgentLinksOf, SameAgentLinks DEF ClaimSavesRun
  <2>5. QED  BY <2>3, <2>4
<1>5. QED  BY <1>1, <1>2, <1>3, <1>4

(* recordStepResult() and resumeAgentTask() keep references.               *)
LEMMA ResultLinks ==
    ASSUME TypeOK, Linked, RecordsGrow, NEW i \in Slot,
           \/ RecordReadsRun(i) \/ RecordSavesRun(i) \/ ResultReadsTask(i)
           \/ ResultReadsRun(i) \/ OperatorResumes(i) \/ ConsumesGrant(i)
    PROVE  CallLinks' /\ AgentLinks'
<1> DEFINE c == call[i]
<1>0. LinkedCall(c, KnownTasks, KnownConfs) /\ c \in Call
  BY CallType DEF Linked, CallLinks
<1>1. CASE RecordReadsRun(i)
  <2>1. LinkedCall([c EXCEPT !.pc = "record_save", !.doc = run[c.run]], KnownTasks, KnownConfs)
    BY <1>0, <1>1 DEF RecordReadsRun, LinkedCall, Call, TaskPc, ByAgentPc
  <2>2. QED  BY <1>1, <2>1, ServeLinks, SameAgentLinks DEF RecordReadsRun
<1>2. CASE RecordSavesRun(i)
  BY <1>2, EndsLinks DEF RecordSavesRun
<1>3. CASE ResultReadsTask(i)
  <2>1. LinkedCall([c EXCEPT !.pc = "result_run"], KnownTasks, KnownConfs)
    BY <1>0, <1>3 DEF ResultReadsTask, LinkedCall, Call, TaskPc, ByAgentPc
  <2>2. QED  BY <1>3, <2>1, ServeLinks, EndsLinks, SameAgentLinks DEF ResultReadsTask
<1>4. CASE ResultReadsRun(i)
  <2>1. Waits(run[c.run], c.task) =>
          LinkedCall([c EXCEPT !.pc = "verify", !.doc = run[c.run]], KnownTasks, KnownConfs)
    BY <1>0, <1>4 DEF ResultReadsRun, Waits, LinkedCall, Call, TaskPc, ByAgentPc
  <2>2. QED  BY <1>4, <2>1, ServeLinks, EndsLinks, SameAgentLinks DEF ResultReadsRun
<1>5. ASSUME c.pc = "verify", ResumeFromAgent(i), agent' = agent
      PROVE  CallLinks' /\ AgentLinks'
  <2>1. c.doc \in RunDoc /\ c.doc.step \in Step /\ c.run \in Run
    BY <1>0, <1>5, CallType, WaitingDoc DEF LinkedCall, Waiting, Cancellable
  <2>2. PICK b \in BOOLEAN, h \in BOOLEAN : Serve(i, Advancing(c, AfterAgent(c.doc, b, h)))
    BY <1>5 DEF ResumeFromAgent
  <2>3. AfterAgent(c.doc, b, h) \in RunDoc
    BY <2>1, ResumeSound
  <2>4. LinkedCall(Advancing(c, AfterAgent(c.doc, b, h)), KnownTasks, KnownConfs)
    BY <1>0, <2>1, <2>3, AdvancingLinks
  <2>5. QED  BY <1>5, <2>2, <2>4, ServeLinks, SameAgentLinks
<1>6. CASE OperatorResumes(i)
  BY <1>5, <1>6 DEF OperatorResumes
<1>7. CASE ConsumesGrant(i)
  BY <1>5, <1>7, EndsLinks DEF ConsumesGrant
<1>8. QED  BY <1>1, <1>2, <1>3, <1>4, <1>6, <1>7

(* cancelRun() closes only records its scan found.                         *)
LEMMA CancelLinks ==
    ASSUME TypeOK, Linked, RecordsGrow, NEW i \in Slot, CancelStep(i)
    PROVE  CallLinks' /\ AgentLinks'
<1> DEFINE c == call[i]
<1>0. LinkedCall(c, KnownTasks, KnownConfs) /\ c \in Call
  BY CallType DEF Linked, CallLinks
<1>1. CASE CancelSavesRun(i)
  <2>1. LinkedCall([c EXCEPT !.pc = "cancel_scan"], KnownTasks, KnownConfs)
    BY <1>0, <1>1 DEF CancelSavesRun, LinkedCall, Call, TaskPc, ByAgentPc
  <2>2. QED  BY <1>1, <2>1, ServeLinks, SameAgentLinks DEF CancelSavesRun
<1>2. CASE CancelScans(i)
  <2> DEFINE ts == {t \in Task : task[t].run = c.run /\ task[t].status = "PENDING"}
             ks == {k \in Conf : conf[k].run = c.run /\ conf[k].status = "PENDING"}
  <2>1. ts \subseteq KnownTasks /\ ks \subseteq KnownConfs
    BY DEF KnownTasks, KnownConfs
  <2>2. Serve(i, [c EXCEPT !.pc = "cancel_items", !.tasks = ts, !.confs = ks])
    BY <1>2 DEF CancelScans
  <2> HIDE DEF ts, ks
  <2>3. LinkedCall([c EXCEPT !.pc = "cancel_items", !.tasks = ts, !.confs = ks],
                   KnownTasks, KnownConfs)
    BY <1>0, <1>2, <2>1 DEF CancelScans, LinkedCall, Call, TaskPc, ByAgentPc
  <2>4. QED  BY <1>2, <2>2, <2>3, ServeLinks, SameAgentLinks DEF CancelScans
<1>3. CASE CancelClosesTask(i)
  <2>1. \A t \in c.tasks : LinkedCall([c EXCEPT !.tasks = @ \ {t}], KnownTasks, KnownConfs)
    BY <1>0 DEF LinkedCall, Call
  <2>2. QED  BY <1>3, <2>1, ServeLinks, SameAgentLinks DEF CancelClosesTask
<1>4. CASE CancelClosesConf(i)
  <2>1. \A k \in c.confs : LinkedCall([c EXCEPT !.confs = @ \ {k}], KnownTasks, KnownConfs)
    BY <1>0 DEF LinkedCall, Call
  <2>2. QED  BY <1>4, <2>1, ServeLinks, SameAgentLinks DEF CancelClosesConf
<1>5. CASE CancelReturns(i)
  BY <1>5, EndsLinks DEF CancelReturns
<1>6. QED  BY <1>1, <1>2, <1>3, <1>4, <1>5 DEF CancelStep

(* Crashes, lost replies and agents going away leave no dangling           *)
(* reference.                                                              *)
LEMMA FaultLinks ==
    ASSUME TypeOK, Linked, RecordsGrow
    PROVE  /\ \A i \in Slot : CallDies(i) => CallLinks' /\ AgentLinks'
           /\ \A a \in Agent : AgentActs(a) \/ ReplyLost(a) \/ AgentDies(a)
                               => CallLinks' /\ AgentLinks'
<1>1. ASSUME NEW i \in Slot, CallDies(i) PROVE CallLinks' /\ AgentLinks'
  BY <1>1, EndsLinks DEF CallDies
<1>2. ASSUME NEW a \in Agent, AgentActs(a) PROVE CallLinks' /\ AgentLinks'
  <2>1. LinkedAgent([agent[a] EXCEPT !.pc = "acted"], KnownTasks)
    BY <1>2 DEF AgentActs, Linked, AgentLinks, LinkedAgent, TypeOK, AgentDoc
  <2>2. agent' = [agent EXCEPT ![a] = [agent[a] EXCEPT !.pc = "acted"]]
    BY <1>2 DEF AgentActs, TypeOK, AgentDoc
  <2>3. QED  BY <1>2, <2>1, <2>2, AgentLinksOf, SameCallLinks DEF AgentActs
<1>3. ASSUME NEW a \in Agent, ReplyLost(a) PROVE CallLinks' /\ AgentLinks'
  <2>1. LinkedAgent(agent[a], KnownTasks) /\ agent[a] \in AgentDoc
    BY DEF Linked, AgentLinks, TypeOK
  <2>2. CASE agent' = [agent EXCEPT ![a] = AfterReply(agent[a])]
    <3>1. LinkedAgent(AfterReply(agent[a]), KnownTasks)
      BY <2>1 DEF LinkedAgent, AfterReply, NoWork, AgentDoc
    <3>2. QED  BY <1>3, <2>2, <3>1, AgentLinksOf, SameCallLinks DEF ReplyLost
  <2>3. CASE /\ agent[a].pc = "reporting"
             /\ agent' = [agent EXCEPT ![a].slot = NoSlot, ![a].tries = @ + 1,
                             ![a].pc = IF "record" \in Ops THEN "recorded" ELSE "acted"]
    <3> DEFINE w == [agent[a] EXCEPT !.slot = NoSlot, !.tries = @ + 1,
                             !.pc = IF "record" \in Ops THEN "recorded" ELSE "acted"]
    <3>1. w.task = agent[a].task /\ w.grant = agent[a].grant
      BY <2>1 DEF AgentDoc
    <3>2. agent' = [agent EXCEPT ![a] = w]
      BY <2>3 DEF TypeOK, AgentDoc
    <3> HIDE DEF w
    <3>3. LinkedAgent(w, KnownTasks)
      BY <2>1, <2>3, <3>1 DEF LinkedAgent
    <3>4. QED  BY <1>3, <3>2, <3>3, AgentLinksOf, SameCallLinks DEF ReplyLost
  <2>4. QED  BY <1>3, <2>2, <2>3 DEF ReplyLost
<1>4. ASSUME NEW a \in Agent, AgentDies(a) PROVE CallLinks' /\ AgentLinks'
  <2>1. LinkedAgent(NoWork, KnownTasks)
    BY DEF LinkedAgent, NoWork
  <2>2. QED  BY <1>4, <2>1, AgentLinksOf, SameCallLinks DEF AgentDies
<1>5. QED  BY <1>1, <1>2, <1>3, <1>4

(* A sweep that moves on with references that resolve keeps SweepLinks.    *)
LEMMA SweepServeLinks ==
    ASSUME TypeOK, Linked, RecordsGrow, NEW w \in Sweeper, NEW s \in Sweep,
           LinkedSweep(s, KnownTasks, KnownConfs), SweepStep(w, s)
    PROVE  SweepLinks'
<1>1. LinkedSweep(Resting, KnownTasks, KnownConfs)
  BY DEF LinkedSweep, Resting
<1>2. \A v \in Sweeper : LinkedSweep(sweep'[v], KnownTasks, KnownConfs)
  BY <1>1 DEF TypeOK, Linked, SweepLinks, SweepStep
<1>3. QED  BY <1>2 DEF SweepLinks, LinkedSweep, RecordsGrow

(* References of sweeps that do not move keep resolving.                   *)
LEMMA SameSweepLinks ==
    ASSUME Linked, RecordsGrow, sweep' = sweep
    PROVE  SweepLinks'
BY DEF Linked, SweepLinks, LinkedSweep, RecordsGrow

(* sweepExpired() holds only records its scan found and runs that waited.  *)
LEMMA SweeperLinks ==
    ASSUME TypeOK, Linked, RecordsGrow, NEW w \in Sweeper, SweeperStep(w)
    PROVE  SweepLinks'
<1> DEFINE s == sweep[w]
<1>0. /\ LinkedSweep(s, KnownTasks, KnownConfs) /\ s \in Sweep
      /\ s.release \subseteq Task /\ s.tasks \subseteq Task /\ s.confs \subseteq Conf
      /\ s.runs \subseteq Run /\ Resting \in Sweep
  BY SweepType DEF Linked, SweepLinks
<1>1. CASE SweepScans(w)
  <2> DEFINE late  == {t \in Task : OverdueTask(t)}
             confs == {k \in Conf : OverdueConf(k)}
             rel   == {t \in Task : Stalled(t)}
             runs  == {task[t].run : t \in late} \cup {conf[k].run : k \in confs}
  <2>1. late \cup rel \subseteq KnownTasks /\ confs \subseteq KnownConfs
    BY DEF KnownTasks, KnownConfs, OverdueTask, OverdueConf, Stalled, Open
  <2>2. runs \subseteq Run /\ late \subseteq Task /\ confs \subseteq Conf /\ rel \subseteq Task
    BY <2>1, RecordType
  <2>3. SweepStep(w, [Resting EXCEPT !.pc = "items", !.release = rel,
                                     !.tasks = late, !.confs = confs, !.runs = runs])
    BY <1>1 DEF SweepScans
  <2> HIDE DEF late, confs, rel, runs
  <2>4. /\ [Resting EXCEPT !.pc = "items", !.release = rel,
                           !.tasks = late, !.confs = confs, !.runs = runs] \in Sweep
        /\ LinkedSweep([Resting EXCEPT !.pc = "items", !.release = rel,
                           !.tasks = late, !.confs = confs, !.runs = runs],
                       KnownTasks, KnownConfs)
    BY <1>0, <2>1, <2>2 DEF Sweep, LinkedSweep
  <2>5. QED  BY <2>3, <2>4, SweepServeLinks
<1>2. CASE SweepReleases(w)
  <2>1. \A t \in s.release : /\ [s EXCEPT !.release = @ \ {t}] \in Sweep
                             /\ LinkedSweep([s EXCEPT !.release = @ \ {t}],
                                            KnownTasks, KnownConfs)
    BY <1>0 DEF Sweep, LinkedSweep
  <2>2. QED  BY <1>2, <2>1, SweepServeLinks DEF SweepReleases
<1>3. CASE SweepExpiresTask(w)
  <2>1. \A t \in s.tasks : /\ [s EXCEPT !.tasks = @ \ {t}] \in Sweep
                           /\ LinkedSweep([s EXCEPT !.tasks = @ \ {t}],
                                          KnownTasks, KnownConfs)
    BY <1>0 DEF Sweep, LinkedSweep
  <2>2. QED  BY <1>3, <2>1, SweepServeLinks DEF SweepExpiresTask
<1>4. CASE SweepExpiresConf(w)
  <2>1. \A k \in s.confs : /\ [s EXCEPT !.confs = @ \ {k}] \in Sweep
                           /\ LinkedSweep([s EXCEPT !.confs = @ \ {k}],
                                          KnownTasks, KnownConfs)
    BY <1>0 DEF Sweep, LinkedSweep
  <2>2. QED  BY <1>4, <2>1, SweepServeLinks DEF SweepExpiresConf
<1>5. CASE SweepReadsRuns(w)
  <2> DEFINE rs == {r \in s.runs : run[r].status \in {"WAITING_AGENT", "AWAITING_CONFIRMATION"}}
  <2>1. rs \subseteq Run /\ \A r \in rs : run[r].status \in Waiting
    BY <1>0 DEF Waiting
  <2>2. SweepStep(w, [s EXCEPT !.pc = "runs", !.docs = run, !.runs = rs])
    BY <1>5 DEF SweepReadsRuns
  <2> HIDE DEF rs
  <2>3. /\ [s EXCEPT !.pc = "runs", !.docs = run, !.runs = rs] \in Sweep
        /\ LinkedSweep([s EXCEPT !.pc = "runs", !.docs = run, !.runs = rs],
                       KnownTasks, KnownConfs)
    BY <1>0, <2>1 DEF Sweep, LinkedSweep, TypeOK
  <2>4. QED  BY <2>2, <2>3, SweepServeLinks
<1>6. CASE SweepTimesOut(w)
  <2>1. \A r \in s.runs : /\ [s EXCEPT !.runs = @ \ {r}] \in Sweep
                          /\ LinkedSweep([s EXCEPT !.runs = @ \ {r}],
                                         KnownTasks, KnownConfs)
    BY <1>0 DEF Sweep, LinkedSweep
  <2>2. QED  BY <1>6, <2>1, SweepServeLinks DEF SweepTimesOut
<1>7. QED  BY <1>1, <1>2, <1>3, <1>4, <1>5, <1>6 DEF SweeperStep

(* Every reference still resolves after a step. *)
THEOREM LinkedStep == TypeOK /\ Linked /\ [Next]_vars => Linked'
<1> SUFFICES ASSUME TypeOK, Linked, [Next]_vars PROVE Linked'
  OBVIOUS
<1>1. RecordsGrow
  BY GrowStep
<1>2. TaskLinks' /\ ConfLinks'
  BY RecordLinksStep
<1>3. CallLinks' /\ AgentLinks'
  <2>1. ASSUME NEW i \in Slot, CallStep(i) PROVE CallLinks' /\ AgentLinks'
    BY <1>1, <2>1, EngineLinks, ClaimLinks, ResultLinks, CancelLinks
    DEF CallStep, AgentCallStep
  <2>2. ASSUME \/ Tick \/ UNCHANGED vars
               \/ \E w \in Sweeper : SweeperStep(w) \/ SweepDies(w)
        PROVE  call' = call /\ agent' = agent
    BY <2>2 DEF Tick, vars, SweeperStep, SweepScans, SweepReleases, SweepExpiresTask,
       SweepExpiresConf, SweepReadsRuns, SweepTimesOut, SweepDies
  <2>3. QED
    BY <1>1, <2>1, <2>2, RequestLinks, FaultLinks, SameCallLinks, SameAgentLinks DEF Next, Work
<1>4. SweepLinks'
  <2>1. ASSUME NEW w \in Sweeper, SweepDies(w) PROVE SweepLinks'
    <3>1. LinkedSweep(Resting, KnownTasks, KnownConfs)
      BY DEF LinkedSweep, Resting
    <3>2. \A v \in Sweeper : LinkedSweep(sweep'[v], KnownTasks, KnownConfs)
      BY <2>1, <3>1 DEF SweepDies, TypeOK, Linked, SweepLinks
    <3>3. QED  BY <1>1, <3>2 DEF SweepLinks, LinkedSweep, RecordsGrow
  <2>2. ASSUME NEW i \in Slot, Request(i) PROVE sweep' = sweep
    BY <2>2 DEF Request, StartRun, Confirm, Approve, Cancel, OperatorReports, AgentRecords,
       AgentReports, AgentClaims
  <2>3. ASSUME NEW i \in Slot, EngineStep(i) \/ CancelStep(i) PROVE sweep' = sweep
    BY <2>3 DEF EngineStep, PlainPass, ThrowingPass, QueueTask, RequestConfirmation, SaveRun,
       Finish, CancelStep, CancelSavesRun, CancelScans, CancelClosesTask, CancelClosesConf,
       CancelReturns
  <2>4. ASSUME NEW i \in Slot, AgentCallStep(i) PROVE sweep' = sweep
    BY <2>4 DEF AgentCallStep, ClaimReadsRun, ClaimTakesLease, ClaimStoresTask, ClaimSavesRun,
       RecordReadsRun, RecordSavesRun, ResultReadsTask, ResultReadsRun, OperatorResumes,
       ConsumesGrant
  <2>5. ASSUME \/ Tick \/ UNCHANGED vars \/ \E i \in Slot : CallDies(i)
               \/ \E a \in Agent : AgentActs(a) \/ ReplyLost(a) \/ AgentDies(a)
        PROVE  sweep' = sweep
    BY <2>5 DEF Tick, vars, CallDies, AgentActs, ReplyLost, AgentDies
  <2>6. QED
    BY <1>1, <2>1, <2>2, <2>3, <2>4, <2>5, SweeperLinks, SameSweepLinks DEF Next, Work, CallStep
<1>5. QED  BY <1>2, <1>3, <1>4 DEF Linked

(* The initial state is well typed and refers to nothing.                  *)
LEMMA InitTypes == Init => TypeOK /\ Linked
<1> SUFFICES ASSUME Init PROVE TypeOK /\ Linked
  OBVIOUS
<1>1. AbsentTask \in TaskDoc /\ AbsentConf \in ConfDoc /\ NoLease \in Lease
        /\ NoIssue \in GrantDoc /\ NoWork \in AgentDoc /\ Resting \in Sweep
  BY DEF AbsentTask, TaskDoc, TaskStatus, AbsentConf, ConfDoc, ConfStatus, NoLease, Lease,
     NoIssue, GrantDoc, NoWork, AgentDoc, AgentPc, Resting, Sweep
<1>2. TypeOK
  BY <1>1, IdleType DEF Init, TypeOK
<1>3. KnownTasks = {} /\ KnownConfs = {}
  BY DEF Init, KnownTasks, KnownConfs, AbsentTask, AbsentConf
<1>4. TaskLinks /\ ConfLinks
  BY <1>3 DEF TaskLinks, ConfLinks, TaskSteps, ConfSteps
<1>5. CallLinks
  BY IdleLinks DEF Init, CallLinks
<1>6. SweepLinks /\ AgentLinks
  BY DEF Init, SweepLinks, LinkedSweep, Resting, AgentLinks, LinkedAgent, NoWork
<1>7. QED  BY <1>2, <1>4, <1>5, <1>6 DEF Linked

(* Type correctness, with the references that make it inductive. *)
THEOREM TypeCorrect == Spec => [](TypeOK /\ Linked)
<1>1. TypeOK /\ Linked /\ [Next]_vars => (TypeOK /\ Linked)'
  BY TypeStep, LinkedStep
<1>2. QED  BY <1>1, InitTypes, PTL DEF Spec
=============================================================================
