---------------------------- MODULE EngineSteps ----------------------------
(***************************************************************************)
(* The pure part of WorkflowEngine (packages/engine/src/index.ts): what    *)
(* one pass of the loop in advance() makes of a run document, and what     *)
(* each resume method does to the document before it calls advance().      *)
(*                                                                         *)
(* Data is abstracted to what control depends on.  The value of a          *)
(* condition, of a verification and of an AI or action outcome is not      *)
(* modelled: every operator returns the SET of documents the code can      *)
(* produce.                                                                *)
(***************************************************************************)
EXTENDS Naturals, FiniteSets

CONSTANTS Step,     \* step ids of the pinned workflow version
          NoStep,   \* an undefined step reference
          StartAt,  \* workflow.startAt
          Flow,     \* the workflow: Flow[s] is the definition of step s
          Conf,     \* confirmation ids
          NoConf

StepType == {"ai", "condition", "approval", "action", "verify", "end"}

(* Who performs an action step.  "mock" is simulated; "connected" is an    *)
(* agent task; "auto" tries the managed executor first and may fall back;  *)
(* "managed" (browserMode = "managed") never falls back.                   *)
Route == {"mock", "connected", "auto", "managed"}

(* next is also whenTrue; otherwise stands for whenFalse, onReject and     *)
(* onFailure.  Both may be undefined, as the schema allows.                *)
StepDef == [type      : StepType,
            next      : Step \cup {NoStep},
            otherwise : Step \cup {NoStep},
            gated     : BOOLEAN,     \* requiresConfirmation
            route     : Route,
            checked   : BOOLEAN,     \* declares a verify contract
            review    : BOOLEAN,     \* "REVIEW" is among allowedValues
            success   : BOOLEAN]     \* outcome of an end step

ASSUME GraphAssumption ==
    /\ NoStep \notin Step
    /\ NoConf \notin Conf
    /\ StartAt \in Step
    /\ Flow \in [Step -> StepDef]

Waiting    == {"WAITING_AGENT", "WAITING_APPROVAL", "AWAITING_CONFIRMATION"}
Cancellable == {"RUNNING"} \cup Waiting
Terminal   == {"COMPLETED", "FAILED", "CANCELLED", "TIMED_OUT"}
RunStatus  == Cancellable \cup Terminal

(* A waiting document always names the step it waits on. *)
RunDoc == {d \in [status    : RunStatus,
                  step      : Step \cup {NoStep},
                  confirmed : SUBSET Step,
                  pending   : Conf \cup {NoConf}] :
             d.status \in Waiting => d.step \in Step}

(* The document start() saves before it advances. *)
FreshRun == [status |-> "RUNNING", step |-> StartAt,
             confirmed |-> {}, pending |-> NoConf]

Goto(d, s) == [d EXCEPT !.status = "RUNNING", !.step = s]
Fail(d)    == [d EXCEPT !.status = "FAILED", !.step = NoStep]
GotoOrFail(d, s) == IF s = NoStep THEN Fail(d) ELSE Goto(d, s)

(***************************************************************************)
(* One pass of the loop.  An outcome is the document afterwards, the       *)
(* record the pass writes before the run (an agent task, a confirmation    *)
(* or none), whether the managed executor may have acted on the outside    *)
(* world, and how the pass ends: "save" writes the run, "skip" is the      *)
(* continue that does not, "throw" leaves advance() with an exception.     *)
(***************************************************************************)
Outcome == [doc : RunDoc, dispatch : {"none", "task", "confirmation"},
            acted : BOOLEAN, ends : {"save", "skip", "throw"}]

Pass(d, what, did, how) ==
    [doc |-> d, dispatch |-> what, acted |-> did, ends |-> how]
Saved(d)  == Pass(d, "none", FALSE, "save")
Thrown(d) == Pass(d, "none", FALSE, "throw")

(* Faulty variant: only the first step is gated. *)
NeedsConfirmationAtStart(d) ==
    /\ Flow[d.step].type = "action"
    /\ Flow[d.step].gated
    /\ d.step = StartAt
    /\ d.step \notin d.confirmed

NeedsConfirmation(d) ==
    /\ Flow[d.step].type = "action"
    /\ Flow[d.step].gated
    /\ d.step \notin d.confirmed

AwaitConfirmation(d) ==
    Pass([d EXCEPT !.status = "AWAITING_CONFIRMATION"], "confirmation", FALSE, "save")

(* Faulty variant: the waiting run forgets its step. *)
QueueForgettingStep(d) ==
    Pass([d EXCEPT !.status = "WAITING_AGENT", !.step = NoStep], "task", FALSE, "save")

QueueConnectedTask(d) ==
    Pass([d EXCEPT !.status = "WAITING_AGENT"], "task", FALSE, "save")

AiPasses(d) ==
    {Saved(Goto(d, Flow[d.step].next)), Saved(Fail(d))}
      \cup (IF Flow[d.step].review
            THEN {Pass(Goto(d, Flow[d.step].next), "none", FALSE, "skip")}
            ELSE {})

(* The managed executor reports SUCCEEDED, FAILED or FALLBACK with or      *)
(* without an observed side effect, or throws (an unparseable answer), in  *)
(* which case nothing says whether it acted.                               *)
ManagedPasses(d) ==
    LET s == Flow[d.step]
        failed(did) == Pass(GotoOrFail(d, s.otherwise), "none", did, "save")
    IN  {Pass(Goto(d, s.next), "none", TRUE, "save"),
         failed(TRUE), failed(FALSE),
         Pass(d, "none", TRUE, "throw"), Thrown(d)}
          \cup (IF s.route = "auto" THEN {QueueConnectedTask(d)} ELSE {})

ActionPasses(d) ==
    CASE Flow[d.step].route = "mock"      -> {Saved(Goto(d, Flow[d.step].next))}
      [] Flow[d.step].route = "connected" -> {QueueConnectedTask(d)}
      [] OTHER                            -> ManagedPasses(d)

BranchPasses(d) == {Saved(Goto(d, Flow[d.step].next)),
                    Saved(Goto(d, Flow[d.step].otherwise))}

EndPass(d) ==
    Saved([d EXCEPT !.status = IF Flow[d.step].success THEN "COMPLETED" ELSE "FAILED",
                    !.step = NoStep])

(* Every outcome of one pass over a RUNNING document. *)
Iteration(d) ==
    IF d.step = NoStep THEN {Thrown(d)}
    ELSE IF NeedsConfirmation(d) THEN {AwaitConfirmation(d)}
    ELSE CASE Flow[d.step].type = "ai"        -> AiPasses(d)
           [] Flow[d.step].type = "condition" -> BranchPasses(d)
           [] Flow[d.step].type = "verify"    -> BranchPasses(d)
           [] Flow[d.step].type = "approval"  ->
                  {Saved([d EXCEPT !.status = "WAITING_APPROVAL"])}
           [] Flow[d.step].type = "action"    -> ActionPasses(d)
           [] OTHER                           -> {EndPass(d)}

(***************************************************************************)
(* The resume methods, up to their call of advance().                      *)
(***************************************************************************)

(* resumeFromAgent: claimed is what the agent reported, holds whether the  *)
(* step's verify contract is met by it.                                    *)
AfterAgent(d, claimed, holds) ==
    LET s  == Flow[d.step]
        ok == claimed /\ (s.checked => holds)
    IN  IF ok THEN Goto(d, s.next) ELSE GotoOrFail(d, s.otherwise)

(* Faulty variant: the decision is recorded and not read. *)
AfterAnyDecision(d, approved) == Goto(d, Flow[d.step].next)

AfterApproval(d, approved) ==
    Goto(d, IF approved THEN Flow[d.step].next ELSE Flow[d.step].otherwise)

AfterConfirmation(d) ==
    [d EXCEPT !.status = "RUNNING", !.confirmed = @ \cup {d.step}, !.pending = NoConf]

AfterCancel(d) == [d EXCEPT !.status = "CANCELLED", !.step = NoStep]

(* timeout() keeps currentStepId. *)
AfterTimeout(d) == [d EXCEPT !.status = "TIMED_OUT"]
=============================================================================
