--------------------------- MODULE MCControlPlane ---------------------------
(* Workflows and symmetry for model-checking ControlPlane.                 *)
EXTENDS DocumentedPromises, TLC

StepOf(type, next, otherwise) ==
    [type |-> type, next |-> next, otherwise |-> otherwise, gated |-> FALSE,
     route |-> "connected", checked |-> FALSE, review |-> FALSE, success |-> TRUE]
Gated(s)    == [s EXCEPT !.gated = TRUE]
By(s, who)  == [s EXCEPT !.route = who]
EndStep     == StepOf("end", NoStep, NoStep)
FailStep    == [EndStep EXCEPT !.success = FALSE]

(* One agent step, then done. *)
ActSteps == {"act", "done"}
ActFlow == [s \in ActSteps |->
              IF s = "act" THEN StepOf("action", "done", NoStep) ELSE EndStep]

(* A protected agent step. *)
GatedFlow == [s \in ActSteps |-> IF s = "act" THEN Gated(ActFlow[s]) ELSE ActFlow[s]]

(* A protected step the managed executor tries first. *)
TryFlow == [s \in ActSteps |-> IF s = "act" THEN By(GatedFlow[s], "auto") ELSE ActFlow[s]]

(* Two agent steps in a row, the second protected. *)
TwoSteps == {"act", "then", "done"}
TwoFlow == [s \in TwoSteps |->
              CASE s = "act"  -> StepOf("action", "then", NoStep)
                [] s = "then" -> Gated(StepOf("action", "done", NoStep))
                [] OTHER      -> EndStep]

(* A human decision, an agent step the decision must cover, a protected    *)
(* step; a rejection without a target throws.                              *)
ReviewSteps == {"review", "act", "then", "done"}
ReviewFlow == [s \in ReviewSteps |->
                 CASE s = "review" -> StepOf("approval", "act", NoStep)
                   [] OTHER        -> TwoFlow[s]]

(* An agent step before an AI step that, its answer refused, is its own    *)
(* review: each such pass goes on without a save.                          *)
LoopSteps == {"act", "extract", "done"}
LoopFlow == [s \in LoopSteps |->
               CASE s = "act"     -> StepOf("action", "extract", NoStep)
                 [] s = "extract" -> [StepOf("ai", "extract", NoStep) EXCEPT !.review = TRUE]
                 [] OTHER         -> EndStep]

(* Every type of step and every way to wait: a branch, extraction that may *)
(* ask for review, a decision, a managed attempt that may fall back to an  *)
(* agent, a protected agent step, a simulated one, a verification.         *)
LongSteps == {"branch", "extract", "review", "try", "then", "mock", "check", "done", "bad"}
LongFlow == [s \in LongSteps |->
               CASE s = "branch"  -> StepOf("condition", "extract", "mock")
                 [] s = "extract" -> [StepOf("ai", "review", NoStep) EXCEPT !.review = TRUE]
                 [] s = "review"  -> StepOf("approval", "try", "bad")
                 [] s = "try"     -> By(StepOf("action", "then", "bad"), "auto")
                 [] s = "then"    -> Gated(StepOf("action", "check", NoStep))
                 [] s = "mock"    -> By(StepOf("action", "check", NoStep), "mock")
                 [] s = "check"   -> StepOf("verify", "done", "bad")
                 [] s = "bad"     -> FailStep
                 [] OTHER         -> EndStep]

Symmetry == Permutations(Agent) \cup Permutations(Task) \cup Permutations(Grant)
              \cup Permutations(Slot)
=============================================================================
