------------------------------ MODULE Authoring ------------------------------
(* A workflow under edit: what the builder's controls make of the draft,   *)
(* what it reports about it, and which drafts the control plane accepts.   *)
(* (apps/customer/app/workflow-builder.tsx, workflow-workspace.tsx; the    *)
(* draft route of services/control-plane/src/handler.ts)                   *)
(*                                                                         *)
(* Texts and inputs of a step are condensed to whether what the builder    *)
(* asks for is filled in, operations to the surface that performs them.    *)
EXTENDS Naturals, Sequences, FiniteSets

CONSTANTS
    MaxSteps,       \* ids a new step can get
    Kinds,          \* step types the author picks from
    Desks           \* see Desk

StepId   == 1..MaxSteps
Nowhere  == 0                      \* an undefined reference
Gone     == MaxSteps + 1           \* the id of no step
Link_A   == 0..MaxSteps + 1
LinkKeys == {"next", "whenTrue", "whenFalse", "other"}  \* other: onReject, onFailure
Surface_A == {"browser_extension", "desktop_agent", "none"}

StepKind == {"ai", "action", "condition", "approval", "verify", "end"}
StepDoc == [id : StepId, type : StepKind,
            next : Link_A, whenTrue : Link_A, whenFalse : Link_A, other : Link_A,
            provider : {"browser", "desktop", "api"},   \* api: run by AmazFlow itself
            executionTarget : Surface_A, operation : Surface_A,
            connected : BOOLEAN,    \* has browserMode, connectionId or path
            filled : BOOLEAN]
Draft   == [startAt : Link_A, steps : Seq(StepDoc),
            allowedProviders : SUBSET {"browser", "desktop", "api", "mock"}]

(* Which definition is opened, how many edits are made, what may be pasted *)
(* as JSON, and what else may have been saved meanwhile.                   *)
Desk == [opened : Draft, edits : Nat, pastes : SUBSET Draft, others : SUBSET Draft]

ASSUME AuthoringAssumption == MaxSteps \in Nat \ {0} /\ Desks \subseteq Desk /\ Kinds \subseteq StepKind

VARIABLES
    desk,       \* what this behaviour is about
    source,     \* the stored definition the workspace knows
    draft,      \* the definition on the screen
    edits,      \* edits so far
    pasted,     \* history: some JSON was applied
    bounced     \* history: a save was refused by the control plane
vars_A == <<desk, source, draft, edits, pasted, bounced>>

Init_A ==
    /\ desk \in Desks
    /\ source = desk.opened /\ draft = source
    /\ edits = 0 /\ pasted = FALSE /\ bounced = FALSE

StepsOf(d) == {d.steps[i] : i \in DOMAIN d.steps}
IdsOf(d)   == {s.id : s \in StepsOf(d)}
TargetForProvider(p) == CASE p = "browser" -> "browser_extension"
                          [] p = "desktop" -> "desktop_agent"
                          [] OTHER -> "none"
StepTarget(s) == IF s.type # "action" THEN "none"
                 ELSE IF s.executionTarget # "none" THEN s.executionTarget ELSE TargetForProvider(s.provider)

(* outgoingRefs: next is a link of every step, whatever its type.          *)
RefKeys(s) == {"next"} \cup (CASE s.type = "condition" -> {"whenTrue", "whenFalse"}
                               [] s.type \in {"approval", "verify", "action"} -> {"other"}
                               [] OTHER -> {})
OutgoingRefs(s) == {s[k] : k \in RefKeys(s)} \ {Nowhere}

(* Where the engine goes from a step (EngineSteps): a condition only to    *)
(* its branches, an end nowhere.                                           *)
RunsTo(s) ==
    LET unused == IF s.type \in {"condition", "end"} THEN {"next"} ELSE {}
    IN  {s[k] : k \in RefKeys(s) \ unused} \ {Nowhere}

(* Breadth first from startAt.                                             *)
ReachedBy(To(_), d) ==
    LET within[n \in 0..Len(d.steps)] ==
          IF n = 0 THEN {d.startAt} \cap IdsOf(d)
          ELSE LET onward == UNION {To(s) : s \in {t \in StepsOf(d) : t.id \in within[n - 1]}}
               IN  within[n - 1] \cup (onward \cap IdsOf(d))
    IN  within[Len(d.steps)]
ReachableIds(d) == ReachedBy(OutgoingRefs, d)

(***************************************************************************)
(* What the builder reports, and what the control plane refuses            *)
(***************************************************************************)
(* The blocking half of workflowProblems.                                  *)
StepProblem(d, s) ==
    \/ ~s.filled
    \/ \E r \in OutgoingRefs(s) : r \notin IdsOf(d) \/ r = s.id
    \/ StepTarget(s) # "none" /\ s.operation # StepTarget(s)
Blocked(d) == d.startAt \notin IdsOf(d) \/ \E s \in StepsOf(d) : StepProblem(d, s)

(* The other half: what can be saved and will not run well.                *)
Warned(d) ==
    LET reachable == ReachableIds(d)
    IN  \/ \E s \in StepsOf(d) : s.id \notin reachable
        \/ ~ \E s \in StepsOf(d) : s.type = "end" /\ s.id \in reachable
        \/ \E s \in StepsOf(d) : s.type # "end" /\ s.id \in reachable /\ OutgoingRefs(s) = {}

(* validateWorkflowShape *)
AcceptsStep(d, s) ==
    /\ s.type = "action" =>
          /\ s.provider \in d.allowedProviders
          /\ s.executionTarget \in {"none", TargetForProvider(s.provider)}
          /\ TargetForProvider(s.provider) \in {"none", s.operation}
          /\ s.provider # "browser" => ~s.connected
    /\ OutgoingRefs(s) \subseteq IdsOf(d)
Accepts(d) == d.steps # <<>> /\ d.startAt \in IdsOf(d) /\ \A s \in StepsOf(d) : AcceptsStep(d, s)

(* What is stored was accepted, by whichever route it was saved; so would  *)
(* be the template of a new workflow.                                      *)
ASSUME StoredAssumption == \A k \in Desks : \A d \in {k.opened} \cup k.others : Accepts(d)

(***************************************************************************)
(* Editing                                                                 *)
(***************************************************************************)
(* deriveAllowedProviders *)
Derived(steps) == LET used == {steps[i].provider : i \in {j \in DOMAIN steps : steps[j].type = "action"}}
                  IN  IF used = {} THEN {"mock"} ELSE used

(* Faulty variant: the providers stay those the workflow had.              *)
CommitKeeping(start, steps) ==
    /\ edits < desk.edits /\ edits' = edits + 1
    /\ draft' = [startAt |-> start, steps |-> steps, allowedProviders |-> draft.allowedProviders]
    /\ UNCHANGED <<desk, source, pasted, bounced>>

(* commit: every change of the draft.                                      *)
Commit(start, steps) ==
    /\ edits < desk.edits /\ edits' = edits + 1
    /\ draft' = [startAt |-> start, steps |-> steps, allowedProviders |-> Derived(steps)]
    /\ UNCHANGED <<desk, source, pasted, bounced>>
UpdateStep(i, s) == s # draft.steps[i] /\ Commit(draft.startAt, [draft.steps EXCEPT ![i] = s])

(* defaultStep: both branches of a condition lead to some end, or to the   *)
(* step itself; an end needs nothing filled in.                            *)
DefaultStep(type, id, fallback) ==
    LET branch == IF type # "condition" THEN Nowhere ELSE IF fallback = Nowhere THEN id ELSE fallback
    IN  [id |-> id, type |-> type, next |-> Nowhere, whenTrue |-> branch, whenFalse |-> branch,
         other |-> Nowhere, provider |-> "browser", executionTarget |-> "browser_extension",
         operation |-> "browser_extension", connected |-> FALSE, filled |-> type = "end"]

FirstEnd(but) ==
    LET at == {i \in DOMAIN draft.steps : draft.steps[i].type = "end" /\ draft.steps[i].id # but}
    IN  IF at = {} THEN Nowhere ELSE draft.steps[CHOOSE i \in at : \A j \in at : i <= j].id

(* changeStepType keeps the name and the next step.                        *)
ChangesStepType(i, type) ==
    LET s == draft.steps[i]
    IN  /\ type # s.type
        /\ UpdateStep(i, [DefaultStep(type, s.id, FirstEnd(s.id)) EXCEPT !.next = s.next])

(* newStepId: an id no step has and no link names.                         *)
Spare == {n \in StepId : n \notin IdsOf(draft) /\ \A s \in StepsOf(draft) : n \notin OutgoingRefs(s)}
NewStepId == CHOOSE n \in Spare : \A m \in Spare : n <= m

(* addStepAfter; without a step there is nothing to be wired to.           *)
AddsStepAfter(i) ==
    /\ Spare # {}
    /\ LET fresh == DefaultStep("action", NewStepId, FirstEnd(Nowhere))
           start == IF draft.startAt = Nowhere THEN NewStepId ELSE draft.startAt
       IN  IF draft.steps = <<>> THEN i = 1 /\ Commit(start, <<fresh>>)
           ELSE /\ i \in DOMAIN draft.steps
                /\ Commit(start, SubSeq(draft.steps, 1, i - 1)
                                   \o <<[draft.steps[i] EXCEPT !.next = NewStepId],
                                        [fresh EXCEPT !.next = draft.steps[i].next]>>
                                   \o SubSeq(draft.steps, i + 1, Len(draft.steps)))

(* Faulty variant: what pointed at the step still does.                    *)
RemovesStepAlone(i) ==
    LET removed == draft.steps[i]
        rest == SubSeq(draft.steps, 1, i - 1) \o SubSeq(draft.steps, i + 1, Len(draft.steps))
    IN  /\ rest # <<>>
        /\ Commit(IF draft.startAt = removed.id THEN rest[1].id ELSE draft.startAt, rest)

Repointed(s, old, new) ==
    LET to(k) == IF k \in RefKeys(s) /\ s[k] = old THEN new ELSE s[k]
    IN  [s EXCEPT !.next = to("next"), !.whenTrue = to("whenTrue"), !.whenFalse = to("whenFalse"),
                  !.other = to("other")]

(* removeStep: what pointed at the step points at what came next, if       *)
(* anything did.                                                           *)
RemovesStep(i) ==
    LET removed == draft.steps[i]
        successor == IF removed.next = removed.id THEN Nowhere ELSE removed.next
        rest == SubSeq(draft.steps, 1, i - 1) \o SubSeq(draft.steps, i + 1, Len(draft.steps))
        repaired == [j \in DOMAIN rest |-> Repointed(rest[j], removed.id, successor)]
    IN  /\ rest # <<>>
        /\ Commit(IF draft.startAt # removed.id THEN draft.startAt
                  ELSE IF successor # Nowhere THEN successor ELSE rest[1].id, repaired)

(* moveStep: the order of the cards, not of the steps.                     *)
MovesStep(i) ==
    /\ i < Len(draft.steps)
    /\ Commit(draft.startAt, [draft.steps EXCEPT ![i] = draft.steps[i + 1], ![i + 1] = draft.steps[i]])

StartsWith(v) == v # draft.startAt /\ v \in IdsOf(draft) /\ Commit(v, draft.steps)

(* StepLink: another step, or none where the control allows it.            *)
LinksTo(i, k, v) ==
    LET s == draft.steps[i]
    IN  /\ k \in RefKeys(s) \ (IF s.type \in {"condition", "end"} THEN {"next"} ELSE {})
        /\ v \in (IdsOf(draft) \ {s.id}) \cup (IF s.type = "condition" THEN {} ELSE {Nowhere})
        /\ UpdateStep(i, [s EXCEPT ![k] = v])

FillsIn(i) == UpdateStep(i, [draft.steps[i] EXCEPT !.filled = TRUE])

(* Where it happens: the surface follows, and an operation of another      *)
(* surface goes with its input.                                            *)
SetsProvider(i, p) ==
    LET s == draft.steps[i]
        target == TargetForProvider(p)
    IN  /\ s.type = "action" /\ p # s.provider
        /\ UpdateStep(i, IF target = "none" THEN [s EXCEPT !.provider = p, !.executionTarget = "none"]
                         ELSE [s EXCEPT !.provider = p, !.executionTarget = target,
                                        !.operation = target, !.filled = FALSE])

(* What it does: an operation of the surface shown settles the rest.       *)
PicksOperation(i) ==
    LET s == draft.steps[i]
        target == StepTarget(s)
    IN  /\ target # "none"
        /\ UpdateStep(i, [s EXCEPT !.operation = target, !.executionTarget = target, !.filled = FALSE,
                                   !.provider = IF target = "desktop_agent" THEN "desktop" ELSE "browser"])

(* applyJson: anything that parses.                                        *)
AppliesJson(d) ==
    /\ edits < desk.edits /\ edits' = edits + 1 /\ d # draft
    /\ draft' = [d EXCEPT !.allowedProviders = Derived(d.steps)] /\ pasted' = TRUE
    /\ UNCHANGED <<desk, source, bounced>>

(***************************************************************************)
(* The workspace                                                           *)
(***************************************************************************)
(* save: only without blocking problems; what the control plane stored is  *)
(* read back and replaces the draft.                                       *)
Saves ==
    /\ ~Blocked(draft)
    /\ IF Accepts(draft) THEN source' = draft /\ UNCHANGED bounced
       ELSE bounced' = TRUE /\ UNCHANGED source
    /\ UNCHANGED <<desk, draft, edits, pasted>>

(* Another version was saved: it replaces the draft, edits and all.        *)
Reloads(d) ==
    /\ d \notin {source, draft} /\ source' = d /\ draft' = d /\ pasted' = FALSE
    /\ UNCHANGED <<desk, edits, bounced>>

EditsStep(i) ==
    \/ RemovesStep(i) \/ MovesStep(i) \/ FillsIn(i) \/ PicksOperation(i)
    \/ \E type \in Kinds : ChangesStepType(i, type)
    \/ \E k \in LinkKeys, v \in Link_A : LinksTo(i, k, v)
    \/ \E p \in {"browser", "desktop", "api"} : SetsProvider(i, p)
Next_A ==
    \/ \E i \in DOMAIN draft.steps : EditsStep(i)
    \/ \E i \in StepId : AddsStepAfter(i)
    \/ \E v \in StepId : StartsWith(v)
    \/ \E d \in desk.pastes : AppliesJson(d)
    \/ \E d \in desk.others : Reloads(d)
    \/ Saves
Spec_A == Init_A /\ [][Next_A]_vars_A

(***************************************************************************)
(* Properties                                                              *)
(***************************************************************************)
AuthoringTypeOK ==
    /\ desk \in Desk /\ source \in Draft /\ draft \in Draft
    /\ edits \in Nat /\ pasted \in BOOLEAN /\ bounced \in BOOLEAN

(* The controls of the builder leave no link, and no start, to a step that *)
(* is not there, whatever was removed; and what it lets through to be      *)
(* saved the control plane accepts: the two validators agree, but for a    *)
(* step that left the browser with its connection, and pasted JSON that    *)
(* names for a step a surface its provider does not have.                  *)
LinksResolve ==
    draft.startAt \in IdsOf(draft) /\ \A s \in StepsOf(draft) : OutgoingRefs(s) \subseteq IdsOf(draft)
Fitting(s) == s.type = "action" => s.executionTarget \in {"none", TargetForProvider(s.provider)}
KeptConnection == \E s \in StepsOf(draft) : s.type = "action" /\ s.provider # "browser" /\ s.connected
PastedMisfit   == pasted /\ \E s \in StepsOf(draft) : ~Fitting(s)
DraftHolds == (pasted \/ LinksResolve) /\ (Blocked(draft) \/ KeptConnection \/ PastedMisfit \/ Accepts(draft))

(* "Nothing to fix. Every step is reachable and finishes."                 *)
(* (workflow-builder.tsx:1071)                                             *)
NothingToFix == ~Blocked(draft) /\ ~Warned(draft) => IdsOf(draft) \subseteq ReachedBy(RunsTo, draft)
=============================================================================
