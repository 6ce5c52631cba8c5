--------------------------- MODULE ServicesProofs ---------------------------
(* Authoring, for every draft, every number of steps and of edits: its     *)
(* types, and that the builder's controls leave no link to nowhere and     *)
(* agree with the server's check.  Then Credentials, Organizations and     *)
(* Authoring side by side.                                                 *)
EXTENDS MCServices, CredentialsProofs, OrganizationsProofs, SequenceTheorems, WellFoundedInduction

(***************************************************************************)
(* The builder                                                             *)
(***************************************************************************)
IdsIn(steps) == {steps[i].id : i \in DOMAIN steps}

(* Steps and a start as the controls leave them: every link and the start  *)
(* resolve, and no action names a surface its provider does not have.      *)
Wired(start, steps) ==
    /\ start \in IdsIn(steps)
    /\ \A i \in DOMAIN steps : OutgoingRefs(steps[i]) \subseteq IdsIn(steps) /\ Fitting(steps[i])

(* No action uses a provider the definition does not allow.                *)
Allowing(d) == \A i \in DOMAIN d.steps : d.steps[i].type = "action" => d.steps[i].provider \in d.allowedProviders

AuthoringInv ==
    /\ AuthoringTypeOK /\ desk \in Desks
    /\ pasted \/ Wired(draft.startAt, draft.steps)
    /\ Allowing(draft)

Links(s) == {s.next, s.whenTrue, s.whenFalse, s.other}

(* What a step refers to: its next step, and what its type has beside it.  *)
LEMMA Referring ==
    ASSUME NEW s \in StepDoc
    PROVE  /\ OutgoingRefs(s) = ({s.next}
                 \cup (IF s.type = "condition" THEN {s.whenTrue, s.whenFalse} ELSE {})
                 \cup (IF s.type \in {"approval", "verify", "action"} THEN {s.other} ELSE {})) \ {Nowhere}
           /\ Links(s) \subseteq Link_A /\ s.id \in StepId /\ s.type \in StepKind
<1>1. RefKeys(s) = {"next"} \cup (IF s.type = "condition" THEN {"whenTrue", "whenFalse"} ELSE {})
                            \cup (IF s.type \in {"approval", "verify", "action"} THEN {"other"} ELSE {})
  BY DEF RefKeys, StepDoc, StepKind
<1>2. /\ s["next"] = s.next /\ s["whenTrue"] = s.whenTrue /\ s["whenFalse"] = s.whenFalse
      /\ s["other"] = s.other
  OBVIOUS
<1>3. {s[k] : k \in RefKeys(s)} = {s.next}
                 \cup (IF s.type = "condition" THEN {s.whenTrue, s.whenFalse} ELSE {})
                 \cup (IF s.type \in {"approval", "verify", "action"} THEN {s.other} ELSE {})
  BY <1>1, <1>2
<1>4. Links(s) \subseteq Link_A /\ s.id \in StepId /\ s.type \in StepKind
  BY DEF StepDoc, Links
<1>5. QED  BY <1>3, <1>4 DEF OutgoingRefs

(* A set of naturals that is not empty has a least member.                 *)
LEMMA Least ==
    ASSUME NEW S \in SUBSET Nat, S # {}
    PROVE  \E n \in S : \A m \in S : n <= m
<1>1. IsWellFoundedOn(OpToRel(<, Nat), Nat)
  BY NatLessThanWellFounded
<1>2. PICK n \in S : \A m \in S : <<m, n>> \notin OpToRel(<, Nat)
  BY <1>1, WFMin
<1>3. \A m \in S : ~(m < n)
  BY <1>2 DEF OpToRel
<1>4. QED  BY <1>3

(* The draft in the terms of its steps. *)
LEMMA Drafted ==
    ASSUME AuthoringInv
    PROVE  /\ draft \in Draft /\ draft.startAt \in Link_A /\ draft.steps \in Seq(StepDoc)
           /\ Len(draft.steps) \in Nat /\ DOMAIN draft.steps = 1..Len(draft.steps)
           /\ \A i \in DOMAIN draft.steps : draft.steps[i] \in StepDoc
           /\ IdsOf(draft) = IdsIn(draft.steps) /\ IdsIn(draft.steps) \subseteq StepId
           /\ StepId \subseteq Nat \ {Nowhere} /\ StepId \subseteq Link_A /\ Nowhere \in Link_A
           /\ edits + 1 \in Nat
<1>1. draft \in Draft /\ edits \in Nat
  BY DEF AuthoringInv, AuthoringTypeOK
<1>2. draft.startAt \in Link_A /\ draft.steps \in Seq(StepDoc)
  BY <1>1 DEF Draft
<1>3. /\ Len(draft.steps) \in Nat /\ DOMAIN draft.steps = 1..Len(draft.steps)
      /\ \A i \in DOMAIN draft.steps : draft.steps[i] \in StepDoc
  BY <1>2, LenProperties
<1>4. IdsOf(draft) = IdsIn(draft.steps)
  BY DEF IdsOf, StepsOf, IdsIn
<1>5. IdsIn(draft.steps) \subseteq StepId
  BY <1>3, Referring DEF IdsIn
<1>6. StepId \subseteq Nat \ {Nowhere} /\ StepId \subseteq Link_A /\ Nowhere \in Link_A
  BY AuthoringAssumption DEF StepId, Nowhere, Link_A
<1>7. QED  BY <1>1, <1>2, <1>3, <1>4, <1>5, <1>6

(* commit, of steps that hang together if those before did. *)
LEMMA Committed ==
    ASSUME AuthoringInv, NEW start \in Link_A, NEW steps \in Seq(StepDoc), Commit(start, steps),
           pasted \/ Wired(start, steps)
    PROVE  AuthoringInv'
<1>1. /\ draft' = [startAt |-> start, steps |-> steps, allowedProviders |-> Derived(steps)]
      /\ UNCHANGED <<desk, source, pasted, bounced>> /\ edits' \in Nat
  BY Drafted DEF Commit
<1>2. \A i \in DOMAIN steps : steps[i] \in StepDoc
  BY LenProperties
<1>3. /\ Derived(steps) \subseteq {"browser", "desktop", "api", "mock"}
      /\ \A i \in DOMAIN steps : steps[i].type = "action" => steps[i].provider \in Derived(steps)
  <2>1. \A i \in DOMAIN steps : steps[i].provider \in {"browser", "desktop", "api"}
    BY <1>2 DEF StepDoc
  <2>2. QED  BY <2>1 DEF Derived
<1>4. draft' \in Draft
  BY <1>1, <1>3 DEF Draft
<1>5. AuthoringTypeOK'
  BY <1>1, <1>4 DEF AuthoringInv, AuthoringTypeOK
<1>6. draft'.startAt = start /\ draft'.steps = steps /\ draft'.allowedProviders = Derived(steps)
  BY <1>1
<1>7. (pasted \/ Wired(draft.startAt, draft.steps))'
  BY <1>1, <1>6
<1>8. Allowing(draft)'
  BY <1>3, <1>6 DEF Allowing
<1>9. QED  BY <1>1, <1>5, <1>7, <1>8 DEF AuthoringInv

(* updateStep, of a step that keeps its id. *)
LEMMA Updated ==
    ASSUME AuthoringInv, NEW i \in DOMAIN draft.steps, NEW s \in StepDoc, UpdateStep(i, s),
           s.id = draft.steps[i].id, pasted \/ (OutgoingRefs(s) \subseteq IdsIn(draft.steps) /\ Fitting(s))
    PROVE  AuthoringInv'
<1> DEFINE steps == [draft.steps EXCEPT ![i] = s]
<1>1. /\ steps \in Seq(StepDoc) /\ DOMAIN steps = DOMAIN draft.steps
      /\ \A j \in DOMAIN draft.steps : steps[j] = IF j = i THEN s ELSE draft.steps[j]
  BY Drafted, ExceptSeq
<1>2. IdsIn(steps) = IdsIn(draft.steps)
  BY <1>1 DEF IdsIn
<1>3. pasted \/ Wired(draft.startAt, steps)
  BY <1>1, <1>2 DEF AuthoringInv, Wired
<1>4. Commit(draft.startAt, steps)
  BY DEF UpdateStep
<1>5. QED  BY <1>1, <1>3, <1>4, Drafted, Committed

(* The first end step is a step, or there is none. *)
LEMMA SomeEnd ==
    ASSUME AuthoringInv, NEW but
    PROVE  FirstEnd(but) \in IdsIn(draft.steps) \cup {Nowhere}
<1> DEFINE at == {i \in DOMAIN draft.steps : draft.steps[i].type = "end" /\ draft.steps[i].id # but}
<1>1. CASE at = {}
  BY <1>1 DEF FirstEnd
<1>2. CASE at # {}
  <2>1. at \in SUBSET Nat
    BY Drafted
  <2>2. \E i \in at : \A j \in at : i <= j
    BY <1>2, <2>1, Least
  <2>3. (CHOOSE i \in at : \A j \in at : i <= j) \in at
    BY <2>2
  <2>4. FirstEnd(but) = draft.steps[CHOOSE i \in at : \A j \in at : i <= j].id
    BY <1>2 DEF FirstEnd
  <2>5. QED  BY <2>3, <2>4 DEF IdsIn
<1>3. QED  BY <1>1, <1>2

(* An id for a new step: no step has it and no link names it. *)
LEMMA FreshId ==
    ASSUME AuthoringInv, Spare # {}
    PROVE  NewStepId \in Spare /\ NewStepId \in StepId
<1>1. Spare \in SUBSET Nat /\ Spare \subseteq StepId
  BY Drafted DEF Spare
<1>2. \E n \in Spare : \A m \in Spare : n <= m
  BY <1>1, Least
<1>3. NewStepId \in Spare
  BY <1>2 DEF NewStepId
<1>4. QED  BY <1>1, <1>3

(* A step as the builder makes it: its branches lead where the caller says,*)
(* or to itself.                                                           *)
LEMMA Defaulted ==
    ASSUME AuthoringInv, NEW type \in StepKind, NEW id \in StepId, NEW fallback \in StepId \cup {Nowhere}
    PROVE  /\ DefaultStep(type, id, fallback) \in StepDoc /\ DefaultStep(type, id, fallback).id = id
           /\ Links(DefaultStep(type, id, fallback)) \subseteq {Nowhere, id, fallback}
           /\ DefaultStep(type, id, fallback).type = type
           /\ Fitting(DefaultStep(type, id, fallback))
<1> DEFINE branch == IF type # "condition" THEN Nowhere ELSE IF fallback = Nowhere THEN id ELSE fallback
<1>1. branch \in {Nowhere, id, fallback} /\ branch \in Link_A /\ Nowhere \in Link_A
  BY Drafted
<1> HIDE DEF branch
<1>2. DefaultStep(type, id, fallback) =
        [id |-> id, type |-> type, next |-> Nowhere, whenTrue |-> branch, whenFalse |-> branch,
         other |-> Nowhere, provider |-> "browser", executionTarget |-> "browser_extension",
         operation |-> "browser_extension", connected |-> FALSE, filled |-> type = "end"]
  BY DEF DefaultStep, branch
<1>3. QED  BY <1>1, <1>2 DEF StepDoc, Surface_A, Links, Fitting, TargetForProvider

(* A step with another link, which is an own one, to somewhere. *)
LEMMA Relinked ==
    ASSUME NEW s \in StepDoc, NEW v \in Link_A
    PROVE  /\ [s EXCEPT !.next = v] \in StepDoc
           /\ Links([s EXCEPT !.next = v]) = {v, s.whenTrue, s.whenFalse, s.other}
           /\ [s EXCEPT !.next = v].id = s.id /\ [s EXCEPT !.next = v].type = s.type
           /\ OutgoingRefs([s EXCEPT !.next = v]) \subseteq OutgoingRefs(s) \cup ({v} \ {Nowhere})
           /\ Fitting(s) => Fitting([s EXCEPT !.next = v])
<1> DEFINE t == [s EXCEPT !.next = v]
<1>1. t \in StepDoc /\ t.id = s.id /\ t.type = s.type /\ t.next = v /\ t.provider = s.provider
      /\ t.whenTrue = s.whenTrue /\ t.whenFalse = s.whenFalse /\ t.other = s.other
      /\ t.executionTarget = s.executionTarget
  BY DEF StepDoc
<1> HIDE DEF t
<1>2. Links(t) = {v, s.whenTrue, s.whenFalse, s.other} /\ (Fitting(s) => Fitting(t))
  BY <1>1 DEF Links, Fitting
<1>3. OutgoingRefs(t) \subseteq OutgoingRefs(s) \cup ({v} \ {Nowhere})
  BY <1>1, Referring
<1>4. QED  BY <1>1, <1>2, <1>3 DEF t

LEMMA ChangesStepTypeStep ==
    ASSUME AuthoringInv, NEW i \in DOMAIN draft.steps, NEW type \in Kinds, ChangesStepType(i, type)
    PROVE  AuthoringInv'
<1> DEFINE s == draft.steps[i]
           d == DefaultStep(type, s.id, FirstEnd(s.id))
           t == [d EXCEPT !.next = s.next]
<1>1. s \in StepDoc /\ s.id \in StepId /\ s.id \in IdsIn(draft.steps) /\ s.next \in Link_A
  BY Drafted, Referring DEF IdsIn, Links
<1>2. FirstEnd(s.id) \in StepId \cup {Nowhere} /\ FirstEnd(s.id) \in IdsIn(draft.steps) \cup {Nowhere}
  BY SomeEnd, Drafted
<1>3. type \in StepKind
  BY AuthoringAssumption
<1>4. d \in StepDoc /\ d.id = s.id /\ Fitting(d)
      /\ Links(d) \subseteq {Nowhere, s.id, FirstEnd(s.id)}
  BY <1>1, <1>2, <1>3, Defaulted
<1>5. UpdateStep(i, t)
  BY DEF ChangesStepType
<1> HIDE DEF d
<1>6. t \in StepDoc /\ t.id = s.id /\ Fitting(t) /\ OutgoingRefs(t) \subseteq OutgoingRefs(d) \cup ({s.next} \ {Nowhere})
  BY <1>1, <1>4, Relinked
<1>7. pasted \/ OutgoingRefs(t) \subseteq IdsIn(draft.steps)
  <2>1. OutgoingRefs(d) \subseteq {s.id, FirstEnd(s.id)} \ {Nowhere}
    BY <1>4, Referring DEF Links
  <2>2. pasted \/ {s.next} \ {Nowhere} \subseteq IdsIn(draft.steps)
    BY <1>1, Referring DEF AuthoringInv, Wired
  <2>3. QED  BY <1>1, <1>2, <1>6, <2>1, <2>2
<1>8. QED  BY <1>5, <1>6, <1>7, Updated

(* A change of anything but links and type. *)
LEMMA FieldsStep ==
    ASSUME AuthoringInv, NEW i \in DOMAIN draft.steps, NEW s \in StepDoc, UpdateStep(i, s),
           s.id = draft.steps[i].id, s.type = draft.steps[i].type,
           s.next = draft.steps[i].next, s.other = draft.steps[i].other,
           s.whenTrue = draft.steps[i].whenTrue, s.whenFalse = draft.steps[i].whenFalse,
           Fitting(draft.steps[i]) => Fitting(s)
    PROVE  AuthoringInv'
<1>1. OutgoingRefs(s) = OutgoingRefs(draft.steps[i])
  BY Drafted, Referring
<1>2. QED  BY <1>1, Updated DEF AuthoringInv, Wired

LEMMA FillsInStep ==
    ASSUME AuthoringInv, NEW i \in DOMAIN draft.steps, FillsIn(i)
    PROVE  AuthoringInv'
<1> DEFINE s == draft.steps[i]
           t == [s EXCEPT !.filled = TRUE]
<1>1. s \in StepDoc
  BY Drafted
<1>2. t \in StepDoc /\ t.id = s.id /\ t.type = s.type /\ t.next = s.next /\ t.other = s.other
      /\ t.whenTrue = s.whenTrue /\ t.whenFalse = s.whenFalse
      /\ t.provider = s.provider /\ t.executionTarget = s.executionTarget
  BY <1>1 DEF StepDoc
<1>3. UpdateStep(i, t)
  BY DEF FillsIn
<1> HIDE DEF t
<1>4. QED  BY <1>2, <1>3, FieldsStep DEF Fitting

LEMMA SetsProviderStep ==
    ASSUME AuthoringInv, NEW i \in DOMAIN draft.steps,
           NEW p \in {"browser", "desktop", "api"}, SetsProvider(i, p)
    PROVE  AuthoringInv'
<1> DEFINE s == draft.steps[i]
           target == TargetForProvider(p)
           near == [s EXCEPT !.provider = p, !.executionTarget = "none"]
           far  == [s EXCEPT !.provider = p, !.executionTarget = target, !.operation = target,
                             !.filled = FALSE]
<1>1. s \in StepDoc /\ target \in Surface_A
  BY Drafted DEF TargetForProvider, Surface_A
<1> HIDE DEF target
<1>2. near \in StepDoc /\ near.id = s.id /\ near.type = s.type /\ near.next = s.next /\ near.other = s.other
      /\ near.whenTrue = s.whenTrue /\ near.whenFalse = s.whenFalse /\ near.executionTarget = "none"
  BY <1>1 DEF StepDoc, Surface_A
<1>3. far \in StepDoc /\ far.id = s.id /\ far.type = s.type /\ far.next = s.next /\ far.other = s.other
      /\ far.whenTrue = s.whenTrue /\ far.whenFalse = s.whenFalse
      /\ far.provider = p /\ far.executionTarget = target
  BY <1>1 DEF StepDoc
<1>4. UpdateStep(i, near) \/ UpdateStep(i, far)
  BY DEF SetsProvider, target
<1> HIDE DEF near, far
<1>5. Fitting(near) /\ Fitting(far)
  BY <1>2, <1>3 DEF Fitting, target
<1>6. QED  BY <1>2, <1>3, <1>4, <1>5, FieldsStep

LEMMA PicksOperationStep ==
    ASSUME AuthoringInv, NEW i \in DOMAIN draft.steps, PicksOperation(i)
    PROVE  AuthoringInv'
<1> DEFINE s == draft.steps[i]
           target == StepTarget(s)
           with == IF target = "desktop_agent" THEN "desktop" ELSE "browser"
           t == [s EXCEPT !.operation = target, !.executionTarget = target, !.filled = FALSE,
                          !.provider = with]
<1>1. s \in StepDoc
  BY Drafted
<1>2. target \in {"browser_extension", "desktop_agent"}
  <2>1. s.executionTarget \in {"browser_extension", "desktop_agent", "none"}
    BY <1>1 DEF StepDoc, Surface_A
  <2>2. target # "none"
    BY DEF PicksOperation
  <2>3. QED  BY <2>1, <2>2 DEF StepTarget, TargetForProvider
<1>3. with \in {"browser", "desktop"} /\ TargetForProvider(with) = target
  BY <1>2 DEF TargetForProvider
<1>4. UpdateStep(i, t)
  BY DEF PicksOperation
<1> HIDE DEF target, with
<1>5. t \in StepDoc /\ t.id = s.id /\ t.type = s.type /\ t.next = s.next /\ t.other = s.other
      /\ t.whenTrue = s.whenTrue /\ t.whenFalse = s.whenFalse
      /\ t.provider = with /\ t.executionTarget = target
  BY <1>1, <1>2, <1>3 DEF StepDoc, Surface_A
<1> HIDE DEF t
<1>6. Fitting(t)
  BY <1>3, <1>5 DEF Fitting
<1>7. QED  BY <1>4, <1>5, <1>6, FieldsStep

LEMMA LinksToStep ==
    ASSUME AuthoringInv, NEW i \in DOMAIN draft.steps, NEW k \in LinkKeys, NEW v \in Link_A, LinksTo(i, k, v)
    PROVE  AuthoringInv'
<1> DEFINE s == draft.steps[i]
           t == [s EXCEPT ![k] = v]
<1>1. s \in StepDoc /\ v \in IdsIn(draft.steps) \cup {Nowhere}
  BY Drafted DEF LinksTo
<1>2. /\ t \in StepDoc /\ t.id = s.id /\ t.type = s.type
      /\ t.provider = s.provider /\ t.executionTarget = s.executionTarget
      /\ t.next \in {v, s.next} /\ t.other \in {v, s.other}
      /\ t.whenTrue \in {v, s.whenTrue} /\ t.whenFalse \in {v, s.whenFalse}
  <2>1. CASE k = "next"
    BY <1>1, <2>1 DEF StepDoc
  <2>2. CASE k = "whenTrue"
    BY <1>1, <2>2 DEF StepDoc
  <2>3. CASE k = "whenFalse"
    BY <1>1, <2>3 DEF StepDoc
  <2>4. CASE k = "other"
    BY <1>1, <2>4 DEF StepDoc
  <2>5. QED  BY <2>1, <2>2, <2>3, <2>4 DEF LinkKeys
<1>3. UpdateStep(i, t)
  BY DEF LinksTo
<1> HIDE DEF t
<1>4. OutgoingRefs(t) \subseteq OutgoingRefs(s) \cup ({v} \ {Nowhere})
  BY <1>1, <1>2, Referring
<1>5. Fitting(s) => Fitting(t)
  BY <1>2 DEF Fitting
<1>6. QED  BY <1>1, <1>2, <1>3, <1>4, <1>5, Updated DEF AuthoringInv, Wired

(* The same steps in another order are wired as before. *)
LEMMA MovesStepStep ==
    ASSUME AuthoringInv, NEW i \in DOMAIN draft.steps, MovesStep(i)
    PROVE  AuthoringInv'
<1> DEFINE first == draft.steps[i]
           second == draft.steps[i + 1]
           swapped == [draft.steps EXCEPT ![i] = second, ![i + 1] = first]
<1>1. i + 1 \in DOMAIN draft.steps /\ i # i + 1 /\ first \in StepDoc /\ second \in StepDoc
  BY Drafted DEF MovesStep
<1>2. /\ swapped \in Seq(StepDoc) /\ DOMAIN swapped = DOMAIN draft.steps
      /\ \A j \in DOMAIN draft.steps : swapped[j] = IF j = i + 1 THEN first ELSE IF j = i THEN second
                                                    ELSE draft.steps[j]
  <2> DEFINE half == [draft.steps EXCEPT ![i] = second]
  <2>1. /\ half \in Seq(StepDoc) /\ Len(half) = Len(draft.steps)
        /\ \A j \in 1..Len(draft.steps) : half[j] = IF j = i THEN second ELSE draft.steps[j]
    BY <1>1, Drafted, ExceptSeq
  <2> HIDE DEF half
  <2>2. /\ [half EXCEPT ![i + 1] = first] \in Seq(StepDoc)
        /\ Len([half EXCEPT ![i + 1] = first]) = Len(half)
        /\ \A j \in 1..Len(half) : [half EXCEPT ![i + 1] = first][j] = IF j = i + 1 THEN first ELSE half[j]
    BY <1>1, <2>1, Drafted, ExceptSeq
  <2>3. swapped = [half EXCEPT ![i + 1] = first]
    BY DEF half
  <2>4. QED  BY <2>1, <2>2, <2>3, Drafted, LenProperties
<1>3. Commit(draft.startAt, swapped)
  BY DEF MovesStep
<1> HIDE DEF swapped
<1>4. IdsIn(swapped) = IdsIn(draft.steps)
  <2>1. \A j \in DOMAIN swapped : \E h \in DOMAIN draft.steps : swapped[j] = draft.steps[h]
    BY <1>1, <1>2
  <2>2. \A j \in DOMAIN draft.steps : \E h \in DOMAIN swapped : swapped[h] = draft.steps[j]
    BY <1>1, <1>2
  <2>3. QED  BY <2>1, <2>2 DEF IdsIn
<1>5. pasted \/ Wired(draft.startAt, swapped)
  BY <1>1, <1>2, <1>4 DEF AuthoringInv, Wired
<1>6. QED  BY <1>2, <1>3, <1>5, Drafted, Committed

LEMMA StartsWithStep ==
    ASSUME AuthoringInv, NEW v \in StepId, StartsWith(v)
    PROVE  AuthoringInv'
<1>1. v \in IdsIn(draft.steps) /\ v \in Link_A /\ Commit(v, draft.steps)
  BY Drafted DEF StartsWith
<1>2. pasted \/ Wired(v, draft.steps)
  BY <1>1 DEF AuthoringInv, Wired
<1>3. QED  BY <1>1, <1>2, Drafted, Committed

Members(steps) == {steps[i] : i \in DOMAIN steps}

LEMMA Joined ==
    ASSUME NEW S, NEW one \in Seq(S), NEW two \in Seq(S)
    PROVE  one \o two \in Seq(S) /\ Members(one \o two) = Members(one) \cup Members(two)
<1>1. /\ one \o two \in Seq(S) /\ Len(one \o two) = Len(one) + Len(two)
      /\ \A i \in 1..(Len(one) + Len(two)) :
            (one \o two)[i] = IF i <= Len(one) THEN one[i] ELSE two[i - Len(one)]
  BY ConcatProperties
<1>2. /\ DOMAIN one = 1..Len(one) /\ DOMAIN two = 1..Len(two) /\ Len(one) \in Nat /\ Len(two) \in Nat
      /\ DOMAIN (one \o two) = 1..(Len(one) + Len(two))
  BY <1>1, LenProperties
<1>3. ASSUME NEW i \in DOMAIN (one \o two) PROVE (one \o two)[i] \in Members(one) \cup Members(two)
  <2>1. CASE i <= Len(one)
    BY <1>1, <1>2, <2>1 DEF Members
  <2>2. CASE ~(i <= Len(one))
    <3>1. i - Len(one) \in DOMAIN two
      BY <1>2, <2>2
    <3>2. QED  BY <1>1, <1>2, <2>2, <3>1 DEF Members
  <2>3. QED  BY <2>1, <2>2
<1>4. ASSUME NEW i \in DOMAIN one PROVE one[i] \in Members(one \o two)
  <2>1. i \in DOMAIN (one \o two) /\ (one \o two)[i] = one[i]
    BY <1>1, <1>2
  <2>2. QED  BY <2>1 DEF Members
<1>5. ASSUME NEW i \in DOMAIN two PROVE two[i] \in Members(one \o two)
  <2>1. i + Len(one) \in DOMAIN (one \o two) /\ (one \o two)[i + Len(one)] = two[i]
    BY <1>1, <1>2
  <2>2. QED  BY <2>1 DEF Members
<1>6. Members(one \o two) \subseteq Members(one) \cup Members(two)
  BY <1>3 DEF Members
<1>7. Members(one) \cup Members(two) \subseteq Members(one \o two)
  BY <1>4, <1>5 DEF Members
<1>8. QED  BY <1>1, <1>6, <1>7

(* What stands before a step, and what stands after it. *)
LEMMA Beside ==
    ASSUME NEW S, NEW steps \in Seq(S), NEW i \in DOMAIN steps
    PROVE  /\ SubSeq(steps, 1, i - 1) \in Seq(S) /\ SubSeq(steps, i + 1, Len(steps)) \in Seq(S)
           /\ Members(SubSeq(steps, 1, i - 1)) \cup Members(SubSeq(steps, i + 1, Len(steps)))
                = {steps[j] : j \in DOMAIN steps \ {i}}
<1>1. Len(steps) \in Nat /\ DOMAIN steps = 1..Len(steps) /\ \A j \in 1..Len(steps) : steps[j] \in S
  BY LenProperties
<1>2. i \in Int /\ 1 <= i /\ i <= Len(steps) /\ i - 1 \in Int /\ i + 1 \in Int
  BY <1>1
<1> DEFINE before == SubSeq(steps, 1, i - 1)
           after == SubSeq(steps, i + 1, Len(steps))
<1>3. /\ before \in Seq(S) /\ Len(before) = i - 1
      /\ \A j \in 1..(i - 1) : before[j] = steps[j]
  <2>1. \A j \in 1..(i - 1) : steps[j] \in S
    BY <1>1, <1>2
  <2>2. /\ SubSeq(steps, 1, i - 1) \in Seq(S)
        /\ Len(SubSeq(steps, 1, i - 1)) = IF 1 <= i - 1 THEN i - 1 - 1 + 1 ELSE 0
        /\ \A j \in 1..(i - 1 - 1 + 1) : SubSeq(steps, 1, i - 1)[j] = steps[1 + j - 1]
    BY <1>2, <2>1, SubSeqProperties
  <2>3. i - 1 - 1 + 1 = i - 1 /\ \A j \in 1..(i - 1) : 1 + j - 1 = j
    BY <1>2
  <2>4. QED  BY <1>2, <2>2, <2>3
<1>4. /\ after \in Seq(S) /\ Len(after) = Len(steps) - i
      /\ \A j \in 1..(Len(steps) - i) : after[j] = steps[i + j]
  <2>1. \A j \in (i + 1)..Len(steps) : steps[j] \in S
    BY <1>1, <1>2
  <2>2. /\ SubSeq(steps, i + 1, Len(steps)) \in Seq(S)
        /\ Len(SubSeq(steps, i + 1, Len(steps)))
             = IF i + 1 <= Len(steps) THEN Len(steps) - (i + 1) + 1 ELSE 0
        /\ \A j \in 1..(Len(steps) - (i + 1) + 1) :
              SubSeq(steps, i + 1, Len(steps))[j] = steps[i + 1 + j - 1]
    BY <1>1, <1>2, <2>1, SubSeqProperties
  <2>3. /\ Len(steps) - (i + 1) + 1 = Len(steps) - i
        /\ \A j \in 1..(Len(steps) - i) : i + 1 + j - 1 = i + j
    BY <1>1, <1>2
  <2>4. QED  BY <1>1, <1>2, <2>2, <2>3
<1>5. /\ DOMAIN before = 1..(i - 1) /\ DOMAIN after = 1..(Len(steps) - i)
  BY <1>3, <1>4, LenProperties
<1> HIDE DEF before, after
<1>6. Members(before) \cup Members(after) \subseteq {steps[j] : j \in DOMAIN steps \ {i}}
  <2>1. \A j \in DOMAIN before : j \in DOMAIN steps \ {i} /\ before[j] = steps[j]
    BY <1>1, <1>2, <1>3, <1>5
  <2>2. \A j \in DOMAIN after : i + j \in DOMAIN steps \ {i} /\ after[j] = steps[i + j]
    BY <1>1, <1>2, <1>4, <1>5
  <2>3. QED  BY <2>1, <2>2 DEF Members
<1>7. {steps[j] : j \in DOMAIN steps \ {i}} \subseteq Members(before) \cup Members(after)
  <2>1. ASSUME NEW j \in DOMAIN steps \ {i} PROVE steps[j] \in Members(before) \cup Members(after)
    <3>1. CASE j < i
      <4>1. j \in DOMAIN before /\ before[j] = steps[j]
        BY <1>1, <1>2, <1>3, <1>5, <3>1
      <4>2. QED  BY <4>1 DEF Members
    <3>2. CASE ~(j < i)
      <4>1. j \in Int /\ i < j /\ j <= Len(steps)
        BY <1>1, <1>2, <3>2
      <4>2. j - i \in 1..(Len(steps) - i) /\ i + (j - i) = j
        BY <1>1, <1>2, <4>1
      <4>3. j - i \in DOMAIN after /\ after[j - i] = steps[j]
        BY <1>4, <1>5, <4>2
      <4>4. QED  BY <4>3 DEF Members
    <3>3. QED  BY <3>1, <3>2
  <2>2. QED  BY <2>1
<1>8. QED  BY <1>3, <1>4, <1>6, <1>7 DEF before, after

(* The ids and the wiring of steps, by their members. *)
LEMMA ByMembers ==
    ASSUME NEW steps, NEW start
    PROVE  /\ IdsIn(steps) = {s.id : s \in Members(steps)}
           /\ (\A s \in Members(steps) : OutgoingRefs(s) \subseteq IdsIn(steps) /\ Fitting(s))
                 /\ start \in IdsIn(steps) => Wired(start, steps)
BY DEF IdsIn, Members, Wired

LEMMA JoinedTwice ==
    ASSUME NEW S, NEW one \in Seq(S), NEW two \in Seq(S), NEW three \in Seq(S)
    PROVE  /\ one \o two \o three \in Seq(S)
           /\ Members(one \o two \o three) = Members(one) \cup Members(two) \cup Members(three)
<1> DEFINE both == one \o two
<1>1. both \in Seq(S) /\ Members(both) = Members(one) \cup Members(two)
  BY Joined
<1> HIDE DEF both
<1>2. both \o three \in Seq(S) /\ Members(both \o three) = Members(both) \cup Members(three)
  BY <1>1, Joined
<1>3. QED  BY <1>1, <1>2 DEF both

LEMMA Pair ==
    ASSUME NEW S, NEW a \in S, NEW b \in S
    PROVE  <<a, b>> \in Seq(S) /\ Members(<<a, b>>) = {a, b}
<1>1. <<a, b>> \in Seq(S)
  OBVIOUS
<1>2. Len(<<a, b>>) = 2 /\ <<a, b>>[1] = a /\ <<a, b>>[2] = b
  OBVIOUS
<1>3. DOMAIN <<a, b>> = 1..2
  BY <1>1, <1>2, LenProperties
<1>4. 1..2 = {1, 2}
  OBVIOUS
<1>5. Members(<<a, b>>) = {<<a, b>>[1], <<a, b>>[2]}
  BY <1>3, <1>4 DEF Members
<1>6. QED  BY <1>1, <1>2, <1>5

LEMMA AddsStepAfterStep ==
    ASSUME AuthoringInv, NEW i \in StepId, AddsStepAfter(i)
    PROVE  AuthoringInv'
<1> DEFINE new == NewStepId
           fresh == DefaultStep("action", new, FirstEnd(Nowhere))
           start == IF draft.startAt = Nowhere THEN new ELSE draft.startAt
<1>1. new \in Spare /\ new \in StepId
  BY FreshId DEF AddsStepAfter
<1>2. start \in Link_A /\ (start = draft.startAt \/ draft.startAt = Nowhere)
  BY <1>1, Drafted
<1>3. fresh \in StepDoc /\ fresh.id = new /\ fresh.type = "action" /\ Fitting(fresh)
  <2>1. FirstEnd(Nowhere) \in StepId \cup {Nowhere} /\ "action" \in StepKind
    BY SomeEnd, Drafted DEF StepKind
  <2>2. QED  BY <1>1, <2>1, Defaulted
<1>4. OutgoingRefs(fresh) = {}
  <2>1. fresh.next = Nowhere /\ fresh.other = Nowhere
    BY DEF DefaultStep
  <2>2. QED  BY <1>3, <2>1, Referring
<1>5. CASE draft.steps = <<>>
  <2>1. Commit(start, <<fresh>>)
    BY <1>5 DEF AddsStepAfter
  <2>2. <<fresh>> \in Seq(StepDoc)
    BY <1>3
  <2>3. pasted
    BY <1>5 DEF AuthoringInv, Wired, IdsIn
  <2>4. QED  BY <1>2, <2>1, <2>2, <2>3, Committed
<1>6. CASE draft.steps # <<>>
  <2> DEFINE s == draft.steps[i]
             a == [s EXCEPT !.next = new]
             b == [fresh EXCEPT !.next = s.next]
             before == SubSeq(draft.steps, 1, i - 1)
             after == SubSeq(draft.steps, i + 1, Len(draft.steps))
             others == {draft.steps[j] : j \in DOMAIN draft.steps \ {i}}
             long == before \o <<a, b>> \o after
  <2>1. i \in DOMAIN draft.steps /\ Commit(start, long)
    BY <1>6 DEF AddsStepAfter
  <2>2. s \in StepDoc /\ s.next \in Link_A /\ new \in Link_A
    BY <1>1, <2>1, Drafted, Referring DEF Links
  <2>3. /\ a \in StepDoc /\ a.id = s.id /\ (Fitting(s) => Fitting(a))
        /\ OutgoingRefs(a) \subseteq OutgoingRefs(s) \cup {new}
    BY <2>2, Relinked
  <2> HIDE DEF fresh
  <2>4. /\ b \in StepDoc /\ b.id = new /\ Fitting(b)
        /\ OutgoingRefs(b) \subseteq {s.next} \ {Nowhere}
    BY <1>3, <1>4, <2>2, Relinked
  <2> HIDE DEF a, b
  <2>5. /\ before \in Seq(StepDoc) /\ after \in Seq(StepDoc)
        /\ Members(before) \cup Members(after) = others
    BY <2>1, Drafted, Beside
  <2>6. <<a, b>> \in Seq(StepDoc) /\ Members(<<a, b>>) = {a, b}
    BY <2>3, <2>4, Pair
  <2> HIDE DEF before, after
  <2> DEFINE both == <<a, b>>
  <2>7. both \in Seq(StepDoc) /\ Members(both) = {a, b}
    BY <2>6
  <2> HIDE DEF both
  <2>8. /\ before \o both \o after \in Seq(StepDoc)
        /\ Members(before \o both \o after) = Members(before) \cup Members(both) \cup Members(after)
    BY <2>5, <2>7, JoinedTwice
  <2>9. long \in Seq(StepDoc) /\ Members(long) = others \cup {a, b}
    BY <2>5, <2>7, <2>8 DEF both
  <2> HIDE DEF long
  <2>10. IdsIn(long) = IdsIn(draft.steps) \cup {new}
    <3>1. IdsIn(long) = {e.id : e \in others \cup {a, b}}
      BY <2>9, ByMembers
    <3>2. IdsIn(draft.steps) = {e.id : e \in others \cup {s}}
      BY <2>1 DEF IdsIn
    <3>3. QED  BY <2>3, <2>4, <3>1, <3>2
  <2>11. ASSUME ~pasted PROVE Wired(start, long)
    <3>1. Wired(draft.startAt, draft.steps)
      BY <2>11 DEF AuthoringInv
    <3>2. start \in IdsIn(long)
      BY <1>2, <2>10, <3>1, Drafted DEF Wired
    <3>3. \A e \in others \cup {s} : OutgoingRefs(e) \subseteq IdsIn(draft.steps) /\ Fitting(e)
      BY <2>1, <3>1 DEF Wired
    <3>4. {s.next} \ {Nowhere} \subseteq IdsIn(draft.steps)
      BY <2>2, <3>3, Referring
    <3>5. \A e \in Members(long) : OutgoingRefs(e) \subseteq IdsIn(long) /\ Fitting(e)
      BY <2>3, <2>4, <2>9, <2>10, <3>3, <3>4
    <3>6. QED  BY <3>2, <3>5, ByMembers
  <2>12. QED  BY <1>2, <2>1, <2>9, <2>11, Committed
<1>7. QED  BY <1>5, <1>6

(* What a step becomes when another is removed. *)
LEMMA Repairs ==
    ASSUME NEW s \in StepDoc, NEW old \in StepId, NEW new \in Link_A
    PROVE  /\ Repointed(s, old, new) \in StepDoc /\ Repointed(s, old, new).id = s.id
           /\ Fitting(s) => Fitting(Repointed(s, old, new))
           /\ OutgoingRefs(Repointed(s, old, new)) \subseteq (OutgoingRefs(s) \ {old}) \cup ({new} \ {Nowhere})
<1> DEFINE to(k) == IF k \in RefKeys(s) /\ s[k] = old THEN new ELSE s[k]
           t == Repointed(s, old, new)
<1>1. t = [s EXCEPT !.next = to("next"), !.whenTrue = to("whenTrue"),
                    !.whenFalse = to("whenFalse"), !.other = to("other")]
  BY DEF Repointed
<1>2. /\ to("next") = (IF s.next = old THEN new ELSE s.next)
      /\ to("whenTrue") = (IF s.type = "condition" /\ s.whenTrue = old THEN new ELSE s.whenTrue)
      /\ to("whenFalse") = (IF s.type = "condition" /\ s.whenFalse = old THEN new ELSE s.whenFalse)
      /\ to("other") = (IF s.type \in {"approval", "verify", "action"} /\ s.other = old THEN new ELSE s.other)
  <2>1. RefKeys(s) = {"next"} \cup (IF s.type = "condition" THEN {"whenTrue", "whenFalse"} ELSE {})
                              \cup (IF s.type \in {"approval", "verify", "action"} THEN {"other"} ELSE {})
    BY DEF RefKeys, StepDoc, StepKind
  <2>2. /\ s["next"] = s.next /\ s["whenTrue"] = s.whenTrue /\ s["whenFalse"] = s.whenFalse
        /\ s["other"] = s.other
    OBVIOUS
  <2>3. QED  BY <2>1, <2>2
<1>3. to("next") \in Link_A /\ to("whenTrue") \in Link_A /\ to("whenFalse") \in Link_A /\ to("other") \in Link_A
  BY <1>2, Referring DEF Links
<1> HIDE DEF to
<1>4. /\ t \in StepDoc /\ t.id = s.id /\ t.type = s.type /\ t.provider = s.provider
      /\ t.executionTarget = s.executionTarget
      /\ t.next = to("next") /\ t.whenTrue = to("whenTrue") /\ t.whenFalse = to("whenFalse")
      /\ t.other = to("other")
  BY <1>1, <1>3 DEF StepDoc
<1> HIDE DEF t
<1>5. Fitting(s) => Fitting(t)
  BY <1>4 DEF Fitting
<1>6. OutgoingRefs(t) \subseteq (OutgoingRefs(s) \ {old}) \cup ({new} \ {Nowhere})
  BY <1>2, <1>4, Referring
<1>7. QED  BY <1>4, <1>5, <1>6 DEF t

LEMMA RemovesStepStep ==
    ASSUME AuthoringInv, NEW i \in DOMAIN draft.steps, RemovesStep(i)
    PROVE  AuthoringInv'
<1> DEFINE removed == draft.steps[i]
           successor == IF removed.next = removed.id THEN Nowhere ELSE removed.next
           before == SubSeq(draft.steps, 1, i - 1)
           after == SubSeq(draft.steps, i + 1, Len(draft.steps))
           rest == before \o after
           repaired == [j \in DOMAIN rest |-> Repointed(rest[j], removed.id, successor)]
           start == IF draft.startAt # removed.id THEN draft.startAt
                    ELSE IF successor # Nowhere THEN successor ELSE rest[1].id
           others == {draft.steps[j] : j \in DOMAIN draft.steps \ {i}}
<1>1. removed \in StepDoc /\ removed.id \in StepId /\ successor \in Link_A
  BY Drafted, Referring DEF Links
<1>2. rest # <<>> /\ Commit(start, repaired)
  BY DEF RemovesStep
<1>3. rest \in Seq(StepDoc) /\ Members(rest) = others
  <2>1. /\ before \in Seq(StepDoc) /\ after \in Seq(StepDoc)
        /\ Members(before) \cup Members(after) = others
    BY Drafted, Beside
  <2> HIDE DEF before, after
  <2>2. QED  BY <2>1, Joined
<1> HIDE DEF rest, successor
<1>4. /\ Len(rest) \in Nat /\ DOMAIN rest = 1..Len(rest) /\ 1 \in DOMAIN rest
      /\ \A j \in DOMAIN rest : rest[j] \in StepDoc
  BY <1>2, <1>3, LenProperties, EmptySeq
<1>5. /\ DOMAIN repaired = 1..Len(rest)
      /\ \A j \in DOMAIN rest :
            /\ repaired[j] \in StepDoc /\ repaired[j].id = rest[j].id
            /\ Fitting(rest[j]) => Fitting(repaired[j])
            /\ OutgoingRefs(repaired[j])
                 \subseteq (OutgoingRefs(rest[j]) \ {removed.id}) \cup ({successor} \ {Nowhere})
  BY <1>1, <1>4, Repairs
<1>6. repaired \in Seq(StepDoc)
  BY <1>4, <1>5, <1>2
<1>7. IdsIn(repaired) = IdsIn(rest) /\ IdsIn(rest) = {e.id : e \in others}
  <2>1. IdsIn(rest) = {e.id : e \in others}
    BY <1>3, ByMembers
  <2> HIDE DEF repaired
  <2>2. IdsIn(repaired) = IdsIn(rest)
    BY <1>4, <1>5 DEF IdsIn
  <2>3. QED  BY <2>1, <2>2
<1> HIDE DEF repaired
<1>8. IdsIn(draft.steps) \ {removed.id} \subseteq IdsIn(rest) /\ IdsIn(rest) \subseteq IdsIn(draft.steps)
  BY <1>7 DEF IdsIn
<1>9. rest[1].id \in IdsIn(rest)
  BY <1>4 DEF IdsIn
<1>10. start \in Link_A
  BY <1>1, <1>8, <1>9, Drafted
<1>11. ASSUME ~pasted PROVE Wired(start, repaired)
  <2>1. Wired(draft.startAt, draft.steps)
    BY <1>11 DEF AuthoringInv
  <2>2. \A e \in others \cup {removed} : OutgoingRefs(e) \subseteq IdsIn(draft.steps) /\ Fitting(e)
    BY <2>1 DEF Wired
  <2>3. {successor} \ {Nowhere} \subseteq IdsIn(rest)
    <3>1. {removed.next} \ {Nowhere} \subseteq IdsIn(draft.steps)
      BY <1>1, <2>2, Referring
    <3>2. QED  BY <1>8, <3>1 DEF successor
  <2>4. \A j \in DOMAIN rest : OutgoingRefs(rest[j]) \subseteq IdsIn(draft.steps) /\ Fitting(rest[j])
    BY <1>3, <2>2 DEF Members
  <2>5. \A j \in DOMAIN repaired : OutgoingRefs(repaired[j]) \subseteq IdsIn(repaired) /\ Fitting(repaired[j])
    BY <1>4, <1>5, <1>7, <1>8, <2>3, <2>4
  <2>6. start \in IdsIn(repaired)
    BY <1>7, <1>8, <1>9, <2>1, <2>3 DEF Wired
  <2>7. QED  BY <2>5, <2>6 DEF Wired
<1>12. QED  BY <1>2, <1>6, <1>10, <1>11, Committed

(* What the server accepts is wired, and allows its own providers. *)
LEMMA Accepted ==
    ASSUME NEW d \in Draft, Accepts(d)
    PROVE  Wired(d.startAt, d.steps) /\ Allowing(d)
<1>1. d.startAt \in IdsIn(d.steps) /\ \A i \in DOMAIN d.steps : AcceptsStep(d, d.steps[i])
  BY DEF Accepts, IdsOf, StepsOf, IdsIn
<1>2. \A i \in DOMAIN d.steps : /\ OutgoingRefs(d.steps[i]) \subseteq IdsIn(d.steps)
                                /\ Fitting(d.steps[i])
                                /\ d.steps[i].type = "action" => d.steps[i].provider \in d.allowedProviders
  BY <1>1 DEF AcceptsStep, Fitting, IdsOf, StepsOf, IdsIn
<1>3. QED  BY <1>1, <1>2 DEF Wired, Allowing

LEMMA AppliesJsonStep ==
    ASSUME AuthoringInv, NEW d \in desk.pastes, AppliesJson(d)
    PROVE  AuthoringInv'
<1>1. d \in Draft
  BY AuthoringAssumption DEF AuthoringInv, Desk
<1>2. /\ draft' = [d EXCEPT !.allowedProviders = Derived(d.steps)] /\ pasted' = TRUE
      /\ UNCHANGED <<desk, source, bounced>> /\ edits' \in Nat
  BY Drafted DEF AppliesJson
<1>3. \A i \in DOMAIN d.steps : d.steps[i] \in StepDoc
  <2>1. d.steps \in Seq(StepDoc)
    BY <1>1 DEF Draft
  <2>2. QED  BY <2>1, LenProperties
<1>4. /\ Derived(d.steps) \subseteq {"browser", "desktop", "api", "mock"}
      /\ \A i \in DOMAIN d.steps : d.steps[i].type = "action" => d.steps[i].provider \in Derived(d.steps)
  <2>1. \A i \in DOMAIN d.steps : d.steps[i].provider \in {"browser", "desktop", "api"}
    BY <1>3 DEF StepDoc
  <2>2. QED  BY <2>1 DEF Derived
<1>5. draft' \in Draft /\ draft'.steps = d.steps /\ draft'.allowedProviders = Derived(d.steps)
  BY <1>1, <1>2, <1>4 DEF Draft
<1>6. AuthoringTypeOK'
  BY <1>2, <1>5 DEF AuthoringInv, AuthoringTypeOK
<1>7. Allowing(draft)'
  BY <1>4, <1>5 DEF Allowing
<1>8. QED  BY <1>2, <1>6, <1>7 DEF AuthoringInv

LEMMA ReloadsStep ==
    ASSUME AuthoringInv, NEW d \in desk.others, Reloads(d)
    PROVE  AuthoringInv'
<1>1. d \in Draft /\ Accepts(d)
  BY AuthoringAssumption, StoredAssumption DEF AuthoringInv, Desk
<1>2. draft' = d /\ source' = d /\ pasted' = FALSE /\ UNCHANGED <<desk, edits, bounced>>
  BY DEF Reloads
<1>3. AuthoringTypeOK'
  BY <1>1, <1>2 DEF AuthoringInv, AuthoringTypeOK
<1>4. QED  BY <1>1, <1>2, <1>3, Accepted DEF AuthoringInv

LEMMA SavesStep_A ==
    ASSUME AuthoringInv, Saves
    PROVE  AuthoringInv'
<1>1. UNCHANGED <<desk, draft, edits, pasted>> /\ source' \in {source, draft} /\ bounced' \in {bounced, TRUE}
  BY DEF Saves
<1>2. QED  BY <1>1 DEF AuthoringInv, AuthoringTypeOK

(* Every edit, save and reload keeps the invariant. *)
LEMMA AuthoringStep == AuthoringInv /\ [Next_A]_vars_A => AuthoringInv'
<1> SUFFICES ASSUME AuthoringInv, [Next_A]_vars_A PROVE AuthoringInv'
  OBVIOUS
<1>1. ASSUME NEW i \in DOMAIN draft.steps, EditsStep(i) PROVE AuthoringInv'
  <2>1. CASE RemovesStep(i) \/ MovesStep(i) \/ FillsIn(i) \/ PicksOperation(i)
    BY <2>1, RemovesStepStep, MovesStepStep, FillsInStep, PicksOperationStep
  <2>2. ASSUME NEW type \in Kinds, ChangesStepType(i, type) PROVE AuthoringInv'
    BY <2>2, ChangesStepTypeStep
  <2>3. ASSUME NEW k \in LinkKeys, NEW v \in Link_A, LinksTo(i, k, v) PROVE AuthoringInv'
    BY <2>3, LinksToStep
  <2>4. ASSUME NEW p \in {"browser", "desktop", "api"}, SetsProvider(i, p) PROVE AuthoringInv'
    BY <2>4, SetsProviderStep
  <2>5. QED  BY <1>1, <2>1, <2>2, <2>3, <2>4 DEF EditsStep
<1>2. ASSUME NEW i \in StepId, AddsStepAfter(i) PROVE AuthoringInv'
  BY <1>2, AddsStepAfterStep
<1>3. ASSUME NEW v \in StepId, StartsWith(v) PROVE AuthoringInv'
  BY <1>3, StartsWithStep
<1>4. ASSUME NEW d \in desk.pastes, AppliesJson(d) PROVE AuthoringInv'
  BY <1>4, AppliesJsonStep
<1>5. ASSUME NEW d \in desk.others, Reloads(d) PROVE AuthoringInv'
  BY <1>5, ReloadsStep
<1>6. CASE Saves
  BY <1>6, SavesStep_A
<1>7. CASE UNCHANGED vars_A
  BY <1>7 DEF vars_A, AuthoringInv, AuthoringTypeOK
<1>8. QED  BY <1>1, <1>2, <1>3, <1>4, <1>5, <1>6, <1>7 DEF Next_A

LEMMA AuthoringInit == Init_A => AuthoringInv
<1> SUFFICES ASSUME Init_A PROVE AuthoringInv
  OBVIOUS
<1>1. /\ desk \in Desks /\ source = desk.opened /\ draft = desk.opened
      /\ edits = 0 /\ pasted = FALSE /\ bounced = FALSE
  BY DEF Init_A
<1>2. desk \in Desk /\ draft \in Draft /\ Accepts(draft)
  BY <1>1, AuthoringAssumption, StoredAssumption DEF Desk
<1>3. AuthoringTypeOK
  BY <1>1, <1>2 DEF AuthoringTypeOK
<1>4. QED  BY <1>1, <1>2, <1>3, Accepted DEF AuthoringInv

(* A draft of which the builder reports nothing that blocks is accepted,   *)
(* but for the two exceptions.                                             *)
LEMMA NothingBlocks ==
    ASSUME AuthoringInv
    PROVE  DraftHolds
<1>1. pasted \/ LinksResolve
  BY DEF AuthoringInv, Wired, LinksResolve, IdsOf, StepsOf, IdsIn
<1>2. ASSUME ~Blocked(draft), ~KeptConnection, ~PastedMisfit PROVE Accepts(draft)
  <2>1. draft.startAt \in IdsOf(draft) /\ \A s \in StepsOf(draft) : ~StepProblem(draft, s)
    BY <1>2 DEF Blocked
  <2>2. draft.steps # <<>>
    BY <2>1 DEF IdsOf, StepsOf
  <2>3. ASSUME NEW s \in StepsOf(draft) PROVE AcceptsStep(draft, s)
    <3>1. OutgoingRefs(s) \subseteq IdsOf(draft)
      BY <2>1, <2>3 DEF StepProblem
    <3>2. Fitting(s)
      BY <1>2, <2>3 DEF AuthoringInv, Wired, PastedMisfit, StepsOf
    <3>3. s.type = "action" => s.provider \in draft.allowedProviders
      BY <2>3 DEF AuthoringInv, Allowing, StepsOf
    <3>4. s.type = "action" /\ s.provider # "browser" => ~s.connected
      BY <1>2, <2>3 DEF KeptConnection
    <3>5. s.type = "action" => TargetForProvider(s.provider) \in {"none", s.operation}
      <4>1. StepTarget(s) = "none" \/ s.operation = StepTarget(s)
        BY <2>1, <2>3 DEF StepProblem
      <4>2. s.type = "action" => StepTarget(s) = TargetForProvider(s.provider)
        BY <3>2 DEF StepTarget, Fitting
      <4>3. QED  BY <4>1, <4>2
    <3>6. QED  BY <3>1, <3>2, <3>3, <3>4, <3>5 DEF AcceptsStep, Fitting
  <2>4. QED  BY <2>1, <2>2, <2>3 DEF Accepts
<1>3. QED  BY <1>1, <1>2 DEF DraftHolds
-----------------------------------------------------------------------------
(* The draft, and what the builder knows of what is stored, is a workflow  *)
(* definition, whatever is edited, pasted or reloaded.                     *)
THEOREM AuthoringTyped == Spec_A => []AuthoringTypeOK
<1>1. AuthoringInv => AuthoringTypeOK
  BY DEF AuthoringInv
<1>2. QED  BY <1>1, AuthoringInit, AuthoringStep, PTL DEF Spec_A

(* However many edits, in whatever order: the controls leave no link to    *)
(* nowhere, and what the builder lets through the server accepts, but for  *)
(* a connection left on a step that moved and pasted surfaces.             *)
THEOREM DraftsHold == Spec_A => []DraftHolds
<1>1. AuthoringInv => DraftHolds
  BY NothingBlocks
<1>2. QED  BY <1>1, AuthoringInit, AuthoringStep, PTL DEF Spec_A

(* Side by side: each of the three rests while another moves, and so all   *)
(* keep their invariants.                                                  *)
THEOREM ServicesTyped == Spec_V => []ServicesTypeOK
<1>1. Init_V => CredentialsInv /\ OrganizationsInv /\ AuthoringInv
  BY CredentialsInit, OrganizationsInit, AuthoringInit DEF Init_V
<1>2. CredentialsInv /\ OrganizationsInv /\ AuthoringInv /\ [Next_V]_vars_V
        => (CredentialsInv /\ OrganizationsInv /\ AuthoringInv)'
  BY CredentialsStep, OrganizationsStep, AuthoringStep DEF Next_V, vars_V
<1>3. CredentialsInv /\ OrganizationsInv /\ AuthoringInv => ServicesTypeOK
  BY DEF ServicesTypeOK, CredentialsInv, OrganizationsInv, AuthoringInv
<1>4. QED  BY <1>1, <1>2, <1>3, PTL DEF Spec_V
=============================================================================
