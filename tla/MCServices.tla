----------------------------- MODULE MCServices -----------------------------
(* Credentials, Organizations and Authoring, which share no state,         *)
(* model-checked side by side: a behaviour is about one of them, and the   *)
(* others rest.                                                            *)
EXTENDS Credentials, Organizations, Authoring

CustodyOf(ops, asks, inFlight, crashes) ==
    [ops |-> ops, asks |-> asks, inFlight |-> inFlight, crashes |-> crashes]
AgentErrands  == {"authorize", "exchange", "beat", "revokeagent"}
NoCustody     == CustodyOf({}, 0, 0, FALSE)
AllCustodies  == {NoCustody, CustodyOf(AgentErrands, 6, 1, TRUE), CustodyOf(AgentErrands, 5, 2, FALSE),
                  CustodyOf({"connect", "login", "complete", "disconnect"}, 4, 2, TRUE),
                  CustodyOf({"create", "rotate", "delete"}, 4, 2, TRUE)}

MandateOf(ops, asks, inFlight, crashes, taken) ==
    [ops |-> ops, asks |-> asks, inFlight |-> inFlight, crashes |-> crashes, taken |-> taken]
NoMandate     == MandateOf({}, 0, 0, FALSE, {})
AllMandates   == {NoMandate, MandateOf({"create", "derive"}, 4, 3, TRUE, {2}),
                  MandateOf({"create", "status", "limit", "contact"}, 4, 2, TRUE, {2, 3}),
                  MandateOf({"create", "check", "progress", "observe", "run"}, 4, 2, TRUE, {2, 3})}

StepOf(id, type, next, other, filled, connected) ==
    [DefaultStep(type, id, Nowhere) EXCEPT !.next = next, !.other = other, !.filled = filled,
                                           !.connected = connected]
EndOf(id) == StepOf(id, "end", Nowhere, Nowhere, TRUE, FALSE)
DraftOf(start, steps) == [startAt |-> start, steps |-> steps, allowedProviders |-> Derived(steps)]
FreshDraft == [DraftOf(1, <<EndOf(1)>>) EXCEPT !.allowedProviders = {"browser"}]
Portal     == DraftOf(1, <<StepOf(1, "action", 2, Nowhere, TRUE, TRUE), EndOf(2)>>)
Branching  == DraftOf(1, <<[StepOf(1, "condition", Nowhere, Nowhere, TRUE, FALSE)
                              EXCEPT !.whenTrue = 2, !.whenFalse = 3],
                           StepOf(2, "approval", 3, Nowhere, TRUE, FALSE), EndOf(3)>>)
Dangling   == DraftOf(1, <<StepOf(1, "action", Gone, Nowhere, TRUE, FALSE), EndOf(2)>>)
Misfit     == DraftOf(1, <<[StepOf(1, "action", 2, Nowhere, TRUE, FALSE) EXCEPT !.provider = "desktop"],
                           EndOf(2)>>)
Empty      == DraftOf(Nowhere, <<>>)
DeskOf(opened, n, pastes, others) == [opened |-> opened, edits |-> n, pastes |-> pastes, others |-> others]
NoDesk == DeskOf(FreshDraft, 0, {}, {})
AllDesks == {NoDesk, DeskOf(FreshDraft, 4, {Dangling, Misfit, Empty}, {Portal}), DeskOf(Portal, 3, {Dangling}, {}),
             DeskOf(Branching, 3, {}, {FreshDraft})}

(* What the two refuted runs start from: a new organization runs one       *)
(* workflow to its end; the fresh draft is edited.                         *)
NoCustodies   == {NoCustody}
NoMandates    == {NoMandate}
NoDesks       == {NoDesk}
FirstRun      == {MandateOf({"create", "run"}, 2, 1, FALSE, {})}
NewWorkflow   == {DeskOf(FreshDraft, 3, {}, {})}

Init_V ==
    /\ Init_C /\ Init_O /\ Init_A
    /\ \/ mandate = NoMandate /\ desk = NoDesk
       \/ custody = NoCustody /\ desk = NoDesk
       \/ custody = NoCustody /\ mandate = NoMandate
Next_V ==
    \/ Next_C /\ UNCHANGED <<vars_O, vars_A>>
    \/ Next_O /\ UNCHANGED <<vars_C, vars_A>>
    \/ Next_A /\ UNCHANGED <<vars_C, vars_O>>
vars_V == <<vars_C, vars_O, vars_A>>
Spec_V == Init_V /\ [][Next_V]_vars_V

(* Every record of agents, connections, secrets and organizations, and     *)
(* every draft, has its type, in the table and in every request.           *)
ServicesTypeOK == CredentialsTypeOK /\ OrganizationsTypeOK /\ AuthoringTypeOK
=============================================================================
