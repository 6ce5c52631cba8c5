------------------------------ MODULE MCPages ------------------------------
(* Sessions and Resources, which share no state, model-checked side by     *)
(* side: a behaviour is about one of them, and the other rests.            *)
EXTENDS Sessions, Resources

CONSTANT RunList     \* the live resource

SurfaceOf(kinds, signIns, asks, faults) ==
    {[kind |-> k, signIns |-> signIns, asks |-> asks, faults |-> faults] : k \in kinds}
NoSurface     == [kind |-> "web", signIns |-> 0, asks |-> 0, faults |-> FALSE]
AllSurfaces   == {NoSurface} \cup SurfaceOf({"web", "customer"}, 1, 2, FALSE)
                   \cup SurfaceOf({"web", "customer"}, 1, 1, TRUE) \cup SurfaceOf({"customer"}, 2, 1, FALSE)

PageOf(kind, claims, member, faults, asks) ==
    [kind |-> kind, claims |-> {Me} \cup claims, member |-> {Me} \cup member,
     faults |-> faults, asks |-> asks]
NoPage        == PageOf("none", {}, {}, 0, 0)
AllPages      == {NoPage, PageOf("shared", {RunList}, {RunList}, 1, 2), PageOf("shared", {RunList}, {}, 0, 1),
                  PageOf("shared", {}, {RunList}, 1, 1), PageOf("ops", {RunList}, {RunList}, 1, 1)}

Init_P == Init_S /\ Init_R /\ (surface = NoSurface \/ page = NoPage)
Next_P == (Next_S /\ UNCHANGED vars_R) \/ (Next_R /\ UNCHANGED vars_S)
vars_P == <<vars_S, vars_R>>
Spec_P == Init_P /\ [][Next_P]_vars_P /\ Fairness_S /\ Fairness_R

(* Every session, request and page has its type, and no request outlives   *)
(* the page that made it.                                                  *)
PagesTypeOK == SessionsTypeOK /\ ResourcesTypeOK
=============================================================================
