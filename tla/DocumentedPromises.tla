------------------------- MODULE DocumentedPromises -------------------------
(***************************************************************************)
(* What the documents, comments and tests of the repository promise of the *)
(* run lifecycle and the code does not keep.  Each is stated here as the   *)
(* quoted line states it, and refuted by a run of its own.                 *)
(***************************************************************************)
EXTENDS ControlPlane

(* design.md:1831, "a terminal run never transitions again".               *)
TerminalStaysTerminal ==
    [][\A r \in Run : run[r].status \in Terminal => run'[r].status = run[r].status]_vars

(* handler.ts:3071, "Close both out immediately so cancelled work stops    *)
(* being offered at all".                                                  *)
CancelledWorkWithdrawn ==
    [][\A t \in Task :
          task[t].run # NoRun /\ task[t].status # "PENDING" /\ task'[t].status = "PENDING"
            => run[task[t].run].status # "CANCELLED"]_vars

(* handler.ts:3157, a run is timed out because "AmazFlow could not reach   *)
(* the execution agent in time": not while the task it waits for is open   *)
(* and inside its own deadline.                                            *)
TimedOutMeansUnreached ==
    [][\A r \in Run :
          run[r].status = "WAITING_AGENT" /\ run'[r].status = "TIMED_OUT"
            => ~\E t \in Task : /\ task[t].run = r /\ task[t].step = run[r].step
                                /\ Open(t) /\ ~Expired(task[t])]_vars

(* README.md:36, "an abandoned step is retried by another agent instead of *)
(* timing the run out": a task that expires was back in the pool.          *)
AbandonedStepRetried ==
    \A t \in Task : task[t].status = "EXPIRED" => task[t].claimedBy = NoAgent

(* requirements.md:1307, the control plane "SHALL NOT retry an action      *)
(* whose side effect could not be ruled out": a step a managed attempt may *)
(* have performed is never handed to an agent afterwards.                  *)
SideEffectNotRetried ==
    [][\A t \in Task : task[t].status = "ABSENT" /\ task'[t].status # "ABSENT"
                        => <<task'[t].run, task'[t].step>> \notin tried]_vars
=============================================================================
