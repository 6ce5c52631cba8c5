---------------------------- MODULE RunLifecycle ----------------------------
(***************************************************************************)
(* What a run's status may do, whoever asks: the abstract specification of *)
(* the run lifecycle.  A run starts RUNNING, stops while somebody else has *)
(* to act, and ends for good.  Only a deadline ends it TIMED_OUT, and only *)
(* while it waits for an agent or a confirmation.                          *)
(***************************************************************************)
CONSTANT Run
VARIABLE status

Parked == {"WAITING_AGENT", "WAITING_APPROVAL", "AWAITING_CONFIRMATION"}
Live   == {"RUNNING"} \cup Parked
Ended  == {"COMPLETED", "FAILED", "CANCELLED", "TIMED_OUT"}

TypeOK == status \in [Run -> {"ABSENT"} \cup Live \cup Ended]

Init == status = [r \in Run |-> "ABSENT"]

Move(r, from, to) ==
    /\ status[r] \in from
    /\ \E s \in to : status' = [status EXCEPT ![r] = s]

Start(r)   == Move(r, {"ABSENT"}, {"RUNNING"})
Park(r)    == Move(r, Live, Parked)
Resume(r)  == Move(r, Parked, {"RUNNING"})

(* A result or a decision can end a run in the same write; granting a      *)
(* confirmation can at worst fail it, because its action still has to run. *)
Complete(r) == Move(r, {"RUNNING", "WAITING_AGENT", "WAITING_APPROVAL"}, {"COMPLETED"})
FailRun(r)  == Move(r, Live, {"FAILED"})
CancelRun(r) == Move(r, Live, {"CANCELLED"})
TimeOut(r)  == Move(r, {"WAITING_AGENT", "AWAITING_CONFIRMATION"}, {"TIMED_OUT"})

Next == \E r \in Run : \/ Start(r) \/ Park(r) \/ Resume(r) \/ Complete(r)
                       \/ FailRun(r) \/ CancelRun(r) \/ TimeOut(r)

Spec == Init /\ [][Next]_status
=============================================================================
