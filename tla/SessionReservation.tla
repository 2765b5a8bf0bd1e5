------------------------- MODULE SessionReservation -------------------------
(***************************************************************************)
(* What the server promises browsers and operators about its one session:  *)
(* it is reserved by one run at a time and only while admission is open,    *)
(* a run serves at most once and never again once it began to close, and    *)
(* every reservation is released.                                           *)
(***************************************************************************)
EXTENDS Naturals

VARIABLES
    stage,     \* of the reservation
    admitted,  \* how many reservations there have been
    open       \* admission

reservationVars == <<stage, admitted, open>>

Init == stage = "free" /\ admitted = 0 /\ open = TRUE

Reserve ==
    /\ stage = "free" /\ open
    /\ stage' \in {"starting", "serving"}
    /\ admitted' = admitted + 1
    /\ UNCHANGED open

Serve == stage = "starting" /\ stage' = "serving" /\ UNCHANGED <<admitted, open>>

BeginClose ==
    /\ stage \in {"starting", "serving"}
    /\ stage' = "closing"
    /\ UNCHANGED <<admitted, open>>

Release == stage = "closing" /\ stage' = "free" /\ UNCHANGED <<admitted, open>>

SetAdmission == open' \in BOOLEAN /\ UNCHANGED <<stage, admitted>>

\* A shutdown ends admission and the session in one step.
ShutDown ==
    /\ stage \in {"starting", "serving"}
    /\ stage' = "closing"
    /\ open' = FALSE
    /\ UNCHANGED admitted

Next == Reserve \/ Serve \/ BeginClose \/ Release \/ SetAdmission \/ ShutDown

Safety == Init /\ [][Next]_reservationVars

Spec == Safety /\ WF_reservationVars(BeginClose \/ ShutDown) /\ WF_reservationVars(Release)
=============================================================================
