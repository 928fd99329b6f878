---------------------------- MODULE DetectionRun ----------------------------
(***************************************************************************)
(* What an opportunity-detection run promises to those who request it, the  *)
(* weekly workflow above all: it is open until it settles, once and for     *)
(* all, as completed or as stopped.  OpportunityDetection implements this,  *)
(* and it is all that WeeklyOperator assumes of its child run.              *)
(***************************************************************************)
VARIABLE state

Init == state = "open"

Settle(result) ==
    /\ state = "open"
    /\ state' = result

Next == Settle("completed") \/ Settle("stopped")

Spec == Init /\ [][Next]_state

=============================================================================
