------------------------------ MODULE MCOutbox ------------------------------
(***************************************************************************)
(* What leaves the system: the outbox's events and the e-mails about weekly *)
(* plans and digests.  They share no table, so that a behaviour follows one *)
(* of the three (part) and the others rest.                                 *)
(***************************************************************************)
EXTENDS Outbox, WeeklyDelivery, DigestDelivery

VARIABLE part

mcVars == <<part, vars, deliveryVars, digestVars>>

MCInit ==
    /\ part \in {"events", "plans", "digests"}
    /\ Init /\ DeliveryInit /\ DigestInit

MCNext ==
    /\ UNCHANGED part
    /\ \/ part = "events" /\ Next /\ UNCHANGED <<deliveryVars, digestVars>>
       \/ part = "plans" /\ DeliveryNext /\ UNCHANGED <<vars, digestVars>>
       \/ part = "digests" /\ DigestNext /\ UNCHANGED <<vars, deliveryVars>>

\* The fairness of FairSpec; what the e-mails' executions lead to is a matter of MCAnnouncement.
MCSpec ==
    /\ MCInit /\ [][MCNext]_mcVars
    /\ \A e \in Events :
        WF_vars(part = "events" /\ BecomeDue(e)) /\ WF_vars(part = "events" /\ LeaseExpires(e))
    /\ \A w \in Workers :
        WF_vars(part = "events" /\ Claim(w)) /\ WF_vars(part = "events" /\ Deliver(w))

=============================================================================
