--------------------------- MODULE MCAnnouncement ---------------------------
(***************************************************************************)
(* PlanAnnouncement on two small instances.  A behaviour has either one     *)
(* plan, whose e-mail several executions may deliver at once, or several    *)
(* plans that supersede one another, with one execution at a time and at    *)
(* most one crash (part).                                                   *)
(***************************************************************************)
EXTENDS PlanAnnouncement

CONSTANT FirstMailer

VARIABLE part

Acting == IF part = "overlap" THEN Mailers ELSE {FirstMailer}

MCInit == part \in {"overlap", "succession"} /\ AnnouncementInit

MCNext ==
    /\ UNCHANGED part
    /\ AnnouncementNext
    /\ part = "overlap" => canonical' <= 1
    /\ part = "succession" => crashes' + deaths' <= 1
    /\ \A x \in Mailers \ Acting : mpc'[x] = "idle"

\* The fairness of AnnouncementSpec, for those who act.
MCSpec ==
    /\ MCInit /\ [][MCNext]_<<part, announcementVars>>
    /\ OutboxFairness
    /\ \A x \in Mailers : WF_deliveryVars(MailerStep(x))
    /\ \A p \in Plans : WF_deliveryVars(\E x \in Acting : ReadDelivery(x, p))

=============================================================================
