-------------------------- MODULE PlanAnnouncement --------------------------
(***************************************************************************)
(* From a finished weekly plan to its e-mail: the coordinator's last        *)
(* transaction makes the plan ready and enqueues operator/weekly-growth     *)
(* .ready, the outbox publishes that event to Inngest, and Inngest runs the *)
(* e-mail workflow for it.  The composition of Outbox, with one row per     *)
(* plan, and WeeklyDelivery.                                                *)
(***************************************************************************)
EXTENDS Outbox, WeeklyDelivery

\* The key of the event is the plan's id and revision: one row per plan.
ASSUME AnnouncementAssumption == Events = Plans

announcementVars == <<vars, deliveryVars>>

AnnouncementInit == Init /\ DeliveryInit

\* Mutant: the plan is committed first, and the process dies before the event is enqueued.
AnnounceForgotten ==
    \/ PlanReady /\ Enqueue(canonical + 1)
    \/ PlanReady /\ UNCHANGED vars

\* finalize_plan, the run's completion and the event are one commit.
Announce == PlanReady /\ Enqueue(canonical + 1)

\* What a publication means to the e-mail workflow.  An event Inngest accepts for the first time
\* is owed an execution; one that it has accepted before is dropped by its id, or taken for a new
\* one when the id is forgotten; one it has not accepted is not there.
Reaches(e) ==
    \/ sent'[e] /\ EventArrives(e)
    \/ sent'[e] = sent[e] /\ UNCHANGED deliveryVars

Publish(w, e) == (PublishOk(w, e) \/ PublishFail(w, e)) /\ Reaches(e)

\* What the outbox does without calling Inngest.
OutboxStep ==
    /\ \/ \E e \in Events : BecomeDue(e) \/ LeaseExpires(e)
       \/ \E w \in Workers :
            Claim(w) \/ MarkRead(w) \/ MarkPublished(w) \/ ReleaseRead(w) \/ ReleaseForRetry(w) \/ Crash(w)
    /\ UNCHANGED deliveryVars

DeliveryStep ==
    /\ \/ SwitchMail
       \/ \E x \in Mailers : MailerStep(x) \/ MailerDies(x) \/ \E p \in Plans : ReadDelivery(x, p)
    /\ UNCHANGED vars

AnnouncementNext ==
    \/ Announce
    \/ \E w \in Workers, e \in Events : Publish(w, e)
    \/ OutboxStep
    \/ DeliveryStep

AnnouncementSpec ==
    /\ AnnouncementInit /\ [][AnnouncementNext]_announcementVars
    /\ OutboxFairness /\ DeliveryFairness

-----------------------------------------------------------------------------
\* Every plan that is ready has its row, and only those; an event that Inngest has was enqueued; and
\* no execution, row or message is about a plan whose event Inngest never had.
OnlyAnnounced ==
    \A p \in Plans :
        /\ p <= canonical <=> status[p] # "none"
        /\ sent[p] => status[p] # "none"
        /\ p \in owed \/ row[p] # "none" \/ mails[p] > 0 \/ tries[p] > 0 => sent[p]

\* An event that Inngest accepted is not lost among overlapping, dying and failing executions:
\* it stays owed until the plan's row is settled or an execution found nothing to send.
AnnouncedIsKept ==
    \A p \in Plans : sent[p] => p \in owed \/ AlreadyHandled(row[p]) \/ p \in dropped

\* Across the coordinator's commit, the outbox and Inngest's executions: a plan is ready exactly if
\* its event is enqueued, nothing is sent about one whose event was not accepted, and one that was
\* accepted stays owed until its delivery is settled or found suppressed.
AnnouncementSafety == OnlyAnnounced /\ AnnouncedIsKept

\* Every plan that is announced is settled for good: its e-mail was sent or has an unknown outcome, it
\* was suppressed when its turn came, or the outbox or Inngest has given up after the last attempt.
AnnouncedIsDelivered ==
    \A p \in Plans :
        status[p] # "none" ~> [](\/ AlreadyHandled(row[p])
                                 \/ p \in dropped
                                 \/ tries[p] = MaxTries
                                 \/ status[p] = "failed")

=============================================================================
