--------------------------- MODULE WeeklyDelivery ---------------------------
(***************************************************************************)
(* WeeklyGrowthEmailWorkflow.deliver: the e-mail about a ready plan of one  *)
(* product, run by Inngest for the event operator/weekly-growth.ready and   *)
(* retried until it returns.  The delivery row is committed before the      *)
(* message is sent and written after it; nothing is locked, and a row that  *)
(* is still pending or failed is sent again.  The event comes some time     *)
(* after the plan is ready, and may come again when the publisher repeats it*)
(* and Inngest no longer remembers its id.                                  *)
(***************************************************************************)
EXTENDS Naturals, Smtp

CONSTANTS
    Mailers,    \* executions of the workflow
    MaxPlan,    \* bound: plans that become ready, numbered in order
    MaxTries,   \* executions Inngest starts for one plan (1 + retries)
    MaxDeaths   \* bound: executions that die

ASSUME DeliveryAssumption == {MaxPlan, MaxTries, MaxDeaths} \subseteq Nat /\ MaxTries > 0

Plans == 1..MaxPlan

VARIABLES
    canonical,  \* the latest ready plan (resolve_canonical_plan), 0 without one
    mailOff,    \* the product's or the user's e-mails are switched off
    owed,       \* plans whose event Inngest has and has not seen handled
    dropped,    \* history: plans whose event was found suppressed
    tries,      \* executions started per plan
    row,        \* weekly_growth_deliveries.status; "none" without a row
    mpc,        \* what an execution does next
    mplan,      \* the plan it delivers
    held,       \* the status it has loaded or inserted
    got,        \* the outcome it has been told
    mails,      \* messages the server accepted per plan
    disturbed,  \* history: an execution died, overlapped another or was misled
    deaths

deliveryVars == <<canonical, mailOff, owed, dropped, tries, row, mpc, mplan, held, got, mails, disturbed, deaths>>

RowStatus == {"none", "pending", "delivered", "failed", "unknown_outcome"}
NoOutcome == [accepted |-> FALSE, raised |-> "none"]

DeliveryInit ==
    /\ canonical = 0
    /\ mailOff = FALSE
    /\ owed = {}
    /\ dropped = {}
    /\ tries = [p \in Plans |-> 0]
    /\ row = [p \in Plans |-> "none"]
    /\ mpc = [x \in Mailers |-> "idle"]
    /\ mplan = [x \in Mailers |-> 0]
    /\ held = [x \in Mailers |-> "none"]
    /\ got = [x \in Mailers |-> NoOutcome]
    /\ mails = [p \in Plans |-> 0]
    /\ disturbed = FALSE
    /\ deaths = 0

\* The coordinator finalises a plan and enqueues its event.
PlanReady ==
    /\ canonical < MaxPlan
    /\ canonical' = canonical + 1
    /\ UNCHANGED <<mailOff, owed, dropped, tries, row, mpc, mplan, held, got, mails, disturbed, deaths>>

\* Inngest receives the event of a plan, for the first time or again.
EventArrives(p) ==
    /\ p <= canonical
    /\ owed' = owed \cup {p}
    /\ UNCHANGED <<canonical, mailOff, dropped, tries, row, mpc, mplan, held, got, mails, disturbed, deaths>>

\* The settings of the product and of the user switch e-mails off and on.
SwitchMail ==
    /\ mailOff' = ~mailOff
    /\ UNCHANGED <<canonical, owed, dropped, tries, row, mpc, mplan, held, got, mails, disturbed, deaths>>

\* Rows that are not sent again.
AlreadyHandled(s) == s \in {"delivered", "unknown_outcome"}

\* Nothing is sent about a superseded plan, or to somebody who wants no e-mail.
Suppressed(p) == p # canonical \/ mailOff

Started(x, p) ==
    /\ tries' = [tries EXCEPT ![p] = @ + 1]
    /\ disturbed' = (disturbed \/ \E y \in Mailers \ {x} : mpc[y] # "idle" /\ mplan[y] = p)

\* Inngest starts an execution; it reads plan, product, user and row.  The event is
\* handled if the delivery is suppressed or settled.
ReadDelivery(x, p) ==
    /\ mpc[x] = "idle"
    /\ p \in owed
    /\ tries[p] < MaxTries
    /\ Started(x, p)
    /\ dropped' = IF Suppressed(p) THEN dropped \cup {p} ELSE dropped
    /\ IF Suppressed(p) \/ AlreadyHandled(row[p])
         THEN owed' = owed \ {p} /\ UNCHANGED <<mpc, mplan, held>>
         ELSE /\ mpc' = [mpc EXCEPT ![x] = IF row[p] = "none" THEN "insert" ELSE "send"]
              /\ mplan' = [mplan EXCEPT ![x] = p]
              /\ held' = [held EXCEPT ![x] = row[p]]
              /\ owed' = owed
    /\ UNCHANGED <<canonical, mailOff, row, got, mails, deaths>>

EndDelivery(x) ==
    /\ mpc' = [mpc EXCEPT ![x] = "idle"]
    /\ mplan' = [mplan EXCEPT ![x] = 0]
    /\ held' = [held EXCEPT ![x] = "none"]
    /\ got' = [got EXCEPT ![x] = NoOutcome]

\* The row is committed before the message is sent.
InsertRow(x) ==
    /\ mpc[x] = "insert"
    /\ row[mplan[x]] = "none"
    /\ row' = [row EXCEPT ![mplan[x]] = "pending"]
    /\ held' = [held EXCEPT ![x] = "pending"]
    /\ mpc' = [mpc EXCEPT ![x] = "send"]
    /\ UNCHANGED <<canonical, mailOff, owed, dropped, tries, mplan, got, mails, disturbed, deaths>>

\* Another execution inserted it first: the unique key raises, and Inngest retries.
InsertRowFails(x) ==
    /\ mpc[x] = "insert"
    /\ row[mplan[x]] # "none"
    /\ owed' = owed \cup {mplan[x]}
    /\ EndDelivery(x)
    /\ UNCHANGED <<canonical, mailOff, dropped, tries, row, mails, disturbed, deaths>>

SendMail(x) ==
    /\ mpc[x] = "send"
    /\ \E o \in SmtpOutcomes :
        /\ got' = [got EXCEPT ![x] = o]
        /\ mails' = [mails EXCEPT ![mplan[x]] = IF o.accepted THEN @ + 1 ELSE @]
        /\ disturbed' = (disturbed \/ Misreported(o))
    /\ mpc' = [mpc EXCEPT ![x] = "record"]
    /\ UNCHANGED <<canonical, mailOff, owed, dropped, tries, row, mplan, held, deaths>>

\* Mutant: the row is written as delivered whatever was raised.
RecordDelivered(x) ==
    /\ mpc[x] = "record"
    /\ row' = [row EXCEPT ![mplan[x]] = "delivered"]
    /\ owed' = owed \ {mplan[x]}
    /\ EndDelivery(x)
    /\ UNCHANGED <<canonical, mailOff, dropped, tries, mails, disturbed, deaths>>

\* Mutant: an unknown outcome is taken for a failure and tried again.
RecordUnknownAsFailed(x) ==
    /\ mpc[x] = "record"
    /\ row' = [row EXCEPT ![mplan[x]] = IF got[x].raised = "none" THEN "delivered" ELSE "failed"]
    /\ owed' = IF got[x].raised = "none" THEN owed \ {mplan[x]} ELSE owed \cup {mplan[x]}
    /\ EndDelivery(x)
    /\ UNCHANGED <<canonical, mailOff, dropped, tries, mails, disturbed, deaths>>

\* Mutant: a failed delivery is reported to Inngest as handled while it is pending.
RecordDeliveryLost(x) ==
    /\ mpc[x] = "record"
    /\ row' = IF got[x].raised = "failed" THEN row
              ELSE [row EXCEPT ![mplan[x]] = DeliveryStatus(got[x])]
    /\ owed' = owed \ {mplan[x]}
    /\ EndDelivery(x)
    /\ UNCHANGED <<canonical, mailOff, dropped, tries, mails, disturbed, deaths>>

\* Mutant: a failure is not raised again; who else holds the event may still handle it.
RecordDeliveryQuietly(x) ==
    /\ mpc[x] = "record"
    /\ row' = IF DeliveryStatus(got[x]) = held[x] THEN row
              ELSE [row EXCEPT ![mplan[x]] = DeliveryStatus(got[x])]
    /\ owed' = IF got[x].raised = "failed" THEN owed ELSE owed \ {mplan[x]}
    /\ EndDelivery(x)
    /\ UNCHANGED <<canonical, mailOff, dropped, tries, mails, disturbed, deaths>>

\* The outcome is written whatever the row says by now, unless it is what was loaded; a
\* failure is raised again, and Inngest retries.
RecordDelivery(x) ==
    /\ mpc[x] = "record"
    /\ row' = IF DeliveryStatus(got[x]) = held[x] THEN row
              ELSE [row EXCEPT ![mplan[x]] = DeliveryStatus(got[x])]
    /\ owed' = IF got[x].raised = "failed" THEN owed \cup {mplan[x]} ELSE owed \ {mplan[x]}
    /\ EndDelivery(x)
    /\ UNCHANGED <<canonical, mailOff, dropped, tries, mails, disturbed, deaths>>

MailerDies(x) ==
    /\ mpc[x] # "idle"
    /\ deaths < MaxDeaths
    /\ deaths' = deaths + 1
    /\ disturbed' = TRUE
    /\ owed' = owed \cup {mplan[x]}
    /\ EndDelivery(x)
    /\ UNCHANGED <<canonical, mailOff, dropped, tries, row, mails>>

MailerStep(x) == InsertRow(x) \/ InsertRowFails(x) \/ SendMail(x) \/ RecordDelivery(x)

DeliveryNext ==
    \/ PlanReady
    \/ SwitchMail
    \/ \E x \in Mailers : MailerStep(x) \/ MailerDies(x)
    \/ \E p \in Plans : EventArrives(p) \/ \E x \in Mailers : ReadDelivery(x, p)

\* An execution that runs goes on, and Inngest starts one while it owes a try.
DeliveryFairness ==
    /\ \A x \in Mailers : WF_deliveryVars(MailerStep(x))
    /\ \A p \in Plans : WF_deliveryVars(\E x \in Mailers : ReadDelivery(x, p))

DeliverySpec == DeliveryInit /\ [][DeliveryNext]_deliveryVars /\ DeliveryFairness

-----------------------------------------------------------------------------
\* The rows, the executions and what the server has accepted have their types.
DeliveryTypeOK ==
    /\ canonical \in 0..MaxPlan
    /\ mailOff \in BOOLEAN
    /\ owed \in SUBSET Plans /\ dropped \in SUBSET Plans
    /\ tries \in [Plans -> 0..MaxTries]
    /\ row \in [Plans -> RowStatus]
    /\ mpc \in [Mailers -> {"idle", "insert", "send", "record"}]
    /\ mplan \in [Mailers -> 0..MaxPlan]
    /\ held \in [Mailers -> RowStatus]
    /\ got \in [Mailers -> SmtpOutcomes \cup {NoOutcome}]
    /\ mails \in [Plans -> 0..MaxTries]
    /\ disturbed \in BOOLEAN
    /\ deaths \in 0..MaxDeaths

\* A delivery that says so was accepted by the mail server, also when executions that
\* overlap write one row after the other.
DeliveredWasAccepted ==
    \A p \in Plans : row[p] = "delivered" => mails[p] > 0

\* A plan is mailed once unless an execution died or overlapped another, or the server
\* took a message it was said to refuse: retries after failures, repeated events and
\* unknown outcomes never send it twice.
MailedOnceUndisturbed ==
    ~disturbed => \A p \in Plans : mails[p] <= 1

\* A delivery recorded as delivered was accepted by the mail server, and a plan is mailed twice
\* only where an execution died, two overlapped, or the server's answer misled the sender
\* (WeeklyGrowthEmailWorkflow.deliver).
MailSafety ==
    /\ DeliveryTypeOK
    /\ DeliveredWasAccepted
    /\ MailedOnceUndisturbed

=============================================================================
