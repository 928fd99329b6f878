--------------------------- MODULE DigestDelivery ---------------------------
(***************************************************************************)
(* AchievementDigestWorkflow.deliver and deliver_stored_digest for one      *)
(* digest.  The digest's row is locked while it is read and marked pending; *)
(* whoever finds it pending does not know whether the message went out, and *)
(* gives it up as unknown_outcome.                                          *)
(***************************************************************************)
EXTENDS Naturals, Smtp

CONSTANTS
    DigestJobs,   \* executions of the cron job and of its retries
    MaxJobs       \* bound: executions that select the digest

ASSUME DigestAssumption == MaxJobs \in Nat

VARIABLES
    digest,     \* delivery_status; "none" is NULL
    sentAt,     \* sent_at is set
    jpc,        \* what an execution does next
    told,       \* the outcome it has been told
    copies,     \* messages the server accepted
    misled,     \* messages accepted although the job was told they failed
    jobs        \* executions started

digestVars == <<digest, sentAt, jpc, told, copies, misled, jobs>>

DigestStatus == {"none", "pending", "delivered", "failed", "unknown_outcome"}
Untold == [accepted |-> FALSE, raised |-> "none"]

DigestInit ==
    /\ digest = "none"
    /\ sentAt = FALSE
    /\ jpc = [j \in DigestJobs |-> "idle"]
    /\ told = [j \in DigestJobs |-> Untold]
    /\ copies = 0
    /\ misled = 0
    /\ jobs = 0

\* The cron job selects the digests that are due and not sent.
SelectDigest(j) ==
    /\ jpc[j] = "idle"
    /\ ~sentAt
    /\ jobs < MaxJobs
    /\ jobs' = jobs + 1
    /\ jpc' = [jpc EXCEPT ![j] = "read"]
    /\ UNCHANGED <<digest, sentAt, told, copies, misled>>

\* Mutant: a pending digest is sent again.
FoundPendingResend == "pending"

\* The status a job gives to a digest it finds pending.
FoundPending == "unknown_outcome"

\* Row lock, decision and commit in one transaction.
ReadDigest(j) ==
    /\ jpc[j] = "read"
    /\ \/ /\ sentAt \/ digest \in {"delivered", "unknown_outcome"}
          /\ jpc' = [jpc EXCEPT ![j] = "idle"]
          /\ digest' = digest
       \/ /\ ~sentAt /\ digest = "pending"
          /\ digest' = FoundPending
          /\ jpc' = [jpc EXCEPT ![j] = IF FoundPending = "pending" THEN "send" ELSE "idle"]
       \/ /\ ~sentAt /\ digest \in {"none", "failed"}
          /\ digest' = "pending"
          /\ jpc' = [jpc EXCEPT ![j] = "send"]
    /\ UNCHANGED <<sentAt, told, copies, misled, jobs>>

SendDigest(j) ==
    /\ jpc[j] = "send"
    /\ \E o \in SmtpOutcomes :
        /\ told' = [told EXCEPT ![j] = o]
        /\ copies' = IF o.accepted THEN copies + 1 ELSE copies
        /\ misled' = IF Misreported(o) THEN misled + 1 ELSE misled
    /\ jpc' = [jpc EXCEPT ![j] = "record"]
    /\ UNCHANGED <<digest, sentAt, jobs>>

\* Mutant: a refused message is recorded as sent.
RecordDigestSent(j) ==
    /\ jpc[j] = "record"
    /\ digest' = "delivered"
    /\ sentAt' = TRUE
    /\ jpc' = [jpc EXCEPT ![j] = "idle"]
    /\ told' = [told EXCEPT ![j] = Untold]
    /\ UNCHANGED <<copies, misled, jobs>>

\* The outcome is written without a look at the row; only a receipt sets sent_at.
RecordDigest(j) ==
    /\ jpc[j] = "record"
    /\ digest' = DeliveryStatus(told[j])
    /\ sentAt' = (sentAt \/ told[j].raised = "none")
    /\ jpc' = [jpc EXCEPT ![j] = "idle"]
    /\ told' = [told EXCEPT ![j] = Untold]
    /\ UNCHANGED <<copies, misled, jobs>>

JobDies(j) ==
    /\ jpc[j] # "idle"
    /\ jpc' = [jpc EXCEPT ![j] = "idle"]
    /\ told' = [told EXCEPT ![j] = Untold]
    /\ UNCHANGED <<digest, sentAt, copies, misled, jobs>>

DigestNext ==
    \E j \in DigestJobs :
        SelectDigest(j) \/ ReadDigest(j) \/ SendDigest(j) \/ RecordDigest(j) \/ JobDies(j)

DigestSpec == DigestInit /\ [][DigestNext]_digestVars

-----------------------------------------------------------------------------
\* The digest and its jobs have their types.
DigestTypeOK ==
    /\ digest \in DigestStatus
    /\ sentAt \in BOOLEAN
    /\ told \in [DigestJobs -> SmtpOutcomes \cup {Untold}]
    /\ {copies, misled} \subseteq Nat
    /\ jobs \in 0..MaxJobs

\* A digest reaches its reader at most once, plus once for every message the server
\* took while the job was told it failed - wherever jobs die or overlap.
DigestSentOnce == copies <= 1 + misled

\* A digest that counts as sent was accepted by the mail server.
SentDigestWasAccepted == sentAt => copies > 0

\* However its jobs die or overlap, a digest reaches its reader at most once (plus once for every
\* message the server took while it said it failed), and one recorded as sent was accepted
\* (deliver_stored_digest).
DigestSafety ==
    /\ DigestTypeOK
    /\ DigestSentOnce
    /\ SentDigestWasAccepted

=============================================================================
