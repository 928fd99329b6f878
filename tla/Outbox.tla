------------------------------- MODULE Outbox -------------------------------
(***************************************************************************)
(* The transactional outbox (app/db/outbox.py) and the workflow that        *)
(* delivers it to Inngest (app/workflows/outbox.py).                        *)
(*                                                                         *)
(* A row is enqueued in the caller's transaction.  The delivery function is *)
(* started by a cron every minute and retried by Inngest, so several        *)
(* invocations ("workers") may overlap.  A worker leases a batch in one     *)
(* transaction, publishes the events one after the other without holding a  *)
(* transaction, and finishes each of them in a transaction of its own.      *)
(*                                                                         *)
(* Time.  available_at and lease_expires_at are only ever compared with the *)
(* clock, so a row keeps the outcome of the comparison: due[e] is           *)
(* "available_at <= now" and lease[e] is "null", "live" or "expired".       *)
(*                                                                         *)
(* Isolation.  claim_outbox_events reads FOR UPDATE SKIP LOCKED and is one  *)
(* atomic step.  _publishing_event reads with a plain SELECT under          *)
(* PostgreSQL's READ COMMITTED and the ORM writes later by primary key, so  *)
(* finishing an event is two steps: other workers may commit in between.    *)
(***************************************************************************)
EXTENDS Naturals, FiniteSets

CONSTANTS
    Events,       \* outbox rows, one per (event_name, idempotency_key)
    Workers,      \* concurrent invocations of OutboxDeliveryWorkflow.deliver
    NoEvent,      \* cur[w] of a worker that is not finishing an event
    BatchSize,    \* batch_size
    MaxAttempts,  \* max_attempts
    AttemptCap,   \* bound: attempts saturates here; only ">= max_attempts" is read
    MaxCrashes    \* bound: number of worker crashes in a behaviour

ASSUME OutboxAssumption ==
    /\ NoEvent \notin Events
    /\ BatchSize \in Nat \ {0}
    /\ MaxAttempts \in Nat \ {0}
    /\ AttemptCap \in Nat
    /\ MaxCrashes \in Nat

VARIABLES
    status,    \* status column; "none" before the row is inserted
    attempts,  \* attempts column
    due,       \* available_at <= now
    lease,     \* lease_expires_at compared with now
    sent,      \* Inngest accepted the event at least once
    pc,        \* what the worker does next
    batch,     \* claimed events the worker has not finished
    cur,       \* the event the worker is finishing
    seen,      \* attempts as read by the worker's finishing transaction
    crashes

rowVars == <<status, attempts, due, lease>>
workerVars == <<pc, batch, cur, seen>>
vars == <<status, attempts, due, lease, sent, pc, batch, cur, seen, crashes>>

Status == {"none", "pending", "publishing", "published", "failed"}
Lease == {"null", "live", "expired"}
PC == {"idle", "publish", "markRead", "markWrite", "releaseRead", "releaseWrite"}
Settled == {"published", "failed"}

Init ==
    /\ status = [e \in Events |-> "none"]
    /\ attempts = [e \in Events |-> 0]
    /\ due = [e \in Events |-> FALSE]
    /\ lease = [e \in Events |-> "null"]
    /\ sent = [e \in Events |-> FALSE]
    /\ pc = [w \in Workers |-> "idle"]
    /\ batch = [w \in Workers |-> {}]
    /\ cur = [w \in Workers |-> NoEvent]
    /\ seen = [w \in Workers |-> 0]
    /\ crashes = 0

-----------------------------------------------------------------------------
(* The producers and the clock.                                            *)

\* enqueue_outbox_event: the insert becomes visible with the caller's commit.
\* A second enqueue of the same key replays the row and changes nothing.
Enqueue(e) ==
    /\ status[e] = "none"
    /\ status' = [status EXCEPT ![e] = "pending"]
    /\ \E now \in BOOLEAN : due' = [due EXCEPT ![e] = now]
    /\ UNCHANGED <<attempts, lease, sent, workerVars, crashes>>

BecomeDue(e) ==
    /\ status[e] # "none"
    /\ ~due[e]
    /\ due' = [due EXCEPT ![e] = TRUE]
    /\ UNCHANGED <<status, attempts, lease, sent, workerVars, crashes>>

LeaseExpires(e) ==
    /\ lease[e] = "live"
    /\ lease' = [lease EXCEPT ![e] = "expired"]
    /\ UNCHANGED <<status, attempts, due, sent, workerVars, crashes>>

-----------------------------------------------------------------------------
(* claim_outbox_events.                                                    *)

\* Mutant: the claim forgets leases that ran out.
ClaimablePendingOnly(e) == due[e] /\ status[e] = "pending"

Claimable(e) ==
    /\ due[e]
    /\ \/ status[e] = "pending"
       \/ status[e] = "publishing" /\ lease[e] = "expired"

\* Rows another worker is writing may be locked, and SKIP LOCKED passes them by.
MaybeLocked(w) ==
    {cur[v] : v \in {u \in Workers \ {w} : pc[u] \in {"markWrite", "releaseWrite"}}}

Capped(n) == IF n < AttemptCap THEN n + 1 ELSE n

\* The ORDER BY only decides which rows a full batch takes: any batch of the
\* right size is allowed here.
Claim(w) ==
    /\ pc[w] = "idle"
    /\ \E locked \in SUBSET MaybeLocked(w) :
         LET free == {e \in Events : Claimable(e)} \ locked
         IN \E claimed \in SUBSET free :
              /\ claimed # {}
              /\ Cardinality(claimed) <= BatchSize
              /\ claimed = free \/ Cardinality(claimed) = BatchSize
              /\ status' = [e \in Events |->
                              IF e \in claimed THEN "publishing" ELSE status[e]]
              /\ lease' = [e \in Events |-> IF e \in claimed THEN "live" ELSE lease[e]]
              /\ attempts' = [e \in Events |->
                                IF e \in claimed THEN Capped(attempts[e]) ELSE attempts[e]]
              /\ batch' = [batch EXCEPT ![w] = claimed]
    /\ pc' = [pc EXCEPT ![w] = "publish"]
    /\ UNCHANGED <<due, sent, cur, seen, crashes>>

-----------------------------------------------------------------------------
(* deliver: publish one event of the batch, then finish it.                *)

\* publisher.publish returned.
PublishOk(w, e) ==
    /\ pc[w] = "publish"
    /\ e \in batch[w]
    /\ sent' = [sent EXCEPT ![e] = TRUE]
    /\ cur' = [cur EXCEPT ![w] = e]
    /\ pc' = [pc EXCEPT ![w] = "markRead"]
    /\ UNCHANGED <<rowVars, batch, seen, crashes>>

\* Mutant: a failed publish is finished as if it had succeeded.
PublishFailSwallowed(w, e) ==
    /\ pc[w] = "publish"
    /\ e \in batch[w]
    /\ cur' = [cur EXCEPT ![w] = e]
    /\ pc' = [pc EXCEPT ![w] = "markRead"]
    /\ UNCHANGED <<rowVars, sent, batch, seen, crashes>>

\* publisher.publish raised.  Inngest may have accepted the event all the same
\* (the answer was lost).
PublishFail(w, e) ==
    /\ pc[w] = "publish"
    /\ e \in batch[w]
    /\ \E accepted \in {sent[e], TRUE} : sent' = [sent EXCEPT ![e] = accepted]
    /\ cur' = [cur EXCEPT ![w] = e]
    /\ pc' = [pc EXCEPT ![w] = "releaseRead"]
    /\ UNCHANGED <<rowVars, batch, seen, crashes>>

\* The worker leaves the event alone and turns to the rest of its batch.
NextInBatch(w) ==
    /\ batch' = [batch EXCEPT ![w] = @ \ {cur[w]}]
    /\ cur' = [cur EXCEPT ![w] = NoEvent]
    /\ pc' = [pc EXCEPT ![w] = IF batch[w] = {cur[w]} THEN "idle" ELSE "publish"]
    /\ seen' = [seen EXCEPT ![w] = 0]

\* deliver ends: by an exception, or because the process died.
Stop(w) ==
    /\ pc' = [pc EXCEPT ![w] = "idle"]
    /\ batch' = [batch EXCEPT ![w] = {}]
    /\ cur' = [cur EXCEPT ![w] = NoEvent]
    /\ seen' = [seen EXCEPT ![w] = 0]

\* _publishing_event: the row must be publishing, or deliver raises ValueError
\* and the rest of the batch waits for its lease to run out.
ReadPublishing(w, from, to) ==
    /\ pc[w] = from
    /\ \/ /\ status[cur[w]] = "publishing"
          /\ seen' = [seen EXCEPT ![w] = attempts[cur[w]]]
          /\ pc' = [pc EXCEPT ![w] = to]
          /\ UNCHANGED <<batch, cur>>
       \/ /\ status[cur[w]] # "publishing"
          /\ Stop(w)
    /\ UNCHANGED <<rowVars, sent, crashes>>

\* Mutant: the lease survives the end of the publication.
MarkPublishedKeepsLease(w) ==
    /\ pc[w] = "markWrite"
    /\ status' = [status EXCEPT ![cur[w]] = "published"]
    /\ NextInBatch(w)
    /\ UNCHANGED <<lease, attempts, due, sent, crashes>>

\* mark_outbox_event_published, from the flush to the commit.
MarkPublished(w) ==
    /\ pc[w] = "markWrite"
    /\ status' = [status EXCEPT ![cur[w]] = "published"]
    /\ lease' = [lease EXCEPT ![cur[w]] = "null"]
    /\ NextInBatch(w)
    /\ UNCHANGED <<attempts, due, sent, crashes>>

\* Mutant: the last permitted attempt is never made.
ExhaustedEarly(n) == n + 1 >= MaxAttempts

Exhausted(n) == n >= MaxAttempts

RetryStatus(n) == IF Exhausted(n) THEN "failed" ELSE "pending"

\* release_outbox_event_for_retry, from the flush to the commit.  available_at
\* is the start of this deliver call plus the back-off, so the row may be due at
\* once.
ReleaseForRetry(w) ==
    /\ pc[w] = "releaseWrite"
    /\ status' = [status EXCEPT ![cur[w]] = RetryStatus(seen[w])]
    /\ lease' = [lease EXCEPT ![cur[w]] = "null"]
    /\ \E now \in BOOLEAN : due' = [due EXCEPT ![cur[w]] = now]
    /\ NextInBatch(w)
    /\ UNCHANGED <<attempts, sent, crashes>>

Crash(w) ==
    /\ pc[w] # "idle"
    /\ crashes < MaxCrashes
    /\ crashes' = crashes + 1
    /\ Stop(w)
    /\ UNCHANGED <<rowVars, sent>>

-----------------------------------------------------------------------------
MarkRead(w) == ReadPublishing(w, "markRead", "markWrite")
ReleaseRead(w) == ReadPublishing(w, "releaseRead", "releaseWrite")

\* What a running deliver call does by itself.
Deliver(w) ==
    \/ \E e \in Events : PublishOk(w, e) \/ PublishFail(w, e)
    \/ MarkRead(w)
    \/ MarkPublished(w)
    \/ ReleaseRead(w)
    \/ ReleaseForRetry(w)

Next ==
    \/ \E e \in Events : Enqueue(e) \/ BecomeDue(e) \/ LeaseExpires(e)
    \/ \E w \in Workers : Claim(w) \/ Deliver(w) \/ Crash(w)

Spec == Init /\ [][Next]_vars

(***************************************************************************)
(* Fairness.  The clock advances (BecomeDue, LeaseExpires).  The cron       *)
(* starts deliver every minute (Claim) and a call that is running does not  *)
(* stop halfway unless its process dies (Deliver).  Crashes and enqueues    *)
(* are never required to happen.                                           *)
(***************************************************************************)
OutboxFairness ==
    /\ \A e \in Events : WF_vars(BecomeDue(e)) /\ WF_vars(LeaseExpires(e))
    /\ \A w \in Workers : WF_vars(Claim(w)) /\ WF_vars(Deliver(w))

FairSpec == Spec /\ OutboxFairness

-----------------------------------------------------------------------------
\* Every column and every worker's local state has its type.
TypeOK ==
    /\ status \in [Events -> Status]
    /\ attempts \in [Events -> Nat]
    /\ due \in [Events -> BOOLEAN]
    /\ lease \in [Events -> Lease]
    /\ sent \in [Events -> BOOLEAN]
    /\ pc \in [Workers -> PC]
    /\ batch \in [Workers -> SUBSET Events]
    /\ cur \in [Workers -> Events \cup {NoEvent}]
    /\ seen \in [Workers -> Nat]
    /\ crashes \in Nat

\* The table's CHECK constraint lease_matches_status holds after every commit,
\* whichever worker wrote last: no worker's transaction can be refused by it.
LeaseMatchesStatus ==
    \A e \in Events : status[e] = "publishing" <=> lease[e] # "null"

\* A row says "published" only if Inngest accepted the event: however leases
\* run out and late workers overwrite one another, nothing is dropped as done.
PublishedWasSent ==
    \A e \in Events : status[e] = "published" => sent[e]

\* A row is given up ("failed") only after max_attempts claims.
FailedOnlyExhausted ==
    \A e \in Events : status[e] = "failed" => attempts[e] >= MaxAttempts

\* Whatever workers crash, outlive their lease or write after one another: exactly an event in
\* publishing has a lease, an event marked published was accepted by the publisher, and only
\* one whose attempts are used up is given up (claim_outbox_events,
\* mark_outbox_event_published, release_outbox_event_for_retry).
OutboxSafety ==
    /\ TypeOK
    /\ LeaseMatchesStatus
    /\ PublishedWasSent
    /\ FailedOnlyExhausted

\* Every row that is enqueued ends up published or failed for good, in spite of
\* crashes, failed publications and workers that outlive their leases.
EventuallySettled ==
    \A e \in Events : (status[e] # "none") ~> [](status[e] \in Settled)

\* mark_outbox_event_published and release_outbox_event_for_retry finish only a
\* row that is publishing ("outbox event is not currently publishing"): a row
\* that is published or failed is final.
\* Not guaranteed: the guard reads the row of a later claim (README, "What the code
\* does not guarantee").
SettledIsFinal ==
    [][\A e \in Events : status[e] \in Settled => status'[e] = status[e]]_vars

=============================================================================
