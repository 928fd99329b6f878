----------------------------- MODULE OutboxProofs -----------------------------
(***************************************************************************)
(* Safety of the outbox for any number of rows and workers, and of the      *)
(* e-mails that executions send for its events.                             *)
(*                                                                          *)
(* Outbox: what the rows say about Inngest (PublishedWasSent) and about the *)
(* attempts (FailedOnlyExhausted) is not inductive: a worker carries a fact *)
(* across transactions.  WorkerKnows adds what a worker may rely on between *)
(* the publication, its read and its write, whatever the others commit.     *)
(*                                                                          *)
(* E-mails: messages are counted against the tries that can still send one  *)
(* (MailsAreTried); undisturbed, one execution at a time may send, and what *)
(* it holds about the plan is still true (UndisturbedKnows).  A digest has  *)
(* one sender at a time because its claim is a conditional update           *)
(* (OneSender), and one that nobody sent has left no copy (UnsentKnows).    *)
(*                                                                          *)
(* From the plan to its e-mail: the composition implements both parts, and  *)
(* so has their invariants; what is acted on was announced                  *)
(* (ActedOnWasAnnounced), and whoever takes an event off Inngest's list has *)
(* settled its row.                                                         *)
(***************************************************************************)
EXTENDS PlanAnnouncement, DigestDelivery, FiniteSetTheorems, TLAPS

\* What a worker in the middle of finishing an event knows: the event is a real
\* row, it was accepted if the worker is about to mark it, and the attempts it
\* read can only have grown.
WorkerKnows ==
    \A w \in Workers :
        /\ pc[w] \notin {"idle", "publish"} => cur[w] \in Events
        /\ pc[w] \in {"markRead", "markWrite"} => sent[cur[w]]
        /\ pc[w] = "releaseWrite" => seen[w] <= attempts[cur[w]]

Inv ==
    /\ TypeOK
    /\ WorkerKnows
    /\ LeaseMatchesStatus
    /\ PublishedWasSent
    /\ FailedOnlyExhausted

-----------------------------------------------------------------------------
\* The empty outbox satisfies the invariant.
LEMMA InitInv == Init => Inv
  BY OutboxAssumption
     DEF Init, Inv, TypeOK, WorkerKnows, LeaseMatchesStatus, PublishedWasSent,
         FailedOnlyExhausted, Status, Lease, PC

\* Inserting a row, and the passage of time, leave the workers' knowledge alone.
LEMMA ProducerInv ==
    ASSUME Inv, NEW e \in Events, Enqueue(e) \/ BecomeDue(e) \/ LeaseExpires(e)
    PROVE  Inv'
  <1> USE DEF Inv, TypeOK, WorkerKnows, LeaseMatchesStatus, PublishedWasSent,
              FailedOnlyExhausted, Status, Lease, PC, workerVars
  <1>1. CASE Enqueue(e)
    BY <1>1 DEF Enqueue
  <1>2. CASE BecomeDue(e)
    BY <1>2 DEF BecomeDue
  <1>3. CASE LeaseExpires(e)
    BY <1>3 DEF LeaseExpires
  <1>4. QED
    BY <1>1, <1>2, <1>3

\* claim_outbox_events: a claim only raises attempts, so what other workers read
\* stays a lower bound.
LEMMA ClaimInv ==
    ASSUME Inv, NEW w \in Workers, Claim(w)
    PROVE  Inv'
  <1> USE DEF Inv, Claim
  <1>0. PICK claimed \in SUBSET Events :
          /\ \A e \in claimed : Claimable(e)
          /\ status' = [e \in Events |-> IF e \in claimed THEN "publishing" ELSE status[e]]
          /\ lease' = [e \in Events |-> IF e \in claimed THEN "live" ELSE lease[e]]
          /\ attempts' = [e \in Events |->
                             IF e \in claimed THEN Capped(attempts[e]) ELSE attempts[e]]
          /\ batch' = [batch EXCEPT ![w] = claimed]
    OBVIOUS
  <1>1. \A e \in Events : attempts'[e] \in Nat /\ attempts'[e] >= attempts[e]
    BY <1>0, OutboxAssumption DEF Capped, TypeOK
  <1>2. TypeOK'
    BY <1>0, <1>1 DEF TypeOK, Status, Lease, PC
  <1>3. WorkerKnows'
    BY <1>1 DEF WorkerKnows, TypeOK
  <1>4. LeaseMatchesStatus' /\ PublishedWasSent'
    BY <1>0 DEF LeaseMatchesStatus, PublishedWasSent, TypeOK
  <1>5. FailedOnlyExhausted'
    BY <1>0, <1>1, OutboxAssumption DEF FailedOnlyExhausted, TypeOK
  <1>6. QED
    BY <1>2, <1>3, <1>4, <1>5

\* The publication itself and the unlocked read of _publishing_event.
LEMMA PublishInv ==
    ASSUME Inv, NEW w \in Workers,
           \/ \E e \in Events : PublishOk(w, e) \/ PublishFail(w, e)
           \/ MarkRead(w)
           \/ ReleaseRead(w)
    PROVE  Inv'
  <1> USE DEF Inv, TypeOK, WorkerKnows, LeaseMatchesStatus, PublishedWasSent,
              FailedOnlyExhausted, Status, Lease, PC, rowVars
  <1>1. ASSUME NEW e \in Events, PublishOk(w, e) PROVE Inv'
    BY <1>1 DEF PublishOk
  <1>2. ASSUME NEW e \in Events, PublishFail(w, e) PROVE Inv'
    <2>1. PICK accepted \in {sent[e], TRUE} : sent' = [sent EXCEPT ![e] = accepted]
      BY <1>2 DEF PublishFail
    <2>2. sent' \in [Events -> BOOLEAN] /\ \A x \in Events : sent[x] => sent'[x]
      BY <2>1, Zenon
    <2>3. QED
      BY <1>2, <2>2 DEF PublishFail
  <1>3. CASE MarkRead(w)
    BY <1>3, OutboxAssumption DEF MarkRead, ReadPublishing, Stop
  <1>4. CASE ReleaseRead(w)
    BY <1>4, OutboxAssumption DEF ReleaseRead, ReadPublishing, Stop
  <1>5. QED
    BY <1>1, <1>2, <1>3, <1>4

\* The write of mark_outbox_event_published, over whatever the row says by now.
LEMMA MarkPublishedInv ==
    ASSUME Inv, NEW w \in Workers, MarkPublished(w)
    PROVE  Inv'
  <1> USE DEF Inv, MarkPublished, NextInBatch
  <1>1. cur[w] \in Events /\ sent[cur[w]]
    BY DEF WorkerKnows
  <1>2. TypeOK'
    BY <1>1 DEF TypeOK, Status, Lease, PC
  <1>3. WorkerKnows'
    BY DEF WorkerKnows, TypeOK
  <1>4. LeaseMatchesStatus' /\ PublishedWasSent' /\ FailedOnlyExhausted'
    BY <1>1 DEF LeaseMatchesStatus, PublishedWasSent, FailedOnlyExhausted, TypeOK
  <1>5. QED
    BY <1>2, <1>3, <1>4

\* The write of release_outbox_event_for_retry: the attempts it read are a lower
\* bound of the attempts the row has now.
LEMMA ReleaseForRetryInv ==
    ASSUME Inv, NEW w \in Workers, ReleaseForRetry(w)
    PROVE  Inv'
  <1> USE DEF Inv, ReleaseForRetry, RetryStatus, NextInBatch
  <1>1. cur[w] \in Events /\ seen[w] <= attempts[cur[w]]
    BY DEF WorkerKnows
  <1>2. TypeOK'
    BY <1>1 DEF TypeOK, Status, Lease, PC
  <1>3. WorkerKnows'
    BY DEF WorkerKnows, TypeOK
  <1>4. LeaseMatchesStatus' /\ PublishedWasSent'
    BY <1>1 DEF LeaseMatchesStatus, PublishedWasSent, TypeOK
  <1>5. FailedOnlyExhausted'
    BY <1>1, OutboxAssumption DEF FailedOnlyExhausted, Exhausted, TypeOK
  <1>6. QED
    BY <1>2, <1>3, <1>4, <1>5

\* A crash forgets the worker and leaves the rows as they are.
LEMMA CrashInv ==
    ASSUME Inv, NEW w \in Workers, Crash(w)
    PROVE  Inv'
  BY DEF Inv, Crash, Stop, rowVars, TypeOK, WorkerKnows, LeaseMatchesStatus,
         PublishedWasSent, FailedOnlyExhausted, Status, Lease, PC

\* Inv is inductive, and every reachable state of the outbox satisfies it.
THEOREM OutboxInvariant == Spec => []Inv
  <1>1. Inv /\ [Next]_vars => Inv'
    <2> SUFFICES ASSUME Inv, [Next]_vars PROVE Inv'
      OBVIOUS
    <2>1. ASSUME NEW e \in Events, Enqueue(e) \/ BecomeDue(e) \/ LeaseExpires(e)
          PROVE  Inv'
      BY <2>1, ProducerInv
    <2>2. ASSUME NEW w \in Workers, Claim(w) \/ Deliver(w) \/ Crash(w)
          PROVE  Inv'
      BY <2>2, ClaimInv, PublishInv, MarkPublishedInv, ReleaseForRetryInv, CrashInv
         DEF Deliver
    <2>3. CASE UNCHANGED vars
      BY <2>3 DEF vars, Inv, TypeOK, WorkerKnows, LeaseMatchesStatus,
                  PublishedWasSent, FailedOnlyExhausted
    <2>4. QED
      BY <2>1, <2>2, <2>3 DEF Next
  <1>2. QED
    BY InitInv, <1>1, PTL DEF Spec

\* Type correctness, for every set of rows and workers.
THEOREM OutboxTypeOK == Spec => []TypeOK
  BY OutboxInvariant, PTL DEF Inv

\* A row that says published was accepted by Inngest.
THEOREM OutboxPublishedWasSent == Spec => []PublishedWasSent
  BY OutboxInvariant, PTL DEF Inv

\* A row is failed only after max_attempts claims.
THEOREM OutboxFailedOnlyExhausted == Spec => []FailedOnlyExhausted
  BY OutboxInvariant, PTL DEF Inv

\* The CHECK constraint lease_matches_status refuses no worker's transaction.
THEOREM OutboxLeaseMatchesStatus == Spec => []LeaseMatchesStatus
  BY OutboxInvariant, PTL DEF Inv

\* OutboxSafety: leases match the status, what is marked published was accepted by
\* the publisher and nothing is given up early, for every set of events and workers.
THEOREM OutboxSafetyHolds == Spec => []OutboxSafety
  BY OutboxTypeOK, OutboxLeaseMatchesStatus, OutboxPublishedWasSent, OutboxFailedOnlyExhausted, PTL
  DEF OutboxSafety

-----------------------------------------------------------------------------
(* The e-mail about a weekly plan.                                         *)

\* Executions that may still send a message about a plan.
Senders(p) == {x \in Mailers : mpc[x] \in {"insert", "send"} /\ mplan[x] = p}

\* Every message and every execution that may send one was started by a try.
MailsAreTried ==
    \A p \in Plans : IsFiniteSet(Senders(p)) /\ mails[p] + Cardinality(Senders(p)) <= tries[p]

\* An execution works on a plan, has found or made its row open, and knows of the message whose
\* receipt it holds.
MailerKnows ==
    \A x \in Mailers :
        /\ mpc[x] # "idle" => mplan[x] \in Plans
        /\ mpc[x] \in {"send", "record"} => held[x] \in {"pending", "failed"}
        /\ mpc[x] = "record" =>
              got[x] \in SmtpOutcomes /\ (got[x].accepted => mails[mplan[x]] > 0)

\* Undisturbed, an execution is alone with its plan; no message is out before it sends
\* one or after it was told of a failure, nor while the row is open and nobody is about
\* to write it.
UndisturbedKnows ==
    ~disturbed =>
        /\ \A x, y \in Mailers :
              mpc[x] # "idle" /\ mpc[y] # "idle" /\ mplan[x] = mplan[y] => x = y
        /\ \A x \in Mailers :
              \/ mpc[x] \in {"insert", "send"}
              \/ mpc[x] = "record" /\ got[x].raised = "failed"
              => mails[mplan[x]] = 0
        /\ \A p \in Plans :
              \/ AlreadyHandled(row[p])
              \/ mails[p] = 0
              \/ \E x \in Mailers : mpc[x] = "record" /\ mplan[x] = p

DeliveryInv ==
    /\ MailSafety
    /\ MailsAreTried
    /\ MailerKnows
    /\ UndisturbedKnows

\* Before the first ready plan nothing was sent.
LEMMA DeliveryInitInv == DeliveryInit => DeliveryInv
  <1> SUFFICES ASSUME DeliveryInit PROVE DeliveryInv
    OBVIOUS
  <1> USE DeliveryAssumption DEF DeliveryInit, Plans
  <1>1. DeliveryTypeOK
    <2>1. mailOff \in BOOLEAN /\ disturbed \in BOOLEAN
      BY Zenon
    <2> QED BY <2>1 DEF DeliveryTypeOK, RowStatus
  <1>2. MailsAreTried
    <2>1. \A p \in Plans : Senders(p) = {}
      BY DEF Senders
    <2>2. IsFiniteSet({}) /\ Cardinality({}) = 0
      BY FS_EmptySet
    <2>3. ASSUME NEW p \in Plans
          PROVE  IsFiniteSet(Senders(p)) /\ mails[p] + Cardinality(Senders(p)) <= tries[p]
      <3>1. Senders(p) = {} /\ mails[p] = 0 /\ tries[p] = 0
        BY <2>1
      <3> QED BY <2>2, <3>1
    <2> QED BY <2>3 DEF MailsAreTried
  <1> QED BY <1>1, <1>2
      DEF DeliveryInv, MailSafety, DeliveredWasAccepted, MailedOnceUndisturbed, MailerKnows, UndisturbedKnows

\* The set of senders gains or loses at most one execution in a step.
LEMMA SendersChange ==
  ASSUME DeliveryInv, NEW x \in Mailers,
         \A y \in Mailers \ {x} : mpc'[y] = mpc[y] /\ mplan'[y] = mplan[y]
  PROVE  \A p \in Plans :
            /\ IsFiniteSet(Senders(p)')
            /\ x \in Senders(p) /\ x \notin Senders(p)' =>
                  Cardinality(Senders(p)') = Cardinality(Senders(p)) - 1
            /\ x \notin Senders(p) /\ x \in Senders(p)' =>
                  Cardinality(Senders(p)') = Cardinality(Senders(p)) + 1
            /\ (x \in Senders(p) <=> x \in Senders(p)') =>
                  Cardinality(Senders(p)') = Cardinality(Senders(p))
            /\ Cardinality(Senders(p)) \in Nat
  <1> SUFFICES ASSUME NEW p \in Plans
               PROVE  /\ IsFiniteSet(Senders(p)')
                      /\ x \in Senders(p) /\ x \notin Senders(p)' =>
                            Cardinality(Senders(p)') = Cardinality(Senders(p)) - 1
                      /\ x \notin Senders(p) /\ x \in Senders(p)' =>
                            Cardinality(Senders(p)') = Cardinality(Senders(p)) + 1
                      /\ (x \in Senders(p) <=> x \in Senders(p)') =>
                            Cardinality(Senders(p)') = Cardinality(Senders(p))
                      /\ Cardinality(Senders(p)) \in Nat
    OBVIOUS
  <1>1. \A y \in Mailers \ {x} : y \in Senders(p) <=> y \in Senders(p)'
    BY DEF Senders
  <1>2. IsFiniteSet(Senders(p)) /\ Cardinality(Senders(p)) \in Nat
    BY FS_CardinalityType DEF DeliveryInv, MailsAreTried
  <1>3. Senders(p) \subseteq Mailers /\ Senders(p)' \subseteq Mailers
    BY DEF Senders
  <1>4. CASE x \in Senders(p) /\ x \notin Senders(p)'
    <2>1. Senders(p)' = Senders(p) \ {x}
      BY <1>1, <1>3, <1>4
    <2> QED BY <1>2, <1>4, <2>1, FS_RemoveElement
  <1>5. CASE x \notin Senders(p) /\ x \in Senders(p)'
    <2>1. Senders(p)' = Senders(p) \cup {x}
      BY <1>1, <1>3, <1>5
    <2> QED BY <1>2, <1>5, <2>1, FS_AddElement
  <1>6. CASE x \in Senders(p) <=> x \in Senders(p)'
    <2>1. Senders(p)' = Senders(p)
      BY <1>1, <1>3, <1>6
    <2> QED BY <1>2, <1>6, <2>1
  <1> QED BY <1>4, <1>5, <1>6

\* What happens outside the executions.
LEMMA PlanInv ==
  ASSUME DeliveryInv, PlanReady \/ SwitchMail \/ \E p \in Plans : EventArrives(p)
  PROVE  DeliveryInv'
  <1> USE DeliveryAssumption
      DEF DeliveryInv, MailSafety, DeliveryTypeOK, DeliveredWasAccepted, MailedOnceUndisturbed,
          MailsAreTried, MailerKnows, UndisturbedKnows, AlreadyHandled, Plans, Senders
  <1>1. CASE PlanReady
    BY <1>1 DEF PlanReady
  <1>2. CASE SwitchMail
    <2>1. mailOff' \in BOOLEAN
      BY <1>2 DEF SwitchMail
    <2> QED BY <1>2, <2>1 DEF SwitchMail
  <1>3. CASE \E p \in Plans : EventArrives(p)
    BY <1>3 DEF EventArrives
  <1> QED BY <1>1, <1>2, <1>3

\* A try starts an execution; disturbed says whether another works on the plan.
LEMMA ReadDeliveryInv ==
  ASSUME DeliveryInv, NEW x \in Mailers, NEW p \in Plans, ReadDelivery(x, p)
  PROVE  DeliveryInv'
  <1> USE DeliveryAssumption DEF ReadDelivery, AlreadyHandled
  <1>0. tries' = [tries EXCEPT ![p] = @ + 1] /\ disturbed' \in BOOLEAN
    BY Zenon DEF Started
  <1>1. ~disturbed' => ~disturbed /\ \A y \in Mailers \ {x} : ~(mpc[y] # "idle" /\ mplan[y] = p)
    BY Zenon DEF Started
  <1>2. p \in 0..MaxPlan
    BY DEF Plans
  <1>3. DeliveryTypeOK'
    <2> USE DEF DeliveryInv, MailSafety, DeliveryTypeOK
    <2>1. tries' \in [Plans -> 0..MaxTries] /\ owed' \in SUBSET Plans
      BY <1>0
    <2>2. mpc' \in [Mailers -> {"idle", "insert", "send", "record"}] /\ mplan' \in [Mailers -> 0..MaxPlan]
      BY <1>2
    <2> QED BY <1>0, <2>1, <2>2
  <1>4. \A y \in Mailers \ {x} : mpc'[y] = mpc[y] /\ mplan'[y] = mplan[y]
    BY DEF DeliveryInv, MailSafety, DeliveryTypeOK
  <1>5. MailsAreTried'
    <2>1. x \notin Senders(p)
      BY DEF Senders
    <2>2. \A q \in Plans : q # p => (x \in Senders(q) <=> x \in Senders(q)')
      BY DEF Senders, DeliveryInv, MailSafety, DeliveryTypeOK
    <2>3. tries[p]' = tries[p] + 1 /\ \A q \in Plans : q # p => tries'[q] = tries[q]
      BY <1>0 DEF DeliveryInv, MailSafety, DeliveryTypeOK
    <2> QED BY <1>4, <2>1, <2>2, <2>3, SendersChange
        DEF MailsAreTried, DeliveryInv, MailSafety, DeliveryTypeOK
  <1>6. MailerKnows' /\ DeliveredWasAccepted' /\ MailedOnceUndisturbed'
    BY <1>1 DEF DeliveryInv, MailSafety, DeliveryTypeOK, MailerKnows, DeliveredWasAccepted,
       MailedOnceUndisturbed, RowStatus
  <1>7. UndisturbedKnows'
    <2> SUFFICES ASSUME ~disturbed' PROVE UndisturbedKnows'
      BY DEF UndisturbedKnows
    <2> USE DEF DeliveryInv, MailSafety, DeliveryTypeOK, UndisturbedKnows, MailerKnows
    <2>1. \A y, z \in Mailers :
              mpc'[y] # "idle" /\ mpc'[z] # "idle" /\ mplan'[y] = mplan'[z] => y = z
      BY <1>1, <1>4
    <2>2. \A y \in Mailers :
              (mpc'[y] \in {"insert", "send"} \/ (mpc'[y] = "record" /\ got'[y].raised = "failed"))
              => mails'[mplan'[y]] = 0
      BY <1>1, <1>4
    <2>3. \A q \in Plans :
                \/ AlreadyHandled(row'[q])
                \/ mails'[q] = 0
                \/ \E y \in Mailers : mpc'[y] = "record" /\ mplan'[y] = q
      BY <1>1, <1>4
    <2> QED BY <2>1, <2>2, <2>3
  <1> QED BY <1>3, <1>5, <1>6, <1>7 DEF DeliveryInv, MailSafety

\* The steps of an execution.
LEMMA MailerInv ==
  ASSUME DeliveryInv, NEW x \in Mailers, MailerStep(x) \/ MailerDies(x)
  PROVE  DeliveryInv'
  <1> USE DeliveryAssumption
  <1>1. CASE InsertRow(x)
    <2> USE DEF InsertRow, DeliveryInv, MailSafety, DeliveryTypeOK, MailerKnows, AlreadyHandled
    <2>1. DeliveryTypeOK' /\ MailerKnows'
      BY <1>1 DEF RowStatus
    <2>2. MailsAreTried'
      <3>1. \A q \in Plans : x \in Senders(q) <=> x \in Senders(q)'
        BY <1>1 DEF Senders
      <3> QED BY <1>1, <3>1, SendersChange DEF MailsAreTried
    <2>3. DeliveredWasAccepted' /\ MailedOnceUndisturbed' /\ UndisturbedKnows'
      BY <1>1 DEF DeliveredWasAccepted, MailedOnceUndisturbed, UndisturbedKnows
    <2> QED BY <2>1, <2>2, <2>3
  <1>2. CASE InsertRowFails(x)
    <2> USE DEF InsertRowFails, EndDelivery, DeliveryInv, MailSafety, DeliveryTypeOK, MailerKnows,
        AlreadyHandled
    <2>1. DeliveryTypeOK' /\ MailerKnows'
      BY <1>2 DEF RowStatus
    <2>2. MailsAreTried'
      <3>1. \A q \in Plans : x \notin Senders(q)'
        BY <1>2 DEF Senders
      <3> QED BY <1>2, <3>1, SendersChange DEF MailsAreTried
    <2>3. DeliveredWasAccepted' /\ MailedOnceUndisturbed' /\ UndisturbedKnows'
      BY <1>2 DEF DeliveredWasAccepted, MailedOnceUndisturbed, UndisturbedKnows
    <2> QED BY <2>1, <2>2, <2>3
  <1>3. CASE SendMail(x)
    <2> USE DEF SendMail, DeliveryInv, MailSafety, DeliveryTypeOK, MailerKnows, AlreadyHandled
    <2>1. PICK o \in SmtpOutcomes :
            /\ got' = [got EXCEPT ![x] = o]
            /\ mails' = [mails EXCEPT ![mplan[x]] = IF o.accepted THEN @ + 1 ELSE @]
            /\ disturbed' = (disturbed \/ Misreported(o))
      BY <1>3
    <2>2. mplan[x] \in Plans /\ x \in Senders(mplan[x])
      BY <1>3 DEF Senders
    <2>3. disturbed' \in BOOLEAN /\ (~disturbed' => ~disturbed /\ ~Misreported(o))
      BY <2>1, Zenon
    <2>4. MailsAreTried'
      <3>1. \A q \in Plans : q # mplan[x] => x \notin Senders(q)
        BY DEF Senders
      <3>2. \A q \in Plans : x \notin Senders(q)'
        BY <1>3 DEF Senders
      <3>3. mails'[mplan[x]] <= mails[mplan[x]] + 1 /\ \A q \in Plans : q # mplan[x] => mails'[q] = mails[q]
        BY <2>1, <2>2
      <3>4. \A q \in Plans : mails'[q] \in Nat
        BY <2>1, <2>2
      <3> QED BY <1>3, <2>2, <3>1, <3>2, <3>3, <3>4, SendersChange DEF MailsAreTried
    <2>5. \A p \in Plans : mails'[p] \in 0..MaxTries
      <3>1. \A p \in Plans : mails'[p] \in Nat
        BY <2>1, <2>2
      <3>2. \A p \in Plans : Cardinality(Senders(p)') \in Nat /\ tries'[p] \in 0..MaxTries
        BY <2>4, <1>3, FS_CardinalityType DEF MailsAreTried
      <3> QED BY <3>1, <3>2, <2>4 DEF MailsAreTried
    <2>6. DeliveryTypeOK'
      BY <1>3, <2>1, <2>3, <2>5
    <2>7. MailerKnows' /\ DeliveredWasAccepted'
      BY <1>3, <2>1, <2>2 DEF DeliveredWasAccepted
    <2>8. MailedOnceUndisturbed' /\ UndisturbedKnows'
      <3> SUFFICES ASSUME ~disturbed' PROVE MailedOnceUndisturbed' /\ UndisturbedKnows'
        BY DEF MailedOnceUndisturbed, UndisturbedKnows
      <3> USE DEF MailedOnceUndisturbed, UndisturbedKnows
      <3>1. mails[mplan[x]] = 0
        BY <1>3, <2>3
      <3>2. MailedOnceUndisturbed'
        BY <1>3, <2>1, <2>2, <2>3, <3>1
      <3>3. o.raised = "failed" => ~o.accepted
        BY <2>3 DEF Misreported
      <3> QED BY <1>3, <2>1, <2>2, <2>3, <3>1, <3>2, <3>3
    <2> QED BY <2>4, <2>6, <2>7, <2>8
  <1>4. CASE RecordDelivery(x)
    <2> USE DEF RecordDelivery, EndDelivery, DeliveryInv, MailSafety, DeliveryTypeOK, MailerKnows,
        AlreadyHandled
    <2>1. mplan[x] \in Plans /\ got[x] \in SmtpOutcomes
      BY <1>4
    <2>2. DeliveryStatus(got[x]) \in RowStatus
          /\ (DeliveryStatus(got[x]) = "delivered" => got[x].accepted)
          /\ (got[x].raised # "failed" => DeliveryStatus(got[x]) \in {"delivered", "unknown_outcome"})
      BY <2>1 DEF DeliveryStatus, RowStatus, SmtpOutcomes
    <2>7. row' = [row EXCEPT ![mplan[x]] = DeliveryStatus(got[x])] \/ row' = row
      BY <1>4
    <2>8. got[x].raised # "failed" => row' = [row EXCEPT ![mplan[x]] = DeliveryStatus(got[x])]
      BY <1>4, <2>2
    <2>9. row' \in [Plans -> RowStatus] /\ owed' \in SUBSET Plans /\ held' \in [Mailers -> RowStatus]
      BY <1>4, <2>1, <2>2, <2>7 DEF RowStatus
    <2>3. DeliveryTypeOK' /\ MailerKnows'
      BY <1>4, <2>1, <2>9
    <2>4. MailsAreTried'
      <3>1. \A q \in Plans : x \notin Senders(q)' /\ x \notin Senders(q)
        BY <1>4 DEF Senders
      <3> QED BY <1>4, <3>1, SendersChange DEF MailsAreTried
    <2>5. DeliveredWasAccepted'
      BY <1>4, <2>1, <2>2, <2>7 DEF DeliveredWasAccepted
    <2>6. MailedOnceUndisturbed' /\ UndisturbedKnows'
      BY <1>4, <2>1, <2>2, <2>7, <2>8 DEF MailedOnceUndisturbed, UndisturbedKnows
    <2> QED BY <2>3, <2>4, <2>5, <2>6
  <1>5. CASE MailerDies(x)
    <2> USE DEF MailerDies, EndDelivery, DeliveryInv, MailSafety, DeliveryTypeOK, MailerKnows
    <2>1. disturbed' \in BOOLEAN /\ disturbed'
      BY <1>5
    <2>2. DeliveryTypeOK' /\ MailerKnows'
      BY <1>5, <2>1 DEF RowStatus
    <2>3. MailsAreTried'
      <3>1. \A q \in Plans : x \notin Senders(q)'
        BY <1>5 DEF Senders
      <3> QED BY <1>5, <3>1, SendersChange DEF MailsAreTried
    <2> QED BY <1>5, <2>1, <2>2, <2>3 DEF DeliveredWasAccepted, MailedOnceUndisturbed, UndisturbedKnows
  <1> QED BY <1>1, <1>2, <1>3, <1>4, <1>5 DEF MailerStep

\* The inductive invariant of the e-mails about weekly plans.
THEOREM DeliveryInvariant == DeliverySpec => []DeliveryInv
  <1>1. DeliveryInv /\ [DeliveryNext]_deliveryVars => DeliveryInv'
    <2> SUFFICES ASSUME DeliveryInv, [DeliveryNext]_deliveryVars PROVE DeliveryInv'
      OBVIOUS
    <2>1. CASE UNCHANGED deliveryVars
      BY <2>1 DEF deliveryVars, DeliveryInv, MailSafety, DeliveryTypeOK, DeliveredWasAccepted,
         MailedOnceUndisturbed, MailsAreTried, MailerKnows, UndisturbedKnows, Senders, AlreadyHandled
    <2> QED BY <2>1, PlanInv, ReadDeliveryInv, MailerInv DEF DeliveryNext
  <1> QED BY <1>1, DeliveryInitInv, PTL DEF DeliverySpec

\* MailSafety: for every set of plans and overlapping executions, a delivery recorded as delivered was
\* accepted by the mail server, and a plan is mailed twice only where an execution died, two
\* overlapped, or the server's answer misled the sender (WeeklyGrowthEmailWorkflow.deliver).
THEOREM DeliveryMailSafety == DeliverySpec => []MailSafety
  <1>1. DeliveryInv => MailSafety
    BY DEF DeliveryInv
  <1> QED BY <1>1, DeliveryInvariant, PTL

-----------------------------------------------------------------------------
(* From the plan to its e-mail.                                            *)

\* The e-mail workflow, put behind the outbox, does nothing it does not do by itself.
THEOREM AnnouncementImplementsDelivery == AnnouncementSpec => DeliverySpec
  <1>1. [AnnouncementNext]_announcementVars => [DeliveryNext]_deliveryVars
    <2> SUFFICES ASSUME [AnnouncementNext]_announcementVars PROVE [DeliveryNext]_deliveryVars
      OBVIOUS
    <2>1. CASE Announce
      BY <2>1 DEF Announce, DeliveryNext
    <2>2. ASSUME NEW w \in Workers, NEW e \in Events, Publish(w, e)
          PROVE  [DeliveryNext]_deliveryVars
      BY <2>2, AnnouncementAssumption DEF Publish, Reaches, DeliveryNext
    <2>3. CASE OutboxStep
      BY <2>3 DEF OutboxStep
    <2>4. CASE DeliveryStep
      BY <2>4 DEF DeliveryStep, DeliveryNext
    <2>5. CASE UNCHANGED announcementVars
      BY <2>5 DEF announcementVars
    <2> QED BY <2>1, <2>2, <2>3, <2>4, <2>5 DEF AnnouncementNext
  <1> QED BY <1>1, PTL DEF AnnouncementSpec, AnnouncementInit, DeliverySpec

\* Nor does the outbox, whose rows are the plans' events: a plan that becomes ready has a row to
\* enqueue because plans are numbered up to MaxPlan (DeliveryTypeOK).
THEOREM AnnouncementImplementsOutbox == AnnouncementSpec => FairSpec
  <1>1. DeliveryInv /\ [AnnouncementNext]_announcementVars => [Next]_vars
    <2> SUFFICES ASSUME DeliveryInv, [AnnouncementNext]_announcementVars PROVE [Next]_vars
      OBVIOUS
    <2>1. CASE Announce
      <3>1. canonical + 1 \in Events
        BY <2>1, DeliveryAssumption, AnnouncementAssumption
           DEF Announce, PlanReady, DeliveryInv, MailSafety, DeliveryTypeOK, Plans
      <3> QED BY <2>1, <3>1 DEF Announce, Next
    <2>2. ASSUME NEW w \in Workers, NEW e \in Events, Publish(w, e)
          PROVE  [Next]_vars
      BY <2>2 DEF Publish, Next, Deliver
    <2>3. CASE OutboxStep
      BY <2>3 DEF OutboxStep, Next, Deliver
    <2>4. CASE DeliveryStep
      BY <2>4 DEF DeliveryStep
    <2>5. CASE UNCHANGED announcementVars
      BY <2>5 DEF announcementVars
    <2> QED BY <2>1, <2>2, <2>3, <2>4, <2>5 DEF AnnouncementNext
  <1> QED BY <1>1, AnnouncementImplementsDelivery, DeliveryInvariant, PTL
      DEF AnnouncementSpec, AnnouncementInit, FairSpec, Spec

\* What a worker publishes or finishes was enqueued, and an execution runs for an event that Inngest
\* accepted.
ActedOnWasAnnounced ==
    /\ \A w \in Workers :
          /\ \A e \in batch[w] : status[e] # "none"
          /\ pc[w] \notin {"idle", "publish"} => status[cur[w]] # "none"
    /\ \A x \in Mailers : mpc[x] # "idle" => sent[mplan[x]]

AnnouncementInv == AnnouncementSafety /\ ActedOnWasAnnounced

\* Before the first plan nothing is enqueued, accepted or owed.
LEMMA AnnouncementInitInv == AnnouncementInit => AnnouncementInv
  BY DeliveryAssumption, AnnouncementAssumption
     DEF AnnouncementInit, Init, DeliveryInit, AnnouncementInv, AnnouncementSafety, OnlyAnnounced,
         AnnouncedIsKept, ActedOnWasAnnounced, Plans

\* A plan and its event come together.
LEMMA AnnounceInv ==
  ASSUME Inv, DeliveryInv, AnnouncementInv, Announce
  PROVE  AnnouncementInv'
  <1> DEFINE q == canonical + 1
  <1> USE DeliveryAssumption, AnnouncementAssumption
  <1>1. canonical \in Nat /\ q \in Plans /\ canonical' = q /\ status[q] = "none" /\ ~sent[q]
    BY DEF Announce, PlanReady, Enqueue, DeliveryInv, MailSafety, DeliveryTypeOK, Plans, AnnouncementInv,
       AnnouncementSafety, OnlyAnnounced
  <1>2. status' = [status EXCEPT ![q] = "pending"] /\ sent' = sent /\ batch' = batch /\ pc' = pc /\ cur' = cur
    BY DEF Announce, Enqueue, workerVars
  <1>3. UNCHANGED <<mailOff, owed, dropped, tries, row, mpc, mplan, mails>>
    BY DEF Announce, PlanReady
  <1>4. status \in [Plans -> Status]
    BY DEF Inv, TypeOK
  <1> HIDE DEF q
  <1>5. OnlyAnnounced'
    <2>1. \A p \in Plans : p <= q <=> p <= canonical \/ p = q
      BY <1>1 DEF Plans, q
    <2> QED BY <1>1, <1>2, <1>3, <1>4, <2>1 DEF AnnouncementInv, AnnouncementSafety, OnlyAnnounced
  <1>6. AnnouncedIsKept'
    BY <1>2, <1>3 DEF AnnouncementInv, AnnouncementSafety, AnnouncedIsKept, AlreadyHandled
  <1>7. ActedOnWasAnnounced'
    BY <1>2, <1>3, <1>4 DEF ActedOnWasAnnounced, AnnouncementInv, Inv, TypeOK, WorkerKnows
  <1> QED BY <1>5, <1>6, <1>7 DEF AnnouncementInv, AnnouncementSafety

\* Inngest has an event from the moment it first accepts it.
LEMMA PublishReachesInv ==
  ASSUME Inv, DeliveryInv, AnnouncementInv, NEW w \in Workers, NEW e \in Events, Publish(w, e)
  PROVE  AnnouncementInv'
  <1> USE AnnouncementAssumption
  <1>1. e \in batch[w] /\ status[e] # "none" /\ status' = status /\ batch' = batch
    BY DEF Publish, PublishOk, PublishFail, rowVars, AnnouncementInv, ActedOnWasAnnounced
  <1>2. /\ sent' \in [Plans -> BOOLEAN]
        /\ \A p \in Plans : (p # e => sent'[p] = sent[p]) /\ (sent[p] => sent'[p])
    BY DEF Publish, PublishOk, PublishFail, Inv, TypeOK
  <1>3. cur' = [cur EXCEPT ![w] = e]
    BY DEF Publish, PublishOk, PublishFail
  <1>4. pc' \in [Workers -> PC] /\ \A v \in Workers \ {w} : pc'[v] = pc[v]
    BY DEF Publish, PublishOk, PublishFail, Inv, TypeOK, PC
  <1>5. UNCHANGED <<canonical, mailOff, dropped, tries, row, mpc, mplan, mails>>
    BY DEF Publish, Reaches, EventArrives, deliveryVars
  <1>6. \/ sent'[e] /\ owed' = owed \cup {e}
        \/ sent'[e] = sent[e] /\ owed' = owed
    BY DEF Publish, Reaches, EventArrives, deliveryVars
  <1>7. OnlyAnnounced'
    BY <1>1, <1>2, <1>5, <1>6 DEF AnnouncementInv, AnnouncementSafety, OnlyAnnounced
  <1>8. AnnouncedIsKept'
    BY <1>2, <1>5, <1>6 DEF AnnouncementInv, AnnouncementSafety, AnnouncedIsKept, AlreadyHandled
  <1>9. ActedOnWasAnnounced'
    <2>1. \A x \in Mailers : mpc[x] # "idle" => mplan[x] \in Plans
      BY DEF DeliveryInv, MailerKnows
    <2> QED BY <1>1, <1>2, <1>3, <1>4, <1>5, <2>1
        DEF AnnouncementInv, ActedOnWasAnnounced, Inv, TypeOK
  <1> QED BY <1>7, <1>8, <1>9 DEF AnnouncementInv, AnnouncementSafety

\* The outbox's other steps write only rows that are there.
LEMMA OutboxStepInv ==
  ASSUME Inv, DeliveryInv, AnnouncementInv, OutboxStep
  PROVE  AnnouncementInv'
  <1> USE AnnouncementAssumption
  <1>1. UNCHANGED <<canonical, mailOff, owed, dropped, tries, row, mpc, mplan, mails, sent>>
    BY DEF OutboxStep, deliveryVars, BecomeDue, LeaseExpires, Claim, MarkRead, ReleaseRead, ReadPublishing,
       MarkPublished, ReleaseForRetry, Crash
  <1> DEFINE RowsStay ==
                /\ \A e \in Events : status[e] = "none" <=> status'[e] = "none"
                /\ \A v \in Workers : \A e \in batch'[v] : e \in Events /\ status[e] # "none"
                /\ \A v \in Workers :
                      pc'[v] \notin {"idle", "publish"} =>
                         /\ cur'[v] = cur[v] /\ cur[v] \in Events
                         /\ pc[v] \notin {"idle", "publish"}
  <1>2. RowsStay
    <2> USE DEF Inv, TypeOK, WorkerKnows, AnnouncementInv, ActedOnWasAnnounced
    <2>1. ASSUME NEW e \in Events, BecomeDue(e) \/ LeaseExpires(e)
          PROVE  RowsStay
      BY <2>1 DEF BecomeDue, LeaseExpires, workerVars
    <2>2. ASSUME NEW w \in Workers, Claim(w)
          PROVE  RowsStay
      <3>1. PICK claimed \in SUBSET {e \in Events : Claimable(e)} :
              /\ status' = [e \in Events |-> IF e \in claimed THEN "publishing" ELSE status[e]]
              /\ batch' = [batch EXCEPT ![w] = claimed]
        BY <2>2 DEF Claim
      <3>2. \A e \in claimed : e \in Events /\ status[e] # "none"
        BY DEF Claimable
      <3> QED BY <2>2, <3>1, <3>2 DEF Claim
    <2>3. ASSUME NEW w \in Workers, MarkRead(w) \/ ReleaseRead(w)
          PROVE  RowsStay
      BY <2>3 DEF MarkRead, ReleaseRead, ReadPublishing, Stop, rowVars
    <2>4. ASSUME NEW w \in Workers, MarkPublished(w)
          PROVE  RowsStay
      BY <2>4 DEF MarkPublished, NextInBatch
    <2>5. ASSUME NEW w \in Workers, ReleaseForRetry(w)
          PROVE  RowsStay
      BY <2>5 DEF ReleaseForRetry, NextInBatch, RetryStatus
    <2>6. ASSUME NEW w \in Workers, Crash(w)
          PROVE  RowsStay
      BY <2>6 DEF Crash, Stop, rowVars
    <2> HIDE DEF RowsStay
    <2> QED BY <2>1, <2>2, <2>3, <2>4, <2>5, <2>6 DEF OutboxStep
  <1>3. OnlyAnnounced' /\ AnnouncedIsKept'
    BY <1>1, <1>2 DEF AnnouncementInv, AnnouncementSafety, OnlyAnnounced, AnnouncedIsKept, AlreadyHandled
  <1>4. ActedOnWasAnnounced'
    BY <1>1, <1>2 DEF AnnouncementInv, ActedOnWasAnnounced
  <1> QED BY <1>3, <1>4 DEF AnnouncementInv, AnnouncementSafety

\* Executions run only for events that Inngest has, and one that ends without settling its
\* delivery leaves the event owed.
LEMMA DeliveryStepInv ==
  ASSUME Inv, DeliveryInv, AnnouncementInv, DeliveryStep
  PROVE  AnnouncementInv'
  <1> USE AnnouncementAssumption
  <1>1. UNCHANGED <<status, sent, pc, batch, cur>> /\ canonical' = canonical
    BY DEF DeliveryStep, vars, SwitchMail, MailerStep, InsertRow, InsertRowFails, SendMail, RecordDelivery,
       MailerDies, ReadDelivery
  <1>2. \A x \in Mailers : mpc[x] # "idle" => mplan[x] \in Plans /\ sent[mplan[x]]
    BY DEF DeliveryInv, MailerKnows, AnnouncementInv, ActedOnWasAnnounced
  <1> DEFINE OnlySent ==
                /\ \A p \in Plans :
                      p \in owed' \/ row'[p] # "none" \/ mails'[p] > 0 \/ tries'[p] > 0 => sent[p]
                /\ \A x \in Mailers : mpc'[x] # "idle" => sent[mplan'[x]]
      Kept == \A p \in Plans :
                (p \in owed \/ AlreadyHandled(row[p]) \/ p \in dropped)
                => p \in owed' \/ AlreadyHandled(row'[p]) \/ p \in dropped'
  <1>3. OnlySent /\ Kept
    <2> USE DEF DeliveryInv, MailSafety, DeliveryTypeOK, AnnouncementInv, AnnouncementSafety, OnlyAnnounced,
        ActedOnWasAnnounced
    <2>1. CASE SwitchMail
      BY <2>1 DEF SwitchMail
    <2>2. ASSUME NEW x \in Mailers, InsertRow(x)
          PROVE  OnlySent /\ Kept
      BY <1>1, <1>2, <2>2 DEF InsertRow, AlreadyHandled
    <2>3. ASSUME NEW x \in Mailers, InsertRowFails(x)
          PROVE  OnlySent /\ Kept
      BY <1>1, <1>2, <2>3 DEF InsertRowFails, EndDelivery
    <2>4. ASSUME NEW x \in Mailers, SendMail(x)
          PROVE  OnlySent /\ Kept
      <3>1. \A p \in Plans : p # mplan[x] => mails'[p] = mails[p]
        BY <2>4 DEF SendMail
      <3> QED BY <1>1, <1>2, <2>4, <3>1 DEF SendMail
    <2>5. ASSUME NEW x \in Mailers, RecordDelivery(x)
          PROVE  OnlySent /\ Kept
      <3>1. mplan[x] \in Plans /\ got[x] \in SmtpOutcomes /\ held[x] \in {"pending", "failed"}
        BY <2>5 DEF RecordDelivery, MailerKnows
      <3>2. got[x].raised # "failed" => DeliveryStatus(got[x]) \in {"delivered", "unknown_outcome"}
        BY <3>1 DEF DeliveryStatus, SmtpOutcomes
      <3>3. \A p \in Plans : p # mplan[x] => row'[p] = row[p] /\ (p \in owed' <=> p \in owed)
        BY <2>5 DEF RecordDelivery
      <3>4. mplan[x] \in owed' \/ AlreadyHandled(row'[mplan[x]])
        BY <2>5, <3>1, <3>2 DEF RecordDelivery, AlreadyHandled
      <3>5. Kept
        BY <1>1, <2>5, <3>3, <3>4 DEF RecordDelivery
      <3>6. OnlySent
        BY <1>1, <1>2, <2>5, <3>3 DEF RecordDelivery, EndDelivery
      <3> QED BY <3>5, <3>6
    <2>6. ASSUME NEW x \in Mailers, MailerDies(x)
          PROVE  OnlySent /\ Kept
      BY <1>1, <1>2, <2>6 DEF MailerDies, EndDelivery
    <2>7. ASSUME NEW x \in Mailers, NEW p \in Plans, ReadDelivery(x, p)
          PROVE  OnlySent /\ Kept
      <3>1. sent[p] /\ tries' = [tries EXCEPT ![p] = @ + 1]
        BY <2>7 DEF ReadDelivery, Started
      <3> QED BY <1>1, <1>2, <2>7, <3>1 DEF ReadDelivery
    <2> HIDE DEF OnlySent, Kept
    <2> QED BY <2>1, <2>2, <2>3, <2>4, <2>5, <2>6, <2>7 DEF DeliveryStep, MailerStep
  <1>4. OnlyAnnounced' /\ AnnouncedIsKept'
    BY <1>1, <1>3 DEF AnnouncementInv, AnnouncementSafety, OnlyAnnounced, AnnouncedIsKept
  <1>5. ActedOnWasAnnounced'
    BY <1>1, <1>3 DEF AnnouncementInv, ActedOnWasAnnounced
  <1> QED BY <1>4, <1>5 DEF AnnouncementInv, AnnouncementSafety

\* The outbox and the e-mail workflow keep their own invariants when they are put together: a
\* published row was accepted, a row given up is exhausted, a delivered e-mail was accepted, and a
\* plan is mailed twice only where an execution died, overlapped or was misled.
THEOREM AnnouncementKeepsParts == AnnouncementSpec => [](OutboxSafety /\ MailSafety)
  BY AnnouncementImplementsOutbox, AnnouncementImplementsDelivery, OutboxSafetyHolds, DeliveryMailSafety,
     PTL DEF FairSpec

\* AnnouncementSafety: for every number of plans, outbox workers and executions, whatever crashes,
\* is published twice or fails: a plan is ready exactly if its event is enqueued, nothing is sent about
\* one whose event Inngest did not accept, and an accepted event stays owed until its delivery is
\* settled or found suppressed.
THEOREM AnnouncementSafetyHolds == AnnouncementSpec => []AnnouncementSafety
  <1>1. Inv /\ DeliveryInv /\ AnnouncementInv /\ [AnnouncementNext]_announcementVars => AnnouncementInv'
    <2> SUFFICES ASSUME Inv, DeliveryInv, AnnouncementInv, [AnnouncementNext]_announcementVars
                 PROVE  AnnouncementInv'
      OBVIOUS
    <2>1. CASE UNCHANGED announcementVars
      BY <2>1 DEF announcementVars, vars, deliveryVars, AnnouncementInv, AnnouncementSafety, OnlyAnnounced,
         AnnouncedIsKept, ActedOnWasAnnounced, AlreadyHandled
    <2> QED BY <2>1, AnnounceInv, PublishReachesInv, OutboxStepInv, DeliveryStepInv DEF AnnouncementNext
  <1>2. AnnouncementSpec => []Inv /\ []DeliveryInv
    BY AnnouncementImplementsOutbox, AnnouncementImplementsDelivery, OutboxInvariant, DeliveryInvariant, PTL
       DEF FairSpec
  <1>3. AnnouncementInv => AnnouncementSafety
    BY DEF AnnouncementInv
  <1> QED BY <1>1, <1>2, <1>3, AnnouncementInitInv, PTL DEF AnnouncementSpec

-----------------------------------------------------------------------------
(* The digest.                                                             *)

\* A job does one of these; at most one of them has the message in its hands.
OneSender ==
    /\ jpc \in [DigestJobs -> {"idle", "read", "send", "record"}]
    /\ \A i, j \in DigestJobs :
          jpc[i] \in {"send", "record"} /\ jpc[j] \in {"send", "record"} => i = j

\* A digest that may be sent has not reached its reader, but by messages that were said
\* to fail; nobody is sending one that is open.
UnsentKnows ==
    /\ digest \in {"none", "failed"} =>
          copies <= misled /\ \A j \in DigestJobs : jpc[j] \notin {"send", "record"}
    /\ \A j \in DigestJobs :
          /\ jpc[j] = "send" => copies <= misled
          /\ jpc[j] = "record" =>
                /\ told[j] \in SmtpOutcomes
                /\ told[j].raised = "failed" => copies <= misled
                /\ told[j].accepted => copies > 0

DigestInv ==
    /\ DigestSafety
    /\ OneSender
    /\ UnsentKnows

\* The inductive invariant of the achievement digests.
THEOREM DigestInvariant == DigestSpec => []DigestInv
  <1> USE DigestAssumption
      DEF DigestInv, DigestSafety, DigestTypeOK, DigestSentOnce, SentDigestWasAccepted, OneSender,
          UnsentKnows
  <1>1. DigestInit => DigestInv
    <2> SUFFICES ASSUME DigestInit PROVE DigestInv
      OBVIOUS
    <2>1. sentAt \in BOOLEAN
      BY Zenon DEF DigestInit
    <2> QED BY <2>1 DEF DigestInit, DigestStatus
  <1>2. DigestInv /\ [DigestNext]_digestVars => DigestInv'
    <2> SUFFICES ASSUME DigestInv, [DigestNext]_digestVars PROVE DigestInv'
      OBVIOUS
    <2>1. ASSUME NEW j \in DigestJobs, SelectDigest(j) PROVE DigestInv'
      BY <2>1 DEF SelectDigest
    <2>2. ASSUME NEW j \in DigestJobs, ReadDigest(j) PROVE DigestInv'
      BY <2>2 DEF ReadDigest, FoundPending, DigestStatus
    <2>3. ASSUME NEW j \in DigestJobs, SendDigest(j) PROVE DigestInv'
      <3>1. PICK o \in SmtpOutcomes :
              /\ told' = [told EXCEPT ![j] = o]
              /\ copies' = IF o.accepted THEN copies + 1 ELSE copies
              /\ misled' = IF Misreported(o) THEN misled + 1 ELSE misled
        BY <2>3 DEF SendDigest
      <3>2. copies' \in Nat /\ misled' \in Nat
        BY <3>1
      <3>3. DigestTypeOK'
        BY <2>3, <3>1, <3>2 DEF SendDigest
      <3> QED BY <2>3, <3>1, <3>2, <3>3 DEF SendDigest, Misreported
    <2>4. ASSUME NEW j \in DigestJobs, RecordDigest(j) PROVE DigestInv'
      <3>1. told[j] \in SmtpOutcomes
        BY <2>4 DEF RecordDigest
      <3>2. /\ DeliveryStatus(told[j]) \in DigestStatus \ {"none", "pending"}
            /\ DeliveryStatus(told[j]) = "failed" <=> told[j].raised = "failed"
            /\ told[j].raised = "none" => told[j].accepted
        BY <3>1 DEF DeliveryStatus, DigestStatus, SmtpOutcomes
      <3>3. sentAt' \in BOOLEAN /\ (sentAt' => sentAt \/ told[j].raised = "none")
        BY <2>4 DEF RecordDigest
      <3>4. DigestTypeOK'
        BY <2>4, <3>1, <3>2, <3>3 DEF RecordDigest
      <3> QED BY <2>4, <3>1, <3>2, <3>3, <3>4 DEF RecordDigest
    <2>5. ASSUME NEW j \in DigestJobs, JobDies(j) PROVE DigestInv'
      BY <2>5 DEF JobDies
    <2>6. CASE UNCHANGED digestVars
      BY <2>6 DEF digestVars
    <2> QED BY <2>1, <2>2, <2>3, <2>4, <2>5, <2>6 DEF DigestNext
  <1> QED BY <1>1, <1>2, PTL DEF DigestSpec

\* DigestSafety: however many jobs die or overlap, a digest reaches its reader at most once (plus once
\* for every message the server took while it said it failed), and one recorded as sent was
\* accepted (deliver_stored_digest).
THEOREM DigestSafetyHolds == DigestSpec => []DigestSafety
  <1>1. DigestInv => DigestSafety
    BY DEF DigestInv
  <1> QED BY <1>1, DigestInvariant, PTL

=============================================================================
