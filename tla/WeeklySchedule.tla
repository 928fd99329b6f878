--------------------------- MODULE WeeklySchedule ---------------------------
(***************************************************************************)
(* Who creates the weekly runs of one week: the hourly pass of              *)
(* WeeklyOperatorScheduler over all due products, a manual request          *)
(* (request_manual_weekly_run) and the end of the activation                *)
(* (finalize_activation_and_start).                                         *)
(*                                                                         *)
(* Each of them is one transaction that looks for a run of its key and for  *)
(* an active run without a lock, and inserts later; two unique indexes, on  *)
(* the key and on the logical period, make an insert wait for a transaction *)
(* that has inserted the same and fail when that one commits.  The three    *)
(* compute the period differently (local midnight of the scheduled weekday, *)
(* Monday midnight in UTC, local Monday midnight), so that one week has up  *)
(* to three periods.  What a run does is WeeklyOperator's; here it only     *)
(* changes its status.  When a product is ready is RunReadiness's; sources  *)
(* and settings come and go, and a transaction may find it so or not so at  *)
(* each look.                                                               *)
(***************************************************************************)
EXTENDS Naturals, FiniteSets

CONSTANTS
    Products,       \* products whose scheduled hour it is, one per workspace
    ByHand,         \* pairs of a product and the key of a manual request
    ByActivation,   \* pairs of a product and the key of an activation
    Txns,           \* database transactions that run concurrently
    Scheduled,      \* the key scheduled_weekly_key computes for the week
    NoRun           \* no insert in progress

ASSUME ScheduleAssumption ==
    /\ NoRun \notin Products \X {Scheduled} \cup ByHand \cup ByActivation
    /\ \A x \in ByHand \cup ByActivation : x[1] \in Products /\ x[2] # Scheduled
    /\ ByHand \cap ByActivation = {}

\* The runs the week can have: a product and an idempotency key.
WeeklyRuns == (Products \X {Scheduled}) \cup ByHand \cup ByActivation

VARIABLES
    calendar,   \* the period start each trigger computes (never changes)
    status,     \* operator_runs.status; "none" without a row
    work,       \* what a transaction is: "idle", "pass", "manual" or "activation"
    remaining,  \* products a pass has not visited, the product of a request
    wanted,     \* the run a transaction is about to insert
    staged,     \* runs it has inserted and not committed
    left,       \* history: products its pass has found not ready
    excused     \* history: products two transactions looked at before committing,
                \* and products that had an ended run revived

txnVars == <<work, remaining, wanted, staged, left>>
scheduleVars == <<calendar, status, work, remaining, wanted, staged, left, excused>>

Trigger(r) ==
    CASE r \in ByHand -> "manual" [] r \in ByActivation -> "activation" [] OTHER -> "scheduled"

\* "active" is pending or running, "ended" failed or stopped without a ready plan, and
\* "completed" a run whose plan is ready.
WeekStatus == {"none", "active", "ended", "completed"}

\* The period starts coincide for a Monday in UTC, differ in pairs for another
\* weekday or another zone, and all differ for both.
Calendars ==
    { [scheduled |-> 1, manual |-> 1, activation |-> 1],
      [scheduled |-> 2, manual |-> 1, activation |-> 1],
      [scheduled |-> 1, manual |-> 2, activation |-> 1],
      [scheduled |-> 2, manual |-> 1, activation |-> 3] }

Period(r) == calendar[Trigger(r)]

ScheduleInit ==
    /\ calendar \in Calendars
    /\ status = [r \in WeeklyRuns |-> "none"]
    /\ work = [t \in Txns |-> "idle"]
    /\ remaining = [t \in Txns |-> {}]
    /\ wanted = [t \in Txns |-> NoRun]
    /\ staged = [t \in Txns |-> {}]
    /\ left = [t \in Txns |-> {}]
    /\ excused = {}

-----------------------------------------------------------------------------
(* What a transaction sees: committed rows and its own.                    *)

Exists(t, r) == status[r] # "none" \/ r \in staged[t]

\* create_weekly_run's look for an active run of the product.
HasActive(t, p) ==
    \E r \in WeeklyRuns : r[1] = p /\ (status[r] = "active" \/ r \in staged[t])

\* Mutant: the index on the period is not there.
ClashByKey(r, q) == q = r

\* The unique indexes: one run per key, one run per product and period.
Clash(r, q) == q[1] = r[1] /\ (q = r \/ Period(q) = Period(r))

\* An insert waits for whoever has inserted the same and not committed yet.
Blocked(t, u) == u # t /\ wanted[t] # NoRun /\ \E q \in staged[u] : Clash(wanted[t], q)

\* Some other transaction has looked at the product and not committed.
LookedAt(t, p) ==
    \E u \in Txns \ {t} :
        \/ wanted[u] # NoRun /\ wanted[u][1] = p
        \/ \E q \in staged[u] : q[1] = p

-----------------------------------------------------------------------------
(* The transactions.                                                       *)

\* The pass reads the enabled products whose hour it is.
StartPass(t) ==
    /\ work[t] = "idle"
    /\ work' = [work EXCEPT ![t] = "pass"]
    /\ remaining' = [remaining EXCEPT ![t] = {<<p, Scheduled>> : p \in Products}]
    /\ UNCHANGED <<calendar, status, wanted, staged, left, excused>>

\* A request or an activation whose product is ready; any other is refused at once.
StartRequest(t, r) ==
    /\ work[t] = "idle"
    /\ work' = [work EXCEPT ![t] = Trigger(r)]
    /\ remaining' = [remaining EXCEPT ![t] = {r}]
    /\ UNCHANGED <<calendar, status, wanted, staged, left, excused>>

\* create_weekly_run: a run of the key is replayed; an active run is a conflict.
Conflicts(t, r) == ~Exists(t, r) /\ work[t] # "activation" /\ HasActive(t, r[1])

\* An activation takes the active run, or the run of its period, if there is one.
Reuses(t, r) ==
    \/ Exists(t, r)
    \/ /\ work[t] = "activation"
       /\ HasActive(t, r[1]) \/ \E q \in WeeklyRuns : Exists(t, q) /\ Clash(r, q)

\* What the transaction turns to next.
ComesTo(t, r) == work[t] # "idle" /\ wanted[t] = NoRun /\ r \in remaining[t]

\* The product is not ready when the pass comes to it (require_operator_run_ready).
LeaveOut(t, r) ==
    /\ work[t] = "pass"
    /\ ComesTo(t, r)
    /\ remaining' = [remaining EXCEPT ![t] = @ \ {r}]
    /\ left' = [left EXCEPT ![t] = @ \cup {r[1]}]
    /\ UNCHANGED <<calendar, status, work, wanted, staged, excused>>

MaySkip(t, r) == ComesTo(t, r) /\ Reuses(t, r)

\* A run that exists is replayed.
Skip(t, r) ==
    /\ MaySkip(t, r)
    /\ remaining' = [remaining EXCEPT ![t] = @ \ {r}]
    /\ UNCHANGED <<calendar, status, work, wanted, staged, left, excused>>

\* The checks passed; the insert comes later.
MayLook(t, r) ==
    /\ ComesTo(t, r)
    /\ ~Reuses(t, r)
    /\ ~HasActive(t, r[1])

Look(t, r) ==
    /\ MayLook(t, r)
    /\ wanted' = [wanted EXCEPT ![t] = r]
    /\ excused' = IF LookedAt(t, r[1]) THEN excused \cup {r[1]} ELSE excused
    /\ UNCHANGED <<calendar, status, work, remaining, staged, left>>

\* Mutant: the insert does not look at the indexes.
InsertBlindly(t) ==
    /\ wanted[t] # NoRun
    /\ staged' = [staged EXCEPT ![t] = @ \cup {wanted[t]}]
    /\ remaining' = [remaining EXCEPT ![t] = @ \ {wanted[t]}]
    /\ wanted' = [wanted EXCEPT ![t] = NoRun]
    /\ UNCHANGED <<calendar, status, work, left, excused>>

\* A committed row that the unique indexes do not allow beside the one to insert.
Refused(t) == wanted[t] # NoRun /\ \E q \in WeeklyRuns : status[q] # "none" /\ Clash(wanted[t], q)

MayInsert(t) == wanted[t] # NoRun /\ ~Refused(t) /\ \A u \in Txns : ~Blocked(t, u)

\* repository.flush: the row is inserted, with its outbox event.
Insert(t) ==
    /\ MayInsert(t)
    /\ staged' = [staged EXCEPT ![t] = @ \cup {wanted[t]}]
    /\ remaining' = [remaining EXCEPT ![t] = @ \ {wanted[t]}]
    /\ wanted' = [wanted EXCEPT ![t] = NoRun]
    /\ UNCHANGED <<calendar, status, work, left, excused>>

Rollback(t) ==
    /\ work' = [work EXCEPT ![t] = "idle"]
    /\ remaining' = [remaining EXCEPT ![t] = {}]
    /\ wanted' = [wanted EXCEPT ![t] = NoRun]
    /\ staged' = [staged EXCEPT ![t] = {}]
    /\ left' = [left EXCEPT ![t] = {}]

MayRaise(t, r) == ComesTo(t, r) /\ Conflicts(t, r)

\* Mutant: the pass goes on without the product that has an active run.
RaiseConflictCaught(t, r) ==
    /\ MayRaise(t, r)
    /\ remaining' = [remaining EXCEPT ![t] = @ \ {r}]
    /\ UNCHANGED <<calendar, status, work, wanted, staged, left, excused>>

\* ActiveWeeklyRunConflictError: nobody catches it in the pass, which loses the
\* runs of the other products with it.
RaiseConflict(t, r) ==
    /\ MayRaise(t, r)
    /\ Rollback(t)
    /\ UNCHANGED <<calendar, status, excused>>

\* The other transaction has committed: the unique index refuses the insert.
InsertFails(t) ==
    /\ Refused(t)
    /\ Rollback(t)
    /\ UNCHANGED <<calendar, status, excused>>

MayCommit(t) == work[t] # "idle" /\ remaining[t] = {} /\ wanted[t] = NoRun

Commit(t) ==
    /\ MayCommit(t)
    /\ status' = [r \in WeeklyRuns |-> IF r \in staged[t] THEN "active" ELSE status[r]]
    /\ Rollback(t)
    /\ UNCHANGED <<calendar, excused>>

\* The process dies or the connection is lost before the commit, or PostgreSQL ends the
\* transaction because it and others wait in a circle (passes insert in any order).
TxnDies(t) ==
    /\ work[t] # "idle"
    /\ Rollback(t)
    /\ UNCHANGED <<calendar, status, excused>>

-----------------------------------------------------------------------------
(* The runs, as far as they matter here.                                   *)

\* An execution completes the run or stops it, or its failure handler writes "failed"; another
\* execution of the run may still be under way and end it once more.
EndRun(r) ==
    /\ status[r] \in {"active", "ended"}
    /\ \E s \in {"ended", "completed"} : status' = [status EXCEPT ![r] = s]
    /\ UNCHANGED <<calendar, txnVars, excused>>

\* WeeklyOperatorWorkflow._process: any run without a ready plan is set to running, also one
\* that failed or stopped, without a look at other runs.
RetryRun(r) ==
    /\ status[r] = "ended"
    /\ status' = [status EXCEPT ![r] = "active"]
    /\ excused' = excused \cup {r[1]}
    /\ UNCHANGED <<calendar, txnVars>>

-----------------------------------------------------------------------------
\* What a transaction does by itself until it commits or is rolled back.
TxnStep(t) ==
    \/ \E r \in WeeklyRuns : LeaveOut(t, r) \/ Skip(t, r) \/ Look(t, r) \/ RaiseConflict(t, r)
    \/ Insert(t) \/ InsertFails(t) \/ Commit(t)

ScheduleNext ==
    \/ \E t \in Txns : StartPass(t) \/ TxnStep(t) \/ TxnDies(t)
    \/ \E t \in Txns, r \in ByHand \cup ByActivation : StartRequest(t, r)
    \/ \E r \in WeeklyRuns : EndRun(r) \/ RetryRun(r)

ScheduleSpec == ScheduleInit /\ [][ScheduleNext]_scheduleVars

-----------------------------------------------------------------------------
\* The rows, the transactions and their history have their types, and a transaction that
\* has ended leaves nothing behind.
ScheduleTypeOK ==
    /\ calendar \in Calendars
    /\ status \in [WeeklyRuns -> WeekStatus]
    /\ work \in [Txns -> {"idle", "pass", "manual", "activation"}]
    /\ remaining \in [Txns -> SUBSET WeeklyRuns]
    /\ wanted \in [Txns -> WeeklyRuns \cup {NoRun}]
    /\ staged \in [Txns -> SUBSET WeeklyRuns]
    /\ left \in [Txns -> SUBSET Products]
    /\ excused \in SUBSET Products
    /\ \A t \in Txns : work[t] = "idle" => wanted[t] = NoRun /\ remaining[t] \cup staged[t] \cup left[t] = {}

\* Passes, requests and activations that overlap never give a product two runs of
\* one logical period (uq_operator_runs_weekly_period).
OneRunPerPeriod ==
    \A r \in WeeklyRuns : \A q \in WeeklyRuns \ {r} :
        status[r] # "none" /\ status[q] # "none" /\ q[1] = r[1]
            => Period(q) # Period(r)

\* Two runs of a product are active together only if two transactions looked for an
\* active run before either committed, or a run that failed or stopped was processed again: the
\* look create_weekly_run takes is enough for everything that happens in sequence.
TwoActiveExplained ==
    \A p \in Products :
        Cardinality({r \in WeeklyRuns : r[1] = p /\ status[r] = "active"}) > 1
            => p \in excused

\* A pass that commits leaves no due product behind: each has its scheduled run, or was
\* not ready when the pass came to it (a conflict of one product takes the whole pass
\* back instead).
PassCoversEveryProduct ==
    [][\A t \in Txns :
         work[t] = "pass" /\ Commit(t)
            => \A p \in Products \ left[t] : status'[<<p, Scheduled>>] # "none"]_scheduleVars

\* Passes and requests that overlap create one run of a product and period, and two active runs
\* only where transactions crossed or an ended run was revived (create_weekly_run,
\* WeeklyOperatorScheduler.schedule).
ScheduleSafety ==
    /\ ScheduleTypeOK
    /\ OneRunPerPeriod
    /\ TwoActiveExplained

\* A product has one active weekly run: "Another weekly growth run is already active
\* for this product." (weekly_growth_service.py:292).  Not guaranteed: the look takes no lock
\* (TwoActiveExplained; README, "What the code does not guarantee").
OneActiveRun ==
    \A p \in Products :
        Cardinality({r \in WeeklyRuns : r[1] = p /\ status[r] = "active"}) <= 1

=============================================================================
