------------------------ MODULE OpportunityDetection ------------------------
(***************************************************************************)
(* One opportunity-detection run: OpportunityDetectionWorkflow.process      *)
(* (app/workflows/opportunity_detection.py) with persist_run_snapshot and   *)
(* persist_detection (app/modules/operator/services).                       *)
(*                                                                         *)
(* Inngest delivers the run at least once and retries a delivery that       *)
(* raised, so several workers may process the run at the same time.  A      *)
(* worker leases the run, reads its input without holding any lock, renews  *)
(* the lease in a transaction of its own, and then writes the immutable     *)
(* snapshot, the evaluations and the opportunities in one transaction.      *)
(*                                                                         *)
(* Input.  What a worker assembles is a function of the run's as_of and of  *)
(* the product's data, which other users change at any time.  An assembly   *)
(* is the pair of the two, and two assemblies have the same SHA-256 hash    *)
(* exactly when they are equal.                                             *)
(*                                                                         *)
(* A fresh lease_owner (uuid4) is drawn by every call of process; a worker   *)
(* of the model starts a new call only after its last one has ended, so the *)
(* worker stands for the owner it draws.                                    *)
(***************************************************************************)
EXTENDS Naturals

CONSTANTS
    Workers,    \* concurrent calls of process for the run
    NoOwner,    \* lease_owner IS NULL
    NoInput,    \* no snapshot, no evaluations, nothing assembled
    MaxTime,    \* bound: clock readings that are told apart
    MaxData     \* bound: versions of the product's data

ASSUME DetectionAssumption ==
    /\ NoOwner \notin Workers
    /\ MaxTime \in Nat \ {0}
    /\ MaxData \in Nat \ {0}
    /\ NoInput \notin (Nat \X Nat)

VARIABLES
    status,         \* run.status
    owner,          \* run.lease_owner
    lease,          \* run.lease_expires_at compared with now
    asOf,           \* run.as_of, 0 for NULL
    fingerprint,    \* run.input_fingerprint
    snapshot,       \* input_hash of the run's committed snapshot
    evaluations,    \* input_fingerprint of the run's committed evaluations
    opportunities,  \* how often the accepted opportunities were inserted
    time,           \* the clock
    data,           \* version of the product's data
    hasProfile,     \* the product and its approved profile exist
    pc,             \* what the worker does next
    readAsOf,       \* as_of as the worker's claim left it
    assembly        \* what the worker assembled

runVars == <<status, owner, lease, asOf, fingerprint>>
outVars == <<snapshot, evaluations, opportunities>>
envVars == <<time, data, hasProfile>>
vars == <<status, owner, lease, asOf, fingerprint, snapshot, evaluations,
          opportunities, time, data, hasProfile, pc, readAsOf, assembly>>

Status == {"pending", "running", "completed", "stopped"}
Terminal == {"completed", "stopped"}
PC == {"idle", "assemble", "renew", "snapshot", "insert", "persist", "stop", "release"}
Inputs == (Nat \X Nat) \cup {NoInput}

\* request_operator_run, or the weekly workflow, has inserted the run.
Init ==
    /\ status = "pending"
    /\ owner = NoOwner
    /\ lease = "null"
    /\ asOf = 0
    /\ fingerprint = NoInput
    /\ snapshot = NoInput
    /\ evaluations = NoInput
    /\ opportunities = 0
    /\ time = 1
    /\ data = 1
    /\ hasProfile \in BOOLEAN
    /\ pc = [w \in Workers |-> "idle"]
    /\ readAsOf = [w \in Workers |-> 0]
    /\ assembly = [w \in Workers |-> NoInput]

Goto(w, label) == pc' = [pc EXCEPT ![w] = label]

-----------------------------------------------------------------------------
(* The clock and the other users.                                          *)

Tick ==
    /\ time < MaxTime
    /\ time' = time + 1
    /\ UNCHANGED <<runVars, outVars, data, hasProfile, pc, readAsOf, assembly>>

ChangeData ==
    /\ data < MaxData
    /\ data' = data + 1
    /\ hasProfile' \in BOOLEAN
    /\ UNCHANGED <<runVars, outVars, time, pc, readAsOf, assembly>>

LeaseExpires ==
    /\ lease = "live"
    /\ lease' = "expired"
    /\ UNCHANGED <<status, owner, asOf, fingerprint, outVars, envVars, pc, readAsOf, assembly>>

-----------------------------------------------------------------------------
(* process: the claim, under SELECT ... FOR UPDATE.  A terminal run is      *)
(* replayed and a run with a live lease is refused; both leave the run as   *)
(* it is.                                                                  *)

FirstClaimTime == IF asOf = 0 THEN time ELSE asOf

Claimable == status = "pending" \/ (status = "running" /\ lease # "live")

Claim(w) ==
    /\ pc[w] = "idle"
    /\ Claimable
    /\ status' = "running"
    /\ owner' = w
    /\ lease' = "live"
    /\ asOf' = FirstClaimTime
    /\ readAsOf' = [readAsOf EXCEPT ![w] = asOf']
    /\ Goto(w, "assemble")
    /\ UNCHANGED <<fingerprint, outVars, envVars, assembly>>

-----------------------------------------------------------------------------
(* process: assembling the input and renewing the lease.                   *)

\* Mutant: the input is assembled as of now, not as of the run's first claim.
AssembleNow(w) ==
    /\ pc[w] = "assemble"
    /\ hasProfile
    /\ assembly' = [assembly EXCEPT ![w] = <<time, data>>]
    /\ Goto(w, "renew")
    /\ UNCHANGED <<runVars, outVars, envVars, readAsOf>>

Assemble(w) ==
    /\ pc[w] = "assemble"
    /\ hasProfile
    /\ assembly' = [assembly EXCEPT ![w] = <<readAsOf[w], data>>]
    /\ Goto(w, "renew")
    /\ UNCHANGED <<runVars, outVars, envVars, readAsOf>>

\* MissingProductError, MissingApprovedProfileError.
AssembleMissing(w) ==
    /\ pc[w] = "assemble"
    /\ ~hasProfile
    /\ Goto(w, "stop")
    /\ UNCHANGED <<runVars, outVars, envVars, readAsOf, assembly>>

\* Any other exception of the try block before its commit: the session's work
\* is rolled back.
Raise(w) ==
    /\ pc[w] \in {"assemble", "renew", "snapshot", "insert", "persist"}
    /\ Goto(w, "release")
    /\ UNCHANGED <<runVars, outVars, envVars, readAsOf, assembly>>

\* _renew
Renew(w) ==
    /\ pc[w] = "renew"
    /\ \/ /\ status = "running" /\ owner = w
          /\ lease' = "live"
          /\ Goto(w, "snapshot")
       \/ /\ ~(status = "running" /\ owner = w)
          /\ Goto(w, "release")
          /\ UNCHANGED lease
    /\ UNCHANGED <<status, owner, asOf, fingerprint, outVars, envVars, readAsOf, assembly>>

-----------------------------------------------------------------------------
(* persist_run_snapshot.                                                   *)

SnapshotRead(w) ==
    /\ pc[w] = "snapshot"
    /\ \/ snapshot = NoInput /\ Goto(w, "insert")
       \/ snapshot = assembly[w] /\ Goto(w, "persist")
       \/ snapshot \notin {NoInput, assembly[w]} /\ Goto(w, "release")
    /\ UNCHANGED <<runVars, outVars, envVars, readAsOf, assembly>>

\* The flush.  The unique key (workspace, product, run) refuses a second row,
\* and makes this worker wait while another one holds an uncommitted row: such
\* a worker is at "persist" and found no snapshot when it looked.
SnapshotInsert(w) ==
    /\ pc[w] = "insert"
    /\ \A v \in Workers \ {w} : ~(pc[v] = "persist" /\ snapshot = NoInput)
    /\ Goto(w, IF snapshot = NoInput THEN "persist" ELSE "release")
    /\ UNCHANGED <<runVars, outVars, envVars, readAsOf, assembly>>

-----------------------------------------------------------------------------
(* persist_detection: from the row lock to the commit.                     *)

\* Mutant: neither the evaluations already there nor the lease are looked at.
PersistUnfenced(w) ==
    /\ pc[w] = "persist"
    /\ evaluations' = assembly[w]
    /\ opportunities' = opportunities + 1
    /\ fingerprint' = assembly[w]
    /\ snapshot' = assembly[w]
    /\ status' = "completed"
    /\ owner' = NoOwner
    /\ lease' = "null"
    /\ Goto(w, "idle")
    /\ UNCHANGED <<asOf, envVars, readAsOf, assembly>>

\* Evaluations and opportunities are written, the run is completed and the
\* snapshot becomes visible.
Persist(w) ==
    /\ pc[w] = "persist"
    /\ evaluations = NoInput
    /\ owner = w
    /\ evaluations' = assembly[w]
    /\ opportunities' = opportunities + 1
    /\ fingerprint' = assembly[w]
    /\ snapshot' = assembly[w]
    /\ status' = "completed"
    /\ owner' = NoOwner
    /\ lease' = "null"
    /\ Goto(w, "idle")
    /\ UNCHANGED <<asOf, envVars, readAsOf, assembly>>

\* Evaluations are there already: the same input is a replay, another one
\* raises DetectionPersistenceConflictError.
PersistReplay(w) ==
    /\ pc[w] = "persist"
    /\ evaluations # NoInput
    /\ Goto(w, IF fingerprint = assembly[w] THEN "idle" ELSE "release")
    /\ UNCHANGED <<runVars, outVars, envVars, readAsOf, assembly>>

\* "Opportunity detection lease ownership was lost."
PersistLeaseLost(w) ==
    /\ pc[w] = "persist"
    /\ evaluations = NoInput
    /\ owner # w
    /\ Goto(w, "release")
    /\ UNCHANGED <<runVars, outVars, envVars, readAsOf, assembly>>

-----------------------------------------------------------------------------
(* process: the exception handlers.                                        *)

\* Mutant: the handler trusts its worker to be the owner still.
StopUnfenced(w) ==
    /\ pc[w] = "stop"
    /\ status' = "stopped"
    /\ owner' = NoOwner
    /\ lease' = "null"
    /\ Goto(w, "idle")
    /\ UNCHANGED <<asOf, fingerprint, outVars, envVars, readAsOf, assembly>>

\* UPDATE ... WHERE lease_owner = w.  No row means the lease was lost.
Stop(w) ==
    /\ pc[w] = "stop"
    /\ \/ /\ owner = w
          /\ status' = "stopped"
          /\ owner' = NoOwner
          /\ lease' = "null"
       \/ /\ owner # w
          /\ UNCHANGED <<status, owner, lease>>
    /\ Goto(w, "idle")
    /\ UNCHANGED <<asOf, fingerprint, outVars, envVars, readAsOf, assembly>>

\* The status a failed call leaves the run in, for the next delivery to claim.
GivenBack == "pending"

\* Mutant: a failed call gives the run back but keeps the lease columns.
ReleaseKeepsLease(w) ==
    /\ pc[w] = "release"
    /\ \/ /\ owner = w
          /\ status # "completed"
          /\ status' = GivenBack
       \/ /\ ~(owner = w /\ status # "completed")
          /\ UNCHANGED status
    /\ Goto(w, "idle")
    /\ UNCHANGED <<owner, lease, asOf, fingerprint, outVars, envVars, readAsOf, assembly>>

\* UPDATE ... WHERE lease_owner = w AND status <> 'completed', then raise again.
Release(w) ==
    /\ pc[w] = "release"
    /\ \/ /\ owner = w
          /\ status # "completed"
          /\ status' = GivenBack
          /\ owner' = NoOwner
          /\ lease' = "null"
       \/ /\ ~(owner = w /\ status # "completed")
          /\ UNCHANGED <<status, owner, lease>>
    /\ Goto(w, "idle")
    /\ UNCHANGED <<asOf, fingerprint, outVars, envVars, readAsOf, assembly>>

\* The process dies; its open transaction is rolled back.
Crash(w) ==
    /\ pc[w] # "idle"
    /\ Goto(w, "idle")
    /\ UNCHANGED <<runVars, outVars, envVars, readAsOf, assembly>>

-----------------------------------------------------------------------------
Work(w) ==
    \/ Assemble(w)
    \/ AssembleMissing(w)
    \/ Renew(w)
    \/ SnapshotRead(w)
    \/ SnapshotInsert(w)
    \/ Persist(w)
    \/ PersistReplay(w)
    \/ PersistLeaseLost(w)
    \/ Stop(w)
    \/ Release(w)

Next ==
    \/ Tick
    \/ ChangeData
    \/ LeaseExpires
    \/ \E w \in Workers : Claim(w) \/ Work(w) \/ Raise(w) \/ Crash(w)

Spec == Init /\ [][Next]_vars

-----------------------------------------------------------------------------
\* Every column and every worker's local state has its type.
TypeOK ==
    /\ status \in Status
    /\ owner \in Workers \cup {NoOwner}
    /\ lease \in {"null", "live", "expired"}
    /\ asOf \in Nat
    /\ fingerprint \in Inputs
    /\ snapshot \in Inputs
    /\ evaluations \in Inputs
    /\ opportunities \in Nat
    /\ time \in Nat
    /\ data \in Nat
    /\ hasProfile \in BOOLEAN
    /\ pc \in [Workers -> PC]
    /\ readAsOf \in [Workers -> Nat]
    /\ assembly \in [Workers -> Inputs]

\* operator_runs_lease_pair, and more: exactly a running run has an owner and an
\* expiry, so a run that is given back or finished never looks leased to the
\* next delivery, whichever handler of whichever worker wrote last.
LeaseIffRunning ==
    /\ (owner # NoOwner) <=> (status = "running")
    /\ (lease # "null") <=> (status = "running")

\* persist_detection inserts the run's opportunities at most once, however many
\* workers get as far as persisting.
DetectedOnce ==
    opportunities <= 1

\* A completed run is reproducible (replay_run_snapshot): its snapshot, its
\* evaluations and its fingerprint stand for one and the same input, assembled
\* as of the run's as_of; and a run that is not completed has none of them.
Reproducible ==
    /\ (status = "completed") <=> (evaluations # NoInput)
    /\ snapshot = evaluations
    /\ fingerprint = evaluations
    /\ evaluations # NoInput => evaluations[1] = asOf

\* However many workers take the run over after a lease ran out: exactly a running run has a
\* lease, one detection is persisted, and it was computed from the stored snapshot
\* (OpportunityDetectionWorkflow.process).
DetectionSafety ==
    /\ TypeOK
    /\ LeaseIffRunning
    /\ DetectedOnce
    /\ Reproducible

\* A run that was completed or stopped is never opened again and its result
\* never changes: a worker that lost its lease can do nothing to it.
TerminalIsFinal ==
    [][(status \in Terminal) => UNCHANGED <<status, evaluations, snapshot>>]_vars

\* The run as its requester sees it.
runState == IF status \in {"pending", "running"} THEN "open" ELSE status

Run == INSTANCE DetectionRun WITH state <- runState

\* The lease, the fences and the handlers of all workers together keep the
\* promise of a detection run: it settles once, and only as completed or stopped.
ImplementsDetectionRun == Run!Spec

=============================================================================
