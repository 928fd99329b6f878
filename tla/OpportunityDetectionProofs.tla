---------------------- MODULE OpportunityDetectionProofs ----------------------
(***************************************************************************)
(* Safety of one detection run, for every set of workers, every history of  *)
(* the product's data and every clock, and of the requests, runs and        *)
(* feedback around it.                                                      *)
(*                                                                          *)
(* Detection: what is missing from the properties to be inductive is what a *)
(* worker that still owns the run knows: the as_of it works with is the     *)
(* run's, and so is the as_of of what it assembled (OwnerKnows); and that   *)
(* the insertions of opportunities are counted by the evaluations           *)
(* (InsertedWithEvaluations).                                               *)
(*                                                                          *)
(* Ledger: a request about to insert still holds the product's row, so what *)
(* it looked for is still not there (CallerHolds); and unless two runs      *)
(* crossed, one run at a time has read the history and not yet persisted,   *)
(* and what it read is the history still (UncrossedKnows).                  *)
(*                                                                          *)
(* Detectors: at every turn of the two loops, what is set aside is answered *)
(* for by an owner, through at most two others (RankInv, NearInv).  The     *)
(* turns' order is not used, so any order of the hashes will do.            *)
(*                                                                          *)
(* Reading: runs stay within the days there are (RunsInRange); the rest is  *)
(* about sums, which a recursive function computes: it exists and is unique *)
(* (SumsExist, SumsAgree), so that a sum does not depend on the order of    *)
(* its members (SumParts), ignores zeros and is that of the groups' sums    *)
(* (SumIgnoresZero, SumByKey).                                              *)
(***************************************************************************)
EXTENDS OpportunityDetection, OpportunityLedger, SearchReading,
        WellFoundedInduction, FiniteSetTheorems, TLAPS

InsertedWithEvaluations ==
    opportunities = IF evaluations = NoInput THEN 0 ELSE 1

OwnerKnows ==
    \A w \in Workers :
        owner = w =>
            /\ pc[w] # "idle" => readAsOf[w] = asOf
            /\ pc[w] \in {"renew", "snapshot", "insert", "persist"} =>
                 assembly[w] \in Nat \X Nat /\ assembly[w][1] = asOf

Inv ==
    /\ TypeOK
    /\ LeaseIffRunning
    /\ Reproducible
    /\ InsertedWithEvaluations
    /\ OwnerKnows

-----------------------------------------------------------------------------
\* The run as request_operator_run inserts it satisfies the invariant.
LEMMA InitInv == Init => Inv
  BY DetectionAssumption
  DEF Init, Inv, TypeOK, LeaseIffRunning, Reproducible, InsertedWithEvaluations, OwnerKnows,
      Status, PC, Inputs

\* The clock, the other users and the expiry of the lease leave the run's
\* result and its ownership alone.
LEMMA EnvironmentInv ==
  ASSUME Inv, Tick \/ ChangeData \/ LeaseExpires
  PROVE  Inv'
  BY DEF Inv, TypeOK, LeaseIffRunning, Reproducible, InsertedWithEvaluations, OwnerKnows,
         Tick, ChangeData, LeaseExpires, runVars, outVars, envVars, Status, PC, Inputs

\* A claim takes the run away from its former owner, whose knowledge of as_of
\* no longer matters.
LEMMA ClaimInv ==
  ASSUME Inv, NEW w \in Workers, Claim(w)
  PROVE  Inv'
  BY DetectionAssumption
  DEF Inv, TypeOK, LeaseIffRunning, Reproducible, InsertedWithEvaluations, OwnerKnows,
      Claim, Claimable, FirstClaimTime, Goto, outVars, envVars, Status, PC, Inputs

\* Assembling, renewing and preparing the snapshot.
LEMMA PrepareInv ==
  ASSUME Inv, NEW w \in Workers,
         \/ Assemble(w) \/ AssembleMissing(w) \/ Raise(w) \/ Renew(w)
         \/ SnapshotRead(w) \/ SnapshotInsert(w) \/ Crash(w)
  PROVE  Inv'
<1>1. CASE Assemble(w)
  BY <1>1 DEF Inv, TypeOK, LeaseIffRunning, Reproducible, InsertedWithEvaluations, OwnerKnows,
              Assemble, Goto, runVars, outVars, envVars, Status, PC, Inputs
<1>2. CASE AssembleMissing(w) \/ Raise(w) \/ Crash(w)
  BY <1>2 DEF Inv, TypeOK, LeaseIffRunning, Reproducible, InsertedWithEvaluations, OwnerKnows,
              AssembleMissing, Raise, Crash, Goto, runVars, outVars, envVars, Status, PC, Inputs
<1>3. CASE Renew(w)
  BY <1>3 DEF Inv, TypeOK, LeaseIffRunning, Reproducible, InsertedWithEvaluations, OwnerKnows,
              Renew, Goto, outVars, envVars, Status, PC, Inputs
<1>4. CASE SnapshotRead(w) \/ SnapshotInsert(w)
  BY <1>4 DEF Inv, TypeOK, LeaseIffRunning, Reproducible, InsertedWithEvaluations, OwnerKnows,
              SnapshotRead, SnapshotInsert, Goto, runVars, outVars, envVars, Status, PC, Inputs
<1> QED BY <1>1, <1>2, <1>3, <1>4

\* The commit of persist_detection: the owner's assembly becomes the snapshot,
\* the evaluations and the fingerprint at once.
LEMMA PersistInv ==
  ASSUME Inv, NEW w \in Workers, Persist(w)
  PROVE  Inv'
<1>1. assembly[w] \in Nat \X Nat /\ assembly[w][1] = asOf /\ assembly[w] # NoInput
  BY DetectionAssumption DEF Inv, OwnerKnows, Persist
<1>2. \A v \in Workers : owner' # v
  BY DetectionAssumption DEF Persist
<1>3. TypeOK' /\ LeaseIffRunning'
  BY <1>1 DEF Inv, TypeOK, LeaseIffRunning, Persist, Goto, envVars, Status, PC, Inputs
<1>4. Reproducible' /\ InsertedWithEvaluations'
  BY <1>1 DEF Inv, TypeOK, Reproducible, InsertedWithEvaluations, Persist
<1>5. OwnerKnows'
  BY <1>2 DEF OwnerKnows
<1> QED BY <1>3, <1>4, <1>5 DEF Inv

\* The other ends of persist_detection and the exception handlers.
LEMMA EndInv ==
  ASSUME Inv, NEW w \in Workers,
         PersistReplay(w) \/ PersistLeaseLost(w) \/ Stop(w) \/ Release(w)
  PROVE  Inv'
<1>1. CASE PersistReplay(w) \/ PersistLeaseLost(w)
  BY <1>1 DEF Inv, TypeOK, LeaseIffRunning, Reproducible, InsertedWithEvaluations, OwnerKnows,
              PersistReplay, PersistLeaseLost, Goto, runVars, outVars, envVars, Status, PC, Inputs
<1>2. CASE Stop(w)
  BY <1>2, DetectionAssumption
  DEF Inv, TypeOK, LeaseIffRunning, Reproducible, InsertedWithEvaluations, OwnerKnows,
      Stop, Goto, outVars, envVars, Status, PC, Inputs
<1>3. CASE Release(w)
  BY <1>3, DetectionAssumption
  DEF Inv, TypeOK, LeaseIffRunning, Reproducible, InsertedWithEvaluations, OwnerKnows,
      Release, GivenBack, Goto, outVars, envVars, Status, PC, Inputs
<1> QED BY <1>1, <1>2, <1>3

\* The inductive invariant holds in every reachable state.
THEOREM DetectionInvariant == Spec => []Inv
<1>1. Inv /\ [Next]_vars => Inv'
  <2> SUFFICES ASSUME Inv, [Next]_vars PROVE Inv'
    OBVIOUS
  <2>1. CASE Tick \/ ChangeData \/ LeaseExpires
    BY <2>1, EnvironmentInv
  <2>2. ASSUME NEW w \in Workers, Claim(w) \/ Work(w) \/ Raise(w) \/ Crash(w) PROVE Inv'
    BY <2>2, ClaimInv, PrepareInv, PersistInv, EndInv DEF Work
  <2>3. CASE UNCHANGED vars
    BY <2>3 DEF vars, Inv, TypeOK, LeaseIffRunning, Reproducible, InsertedWithEvaluations,
                OwnerKnows
  <2> QED BY <2>1, <2>2, <2>3 DEF Next
<1> QED BY InitInv, <1>1, PTL DEF Spec

\* Every column keeps its type.
THEOREM DetectionTypeOK == Spec => []TypeOK
  BY DetectionInvariant, PTL DEF Inv

\* A run has an owner and an expiry exactly while it is running.
THEOREM DetectionLeaseIffRunning == Spec => []LeaseIffRunning
  BY DetectionInvariant, PTL DEF Inv

\* The run's opportunities are inserted at most once.
THEOREM DetectionDetectedOnce == Spec => []DetectedOnce
<1>1. Inv => DetectedOnce
  BY DEF Inv, InsertedWithEvaluations, DetectedOnce
<1> QED BY <1>1, DetectionInvariant, PTL

\* Snapshot, evaluations and fingerprint of a completed run are one input, as
\* of the run's as_of.
THEOREM DetectionReproducible == Spec => []Reproducible
  BY DetectionInvariant, PTL DEF Inv

\* No step of any worker changes a run that was completed or stopped.
THEOREM DetectionTerminalIsFinal == Spec => TerminalIsFinal
<1>1. Inv /\ [Next]_vars => [(status \in Terminal) => UNCHANGED <<status, evaluations, snapshot>>]_vars
  <2> SUFFICES ASSUME Inv, Next, status \in Terminal
               PROVE  UNCHANGED <<status, evaluations, snapshot>>
    OBVIOUS
  <2>1. owner = NoOwner
    BY DEF Inv, LeaseIffRunning, Terminal
  <2>2. CASE Tick \/ ChangeData \/ LeaseExpires
    BY <2>2 DEF Tick, ChangeData, LeaseExpires, runVars, outVars
  <2>3. ASSUME NEW w \in Workers, Claim(w) \/ Work(w) \/ Raise(w) \/ Crash(w)
        PROVE  UNCHANGED <<status, evaluations, snapshot>>
    <3>1. owner # w
      BY <2>1, DetectionAssumption
    <3>2. ~Claim(w) /\ ~Persist(w)
      BY <3>1 DEF Claim, Claimable, Persist, Terminal
    <3>3. Work(w) \/ Raise(w) \/ Crash(w)
      BY <2>3, <3>2
    <3> QED
      BY <3>1, <3>2, <3>3
      DEF Work, Assemble, AssembleMissing, Raise, Renew, SnapshotRead, SnapshotInsert,
          PersistReplay, PersistLeaseLost, Stop, Release, Crash, runVars, outVars
  <2> QED BY <2>2, <2>3 DEF Next
<1> QED BY <1>1, DetectionInvariant, PTL DEF Spec, TerminalIsFinal

\* The detection run with all its workers implements the promise it makes to the
\* workflow that requested it: every step leaves the run as its requester sees
\* it, or settles it once.
THEOREM DetectionImplementsDetectionRun == Spec => ImplementsDetectionRun
<1>1. Init => Run!Init
  BY DEF Init, Run!Init, runState
<1>2. TypeOK /\ TypeOK' /\ [(status \in Terminal) => UNCHANGED <<status, evaluations, snapshot>>]_vars
        => [Run!Next]_runState
  BY DEF TypeOK, Status, Terminal, Run!Next, Run!Settle, runState, vars
<1> QED
  BY <1>1, <1>2, DetectionTypeOK, DetectionTerminalIsFinal, PTL
  DEF Spec, TerminalIsFinal, ImplementsDetectionRun, Run!Spec

\* DetectionSafety: one detection is persisted, computed from the stored snapshot,
\* and exactly a running run has a lease, for every set of workers.
THEOREM DetectionSafetyHolds == Spec => []DetectionSafety
  BY DetectionTypeOK, DetectionLeaseIffRunning, DetectionDetectedOnce, DetectionReproducible, PTL
  DEF DetectionSafety

-----------------------------------------------------------------------------
\* A request that is about to insert holds the product's row; under it no requested
\* run becomes active, so that what it looked at still holds.
CallerHolds ==
    \A c \in Callers :
        call[c] = "insert" =>
            /\ locked = c
            /\ asks[c] \in [key : Asked, body : Bodies]
            /\ run[asks[c].key] # "none" \/ \A j \in Asked : run[j] # "active"

\* Unless runs crossed, one run at a time has read the history and not persisted; one
\* that may accept the identity is right that it is not open, and it is open once.
UncrossedKnows ==
    /\ \A k \in DetectionRuns : run[k] = "none" => history[k] = "unclaimed"
    /\ ~crossed =>
        /\ \A j, k \in DetectionRuns :
              /\ run[j] = "active" /\ history[j] \in {"clear", "blocked"}
              /\ run[k] = "active" /\ history[k] \in {"clear", "blocked"}
              => j = k
        /\ \A j, k \in DetectionRuns :
              run[k] = "active" /\ history[k] = "clear" => opp[j] # "open"
        /\ \A j, k \in DetectionRuns : opp[j] = "open" /\ opp[k] = "open" => j = k

\* A dismissal lasts its cooldown, a run was claimed in the past, and one that may
\* accept the identity is past every dismissal before its day.
ClearKnows ==
    /\ \A k \in DetectionRuns :
          /\ opp[k] = "dismissed" => until[k] = dismissedOn[k] + Cooldown
          /\ takenOn[k] <= today
    /\ \A j, k \in DetectionRuns :
          history[k] = "clear" /\ opp[j] = "dismissed" /\ dismissedOn[j] < takenOn[k]
          => dismissedOn[j] + Cooldown <= takenOn[k]

LedgerInv ==
    /\ LedgerTypeOK
    /\ OneRequestedActive
    /\ AnsweredWithOwnBody
    /\ CallerHolds
    /\ UncrossedKnows
    /\ ClearKnows

\* A product without any detection run or opportunity satisfies the invariant.
LEMMA LedgerInitInv == LedgerInit => LedgerInv
  <1> SUFFICES ASSUME LedgerInit PROVE LedgerInv
    OBVIOUS
  <1>1. crossed \in BOOLEAN
    BY Zenon DEF LedgerInit
  <1>2. LedgerTypeOK
    BY <1>1, LedgerAssumption DEF LedgerInit, LedgerTypeOK, DetectionState, OppStatus
  <1> QED BY <1>2, LedgerAssumption
      DEF LedgerInit, LedgerInv, OneRequestedActive, AnsweredWithOwnBody, CallerHolds, UncrossedKnows,
          ClearKnows, DetectionRuns

\* Requests: the product's lock.
LEMMA LedgerRequestInv ==
  ASSUME LedgerInv,
         \/ \E c \in Callers : InsertOrReplay(c) \/ RequestDies(c)
         \/ \E c \in Callers, k \in Asked, b \in Bodies : AskForRun(c, k, b)
         \/ \E k \in Children : InsertChild(k)
  PROVE  LedgerInv'
  <1> USE LedgerAssumption
      DEF requestVars, oppVars, LedgerInv, LedgerTypeOK, OneRequestedActive, AnsweredWithOwnBody,
          CallerHolds, UncrossedKnows, ClearKnows, DetectionRuns, DetectionState
  <1>1. ASSUME NEW c \in Callers, InsertOrReplay(c) PROVE LedgerInv'
    <2> DEFINE k == asks[c].key
               stored == IF run[k] = "none" THEN asks[c].body ELSE body[k]
    <2>1. k \in Asked /\ asks[c].body \in Bodies /\ stored \in Bodies \cup {NoOne}
      BY <1>1 DEF InsertOrReplay
    <2>2. /\ run' = [run EXCEPT ![k] = IF @ = "none" THEN "active" ELSE @]
          /\ body' = [body EXCEPT ![k] = stored]
          /\ answers' = IF SameBody(stored, asks[c].body)
                          THEN answers \cup {<<stored, asks[c].body>>} ELSE answers
          /\ UNCHANGED <<today, takenOn, history, opp, until, dismissedOn, feedback, crossed>>
      BY <1>1 DEF InsertOrReplay
    <2>3. answers' \subseteq Bodies \X Bodies /\ AnsweredWithOwnBody'
      BY <2>1, <2>2 DEF SameBody
    <2> HIDE DEF k, stored
    <2>4. LedgerTypeOK'
      BY <1>1, <2>1, <2>2, <2>3 DEF InsertOrReplay, EndRequest
    <2>5. OneRequestedActive'
      BY <1>1, <2>1, <2>2 DEF k, InsertOrReplay
    <2>6. CallerHolds'
      BY <1>1, <2>1, <2>2 DEF InsertOrReplay, EndRequest
    <2>8. UncrossedKnows' /\ ClearKnows'
      BY <2>1, <2>2
    <2> QED BY <2>3, <2>4, <2>5, <2>6, <2>8
  <1>2. ASSUME NEW c \in Callers, RequestDies(c) PROVE LedgerInv'
    BY <1>2 DEF RequestDies, EndRequest
  <1>3. ASSUME NEW c \in Callers, NEW k \in Asked, NEW b \in Bodies, AskForRun(c, k, b)
        PROVE  LedgerInv'
    BY <1>3 DEF AskForRun, ActiveDetection
  <1>4. ASSUME NEW k \in Children, InsertChild(k) PROVE LedgerInv'
    BY <1>4 DEF InsertChild
  <1> QED BY <1>1, <1>2, <1>3, <1>4

\* Runs: the snapshot and the persisted opportunity.
LEMMA LedgerRunInv ==
  ASSUME LedgerInv, NEW k \in DetectionRuns,
         FirstClaim(k) \/ TakeSnapshot(k) \/ PersistRun(k) \/ StopRun(k)
  PROVE  LedgerInv'
  <1> USE LedgerAssumption
      DEF requestVars, oppVars, LedgerInv, LedgerTypeOK, OneRequestedActive, AnsweredWithOwnBody,
          CallerHolds, UncrossedKnows, ClearKnows, DetectionState
  <1>1. CASE FirstClaim(k)
    BY <1>1 DEF FirstClaim
  <1>2. CASE TakeSnapshot(k)
    <2>1. crossed' \in BOOLEAN
      BY <1>2, Zenon DEF TakeSnapshot
    <2>2. ~crossed' => ~crossed /\ \A j \in DetectionRuns \ {k} :
                                     ~(run[j] = "active" /\ history[j] \in {"clear", "blocked"})
      BY <1>2, Zenon DEF TakeSnapshot
    <2>3. history'[k] = "clear" => \A j \in DetectionRuns : ~KeepsAway(j, takenOn[k])
      BY <1>2 DEF TakeSnapshot
    <2>4. /\ UNCHANGED <<today, run, requestVars, takenOn, oppVars>>
          /\ \E h \in {"clear", "blocked"} : history' = [history EXCEPT ![k] = h]
          /\ run[k] = "active"
      BY <1>2 DEF TakeSnapshot
    <2>5. LedgerTypeOK'
      BY <2>1, <2>4
    <2>6. UncrossedKnows'
      BY <2>2, <2>3, <2>4 DEF KeepsAway
    <2>7. ClearKnows'
      BY <2>3, <2>4 DEF KeepsAway
    <2> QED BY <2>4, <2>5, <2>6, <2>7
  <1>3. CASE PersistRun(k)
    <2>1. LedgerTypeOK'
      BY <1>3 DEF PersistRun, OppStatus
    <2>2. OneRequestedActive' /\ AnsweredWithOwnBody' /\ CallerHolds'
      BY <1>3 DEF PersistRun
    <2>3. UncrossedKnows'
      BY <1>3 DEF PersistRun, Accepts
    <2>4. ClearKnows'
      BY <1>3 DEF PersistRun
    <2> QED BY <2>1, <2>2, <2>3, <2>4
  <1>4. CASE StopRun(k)
    BY <1>4 DEF StopRun
  <1> QED BY <1>1, <1>2, <1>3, <1>4

\* Users, and time.
LEMMA LedgerCommandInv ==
  ASSUME LedgerInv,
         \/ \E f \in Replies, k \in DetectionRuns : AppendFeedback(f, k) \/ DismissOpportunity(f, k)
         \/ \E k \in DetectionRuns : SupersedeOpportunity(k)
         \/ NextDay
  PROVE  LedgerInv'
  <1> USE LedgerAssumption
      DEF requestVars, oppVars, LedgerInv, LedgerTypeOK, OneRequestedActive, AnsweredWithOwnBody,
          CallerHolds, UncrossedKnows, ClearKnows, OppStatus
  <1>1. ASSUME NEW f \in Replies, NEW k \in DetectionRuns, AppendFeedback(f, k) PROVE LedgerInv'
    BY <1>1 DEF AppendFeedback
  <1>2. ASSUME NEW f \in Replies, NEW k \in DetectionRuns, DismissOpportunity(f, k) PROVE LedgerInv'
    <2>1. LedgerTypeOK'
      BY <1>2 DEF DismissOpportunity
    <2> QED BY <1>2, <2>1 DEF DismissOpportunity
  <1>3. ASSUME NEW k \in DetectionRuns, SupersedeOpportunity(k) PROVE LedgerInv'
    BY <1>3 DEF SupersedeOpportunity
  <1>4. CASE NextDay
    BY <1>4 DEF NextDay
  <1> QED BY <1>1, <1>2, <1>3, <1>4

\* The inductive invariant of the detection requests and the opportunities they leave.
THEOREM LedgerInvariant == LedgerSpec => []LedgerInv
  <1>1. LedgerInv /\ [LedgerNext]_ledgerVars => LedgerInv'
    <2> SUFFICES ASSUME LedgerInv, [LedgerNext]_ledgerVars PROVE LedgerInv'
      OBVIOUS
    <2>1. CASE UNCHANGED ledgerVars
      BY <2>1 DEF ledgerVars, LedgerInv, LedgerTypeOK, OneRequestedActive, AnsweredWithOwnBody,
          CallerHolds, UncrossedKnows, ClearKnows
    <2> QED BY <2>1, LedgerRequestInv, LedgerRunInv, LedgerCommandInv DEF LedgerNext
  <1> QED BY <1>1, LedgerInitInv, PTL DEF LedgerSpec

\* LedgerSafety: for every set of callers, keys and runs, one requested run is active, a key is
\* answered only with the run of its own body, and an identity is accepted twice only by runs whose
\* transactions crossed (request_operator_run, persist_detection).
THEOREM LedgerSafetyHolds == LedgerSpec => []LedgerSafety
  <1>1. LedgerInv => DuplicateNeedsCrossedRuns
    <2> SUFFICES ASSUME LedgerInv, ~crossed
                 PROVE  ~(Cardinality({k \in DetectionRuns : opp[k] = "open"}) > 1)
      BY DEF DuplicateNeedsCrossedRuns
    <2> DEFINE S == {k \in DetectionRuns : opp[k] = "open"}
    <2>1. \A j, k \in S : j = k
      BY DEF LedgerInv, UncrossedKnows
    <2>2. CASE S = {}
      BY <2>2, FS_EmptySet
    <2>3. ASSUME NEW k \in S PROVE Cardinality(S) = 1
      <3>1. S = {k}
        BY <2>1, <2>3
      <3> QED BY <3>1, FS_Singleton
    <2> QED BY <2>2, <2>3
  <1>2. LedgerInv => LedgerSafety
    BY <1>1 DEF LedgerInv, LedgerSafety
  <1> QED BY <1>2, LedgerInvariant, PTL

\* DismissedStaysAway: a run of a later day does not open an identity again before the cooldown of
\* every dismissal it can see has ended (cooldown_decision in persist_detection).
THEOREM LedgerDismissedStaysAway == LedgerSpec => DismissedStaysAway
  <1> DEFINE Away == \A j, k \in DetectionRuns :
                /\ opp[k] = "none" /\ opp'[k] = "open"
                /\ opp[j] = "dismissed" /\ dismissedOn[j] < takenOn[k]
                => dismissedOn[j] + Cooldown <= takenOn[k]
  <1>1. LedgerInv /\ [LedgerNext]_ledgerVars => [Away]_ledgerVars
    <2> SUFFICES ASSUME LedgerInv, LedgerNext, NEW k \in DetectionRuns, opp[k] = "none", opp'[k] = "open"
                 PROVE  history[k] = "clear"
      BY DEF LedgerInv, ClearKnows
    <2> USE DEF LedgerInv, LedgerTypeOK, oppVars
    <2>1. CASE opp' = opp
      BY <2>1
    <2>2. ASSUME NEW j \in DetectionRuns, PersistRun(j) PROVE history[k] = "clear"
      BY <2>2 DEF PersistRun, Accepts
    <2>3. ASSUME NEW f \in Replies, NEW j \in DetectionRuns, DismissOpportunity(f, j)
          PROVE  history[k] = "clear"
      BY <2>3 DEF DismissOpportunity
    <2>4. ASSUME NEW j \in DetectionRuns, SupersedeOpportunity(j) PROVE history[k] = "clear"
      BY <2>4 DEF SupersedeOpportunity
    <2> QED BY <2>1, <2>2, <2>3, <2>4
        DEF LedgerNext, InsertOrReplay, RequestDies, AskForRun, InsertChild, FirstClaim, TakeSnapshot,
            StopRun, AppendFeedback, NextDay
  <1> QED BY <1>1, LedgerInvariant, PTL DEF LedgerSpec, DismissedStaysAway

-----------------------------------------------------------------------------
(* One evaluation of a snapshot by the detectors                           *)

\* A family of subsets of a finite set has a smallest member.
LEMMA SmallestSubset ==
    ASSUME NEW S, IsFiniteSet(S), NEW F, F \subseteq SUBSET S, F # {}
    PROVE  \E U \in F : \A V \in F : V \subseteq U => V = U
  <1>1. F \subseteq FiniteSubsetsOf(S)
    BY FS_FiniteSubsetsOfFinite
  <1>2. PICK U \in F : \A V \in F : <<V, U>> \notin StrictSubsetOrdering(S)
    BY <1>1, WFMin, FS_StrictSubsetOrderingWellFounded
  <1> QED
    BY <1>2 DEF StrictSubsetOrdering

\* A finite set has a last member in a strict order on it.
LEMMA LastMember ==
    ASSUME NEW S, IsFiniteSet(S), S # {}, NEW R,
           \A x, y, z \in S : <<x, y>> \in R /\ <<y, z>> \in R => <<x, z>> \in R,
           \A x \in S : <<x, x>> \notin R
    PROVE  \E m \in S : \A y \in S : <<m, y>> \notin R
  <1> DEFINE above(x) == {y \in S : <<x, y>> \in R}
             F == {U \in SUBSET S : \E x \in S : U = above(x)}
  <1>1. \A x \in S : above(x) \in F
    OBVIOUS
  <1>2. F # {} /\ F \subseteq SUBSET S
    BY <1>1
  <1>3. PICK U \in F : \A V \in F : V \subseteq U => V = U
    <2> HIDE DEF F
    <2> QED
      BY <1>2, SmallestSubset
  <1>4. PICK x \in S : U = above(x)
    BY <1>3
  <1>5. ASSUME NEW y \in above(x) PROVE FALSE
    <2>1. above(y) \subseteq above(x) /\ y \in above(x) /\ y \notin above(y)
      OBVIOUS
    <2> QED
      BY <1>1, <1>3, <1>4, <2>1
  <1> QED
    BY <1>5

-----------------------------------------------------------------------------
(* Evaluations.                                                            *)

IsEvaluation(e) ==
    \E t, f, s, w, sc, p, o :
        e = [type |-> t, family |-> f, subject |-> s, title |-> w, scores |-> sc, priority |-> p,
             outcome |-> o]

\* Two evaluations of one candidate, whatever came of it.
SameCandidate(a, b) ==
    a.type = b.type /\ a.family = b.family /\ a.subject = b.subject /\ a.title = b.title

\* Superseding an evaluation changes its outcome only.
LEMMA SupersededParts ==
    ASSUME NEW e, IsEvaluation(e)
    PROVE  /\ IsEvaluation(Superseded(e)) /\ SameCandidate(Superseded(e), e)
           /\ Superseded(e).outcome = "superseded_in_run"
  <1>1. PICK t, f, s, w, sc, p, o :
            e = [type |-> t, family |-> f, subject |-> s, title |-> w, scores |-> sc, priority |-> p,
                 outcome |-> o]
    BY DEF IsEvaluation
  <1>2. Superseded(e) = [type |-> t, family |-> f, subject |-> s, title |-> w, scores |-> sc,
                         priority |-> p, outcome |-> "superseded_in_run"]
    BY <1>1 DEF Superseded
  <1>3. IsEvaluation(Superseded(e))
    BY <1>2 DEF IsEvaluation
  <1> QED
    BY <1>1, <1>2, <1>3 DEF SameCandidate

\* An accepted evaluation stays so if nothing of its identity blocks it, and is suppressed
\* otherwise; the others keep their outcome.
LEMMA HistoryParts ==
    ASSUME NEW s, NEW e, IsEvaluation(e)
    PROVE  /\ SameCandidate(WithHistory(s, e), e)
           /\ e.outcome # "accepted" => WithHistory(s, e) = e
           /\ e.outcome = "accepted" => WithHistory(s, e).outcome # "superseded_in_run"
           /\ WithHistory(s, e).outcome = "accepted" =>
                 \A i \in s.history : SameIdentity(i, e) => BlockedBy(i, e.type) = "accepted"
  <1> DEFINE blocking == {i \in {j \in s.history : SameIdentity(j, e)} :
                             BlockedBy(i, e.type) # "accepted"}
  <1>1. PICK t, f, sj, w, sc, p, o :
            e = [type |-> t, family |-> f, subject |-> sj, title |-> w, scores |-> sc,
                 priority |-> p, outcome |-> o]
    BY DEF IsEvaluation
  <1>2. CASE e.outcome # "accepted"
    BY <1>2 DEF WithHistory, SameCandidate
  <1>3. CASE e.outcome = "accepted" /\ blocking # {}
    <2>1. PICK out \in {"suppressed_duplicate", "suppressed_cooldown"} :
              WithHistory(s, e) = [e EXCEPT !.outcome = out, !.priority = 0]
      BY <1>3 DEF WithHistory
    <2>2. WithHistory(s, e) = [type |-> t, family |-> f, subject |-> sj, title |-> w,
                               scores |-> sc, priority |-> 0, outcome |-> out]
      BY <1>1, <2>1
    <2> QED
      BY <1>1, <1>3, <2>1, <2>2 DEF SameCandidate
  <1>4. CASE e.outcome = "accepted" /\ blocking = {}
    <2>1. PICK np : WithHistory(s, e) = [e EXCEPT !.priority = np]
      BY <1>4 DEF WithHistory
    <2>2. WithHistory(s, e) = [type |-> t, family |-> f, subject |-> sj, title |-> w,
                               scores |-> sc, priority |-> np, outcome |-> o]
      BY <1>1, <2>1
    <2> QED
      BY <1>1, <1>4, <2>2 DEF SameCandidate
  <1> QED
    BY <1>2, <1>3, <1>4

\* A candidate is one evaluation, or none when the gate refuses it.
LEMMA CandidateParts ==
    ASSUME NEW type, NEW family, NEW subject, NEW words, NEW sc,
           NEW e \in Candidate(type, family, subject, words, sc)
    PROVE  /\ e = [type |-> type, family |-> family, subject |-> subject,
                   title |-> TitleWords[type] \cup words, scores |-> sc,
                   priority |-> Priority(sc, 1, 1), outcome |-> "accepted"]
           /\ IsEvaluation(e)
  BY DEF Candidate, IsEvaluation

\* No volume of impressions and no relevance is too low for the gate.
LEMMA SearchScoresPass ==
    ASSUME NEW impressions \in Nat, NEW family, NEW relevance \in Nat, NEW signal
    PROVE  ~Gated(SearchScores(impressions, family, 2 * relevance, signal))
  <1>1. impressions \div 10 \in Nat /\ (45 * (2 * relevance)) \div 100 \in Nat
    OBVIOUS
  <1>2. AtMost(100, 60 + impressions \div 10) \in 60..100
    BY <1>1 DEF AtMost
  <1>3. AtMost(200, 110 + (45 * (2 * relevance)) \div 100) \in 100..200
    BY <1>1 DEF AtMost
  <1>4. /\ SearchScores(impressions, family, 2 * relevance, signal).confidence
              = AtMost(100, 60 + impressions \div 10)
        /\ SearchScores(impressions, family, 2 * relevance, signal).fit2
              = AtMost(200, 110 + (45 * (2 * relevance)) \div 100)
    BY DEF SearchScores
  <1> QED
    BY <1>2, <1>3, <1>4 DEF Gated

-----------------------------------------------------------------------------
(* The detectors.                                                          *)

Declining(s) == {q \in s.queries : ClicksDeclined(q) \/ ImpressionsDeclined(q)}
BeatenIn(s, q) == \E r \in Declining(s) : SameGroup(q, r) /\ LosesMore(r, q)

\* What the decline detector says of a query.
DeclineOf(s, q) ==
    LET sc == SearchScores(q.impressions, "content_refresh_investigation", 2 * q.relevance,
                           AtMost(35, (AtLeast(0, ClickLoss(q)) * 3
                                       + AtLeast(0, ImpressionLoss(q))) \div 10))
    IN  [type |-> "search_decline", family |-> "content_refresh_investigation",
         subject |-> <<"query", q.id>>, title |-> TitleWords["search_decline"] \cup q.words,
         scores |-> sc, priority |-> Priority(sc, 1, 1),
         outcome |-> IF BeatenIn(s, q) THEN "superseded_in_run" ELSE "accepted"]

InOrder(s) == \E family \in Snapshots : s \in family

\* The decline detector evaluates every query in decline, and nothing else.
LEMMA DeclineEvaluations ==
    ASSUME NEW s, InOrder(s), ProfileUsable(s), SearchUsable(s)
    PROVE  SearchDecline(s) = {DeclineOf(s, q) : q \in Declining(s)}
  <1> DEFINE sc(q) == SearchScores(q.impressions, "content_refresh_investigation", 2 * q.relevance,
                           AtMost(35, (AtLeast(0, ClickLoss(q)) * 3
                                       + AtLeast(0, ImpressionLoss(q))) \div 10))
             plain(q) == [type |-> "search_decline", family |-> "content_refresh_investigation",
                          subject |-> <<"query", q.id>>,
                          title |-> TitleWords["search_decline"] \cup q.words,
                          scores |-> sc(q), priority |-> Priority(sc(q), 1, 1),
                          outcome |-> "accepted"]
             found(q) == Candidate("search_decline", "content_refresh_investigation",
                                   <<"query", q.id>>, q.words, sc(q))
             marked(q) == {IF BeatenIn(s, q) THEN Superseded(e) ELSE e : e \in found(q)}
  <1>1. SearchDecline(s) = UNION {marked(q) : q \in Declining(s)}
    BY DEF SearchDecline, Declining, BeatenIn
  <1>2. \A q \in Declining(s) : q.impressions \in Nat /\ q.relevance \in Nat
    BY DetectorAssumption DEF InOrder, Declining
  <1>3. \A q \in Declining(s) : found(q) = {plain(q)}
    BY <1>2, SearchScoresPass DEF Candidate
  <1>4. \A q \in Declining(s) : marked(q) = {DeclineOf(s, q)}
    <2> SUFFICES ASSUME NEW q \in Declining(s) PROVE marked(q) = {DeclineOf(s, q)}
      OBVIOUS
    <2>1. marked(q) = {IF BeatenIn(s, q) THEN Superseded(plain(q)) ELSE plain(q)}
      BY <1>3
    <2>2. (IF BeatenIn(s, q) THEN Superseded(plain(q)) ELSE plain(q)) = DeclineOf(s, q)
      BY DEF DeclineOf, Superseded
    <2> QED
      BY <2>1, <2>2
  <1> HIDE DEF marked
  <1> QED
    BY <1>1, <1>4

\* Evaluations of a type, of these queries, one of a query at most.
OfQueries(E, Q, type) ==
    /\ \A e \in E : /\ IsEvaluation(e) /\ e.type = type
                    /\ e.outcome \in {"accepted", "superseded_in_run"}
                    /\ \E q \in Q : e.subject = <<"query", q.id>>
    /\ \A a, b \in E : a.subject = b.subject => a = b

\* The detector of low click rates.
LEMMA LowCtrParts ==
    ASSUME NEW s, InOrder(s)
    PROVE  /\ OfQueries(HighImpressionsLowCtr(s), s.queries, "high_impressions_low_ctr")
           /\ \A e \in HighImpressionsLowCtr(s) : e.outcome = "accepted"
  <1> DEFINE Q == {r \in s.queries : /\ r.impressions >= 100 /\ Within(1, r.position, 10)
                                       /\ LowCtr(r) /\ Shortfall(r) >= 2 /\ r.match = "matched"}
             sc(q) == SearchScores(q.impressions, "seo_snippet_update", 2 * q.relevance,
                                  AtMost(30, Shortfall(q) * 4))
             rec(q) == [type |-> "high_impressions_low_ctr", family |-> "seo_snippet_update",
                        subject |-> <<"query", q.id>>,
                        title |-> TitleWords["high_impressions_low_ctr"] \cup q.words,
                        scores |-> sc(q), priority |-> Priority(sc(q), 1, 1),
                        outcome |-> "accepted"]
             found(q) == Candidate("high_impressions_low_ctr", "seo_snippet_update", <<"query", q.id>>, q.words, sc(q))
  <1>1. HighImpressionsLowCtr(s) \subseteq UNION {found(q) : q \in Q}
    BY DEF HighImpressionsLowCtr
  <1>2. \A q \in Q : \A e \in found(q) : e = rec(q) /\ IsEvaluation(e)
    BY CandidateParts
  <1>3. Q \subseteq s.queries
    OBVIOUS
  <1>4. \A q, r \in Q : q.id = r.id => q = r
    BY DetectorAssumption DEF InOrder
  <1> HIDE DEF found, sc, Q
  <1>5. \A e \in HighImpressionsLowCtr(s) : \E q \in Q : e = rec(q) /\ IsEvaluation(e)
    BY <1>1, <1>2
  <1>6. \A q \in Q : rec(q).type = "high_impressions_low_ctr" /\ rec(q).outcome = "accepted" /\ rec(q).subject = <<"query", q.id>>
    OBVIOUS
  <1>7. \A q, r \in Q : rec(q).subject = rec(r).subject => rec(q) = rec(r)
    BY <1>4
  <1> HIDE DEF rec
  <1> QED
    BY <1>3, <1>5, <1>6, <1>7 DEF OfQueries

\* The detector of rankings within reach.
LEMMA RankingParts ==
    ASSUME NEW s, InOrder(s)
    PROVE  /\ OfQueries(RankingWithinReach(s), s.queries, "ranking_within_reach")
           /\ \A e \in RankingWithinReach(s) : e.outcome = "accepted"
  <1> DEFINE Q == {r \in s.queries : /\ r.impressions >= 100 /\ Within(4, r.position, 20)
                                       /\ ~OwnedByLowCtr(r) /\ r.match = "matched"
                                       /\ s.pageCrawled /\ s.pageIndexable}
             sc(q) == SearchScores(q.impressions, "existing_page_optimization", 2 * q.relevance,
                                  RankingSignal(q.position))
             rec(q) == [type |-> "ranking_within_reach", family |-> "existing_page_optimization",
                        subject |-> <<"query", q.id>>,
                        title |-> TitleWords["ranking_within_reach"] \cup q.words,
                        scores |-> sc(q), priority |-> Priority(sc(q), 1, 1),
                        outcome |-> "accepted"]
             found(q) == Candidate("ranking_within_reach", "existing_page_optimization", <<"query", q.id>>, q.words, sc(q))
  <1>1. RankingWithinReach(s) \subseteq UNION {found(q) : q \in Q}
    BY DEF RankingWithinReach
  <1>2. \A q \in Q : \A e \in found(q) : e = rec(q) /\ IsEvaluation(e)
    BY CandidateParts
  <1>3. Q \subseteq s.queries
    OBVIOUS
  <1>4. \A q, r \in Q : q.id = r.id => q = r
    BY DetectorAssumption DEF InOrder
  <1> HIDE DEF found, sc, Q
  <1>5. \A e \in RankingWithinReach(s) : \E q \in Q : e = rec(q) /\ IsEvaluation(e)
    BY <1>1, <1>2
  <1>6. \A q \in Q : rec(q).type = "ranking_within_reach" /\ rec(q).outcome = "accepted" /\ rec(q).subject = <<"query", q.id>>
    OBVIOUS
  <1>7. \A q, r \in Q : rec(q).subject = rec(r).subject => rec(q) = rec(r)
    BY <1>4
  <1> HIDE DEF rec
  <1> QED
    BY <1>3, <1>5, <1>6, <1>7 DEF OfQueries

\* The detector of demand without content is about queries that lead to no page.
LEMMA DemandParts ==
    ASSUME NEW s, InOrder(s)
    PROVE  /\ OfQueries(DemandWithoutContent(s), {r \in s.queries : r.match = "unmatched"}, "search_demand_without_dedicated_content")
           /\ \A e \in DemandWithoutContent(s) : e.outcome = "accepted"
  <1> DEFINE Q == {r \in s.queries : /\ r.impressions >= 50 /\ r.relevance >= 20
                                       /\ ~r.branded /\ r.match = "unmatched"}
             sc(q) == SearchScores(q.impressions, "dedicated_content_creation", 2 * q.relevance,
                                  AtMost(30, q.impressions \div 20))
             rec(q) == [type |-> "search_demand_without_dedicated_content", family |-> "dedicated_content_creation",
                        subject |-> <<"query", q.id>>,
                        title |-> TitleWords["search_demand_without_dedicated_content"] \cup q.words,
                        scores |-> sc(q), priority |-> Priority(sc(q), 1, 1),
                        outcome |-> "accepted"]
             found(q) == Candidate("search_demand_without_dedicated_content", "dedicated_content_creation", <<"query", q.id>>, q.words, sc(q))
  <1>1. DemandWithoutContent(s) \subseteq UNION {found(q) : q \in Q}
    BY DEF DemandWithoutContent
  <1>2. \A q \in Q : \A e \in found(q) : e = rec(q) /\ IsEvaluation(e)
    BY CandidateParts
  <1>3. Q \subseteq {r \in s.queries : r.match = "unmatched"}
    OBVIOUS
  <1>4. \A q, r \in Q : q.id = r.id => q = r
    BY DetectorAssumption DEF InOrder
  <1> HIDE DEF found, sc, Q
  <1>5. \A e \in DemandWithoutContent(s) : \E q \in Q : e = rec(q) /\ IsEvaluation(e)
    BY <1>1, <1>2
  <1>6. \A q \in Q : rec(q).type = "search_demand_without_dedicated_content" /\ rec(q).outcome = "accepted" /\ rec(q).subject = <<"query", q.id>>
    OBVIOUS
  <1>7. \A q, r \in Q : rec(q).subject = rec(r).subject => rec(q) = rec(r)
    BY <1>4
  <1> HIDE DEF rec
  <1> QED
    BY <1>3, <1>5, <1>6, <1>7 DEF OfQueries

\* The decline detector sets a query aside only for another that leads to the same page, and
\* never all of them.
LEMMA DeclineParts ==
    ASSUME NEW s, InOrder(s)
    PROVE  /\ OfQueries(SearchDecline(s), s.queries, "search_decline")
           /\ \A e \in SearchDecline(s) : e.outcome # "accepted" =>
                 /\ \E q \in s.queries : e.subject = <<"query", q.id>> /\ q.match = "matched"
                 /\ \E b \in SearchDecline(s) : b.outcome = "accepted"
           /\ ProfileUsable(s) /\ SearchUsable(s) =>
                 \A q \in Declining(s) : \E e \in SearchDecline(s) : e.subject = <<"query", q.id>>
  <1>1. CASE ~(ProfileUsable(s) /\ SearchUsable(s))
    <2>1. SearchDecline(s) = {}
      BY <1>1 DEF SearchDecline
    <2> QED
      BY <1>1, <2>1 DEF OfQueries
  <1>2. CASE ProfileUsable(s) /\ SearchUsable(s)
    <2>1. SearchDecline(s) = {DeclineOf(s, q) : q \in Declining(s)}
      BY <1>2, DeclineEvaluations
    <2>2. /\ IsFiniteSet(s.queries) /\ \A q, r \in s.queries : q.id = r.id => q = r
          /\ \A q \in s.queries : {q.id, q.impressions, q.clicks, q.priorImpressions, q.priorClicks}
                                      \subseteq Nat
      BY DetectorAssumption DEF InOrder
    <2>3. Declining(s) \subseteq s.queries /\ IsFiniteSet(Declining(s))
      BY <2>2, FS_Subset DEF Declining
    <2>4. \A q \in Declining(s) :
              /\ IsEvaluation(DeclineOf(s, q)) /\ DeclineOf(s, q).type = "search_decline"
              /\ DeclineOf(s, q).subject = <<"query", q.id>>
              /\ DeclineOf(s, q).outcome =
                   IF BeatenIn(s, q) THEN "superseded_in_run" ELSE "accepted"
      BY DEF DeclineOf, IsEvaluation
    <2>5. OfQueries(SearchDecline(s), s.queries, "search_decline")
      BY <2>1, <2>2, <2>3, <2>4 DEF OfQueries
    <2>6. \A q \in Declining(s) : \A x \in {q.id, ClickLoss(q), ImpressionLoss(q)} : x \in Int
      BY <2>2, <2>3 DEF ClickLoss, ImpressionLoss
    <2>7. /\ \A x, y, z \in Declining(s) : LosesMore(y, x) /\ LosesMore(z, y) => LosesMore(z, x)
          /\ \A x \in Declining(s) : ~LosesMore(x, x)
      BY <2>6 DEF LosesMore
    <2>8. \A q \in Declining(s) : BeatenIn(s, q) => q.match = "matched"
      BY <2>7 DEF BeatenIn, SameGroup
    <2>9. ASSUME Declining(s) # {} PROVE \E q \in Declining(s) : ~BeatenIn(s, q)
      <3> DEFINE R == {x \in Declining(s) \X Declining(s) : LosesMore(x[2], x[1])}
      <3>1. \A x, y \in Declining(s) : <<x, y>> \in R <=> LosesMore(y, x)
        OBVIOUS
      <3> HIDE DEF R
      <3>2. PICK m \in Declining(s) : \A y \in Declining(s) : <<m, y>> \notin R
        BY <2>3, <2>7, <2>9, <3>1, LastMember
      <3> QED
        BY <3>1, <3>2 DEF BeatenIn
    <2> QED
      BY <1>2, <2>1, <2>3, <2>4, <2>5, <2>8, <2>9
  <1> QED
    BY <1>1, <1>2

\* The detectors of the page and of the shipped event are about subjects of their own.
LEMMA PageAndEventParts ==
    ASSUME NEW s
    PROVE  /\ \A e \in ExistingPageNeedsImprovement(s) :
                 /\ IsEvaluation(e) /\ e.type = "existing_page_needs_improvement"
                 /\ e.outcome = "accepted" /\ e.subject = <<"page", 1>>
           /\ \A e \in ShippedButNotMarketed(s) :
                 /\ IsEvaluation(e) /\ e.type = "shipped_but_not_marketed"
                 /\ e.outcome = "accepted" /\ e.subject = <<"shipping_event", 1>>
           /\ \A a, b \in ExistingPageNeedsImprovement(s) : a = b
           /\ \A a, b \in ShippedButNotMarketed(s) : a = b
  <1>1. PICK sc, words : ExistingPageNeedsImprovement(s) \subseteq
            Candidate("existing_page_needs_improvement", "page_quality_fix", <<"page", 1>>, words, sc)
    BY DEF ExistingPageNeedsImprovement
  <1>2. PICK sc2, words2, family : ShippedButNotMarketed(s) \subseteq
            Candidate("shipped_but_not_marketed", family, <<"shipping_event", 1>>, words2, sc2)
    BY DEF ShippedButNotMarketed
  <1>3. \A e \in ExistingPageNeedsImprovement(s) : IsEvaluation(e)
            /\ e = [type |-> "existing_page_needs_improvement", family |-> "page_quality_fix",
                    subject |-> <<"page", 1>>,
                    title |-> TitleWords["existing_page_needs_improvement"] \cup words,
                    scores |-> sc, priority |-> Priority(sc, 1, 1), outcome |-> "accepted"]
    BY <1>1, CandidateParts
  <1>4. \A e \in ShippedButNotMarketed(s) : IsEvaluation(e)
            /\ e = [type |-> "shipped_but_not_marketed", family |-> family,
                    subject |-> <<"shipping_event", 1>>,
                    title |-> TitleWords["shipped_but_not_marketed"] \cup words2,
                    scores |-> sc2, priority |-> Priority(sc2, 1, 1), outcome |-> "accepted"]
    BY <1>2, CandidateParts
  <1>5. \A e \in ExistingPageNeedsImprovement(s) :
            /\ e.type = "existing_page_needs_improvement" /\ e.outcome = "accepted"
            /\ e.subject = <<"page", 1>>
    BY <1>3
  <1>6. \A e \in ShippedButNotMarketed(s) :
            /\ e.type = "shipped_but_not_marketed" /\ e.outcome = "accepted"
            /\ e.subject = <<"shipping_event", 1>>
    BY <1>4
  <1>7. \A a, b \in ExistingPageNeedsImprovement(s) : a = b
    BY <1>3, Zenon
  <1>8. \A a, b \in ShippedButNotMarketed(s) : a = b
    BY <1>4, Zenon
  <1> QED
    BY <1>3, <1>4, <1>5, <1>6, <1>7, <1>8

\* What the detectors find in a snapshot: one evaluation of a type and a subject, and what the
\* decline detector sets aside precedes nothing else of its query.
LEMMA GatheredParts ==
    ASSUME NEW s, InOrder(s)
    PROVE  /\ \A e \in Gathered(s) : /\ IsEvaluation(e) /\ e.type \in Types
                                     /\ e.outcome \in {"accepted", "superseded_in_run"}
           /\ \A a, b \in Gathered(s) : a.type = b.type /\ a.subject = b.subject => a = b
           /\ \A e \in Gathered(s) : e.outcome # "accepted" =>
                 /\ e.type = "search_decline"
                 /\ \E b \in Gathered(s) : b.type = "search_decline" /\ b.outcome = "accepted"
           /\ \A a, b \in Gathered(s) :
                 a.subject = b.subject /\ b.outcome # "accepted"
                    => PRECEDENCE[a.type] <= PRECEDENCE[b.type]
           /\ ProfileUsable(s) /\ SearchUsable(s) =>
                 \A q \in Declining(s) : \E e \in Gathered(s) :
                     e.type = "search_decline" /\ e.subject = <<"query", q.id>>
  <1>1. \A e \in Gathered(s) :
            /\ IsEvaluation(e)
            /\ \/ e \in HighImpressionsLowCtr(s) /\ e.type = "high_impressions_low_ctr"
               \/ e \in RankingWithinReach(s) /\ e.type = "ranking_within_reach"
               \/ e \in SearchDecline(s) /\ e.type = "search_decline"
               \/ e \in ShippedButNotMarketed(s) /\ e.type = "shipped_but_not_marketed"
               \/ e \in DemandWithoutContent(s) /\ e.type = "search_demand_without_dedicated_content"
               \/ e \in ExistingPageNeedsImprovement(s) /\ e.type = "existing_page_needs_improvement"
    BY LowCtrParts, RankingParts, DeclineParts, DemandParts, PageAndEventParts DEF Gathered, OfQueries
  <1>2. \A e \in Gathered(s) :
            /\ e.type \in Types /\ e.outcome \in {"accepted", "superseded_in_run"}
            /\ e.outcome # "accepted" => e \in SearchDecline(s)
    BY <1>1, LowCtrParts, RankingParts, DeclineParts, DemandParts, PageAndEventParts
       DEF OfQueries, Types
  <1>3. \A a, b \in Gathered(s) : a.type = b.type /\ a.subject = b.subject => a = b
    BY <1>1, LowCtrParts, RankingParts, DeclineParts, DemandParts, PageAndEventParts DEF OfQueries
  <1>4. SearchDecline(s) \subseteq Gathered(s)
    BY DEF Gathered
  <1>5. \A e \in SearchDecline(s) : e.type = "search_decline"
    BY DeclineParts DEF OfQueries
  <1>6. /\ PRECEDENCE["search_decline"] = 3 /\ PRECEDENCE["high_impressions_low_ctr"] = 0
        /\ PRECEDENCE["ranking_within_reach"] = 2
    BY DEF PRECEDENCE, Types
  <1>7. ASSUME NEW a \in Gathered(s), NEW b \in Gathered(s),
               a.subject = b.subject, b.outcome # "accepted"
        PROVE  PRECEDENCE[a.type] <= PRECEDENCE[b.type]
    <2>1. PICK q \in s.queries : b.subject = <<"query", q.id>> /\ q.match = "matched"
      BY <1>2, <1>7, DeclineParts
    <2>2. b.type = "search_decline"
      BY <1>2, <1>5, <1>7
    <2>3. a \notin DemandWithoutContent(s)
      <3>1. SUFFICES ASSUME a \in DemandWithoutContent(s) PROVE FALSE
        OBVIOUS
      <3>2. PICK r \in s.queries : r.match = "unmatched" /\ a.subject = <<"query", r.id>>
        BY <3>1, DemandParts DEF OfQueries
      <3>3. q = r
        BY <1>7, <2>1, <3>2, DetectorAssumption DEF InOrder
      <3> QED
        BY <2>1, <3>2, <3>3
    <2>4. a \notin ShippedButNotMarketed(s) /\ a \notin ExistingPageNeedsImprovement(s)
      BY <1>7, <2>1, PageAndEventParts
    <2>5. a.type \in {"high_impressions_low_ctr", "ranking_within_reach", "search_decline"}
      BY <1>1, <2>3, <2>4
    <2> QED
      BY <1>6, <2>2, <2>5
  <1>8. \A e \in Gathered(s) : e.outcome # "accepted" =>
            \E b \in Gathered(s) : b.type = "search_decline" /\ b.outcome = "accepted"
    BY <1>2, <1>4, <1>5, DeclineParts
  <1>9. ProfileUsable(s) /\ SearchUsable(s) =>
            \A q \in Declining(s) : \E e \in Gathered(s) :
                e.type = "search_decline" /\ e.subject = <<"query", q.id>>
    BY <1>4, <1>5, DeclineParts
  <1> QED
    BY <1>1, <1>2, <1>3, <1>5, <1>7, <1>8, <1>9

\* The precedence tells the types apart.
LEMMA PrecedenceParts ==
    /\ \A t \in Types : PRECEDENCE[t] \in 0..5
    /\ \A t, u \in Types : PRECEDENCE[t] = PRECEDENCE[u] => t = u
  <1>1. /\ PRECEDENCE["high_impressions_low_ctr"] = 0
        /\ PRECEDENCE["existing_page_needs_improvement"] = 1
        /\ PRECEDENCE["ranking_within_reach"] = 2
        /\ PRECEDENCE["search_decline"] = 3
        /\ PRECEDENCE["shipped_but_not_marketed"] = 4
        /\ PRECEDENCE["search_demand_without_dedicated_content"] = 5
    BY DEF PRECEDENCE, Types
  <1> QED
    BY <1>1 DEF Types

-----------------------------------------------------------------------------
(* The loops.                                                              *)

WellFormed(E) ==
    \A e \in E : IsEvaluation(e) /\ e.type \in Types /\ e.outcome \in {"accepted", "superseded_in_run"}

OneOfEach(E) == \A a, b \in E : a.type = b.type /\ a.subject = b.subject => a = b

\* The reason for which rank_and_collapse prefers one evaluation to another.
Outranks(o, e) == o.subject = e.subject /\ PRECEDENCE[o.type] < PRECEDENCE[e.type]

\* rank_and_collapse: what was taken is passed on, the owners are what is accepted of it and
\* precede what else there is of their subjects, and what is not accepted has its reason.
RankInv ==
    /\ rest \subseteq Gathered(given)
    /\ owners = {e \in passed : e.outcome = "accepted"}
    /\ WellFormed(passed) /\ OneOfEach(passed)
    /\ \A e \in passed : \E g \in Gathered(given) \ rest : SameCandidate(e, g)
    /\ \A g \in Gathered(given) \ rest : \E e \in passed : SameCandidate(e, g)
    /\ \A o \in owners : \A e \in passed :
          o.subject = e.subject => PRECEDENCE[o.type] <= PRECEDENCE[e.type]
    /\ \A e \in passed : e.outcome # "accepted" =>
          e \in Gathered(given) \/ \E o \in owners : Outranks(o, e)

\* Where the reasons for which an evaluation was set aside lead: to a similar title that is
\* accepted, over one that precedes it, or over another decline.
AnsweredNear(e) == e.outcome = "accepted" \/ \E w \in owners : NearDuplicate(w, e)
AnsweredRank(e) ==
    AnsweredNear(e) \/ \E o \in rest \cup passed : AnsweredNear(o) /\ Outranks(o, e)
Answered(e) ==
    \/ AnsweredRank(e)
    \/ /\ e.type = "search_decline"
       /\ \E b \in rest \cup passed : b.type = "search_decline" /\ AnsweredRank(b)

\* collapse_near_duplicates: what was gathered is there, the owners have titles of their own, and
\* what is not accepted is answered for.
NearInv ==
    /\ WellFormed(rest \cup passed) /\ OneOfEach(rest \cup passed) /\ rest \cap passed = {}
    /\ owners = {e \in passed : e.outcome = "accepted"}
    /\ \A a, b \in owners : a # b => ~NearDuplicate(a, b)
    /\ \A a, b \in rest \cup passed :
          a.outcome = "accepted" /\ a.subject = b.subject
             => PRECEDENCE[a.type] <= PRECEDENCE[b.type]
    /\ \A e \in rest \cup passed : Answered(e)
    /\ \A g \in Gathered(given) : \E e \in rest \cup passed : SameCandidate(e, g)

DetectorInv ==
    /\ InOrder(given)
    /\ stage \in {"gather", "rank", "near", "done"}
    /\ stage = "gather" => rest = {} /\ owners = {} /\ passed = {}
    /\ stage = "rank" => RankInv
    /\ stage = "near" => NearInv
    /\ stage # "done" => results = {}
    /\ DetectorSafety

\* Titles are similar in both directions.
LEMMA NearIsSymmetric ==
    /\ \A a, b : NearDuplicate(a, b) => NearDuplicate(b, a)
    /\ \A a, b : SimilarTitles(a, b) => SimilarTitles(b, a)
  <1>1. \A a, b : a \cap b = b \cap a /\ a \cup b = b \cup a
    OBVIOUS
  <1>2. ASSUME NEW a, NEW b, SimilarTitles(a, b) PROVE SimilarTitles(b, a)
    BY <1>1, <1>2, Zenon DEF SimilarTitles
  <1> QED
    BY <1>2 DEF NearDuplicate

\* Before the end there is nothing to be wrong about.
LEMMA NothingYet == results = {} /\ stage # "done" => DetectorSafety
  BY DEF DetectorSafety, OneOpportunityPerSubject, SupersededIsOutdone, HistoryKeepsAway,
     DeclineIsEvaluated, Accepted, Kept

LEMMA DetectorInitInv == DetectorInit => DetectorInv
  BY NothingYet DEF DetectorInit, DetectorInv, InOrder

\* Of one subject and type there is one evaluation; what is taken was not passed on before.
LEMMA RankFresh ==
    ASSUME InOrder(given), RankInv, NEW e \in rest
    PROVE  /\ IsEvaluation(e) /\ e.type \in Types /\ e \in Gathered(given)
           /\ \A x \in passed : ~(x.type = e.type /\ x.subject = e.subject)
  <1>1. e \in Gathered(given)
    BY DEF RankInv
  <1>2. ASSUME NEW x \in passed, x.type = e.type, x.subject = e.subject PROVE FALSE
    <2>1. PICK g \in Gathered(given) \ rest : SameCandidate(x, g)
      BY DEF RankInv
    <2>2. g = e
      BY <1>1, <1>2, <2>1, GatheredParts DEF SameCandidate
    <2> QED
      BY <2>1, <2>2
  <1> QED
    BY <1>1, <1>2, GatheredParts

\* Every turn of rank_and_collapse keeps its invariant.
LEMMA RankEvaluationInv ==
    ASSUME InOrder(given), RankInv, NEW e \in rest, RankEvaluation(e)
    PROVE  RankInv'
  <1> DEFINE G == Gathered(given)
             z == Superseded(e)
  <1>1. /\ rest' = rest \ {e} /\ UNCHANGED <<given, stage, results>>
        /\ \/ e.outcome # "accepted" /\ Pass(e)
           \/ e.outcome = "accepted" /\ {o \in owners : o.subject = e.subject} = {} /\ PassAsOwner(e)
           \/ /\ e.outcome = "accepted"
              /\ \E holder \in owners :
                    /\ holder.subject = e.subject
                    /\ IF Prefers(e, holder) THEN Replace(holder, e) ELSE Pass(Superseded(e))
    BY DEF RankEvaluation
  <1>2. /\ IsEvaluation(e) /\ e.type \in Types /\ e \in G
        /\ \A x \in passed : ~(x.type = e.type /\ x.subject = e.subject)
    BY RankFresh
  <1>3. /\ \A g \in G : /\ IsEvaluation(g) /\ g.type \in Types
                        /\ g.outcome \in {"accepted", "superseded_in_run"}
        /\ \A a, b \in G : a.subject = b.subject /\ b.outcome # "accepted"
                              => PRECEDENCE[a.type] <= PRECEDENCE[b.type]
    BY GatheredParts
  <1>4. G' = G /\ G \ rest' = (G \ rest) \cup {e} /\ rest' \subseteq G
    BY <1>1, <1>2 DEF RankInv
  <1>5. /\ IsEvaluation(z) /\ SameCandidate(z, e) /\ z.outcome = "superseded_in_run"
    BY <1>2, SupersededParts
  <1>6. \A o, x \in owners : o.subject = x.subject => o = x
    BY PrecedenceParts DEF RankInv, WellFormed, OneOfEach
  <1> HIDE DEF G, z
  <1>7. CASE e.outcome # "accepted" /\ Pass(e)
    <2>1. passed' = passed \cup {e} /\ owners' = owners /\ e.outcome # "accepted"
      BY <1>7 DEF Pass
    <2>2. \A o \in owners : o.subject = e.subject => PRECEDENCE[o.type] <= PRECEDENCE[e.type]
      BY <1>2, <1>3, <2>1 DEF RankInv, SameCandidate, G
    <2> QED
      BY <1>2, <1>3, <1>4, <2>1, <2>2 DEF RankInv, WellFormed, OneOfEach, SameCandidate, G
  <1>8. CASE e.outcome = "accepted" /\ {o \in owners : o.subject = e.subject} = {} /\ PassAsOwner(e)
    <2>1. /\ passed' = passed \cup {e} /\ owners' = owners \cup {e} /\ e.outcome = "accepted"
          /\ \A o \in owners : o.subject # e.subject
      BY <1>8 DEF PassAsOwner
    <2>2. \A x \in passed : x.subject = e.subject => PRECEDENCE[e.type] <= PRECEDENCE[x.type]
      BY <1>2, <1>3, <2>1 DEF RankInv, Outranks, G
    <2>3. PRECEDENCE[e.type] \in Int
      BY <1>2, PrecedenceParts
    <2> QED
      BY <1>2, <1>3, <1>4, <2>1, <2>2, <2>3 DEF RankInv, WellFormed, OneOfEach, SameCandidate, G
  <1>9. ASSUME e.outcome = "accepted", NEW holder \in owners, holder.subject = e.subject,
               Prefers(e, holder), Replace(holder, e)
        PROVE  RankInv'
    <2> DEFINE y == Superseded(holder)
    <2>1. /\ passed' = (passed \ {holder}) \cup {e, y} /\ owners' = (owners \ {holder}) \cup {e}
          /\ holder \in passed /\ holder.outcome = "accepted"
      BY <1>9 DEF Replace, RankInv
    <2>2. /\ IsEvaluation(y) /\ SameCandidate(y, holder) /\ y.outcome = "superseded_in_run"
          /\ holder.type \in Types
      BY <2>1, SupersededParts DEF RankInv, WellFormed
    <2> HIDE DEF y
    <2>3. PRECEDENCE[e.type] < PRECEDENCE[holder.type]
      BY <1>9 DEF Prefers
    <2>4. \A t \in Types : PRECEDENCE[t] \in Int
      BY PrecedenceParts
    <2>5. owners' = {x \in passed' : x.outcome = "accepted"}
      BY <1>9, <2>1, <2>2 DEF RankInv
    <2>6. WellFormed(passed') /\ OneOfEach(passed')
      BY <1>2, <1>9, <2>1, <2>2 DEF RankInv, WellFormed, OneOfEach, SameCandidate
    <2>7. /\ \A x \in passed' : \E g \in G \ rest' : SameCandidate(x, g)
          /\ \A g \in G \ rest' : \E x \in passed' : SameCandidate(x, g)
      BY <1>4, <2>1, <2>2 DEF RankInv, SameCandidate, G
    <2>8. \A x \in passed' : x.subject = e.subject => PRECEDENCE[e.type] <= PRECEDENCE[x.type]
      BY <1>2, <1>9, <2>1, <2>2, <2>3, <2>4 DEF RankInv, WellFormed, SameCandidate
    <2>9. \A o \in owners' : \A x \in passed' :
              o.subject = x.subject => PRECEDENCE[o.type] <= PRECEDENCE[x.type]
      BY <1>6, <1>9, <2>1, <2>2, <2>8 DEF RankInv, SameCandidate
    <2>10. \A x \in passed' : x.outcome # "accepted" =>
               x \in G \/ \E o \in owners' : Outranks(o, x)
      BY <1>2, <1>9, <2>1, <2>2, <2>3, <2>4 DEF RankInv, WellFormed, SameCandidate, Outranks, G
    <2> QED
      BY <1>4, <2>5, <2>6, <2>7, <2>9, <2>10 DEF RankInv, G
  <1>10. ASSUME e.outcome = "accepted", NEW holder \in owners, holder.subject = e.subject,
                ~Prefers(e, holder), Pass(Superseded(e))
         PROVE  RankInv'
    <2>1. /\ passed' = passed \cup {z} /\ owners' = owners
          /\ holder \in passed /\ holder.type \in Types
      BY <1>10 DEF Pass, RankInv, WellFormed, z
    <2>2. PRECEDENCE[holder.type] < PRECEDENCE[e.type]
      BY <1>2, <1>10, <2>1, PrecedenceParts DEF Prefers
    <2>3. \A o \in owners : o.subject = z.subject => PRECEDENCE[o.type] <= PRECEDENCE[z.type]
      BY <1>2, <1>5, <1>6, <1>10, <2>1, <2>2, PrecedenceParts DEF SameCandidate
    <2>4. Outranks(holder, z)
      BY <1>5, <1>10, <2>2 DEF Outranks, SameCandidate
    <2>5. owners' = {x \in passed' : x.outcome = "accepted"}
      BY <1>5, <2>1 DEF RankInv
    <2>6. WellFormed(passed') /\ OneOfEach(passed')
      BY <1>2, <1>5, <2>1 DEF RankInv, WellFormed, OneOfEach, SameCandidate
    <2>7. /\ \A x \in passed' : \E g \in G \ rest' : SameCandidate(x, g)
          /\ \A g \in G \ rest' : \E x \in passed' : SameCandidate(x, g)
      BY <1>4, <1>5, <2>1 DEF RankInv, G
    <2> QED
      BY <1>4, <2>1, <2>3, <2>4, <2>5, <2>6, <2>7 DEF RankInv, G
  <1> QED
    BY <1>1, <1>7, <1>8, <1>9, <1>10

\* What rank_and_collapse leaves has its invariant's reasons, which collapse_near_duplicates
\* starts from.
LEMMA StartNearInv ==
    ASSUME InOrder(given), RankInv, StartNear
    PROVE  NearInv'
  <1> DEFINE G == Gathered(given)
  <1>1. rest = {} /\ rest' = passed /\ passed' = {} /\ owners' = {} /\ given' = given
    BY DEF StartNear
  <1>2. /\ rest' \cup passed' = passed /\ rest' \cap passed' = {}
        /\ G' = G /\ G \ rest = G
    BY <1>1
  <1>3. \A x : AnsweredNear(x)' <=> x.outcome = "accepted"
    BY <1>1 DEF AnsweredNear
  <1>4. ASSUME NEW e \in passed, e \notin G
        PROVE  AnsweredRank(e)'
    <2>1. e.outcome = "accepted" \/ \E o \in owners : Outranks(o, e)
      BY <1>4 DEF RankInv
    <2>2. owners = {x \in passed : x.outcome = "accepted"}
      BY DEF RankInv
    <2> QED
      BY <1>2, <1>3, <2>1, <2>2 DEF AnsweredRank
  <1>5. ASSUME NEW e \in passed PROVE Answered(e)'
    <2>1. CASE e.outcome = "accepted"
      BY <1>3, <2>1 DEF Answered, AnsweredRank
    <2>2. CASE e.outcome # "accepted" /\ e \in G
      <3>1. PICK b \in G : b.type = "search_decline" /\ b.outcome = "accepted"
        BY <2>2, GatheredParts
      <3>2. PICK c \in passed : SameCandidate(c, b)
        BY <1>2, <3>1 DEF RankInv
      <3>3. AnsweredRank(c)'
        <4>1. CASE c \notin G
          BY <1>4, <4>1
        <4>2. CASE c \in G
          <5>1. c = b
            BY <3>1, <3>2, <4>2, GatheredParts DEF SameCandidate
          <5> QED
            BY <1>3, <3>1, <5>1 DEF AnsweredRank
        <4> QED
          BY <4>1, <4>2
      <3>4. e.type = "search_decline" /\ c.type = "search_decline"
        BY <2>2, <3>1, <3>2, GatheredParts DEF SameCandidate
      <3> QED
        BY <1>2, <3>2, <3>3, <3>4 DEF Answered
    <2>3. CASE e \notin G
      BY <1>4, <2>3 DEF Answered
    <2> QED
      BY <2>1, <2>2, <2>3
  <1> HIDE DEF G
  <1>6. \A a, b \in passed : a.outcome = "accepted" /\ a.subject = b.subject
            => PRECEDENCE[a.type] <= PRECEDENCE[b.type]
    BY DEF RankInv
  <1>7. \A g \in G : \E e \in passed : SameCandidate(e, g)
    BY <1>2 DEF RankInv, G
  <1>8. WellFormed(passed) /\ OneOfEach(passed)
    BY DEF RankInv
  <1> QED
    BY <1>1, <1>2, <1>5, <1>6, <1>7, <1>8 DEF NearInv, G

\* Every turn of collapse_near_duplicates keeps its invariant.
LEMMA CollapseEvaluationInv ==
    ASSUME NearInv, NEW e \in rest, CollapseEvaluation(e)
    PROVE  NearInv'
  <1> DEFINE U == rest \cup passed
             z == Superseded(e)
  <1>1. /\ rest' = rest \ {e} /\ given' = given
        /\ \/ e.outcome # "accepted" /\ Pass(e)
           \/ e.outcome = "accepted" /\ (\E w \in owners : NearDuplicate(w, e)) /\ Pass(Superseded(e))
           \/ e.outcome = "accepted" /\ ~(\E w \in owners : NearDuplicate(w, e)) /\ PassAsOwner(e)
    BY DEF CollapseEvaluation
  <1>2. /\ IsEvaluation(e) /\ e.type \in Types /\ e \notin passed /\ Gathered(given)' = Gathered(given)
    BY <1>1 DEF NearInv, WellFormed
  <1>3. /\ IsEvaluation(z) /\ SameCandidate(z, e) /\ z.outcome = "superseded_in_run"
    BY <1>2, SupersededParts
  <1> HIDE DEF z
  <1>4. ASSUME passed' = passed \cup {e}, owners \subseteq owners',
               owners' = {x \in passed' : x.outcome = "accepted"},
               \A a, b \in owners' : a # b => ~NearDuplicate(a, b)
        PROVE  NearInv'
    <2>1. rest' \cup passed' = rest \cup passed /\ rest' \cap passed' = {}
      BY <1>1, <1>2, <1>4 DEF NearInv
    <2>2. \A x : AnsweredNear(x) => AnsweredNear(x)'
      BY <1>4 DEF AnsweredNear
    <2>3. \A x : AnsweredRank(x) => AnsweredRank(x)'
      BY <2>1, <2>2 DEF AnsweredRank
    <2>4. \A x : Answered(x) => Answered(x)'
      BY <2>1, <2>3 DEF Answered
    <2>5. \A x \in rest \cup passed : Answered(x)'
      BY <2>4 DEF NearInv
    <2> QED
      BY <1>2, <1>4, <2>1, <2>5 DEF NearInv
  <1>5. CASE e.outcome # "accepted" /\ Pass(e)
    <2>1. passed' = passed \cup {e} /\ owners' = owners
      BY <1>5 DEF Pass
    <2>2. owners' = {x \in passed' : x.outcome = "accepted"}
      BY <1>5, <2>1 DEF NearInv
    <2> QED
      BY <1>4, <2>1, <2>2 DEF NearInv
  <1>6. CASE e.outcome = "accepted" /\ ~(\E w \in owners : NearDuplicate(w, e)) /\ PassAsOwner(e)
    <2>1. passed' = passed \cup {e} /\ owners' = owners \cup {e}
      BY <1>6 DEF PassAsOwner
    <2>2. owners' = {x \in passed' : x.outcome = "accepted"}
      BY <1>6, <2>1 DEF NearInv
    <2>3. \A a, b \in owners' : a # b => ~NearDuplicate(a, b)
      BY <1>6, <2>1, NearIsSymmetric DEF NearInv
    <2> QED
      BY <1>4, <2>1, <2>2, <2>3
  <1>7. ASSUME e.outcome = "accepted", NEW w \in owners, NearDuplicate(w, e), Pass(z)
        PROVE  NearInv'
    <2>1. passed' = passed \cup {z} /\ owners' = owners
      BY <1>7 DEF Pass
    <2>2. rest' \cup passed' = (U \ {e}) \cup {z}
      BY <1>1, <1>2, <2>1
    <2>3. WellFormed(rest' \cup passed') /\ OneOfEach(rest' \cup passed')
      BY <1>2, <1>3, <2>2 DEF NearInv, WellFormed, OneOfEach, SameCandidate
    <2>4. rest' \cap passed' = {}
      <3>1. z \notin rest'
        BY <1>1, <1>3, <1>7 DEF NearInv, OneOfEach, SameCandidate
      <3> QED
        BY <1>1, <2>1, <3>1 DEF NearInv
    <2>5. owners' = {x \in passed' : x.outcome = "accepted"}
      BY <1>3, <2>1 DEF NearInv
    <2>6. \A a, b \in rest' \cup passed' :
              a.outcome = "accepted" /\ a.subject = b.subject
                 => PRECEDENCE[a.type] <= PRECEDENCE[b.type]
      BY <1>3, <2>2 DEF NearInv, SameCandidate
    <2>7. AnsweredNear(z)'
      BY <1>3, <1>7, <2>1 DEF AnsweredNear, NearDuplicate, SameCandidate
    <2>8. \A x : AnsweredNear(x) => AnsweredNear(x)'
      BY <2>1 DEF AnsweredNear
    <2>9. \A x : AnsweredRank(x) => AnsweredRank(x)'
      <3> SUFFICES ASSUME NEW x, AnsweredRank(x) PROVE AnsweredRank(x)'
        OBVIOUS
      <3>1. CASE AnsweredNear(x)
        BY <2>8, <3>1 DEF AnsweredRank
      <3>2. ASSUME NEW o \in U, AnsweredNear(o), Outranks(o, x) PROVE AnsweredRank(x)'
        <4>1. CASE o # e
          BY <2>2, <2>8, <3>2, <4>1 DEF AnsweredRank
        <4>2. CASE o = e
          <5>1. Outranks(z, x)
            BY <1>3, <3>2, <4>2 DEF Outranks, SameCandidate
          <5> QED
            BY <2>2, <2>7, <5>1 DEF AnsweredRank
        <4> QED
          BY <4>1, <4>2
      <3> QED
        BY <3>1, <3>2 DEF AnsweredRank
    <2>10. \A x : Answered(x) => Answered(x)'
      <3> SUFFICES ASSUME NEW x, Answered(x) PROVE Answered(x)'
        OBVIOUS
      <3>1. CASE AnsweredRank(x)
        BY <2>9, <3>1 DEF Answered
      <3>2. ASSUME NEW b \in U, b.type = "search_decline", AnsweredRank(b), x.type = "search_decline"
            PROVE  Answered(x)'
        <4>1. CASE b # e
          BY <2>2, <2>9, <3>2, <4>1 DEF Answered
        <4>2. CASE b = e
          <5>1. z.type = "search_decline" /\ AnsweredRank(z)'
            BY <1>3, <2>7, <3>2, <4>2 DEF SameCandidate, AnsweredRank
          <5> QED
            BY <2>2, <3>2, <5>1 DEF Answered
        <4> QED
          BY <4>1, <4>2
      <3> QED
        BY <3>1, <3>2 DEF Answered
    <2>11. \A x \in rest' \cup passed' : Answered(x)'
      <3>1. Answered(z)'
        BY <2>7 DEF Answered, AnsweredRank
      <3> QED
        BY <2>2, <2>10, <3>1 DEF NearInv
    <2>12. \A g \in Gathered(given) : \E x \in rest' \cup passed' : SameCandidate(x, g)
      BY <1>3, <2>2 DEF NearInv, SameCandidate
    <2> QED
      BY <1>2, <2>1, <2>3, <2>4, <2>5, <2>6, <2>11, <2>12 DEF NearInv
  <1> QED
    BY <1>1, <1>5, <1>6, <1>7 DEF z

\* An item of the history that lets an evaluation pass is neither open nor planned, and its
\* cooldown is over.
LEMMA BlockedByParts ==
    ASSUME NEW i, i.age \in Int, BlockedBy(i, i.type) = "accepted"
    PROVE  /\ i.status \notin {"open", "planned"}
           /\ i.status = "dismissed" => i.age >= DISMISSAL_DAYS(i.reason)
           /\ i.status = "completed" => i.age >= COMPLETED_DAYS(i.type)
  <1>1. DISMISSAL_DAYS(i.reason) \in Int /\ COMPLETED_DAYS(i.type) \in Int
    BY DEF DISMISSAL_DAYS, COMPLETED_DAYS
  <1>2. i.status \notin {"open", "planned"}
    BY DEF BlockedBy
  <1>3. i.status \in {"completed", "dismissed"} => ~(i.age < CooldownDays(i, i.type))
    BY DEF BlockedBy
  <1> QED
    BY <1>1, <1>2, <1>3 DEF CooldownDays

\* What the history leaves of an evaluation that passed both loops.
LEMMA FinishedResults ==
    ASSUME NearInv, FinishEvaluation
    PROVE  /\ results' = {WithHistory(given, e) : e \in passed} /\ given' = given
           /\ rest \cup passed = passed
           /\ \A e \in passed : /\ SameCandidate(WithHistory(given, e), e)
                                /\ e.outcome # "accepted" <=>
                                      WithHistory(given, e).outcome = "superseded_in_run"
                                /\ e.outcome # "accepted" => WithHistory(given, e) = e
           /\ Kept' = {WithHistory(given, e) : e \in owners}
           /\ \A a \in Accepted' : \E e \in owners :
                 /\ a = WithHistory(given, e)
                 /\ \A i \in given.history : SameIdentity(i, e) => BlockedBy(i, e.type) = "accepted"
  <1>1. /\ results' = {WithHistory(given, e) : e \in passed} /\ given' = given
        /\ rest \cup passed = passed
    BY DEF FinishEvaluation
  <1>2. \A e \in passed : IsEvaluation(e) /\ e.outcome \in {"accepted", "superseded_in_run"}
    BY DEF NearInv, WellFormed
  <1>3. \A e \in passed :
            /\ SameCandidate(WithHistory(given, e), e)
            /\ e.outcome # "accepted" <=> WithHistory(given, e).outcome = "superseded_in_run"
            /\ e.outcome # "accepted" => WithHistory(given, e) = e
            /\ WithHistory(given, e).outcome = "accepted" =>
                 \A i \in given.history : SameIdentity(i, e) => BlockedBy(i, e.type) = "accepted"
    BY <1>2, HistoryParts
  <1>4. owners = {e \in passed : e.outcome = "accepted"}
    BY DEF NearInv
  <1>5. Kept' = {WithHistory(given, e) : e \in owners}
    BY <1>1, <1>3, <1>4 DEF Kept
  <1>6. \A a \in Accepted' : \E e \in owners :
            /\ a = WithHistory(given, e)
            /\ \A i \in given.history : SameIdentity(i, e) => BlockedBy(i, e.type) = "accepted"
    BY <1>1, <1>3, <1>4 DEF Accepted
  <1> QED
    BY <1>1, <1>3, <1>5, <1>6

\* One accepted opportunity of a subject, of the type that precedes, with a title of its own.
LEMMA FinishOnePerSubject ==
    ASSUME NearInv, FinishEvaluation
    PROVE  OneOpportunityPerSubject'
  <1> DEFINE h(e) == WithHistory(given, e)
  <1>1. /\ results' = {h(e) : e \in passed}
        /\ \A e \in passed : SameCandidate(h(e), e)
        /\ \A a \in Accepted' : \E e \in owners : a = h(e)
    BY FinishedResults
  <1> HIDE DEF h
  <1>2. /\ owners = {e \in passed : e.outcome = "accepted"} /\ OneOfEach(passed)
        /\ \A e \in passed : e.type \in Types
        /\ \A a, b \in owners : a # b => ~NearDuplicate(a, b)
        /\ \A a \in owners : \A b \in passed :
              a.subject = b.subject => PRECEDENCE[a.type] <= PRECEDENCE[b.type]
    BY DEF NearInv, OneOfEach, WellFormed
  <1>3. ASSUME NEW a \in Accepted', NEW b \in Accepted', a # b
        PROVE  /\ a.subject # b.subject
               /\ (a.type = b.type /\ a.family = b.family) => ~SimilarTitles(a.title, b.title)
    <2>1. PICK x \in owners, y \in owners : a = h(x) /\ b = h(y) /\ x # y
      BY <1>1, <1>3
    <2>2. SameCandidate(a, x) /\ SameCandidate(b, y)
      BY <1>1, <1>2, <2>1
    <2>3. x.subject # y.subject
      BY <1>2, <2>1, PrecedenceParts DEF OneOfEach
    <2>4. ~NearDuplicate(x, y)
      BY <1>2, <2>1
    <2> QED
      BY <2>2, <2>3, <2>4 DEF SameCandidate, NearDuplicate
  <1>4. ASSUME NEW a \in Accepted', NEW b \in results', b.subject = a.subject
        PROVE  PRECEDENCE[a.type] <= PRECEDENCE[b.type]
    <2>1. PICK x \in owners, y \in passed : a = h(x) /\ b = h(y)
      BY <1>1
    <2>2. SameCandidate(a, x) /\ SameCandidate(b, y)
      BY <1>1, <1>2, <2>1
    <2> QED
      BY <1>2, <1>4, <2>1, <2>2 DEF SameCandidate
  <1> QED
    BY <1>3, <1>4 DEF OneOpportunityPerSubject

\* What was set aside is answered for in three steps at most.
LEMMA FinishOutdone ==
    ASSUME NearInv, FinishEvaluation
    PROVE  SupersededIsOutdone'
  <1> DEFINE h(e) == WithHistory(given, e)
  <1>1. /\ results' = {h(e) : e \in passed} /\ Kept' = {h(e) : e \in owners}
        /\ rest \cup passed = passed
        /\ \A e \in passed : SameCandidate(h(e), e)
    BY FinishedResults
  <1> HIDE DEF h
  <1>2. owners = {e \in passed : e.outcome = "accepted"} /\ \A e \in passed : Answered(e)
    BY <1>1 DEF NearInv
  <1>3. \A x, y \in passed : NearDuplicate(y, x) => Outdoes(h(y), h(x))
    BY <1>1, NearIsSymmetric DEF Outdoes, NearDuplicate, SameCandidate
  <1>4. \A x, y \in passed : Outranks(y, x) => Outdoes(h(y), h(x))
    BY <1>1 DEF Outdoes, Outranks, SameCandidate
  <1>5. \A x, y \in passed : x.type = "search_decline" /\ y.type = "search_decline"
            => Outdoes(h(y), h(x))
    BY <1>1 DEF Outdoes, SameCandidate
  <1>6. \A x \in passed : AnsweredNear(x) => h(x) \in Kept' \/ \E k \in Kept' : Outdoes(k, h(x))
    BY <1>1, <1>2, <1>3 DEF AnsweredNear
  <1>7. \A x \in passed : AnsweredRank(x) =>
            \/ h(x) \in Kept'
            \/ \E k \in Kept' : Outdoes(k, h(x))
            \/ \E b \in results', k \in Kept' : Outdoes(b, h(x)) /\ Outdoes(k, b)
    <2> SUFFICES ASSUME NEW x \in passed, NEW o \in passed, AnsweredNear(o), Outranks(o, x)
                 PROVE  \/ \E k \in Kept' : Outdoes(k, h(x))
                        \/ \E b \in results', k \in Kept' : Outdoes(b, h(x)) /\ Outdoes(k, b)
      BY <1>1, <1>6 DEF AnsweredRank
    <2>1. Outdoes(h(o), h(x)) /\ h(o) \in results'
      BY <1>1, <1>4
    <2> QED
      BY <1>6, <2>1
  <1>8. ASSUME NEW a \in results' \ Kept'
        PROVE  \/ \E b \in Kept' : Outdoes(b, a)
               \/ \E b \in results', c \in Kept' : Outdoes(b, a) /\ Outdoes(c, b)
               \/ \E b \in results', c \in results', d \in Kept' :
                      Outdoes(b, a) /\ Outdoes(c, b) /\ Outdoes(d, c)
    <2>1. PICK x \in passed : a = h(x) /\ Answered(x)
      BY <1>1, <1>2, <1>8
    <2>2. CASE AnsweredRank(x)
      BY <1>7, <1>8, <2>1, <2>2
    <2>3. ASSUME NEW b \in passed, b.type = "search_decline", x.type = "search_decline",
                 AnsweredRank(b)
          PROVE  \/ \E c \in Kept' : Outdoes(c, a)
                 \/ \E c \in results', d \in Kept' : Outdoes(c, a) /\ Outdoes(d, c)
                 \/ \E c \in results', d \in results', k \in Kept' :
                        Outdoes(c, a) /\ Outdoes(d, c) /\ Outdoes(k, d)
      <3>1. Outdoes(h(b), a) /\ h(b) \in results'
        BY <1>1, <1>5, <2>1, <2>3
      <3> QED
        BY <1>7, <2>3, <3>1
    <2> QED
      BY <1>1, <2>1, <2>2, <2>3 DEF Answered
  <1> QED
    BY <1>8 DEF SupersededIsOutdone

\* Nothing the history blocks is accepted.
LEMMA FinishHistory ==
    ASSUME InOrder(given), NearInv, FinishEvaluation
    PROVE  HistoryKeepsAway'
  <1>1. /\ given' = given
        /\ \A a \in Accepted' : \E e \in owners :
              /\ a = WithHistory(given, e)
              /\ \A i \in given.history : SameIdentity(i, e) => BlockedBy(i, e.type) = "accepted"
        /\ \A e \in passed : SameCandidate(WithHistory(given, e), e)
        /\ owners \subseteq passed
    BY FinishedResults DEF NearInv
  <1>2. ASSUME NEW a \in Accepted', NEW i \in given.history, SameIdentity(i, a)
        PROVE  BlockedBy(i, i.type) = "accepted" /\ i.age \in Int
    <2>1. PICK e \in owners :
              /\ a = WithHistory(given, e)
              /\ \A j \in given.history : SameIdentity(j, e) => BlockedBy(j, e.type) = "accepted"
      BY <1>1
    <2>2. SameIdentity(i, e) /\ i.type = e.type
      BY <1>1, <1>2, <2>1 DEF SameIdentity, SameCandidate
    <2> QED
      BY <2>1, <2>2, DetectorAssumption DEF InOrder
  <1> QED
    BY <1>1, <1>2, BlockedByParts DEF HistoryKeepsAway

\* Every query in decline has its one evaluation.
LEMMA FinishDecline ==
    ASSUME InOrder(given), NearInv, FinishEvaluation
    PROVE  DeclineIsEvaluated'
  <1> DEFINE h(e) == WithHistory(given, e)
  <1>1. /\ results' = {h(e) : e \in passed} /\ given' = given /\ rest \cup passed = passed
        /\ \A e \in passed : SameCandidate(h(e), e)
    BY FinishedResults
  <1> HIDE DEF h
  <1>2. OneOfEach(passed) /\ \A g \in Gathered(given) : \E e \in passed : SameCandidate(e, g)
    BY <1>1 DEF NearInv
  <1>3. ASSUME ProfileUsable(given), SearchUsable(given), NEW q \in given.queries,
               ClicksDeclined(q) \/ ImpressionsDeclined(q)
        PROVE  Cardinality({e \in results' : e.subject = <<"query", q.id>>
                                               /\ e.type = "search_decline"}) = 1
    <2>1. PICK g \in Gathered(given) : g.type = "search_decline" /\ g.subject = <<"query", q.id>>
      BY <1>3, GatheredParts DEF Declining
    <2>2. PICK e \in passed : SameCandidate(e, g)
      BY <1>2
    <2>3. {r \in results' : r.subject = <<"query", q.id>> /\ r.type = "search_decline"} = {h(e)}
      BY <1>1, <1>2, <2>1, <2>2 DEF SameCandidate, OneOfEach
    <2> QED
      BY <2>3, FS_Singleton
  <1> QED
    BY <1>1, <1>3 DEF DeclineIsEvaluated

\* Every step of an evaluation keeps the invariant.
LEMMA DetectorNextInv == ASSUME DetectorInv, [DetectorNext]_detectorVars PROVE DetectorInv'
  <1>1. CASE UNCHANGED detectorVars
    BY <1>1 DEF detectorVars, loopVars, DetectorInv, RankInv, NearInv, AnsweredNear, AnsweredRank,
       Answered, DetectorSafety, OneOpportunityPerSubject, SupersededIsOutdone, HistoryKeepsAway,
       DeclineIsEvaluated, Accepted, Kept
  <1>2. CASE Gather
    <2>1. /\ stage = "gather" /\ stage' = "rank" /\ rest' = Gathered(given)
          /\ UNCHANGED <<given, owners, passed, results>>
          /\ owners = {} /\ passed = {} /\ results = {}
      BY <1>2 DEF Gather, DetectorInv
    <2>2. RankInv'
      BY <2>1 DEF RankInv, WellFormed, OneOfEach
    <2>3. DetectorSafety'
      BY <2>1 DEF DetectorSafety, OneOpportunityPerSubject, SupersededIsOutdone, HistoryKeepsAway,
         DeclineIsEvaluated, Accepted, Kept
    <2> QED
      BY <2>1, <2>2, <2>3 DEF DetectorInv
  <1>3. ASSUME stage' # "done", results' = results, stage # "done", DetectorInv
        PROVE  results' = {} /\ DetectorSafety'
    BY <1>3 DEF DetectorInv, DetectorSafety, OneOpportunityPerSubject, SupersededIsOutdone,
       HistoryKeepsAway, DeclineIsEvaluated, Accepted, Kept
  <1>4. CASE StartNear
    <2>1. stage = "rank" /\ stage' = "near" /\ given' = given /\ results' = results
      BY <1>4 DEF StartNear
    <2>2. NearInv'
      BY <1>4, <2>1, StartNearInv DEF DetectorInv
    <2> QED
      BY <1>3, <2>1, <2>2 DEF DetectorInv
  <1>5. ASSUME NEW e \in rest, RankEvaluation(e) PROVE DetectorInv'
    <2>1. stage = "rank" /\ UNCHANGED <<given, stage, results>>
      BY <1>5 DEF RankEvaluation
    <2>2. RankInv'
      BY <1>5, <2>1, RankEvaluationInv DEF DetectorInv
    <2> QED
      BY <1>3, <2>1, <2>2 DEF DetectorInv
  <1>6. ASSUME NEW e \in rest, CollapseEvaluation(e) PROVE DetectorInv'
    <2>1. stage = "near" /\ UNCHANGED <<given, stage, results>>
      BY <1>6 DEF CollapseEvaluation
    <2>2. NearInv'
      BY <1>6, <2>1, CollapseEvaluationInv DEF DetectorInv
    <2> QED
      BY <1>3, <2>1, <2>2 DEF DetectorInv
  <1>7. CASE FinishEvaluation
    <2>1. stage = "near" /\ stage' = "done" /\ given' = given
      BY <1>7 DEF FinishEvaluation
    <2>2. DetectorSafety'
      BY <1>7, <2>1, FinishOnePerSubject, FinishOutdone, FinishHistory, FinishDecline
         DEF DetectorInv, DetectorSafety
    <2> QED
      BY <2>1, <2>2 DEF DetectorInv
  <1> QED
    BY <1>1, <1>2, <1>4, <1>5, <1>6, <1>7 DEF DetectorNext

\* The loops of an evaluation keep their invariants, for any snapshot (evaluate_detection_input).
THEOREM DetectorInvariant == DetectorSpec => []DetectorInv
  BY DetectorInitInv, DetectorNextInv, PTL DEF DetectorSpec

\* Whatever the snapshot holds, a detection accepts one opportunity of a subject, sets nothing
\* aside without one that answers for it, accepts nothing the history keeps away and loses no
\* decline at a threshold (rank_and_collapse, collapse_near_duplicates, cooldown_decision).
THEOREM DetectorSafetyHolds == DetectorSpec => []DetectorSafety
  BY DetectorInvariant, PTL DEF DetectorInv

-----------------------------------------------------------------------------
(* Sums over finite sets                                                   *)

\* A set of numbers has a smallest.
LEMMA LeastNat ==
    ASSUME NEW T, T \subseteq Nat, T # {}
    PROVE  \E n \in T : \A m \in T : n <= m
  <1> DEFINE below == {U \in FiniteSubsetsOf(Nat) : \E n \in T : U = 1..n}
  <1>1. \A n \in Nat : 1..n \in FiniteSubsetsOf(Nat)
    BY FS_Interval DEF FiniteSubsetsOf
  <1>2. below # {} /\ below \subseteq FiniteSubsetsOf(Nat)
    BY <1>1
  <1>3. PICK U \in below : \A V \in below : <<V, U>> \notin StrictSubsetOrdering(Nat)
    BY <1>2, WFMin, FS_StrictSubsetOrderingWellFounded
  <1>4. PICK n \in T : U = 1..n
    BY <1>3
  <1>5. ASSUME NEW m \in T, m < n PROVE FALSE
    <2>1. 1..m \in below
      BY <1>1
    <2>2. 1..m \subseteq 1..n /\ 1..m # 1..n
      <3>1. n \in 1..n /\ n \notin 1..m
        BY <1>5
      <3> QED
        BY <1>5, <3>1
    <2>3. 1..m \in SUBSET Nat /\ 1..n \in SUBSET Nat
      OBVIOUS
    <2> QED
      BY <1>3, <1>4, <2>1, <2>2, <2>3 DEF StrictSubsetOrdering
  <1> QED
    BY <1>5

Pick(T) == CHOOSE x \in T : TRUE
SumStep(h, g, T) == IF T = {} THEN 0 ELSE g[Pick(T)] + h[T \ {Pick(T)}]

\* h gives the sum of g over every set of the family D.
Unfolds(h, g, D) == \A T \in D : h[T] = SumStep(h, g, T)
Sums(h, g, D) == h \in [D -> Nat] /\ Unfolds(h, g, D)

LEMMA PickIn ==
    ASSUME NEW T, T # {}
    PROVE  Pick(T) \in T
  BY DEF Pick

\* There is such a function, by the size of the sets.
LEMMA SumsExist ==
    ASSUME NEW S, IsFiniteSet(S), NEW g \in [S -> Nat]
    PROVE  \E h : Sums(h, g, SUBSET S)
  <1> DEFINE upTo(n) == {T \in SUBSET S : Cardinality(T) <= n}
             bad == {n \in Nat : ~\E h : Sums(h, g, upTo(n))}
  <1>1. \A T \in SUBSET S : IsFiniteSet(T) /\ Cardinality(T) \in Nat /\ Cardinality(T) <= Cardinality(S)
    BY FS_Subset, FS_CardinalityType
  <1>2. ASSUME NEW T \in SUBSET S, T # {}
        PROVE  /\ Pick(T) \in S /\ T \ {Pick(T)} \in SUBSET S
               /\ Cardinality(T \ {Pick(T)}) = Cardinality(T) - 1
    BY <1>1, <1>2, PickIn, FS_RemoveElement
  <1>3. ASSUME bad # {} PROVE FALSE
    <2>1. PICK n \in bad : \A m \in bad : n <= m
      <3>1. bad \subseteq Nat
        OBVIOUS
      <3> QED
        BY <1>3, <3>1, LeastNat
    <2>2. CASE n = 0
      <3>1. upTo(0) = {{}}
        BY <1>1, FS_EmptySet
      <3>2. Sums([T \in {{}} |-> 0], g, {{}})
        BY DEF Sums, SumStep, Unfolds
      <3> QED
        BY <2>1, <2>2, <3>1, <3>2
    <2>3. CASE n # 0
      <3>1. n - 1 \in Nat /\ n - 1 \notin bad
        <4> HIDE DEF bad
        <4>1. n \in Nat
          BY <2>1 DEF bad
        <4> QED
          BY <4>1, <2>1, <2>3
      <3>2. PICK h : Sums(h, g, upTo(n - 1))
        BY <3>1
      <3> DEFINE k == [T \in upTo(n) |-> IF T \in upTo(n - 1) THEN h[T] ELSE SumStep(h, g, T)]
      <3>3. \A T \in upTo(n) : T # {} => T \ {Pick(T)} \in upTo(n - 1)
        BY <1>1, <1>2, <2>1
      <3>4. {} \in upTo(n - 1)
        BY <3>1, FS_EmptySet
      <3>5. \A T \in upTo(n - 1) : T \in upTo(n) /\ k[T] = h[T]
        BY <1>1, <2>1, <3>1
      <3>6. \A T \in upTo(n) : SumStep(h, g, T) \in Nat /\ SumStep(k, g, T) = SumStep(h, g, T)
        <4> TAKE T \in upTo(n)
        <4>1. CASE T = {}
          BY <4>1 DEF SumStep
        <4>2. CASE T # {}
          <5> DEFINE V == T \ {Pick(T)}
          <5>1. V \in upTo(n - 1) /\ Pick(T) \in S
            BY <1>2, <3>3, <4>2
          <5>2. k[V] = h[V] /\ h[V] \in Nat /\ g[Pick(T)] \in Nat
            <6> HIDE DEF k, V, upTo
            <6> QED
              BY <3>2, <3>5, <5>1 DEF Sums
          <5> HIDE DEF k, upTo
          <5> QED
            BY <4>2, <5>2 DEF SumStep
        <4> QED
          BY <4>1, <4>2
      <3>7. \A T \in upTo(n) : k[T] \in Nat /\ k[T] = SumStep(k, g, T)
        BY <3>2, <3>5, <3>6 DEF Sums, Unfolds
      <3>8. Sums(k, g, upTo(n))
        <4> HIDE DEF upTo
        <4>1. k \in [upTo(n) -> Nat]
          BY <3>7
        <4> QED
          BY <4>1, <3>7 DEF Sums, Unfolds
      <3> QED
        BY <2>1, <3>8
    <2> QED
      BY <2>2, <2>3
  <1>4. upTo(Cardinality(S)) = SUBSET S
    BY <1>1
  <1>5. Cardinality(S) \in Nat
    BY FS_CardinalityType
  <1> QED
    BY <1>3, <1>4, <1>5

\* And it is the only one.
LEMMA SumsAgree ==
    ASSUME NEW S, IsFiniteSet(S), NEW g, NEW h, NEW k,
           Unfolds(h, g, SUBSET S), Unfolds(k, g, SUBSET S)
    PROVE  \A T \in SUBSET S : h[T] = k[T]
  <1> DEFINE bad == {T \in SUBSET S : h[T] # k[T]}
  <1>1. ASSUME bad # {} PROVE FALSE
    <2>1. PICK U \in bad : \A V \in bad : V \subseteq U => V = U
      <3>1. bad \subseteq SUBSET S
        OBVIOUS
      <3> HIDE DEF bad
      <3> QED
        BY <1>1, <3>1, SmallestSubset
    <2>2. CASE U = {}
      BY <2>1, <2>2 DEF SumStep, Unfolds
    <2>3. CASE U # {}
      <3>1. Pick(U) \in U
        BY <2>3, PickIn
      <3>2. h[U \ {Pick(U)}] = k[U \ {Pick(U)}]
        BY <2>1, <3>1
      <3> QED
        BY <2>1, <2>3, <3>2 DEF SumStep, Unfolds
    <2> QED
      BY <2>2, <2>3
  <1> QED
    BY <1>1

LEMMA SumOverIs ==
    ASSUME NEW S, IsFiniteSet(S), NEW g \in [S -> Nat], NEW h, Sums(h, g, SUBSET S)
    PROVE  SumOver(g) = h[S]
  <1> DEFINE sum == CHOOSE sum : sum = [T \in SUBSET S |-> SumStep(sum, g, T)]
  <1>1. SumOver(g) = sum[S]
    BY DEF SumOver, SumStep, Pick
  <1>2. h = [T \in SUBSET S |-> SumStep(h, g, T)]
    BY DEF Sums, Unfolds
  <1>3. sum = [T \in SUBSET S |-> SumStep(sum, g, T)]
    BY <1>2, Zenon
  <1>4. PICK k : k = [T \in SUBSET S |-> SumStep(k, g, T)] /\ SumOver(g) = k[S]
    <2> HIDE DEF sum
    <2> QED
      BY <1>1, <1>3
  <1>5. Unfolds(k, g, SUBSET S)
    BY <1>4 DEF Unfolds
  <1>6. Unfolds(h, g, SUBSET S)
    BY DEF Sums
  <1>7. \A T \in SUBSET S : k[T] = h[T]
    BY <1>5, <1>6, SumsAgree
  <1> QED
    BY <1>4, <1>7

\* The sum of g over a part of its domain.
SumIn(g, T) == SumOver([x \in T |-> g[x]])

\* A sum is a number, and it does not matter which member is added last.
LEMMA SumParts ==
    ASSUME NEW S, IsFiniteSet(S), NEW g \in [S -> Nat]
    PROVE  /\ SumIn(g, {}) = 0
           /\ \A T \in SUBSET S : SumIn(g, T) \in Nat
           /\ \A T \in SUBSET S : \A x \in T : SumIn(g, T) = g[x] + SumIn(g, T \ {x})
  <1>1. PICK h : Sums(h, g, SUBSET S)
    BY SumsExist
  <1>2. ASSUME NEW T \in SUBSET S PROVE SumIn(g, T) = h[T]
    <2> DEFINE gT == [x \in T |-> g[x]]
               hT == [U \in SUBSET T |-> h[U]]
    <2>1. IsFiniteSet(T) /\ gT \in [T -> Nat]
      BY FS_Subset
    <2>2. ASSUME NEW U \in SUBSET T PROVE hT[U] \in Nat /\ hT[U] = SumStep(hT, gT, U)
      <3>1. hT[U] = h[U] /\ h[U] \in Nat /\ h[U] = SumStep(h, g, U)
        BY <1>1 DEF Sums, Unfolds
      <3>2. CASE U = {}
        BY <3>1, <3>2 DEF SumStep
      <3>3. CASE U # {}
        <4>1. Pick(U) \in U
          BY <3>3, PickIn
        <4>2. gT[Pick(U)] = g[Pick(U)] /\ hT[U \ {Pick(U)}] = h[U \ {Pick(U)}]
          BY <4>1
        <4> QED
          BY <3>1, <3>3, <4>2 DEF SumStep
      <3> QED
        BY <3>2, <3>3
    <2>3. Sums(hT, gT, SUBSET T)
      <3>1. hT \in [SUBSET T -> Nat]
        BY <2>2
      <3> QED
        BY <2>2, <3>1 DEF Sums, Unfolds
    <2>4. SumOver(gT) = hT[T]
      <3> HIDE DEF gT, hT
      <3> QED
        BY <2>1, <2>3, SumOverIs
    <2> QED
      BY <2>4 DEF SumIn
  <1> DEFINE bad == {U \in SUBSET S : \E x \in U : h[U] # g[x] + h[U \ {x}]}
  <1>3. ASSUME bad # {} PROVE FALSE
    <2>1. PICK U \in bad : \A V \in bad : V \subseteq U => V = U
      <3>1. bad \subseteq SUBSET S
        OBVIOUS
      <3> HIDE DEF bad
      <3> QED
        BY <1>3, <3>1, SmallestSubset
    <2>2. PICK x \in U : h[U] # g[x] + h[U \ {x}]
      BY <2>1
    <2> DEFINE y == Pick(U)
    <2>3. y \in U /\ h[U] = g[y] + h[U \ {y}]
      <3>1. U # {} /\ U \in SUBSET S
        BY <2>2
      <3> QED
        BY <1>1, <3>1, PickIn DEF Sums, SumStep, Unfolds
    <2> HIDE DEF y
    <2>4. x # y
      BY <2>2, <2>3
    <2>5. U \ {y} \notin bad /\ U \ {x} \notin bad
      BY <2>1, <2>2, <2>3
    <2>6. h[U \ {y}] = g[x] + h[(U \ {y}) \ {x}] /\ h[U \ {x}] = g[y] + h[(U \ {x}) \ {y}]
      BY <2>1, <2>2, <2>3, <2>4, <2>5
    <2>7. (U \ {y}) \ {x} = (U \ {x}) \ {y}
      OBVIOUS
    <2>8. x \in S /\ y \in S /\ g[x] \in Nat /\ g[y] \in Nat /\ h[(U \ {x}) \ {y}] \in Nat
      BY <1>1, <2>1, <2>2, <2>3 DEF Sums
    <2>9. h[U] = g[y] + (g[x] + h[(U \ {x}) \ {y}])
      BY <2>3, <2>6, <2>7
    <2>10. g[x] + h[U \ {x}] = g[x] + (g[y] + h[(U \ {x}) \ {y}])
      BY <2>6
    <2> HIDE DEF bad
    <2> QED
      BY <2>2, <2>8, <2>9, <2>10
  <1>4. \A U \in SUBSET S : \A x \in U : h[U] = g[x] + h[U \ {x}]
    BY <1>3
  <1>5. h[{}] = 0
    BY <1>1 DEF Sums, SumStep, Unfolds
  <1>6. \A T \in SUBSET S : h[T] \in Nat
    BY <1>1 DEF Sums
  <1>7. \A T \in SUBSET S : \A x \in T : SumIn(g, T \ {x}) = h[T \ {x}]
    BY <1>2
  <1> QED
    BY <1>2, <1>4, <1>5, <1>6, <1>7

\* What is zero does not count.
LEMMA SumIgnoresZero ==
    ASSUME NEW S, IsFiniteSet(S), NEW g \in [S -> Nat], NEW T \in SUBSET S,
           \A x \in S \ T : g[x] = 0
    PROVE  SumIn(g, S) = SumIn(g, T)
  <1> DEFINE bad == {U \in SUBSET S : T \subseteq U /\ SumIn(g, U) # SumIn(g, T)}
  <1>1. ASSUME bad # {} PROVE FALSE
    <2>1. PICK U \in bad : \A V \in bad : V \subseteq U => V = U
      <3>1. bad \subseteq SUBSET S
        OBVIOUS
      <3> HIDE DEF bad
      <3> QED
        BY <1>1, <3>1, SmallestSubset
    <2>2. PICK x \in U : x \notin T
      <3>1. U # T /\ T \subseteq U
        BY <2>1
      <3> QED
        BY <3>1
    <2>3. SumIn(g, U \ {x}) = SumIn(g, T)
      BY <2>1, <2>2
    <2>4. SumIn(g, U) = g[x] + SumIn(g, U \ {x}) /\ g[x] = 0 /\ SumIn(g, U \ {x}) \in Nat
      BY <2>1, <2>2, SumParts
    <2> QED
      BY <2>1, <2>3, <2>4
  <1> QED
    BY <1>1

\* A sum over two sets without a common member is the sum of both.
LEMMA SumAddsUp ==
    ASSUME NEW S, IsFiniteSet(S), NEW g \in [S -> Nat],
           NEW A \in SUBSET S, NEW B \in SUBSET S, A \cap B = {}
    PROVE  SumIn(g, A \cup B) = SumIn(g, A) + SumIn(g, B)
  <1> DEFINE bad == {U \in SUBSET S : U \cap A = {} /\ SumIn(g, A \cup U) # SumIn(g, A) + SumIn(g, U)}
  <1>1. ASSUME bad # {} PROVE FALSE
    <2>1. PICK U \in bad : \A V \in bad : V \subseteq U => V = U
      <3>1. bad \subseteq SUBSET S
        OBVIOUS
      <3> HIDE DEF bad
      <3> QED
        BY <1>1, <3>1, SmallestSubset
    <2>2. SumIn(g, A) \in Nat /\ SumIn(g, {}) = 0
      BY SumParts
    <2>3. PICK x : x \in U
      <3>1. CASE U = {}
        <4>1. A \cup U = A
          BY <3>1
        <4> QED
          BY <2>1, <2>2, <3>1, <4>1
      <3> QED
        BY <3>1
    <2>4. SumIn(g, A \cup (U \ {x})) = SumIn(g, A) + SumIn(g, U \ {x})
      BY <2>1, <2>3
    <2>5. (A \cup U) \ {x} = A \cup (U \ {x})
      BY <2>1, <2>3
    <2>6. A \cup U \in SUBSET S /\ U \in SUBSET S /\ x \in A \cup U
      BY <2>1, <2>3
    <2>7. SumIn(g, A \cup U) = g[x] + SumIn(g, (A \cup U) \ {x})
      BY <2>6, SumParts
    <2>8. SumIn(g, U) = g[x] + SumIn(g, U \ {x}) /\ SumIn(g, U \ {x}) \in Nat /\ g[x] \in Nat
      BY <2>3, <2>6, SumParts
    <2>9. SumIn(g, A \cup U) = g[x] + (SumIn(g, A) + SumIn(g, U \ {x}))
      BY <2>4, <2>5, <2>7
    <2>10. SumIn(g, A \cup U) # SumIn(g, A) + SumIn(g, U)
      BY <2>1
    <2> HIDE DEF bad
    <2> QED
      BY <2>2, <2>8, <2>9, <2>10
  <1> QED
    BY <1>1

\* The members of S in groups by key; the item of a group carries the sum of its members.
Grouped(S, g, K, key, I, item, v) ==
    /\ key \in [S -> K] /\ K = {key[x] : x \in S}
    /\ item \in [K -> I] /\ I = {item[k] : k \in K}
    /\ \A j, k \in K : item[j] = item[k] => j = k
    /\ v \in [I -> Nat]
    /\ \A k \in K : v[item[k]] = SumIn(g, {x \in S : key[x] = k})

\* Summing first by a key and then over the keys gives the whole.
LEMMA SumByKey ==
    ASSUME NEW S, IsFiniteSet(S), NEW g \in [S -> Nat],
           NEW K, NEW key, NEW I, NEW item, NEW v, Grouped(S, g, K, key, I, item, v)
    PROVE  SumOver(v) = SumOver(g)
  <1> USE DEF Grouped
  <1> DEFINE with(U) == {x \in S : key[x] \in U}
             items(U) == {item[k] : k \in U}
             bad == {U \in SUBSET K : SumIn(v, items(U)) # SumIn(g, with(U))}
  <1>1. IsFiniteSet(K) /\ IsFiniteSet(I)
    <2>1. IsFiniteSet(K)
      <3>1. \A k \in K : \E x \in S : key[x] = k
        OBVIOUS
      <3>2. key \in Surjection(S, K)
        BY <3>1 DEF Surjection
      <3> QED
        BY <3>2, FS_Surjection
    <2>2. item \in Surjection(K, I)
      <3>1. \A i \in I : \E k \in K : item[k] = i
        OBVIOUS
      <3> QED
        BY <3>1 DEF Surjection
    <2> QED
      BY <2>1, <2>2, FS_Surjection
  <1>2. ASSUME bad # {} PROVE FALSE
    <2>1. PICK U \in bad : \A V \in bad : V \subseteq U => V = U
      <3>1. bad \subseteq SUBSET K
        OBVIOUS
      <3> HIDE DEF bad
      <3> QED
        BY <1>1, <1>2, <3>1, SmallestSubset
    <2>2. CASE U = {}
      <3>1. items(U) = {} /\ with(U) = {}
        BY <2>2
      <3>2. SumIn(v, {}) = 0 /\ SumIn(g, {}) = 0
        BY <1>1, SumParts
      <3> QED
        BY <2>1, <3>1, <3>2
    <2>3. CASE U # {}
      <3>1. PICK k \in U : TRUE
        BY <2>3
      <3> DEFINE R == U \ {k}
                 mine == {x \in S : key[x] = k}
      <3>2. R \in SUBSET K /\ U \in SUBSET K /\ k \in K
        BY <2>1, <3>1
      <3>3. SumIn(v, items(R)) = SumIn(g, with(R))
        <4>1. R \subseteq U /\ R # U
          BY <3>1
        <4>2. R \notin bad
          <5> HIDE DEF bad
          <5> QED
            BY <2>1, <4>1
        <4> HIDE DEF items, with
        <4> QED
          BY <3>2, <4>2
      <3>4. items(U) \in SUBSET I /\ item[k] \in items(U) /\ items(U) \ {item[k]} = items(R)
        BY <3>1, <3>2
      <3>5. SumIn(v, items(U)) = v[item[k]] + SumIn(v, items(R))
        <4>1. SumIn(v, items(U)) = v[item[k]] + SumIn(v, items(U) \ {item[k]})
          <5> HIDE DEF items
          <5> QED
            BY <1>1, <3>4, SumParts
        <4> HIDE DEF items, R
        <4> QED
          BY <3>4, <4>1
      <3>6. with(U) = mine \cup with(R) /\ mine \cap with(R) = {} /\ mine \in SUBSET S /\ with(R) \in SUBSET S
        BY <3>1, <3>2
      <3>7. SumIn(g, with(U)) = SumIn(g, mine) + SumIn(g, with(R))
        <4> HIDE DEF mine, with, R
        <4>1. SumIn(g, mine \cup with(R)) = SumIn(g, mine) + SumIn(g, with(R))
          BY <3>6, SumAddsUp
        <4> QED
          BY <3>6, <4>1
      <3>8. v[item[k]] = SumIn(g, mine)
        BY <3>2
      <3> QED
        BY <2>1, <3>3, <3>5, <3>7, <3>8
    <2> QED
      BY <2>2, <2>3
  <1>3. items(K) = I /\ with(K) = S
    OBVIOUS
  <1>4. SumIn(v, I) = SumIn(g, S)
    <2>1. SumIn(v, items(K)) = SumIn(g, with(K))
      <3>1. K \in SUBSET K /\ K \notin bad
        BY <1>2
      <3> HIDE DEF items, with
      <3> QED
        BY <3>1
    <2> HIDE DEF items, with
    <2> QED
      BY <1>3, <2>1
  <1>5. [x \in I |-> v[x]] = v /\ [x \in S |-> g[x]] = g
    OBVIOUS
  <1> QED
    BY <1>4, <1>5 DEF SumIn

-----------------------------------------------------------------------------
(* What the readings see                                                   *)

FeedRun ==
    [from : Nat, to : Nat, next : Nat, status : {"running", "succeeded", "failed", "cancelled"},
     truncated : BOOLEAN, received : BOOLEAN]

\* A run asks for complete days only, from the first on; the last run of an active source
\* was not cancelled.
RunsInRange ==
    /\ feedRuns \in Seq(FeedRun)
    /\ \A n \in DOMAIN feedRuns :
          /\ feedRuns[n].from >= 1 /\ feedRuns[n].to <= ExpectedDate
          /\ feedRuns[n].from <= feedRuns[n].next
          /\ feedRuns[n].status = "running" => feedRuns[n].next <= feedRuns[n].to
    /\ feed = "active" => feedRuns # <<>> /\ LastRun.status # "cancelled"

ReadingInv ==
    /\ day \in Nat /\ OpensOn <= day /\ day <= ClosesOn
    /\ feedOn \in Nat
    /\ feed = "active" => feedOn >= OpensOn
    /\ through \in Nat /\ through <= ExpectedDate
    /\ rowsOn \in [Days -> RowSets \cup {{}}]
    /\ RunsInRange

LEMMA ReadingInitInv == ReadingInit => ReadingInv
  <1> SUFFICES ASSUME ReadingInit PROVE ReadingInv
    OBVIOUS
  <1>2. OpensOn \in Nat /\ ClosesOn \in Nat /\ OpensOn <= ClosesOn /\ 0 <= OpensOn - FinalLag
    <2>1. OpensOn \in Nat /\ ClosesOn \in Nat /\ FinalLag \in Nat /\ ReadPeriod \in Nat
      BY ReadingAssumption
    <2>2. OpensOn >= FinalLag + 2 * ReadPeriod /\ ClosesOn >= OpensOn
      BY ReadingAssumption
    <2> QED
      BY <2>1, <2>2
  <1> USE DEF ReadingInit
  <1>1. RunsInRange
    BY DEF RunsInRange
  <1>3. rowsOn \in [Days -> RowSets \cup {{}}]
    OBVIOUS
  <1> QED
    BY <1>1, <1>2, <1>3 DEF ReadingInv, ExpectedDate

\* A last run that goes on or ends leaves the others as they are.
LEMMA LastRunChanged ==
    ASSUME RunsInRange, feedRuns # <<>>, NEW sync \in FeedRun,
           feedRuns' = [feedRuns EXCEPT ![Len(feedRuns)] = sync],
           UNCHANGED day, sync.from >= 1, sync.to <= ExpectedDate, sync.from <= sync.next,
           sync.status = "running" => sync.next <= sync.to,
           feed' = "active" => sync.status # "cancelled"
    PROVE  RunsInRange'
  <1>1. feedRuns \in Seq(FeedRun) /\ Len(feedRuns) \in DOMAIN feedRuns
    BY DEF RunsInRange
  <1>2. feedRuns' \in Seq(FeedRun) /\ Len(feedRuns') = Len(feedRuns) /\ feedRuns' # <<>>
    BY <1>1
  <1>3. feedRuns'[Len(feedRuns')] = sync
    BY <1>1, <1>2
  <1>4. \A n \in DOMAIN feedRuns' : n \in DOMAIN feedRuns /\ feedRuns'[n] \in {sync, feedRuns[n]}
    BY <1>1
  <1> QED
    BY <1>2, <1>3, <1>4 DEF RunsInRange, LastRun, ExpectedDate

LEMMA DayStoredParts ==
    ASSUME NEW sync \in FeedRun, sync.status = "running", NEW rows, NEW cut \in BOOLEAN
    PROVE  LET stored == DayStored(sync, rows, cut)
           IN  /\ stored \in FeedRun /\ stored.from = sync.from /\ stored.to = sync.to
               /\ stored.next = sync.next + 1 /\ stored.status # "cancelled"
               /\ stored.status = "running" => sync.next # sync.to
  <1> DEFINE s == IF sync.next = sync.to THEN "succeeded" ELSE sync.status
             t == IF cut THEN TRUE ELSE sync.truncated
             u == IF rows = {} THEN sync.received ELSE TRUE
  <1>1. t \in BOOLEAN /\ u \in BOOLEAN
    BY DEF FeedRun
  <1>2. s \in {"running", "succeeded"} /\ (s = "running" => sync.next # sync.to)
    OBVIOUS
  <1>3. sync.from \in Nat /\ sync.to \in Nat /\ sync.next + 1 \in Nat
    BY DEF FeedRun
  <1>4. DayStored(sync, rows, cut) = [from |-> sync.from, to |-> sync.to, next |-> sync.next + 1,
                                     status |-> s, truncated |-> t, received |-> u]
    BY Zenon DEF DayStored
  <1> HIDE DEF s, t, u
  <1> QED
    BY <1>1, <1>2, <1>3, <1>4 DEF FeedRun

LEMMA ReadingNextInv == ReadingInv /\ [ReadingNext]_readingVars => ReadingInv'
  <1> SUFFICES ASSUME ReadingInv, [ReadingNext]_readingVars PROVE ReadingInv'
    OBVIOUS
  <1>0. /\ {ReadPeriod, Correction, FinalLag, OpensOn, ClosesOn} \subseteq Nat
        /\ ReadPeriod > 0 /\ Correction > 0 /\ OpensOn >= FinalLag + 2 * ReadPeriod
    BY ReadingAssumption
  <1> USE <1>0 DEF ReadingInv
  <1>1. CASE SelectFeed
    <2> DEFINE sync == NewFeedRun(ExpectedDate - 2 * ReadPeriod + 1, ExpectedDate)
    <2>1. sync \in FeedRun /\ sync.from >= 1 /\ sync.to <= ExpectedDate /\ sync.from <= sync.next
            /\ sync.next <= sync.to /\ sync.status = "running"
      BY DEF NewFeedRun, ExpectedDate, FeedRun
    <2> HIDE DEF sync
    <2>2. feedRuns' = <<sync>>
      BY <1>1 DEF SelectFeed, sync
    <2>3. RunsInRange'
      BY <1>1, <2>1, <2>2 DEF RunsInRange, LastRun, ExpectedDate, SelectFeed
    <2> QED
      BY <1>1, <2>3 DEF SelectFeed, ExpectedDate
  <1>2. CASE RequestFeedSync
    <2> DEFINE sync == NewFeedRun(SyncFrom, ExpectedDate)
    <2>1. sync \in FeedRun /\ sync.from >= 1 /\ sync.to <= ExpectedDate /\ sync.from <= sync.next
            /\ sync.next <= sync.to /\ sync.status = "running"
      BY <1>2 DEF RequestFeedSync, NewFeedRun, SyncFrom, ExpectedDate, FeedRun
    <2> HIDE DEF sync
    <2>2. feedRuns' = Append(feedRuns, sync) /\ feedRuns \in Seq(FeedRun)
      BY <1>2 DEF RequestFeedSync, sync, RunsInRange
    <2>3. RunsInRange'
      BY <1>2, <2>1, <2>2 DEF RunsInRange, LastRun, RequestFeedSync, feedVars, ExpectedDate
    <2> QED
      BY <1>2, <2>3 DEF RequestFeedSync, feedVars, storeVars, ExpectedDate
  <1>3. ASSUME NEW rows \in RowSets, NEW cut \in BOOLEAN, StoreFeedDay(rows, cut)
        PROVE  ReadingInv'
    <2>1. /\ feedRuns \in Seq(FeedRun) /\ Len(feedRuns) \in DOMAIN feedRuns
          /\ LastRun \in FeedRun /\ LastRun.status = "running"
          /\ LastRun.from >= 1 /\ LastRun.to <= ExpectedDate
          /\ LastRun.from <= LastRun.next /\ LastRun.next <= LastRun.to
      BY <1>3 DEF StoreFeedDay, FeedSyncing, LastRun, RunsInRange
    <2> DEFINE sync == DayStored(LastRun, rows, cut)
    <2>2. feedRuns' = [feedRuns EXCEPT ![Len(feedRuns)] = sync]
      BY <1>3, <2>1 DEF StoreFeedDay, LastRun
    <2>3. /\ sync \in FeedRun /\ sync.from = LastRun.from /\ sync.to = LastRun.to
          /\ sync.next = LastRun.next + 1 /\ sync.status # "cancelled"
          /\ sync.status = "running" => LastRun.next # LastRun.to
      BY <2>1, DayStoredParts
    <2>4. LastRun.next \in Nat /\ LastRun.to \in Nat /\ LastRun.from \in Nat
      BY <2>1 DEF FeedRun
    <2> HIDE DEF sync
    <2>5. RunsInRange'
      <3>1. feedRuns # <<>> /\ RunsInRange
        BY <1>3 DEF StoreFeedDay, FeedSyncing
      <3>2. sync.from >= 1 /\ sync.to <= ExpectedDate /\ sync.from <= sync.next
        BY <2>1, <2>3, <2>4
      <3>3. sync.status = "running" => sync.next <= sync.to
        BY <2>1, <2>3, <2>4
      <3> QED
        BY <1>3, <2>2, <2>3, <3>1, <3>2, <3>3, LastRunChanged DEF StoreFeedDay
    <2>6. LastRun.next \in Days /\ LastRun.next <= ExpectedDate
      BY <2>1, <2>4 DEF Days, ExpectedDate
    <2> QED
      BY <1>3, <2>4, <2>5, <2>6 DEF StoreFeedDay, feedVars, Days, ExpectedDate
  <1>4. ASSUME NEW rejected \in BOOLEAN, FailFeedSync(rejected) PROVE ReadingInv'
    <2>1. /\ feedRuns \in Seq(FeedRun) /\ Len(feedRuns) \in DOMAIN feedRuns /\ LastRun \in FeedRun
      BY <1>4 DEF FailFeedSync, FeedSyncing, LastRun, RunsInRange
    <2>2. feedRuns' = [feedRuns EXCEPT ![Len(feedRuns)] = [LastRun EXCEPT !.status = "failed"]]
      BY <1>4, <2>1 DEF FailFeedSync, EndFeedRun, LastRun
    <2>3. RunsInRange'
      <3> DEFINE sync == [LastRun EXCEPT !.status = "failed"]
      <3>1. sync \in FeedRun /\ sync.from = LastRun.from /\ sync.to = LastRun.to /\ sync.next = LastRun.next
              /\ sync.status = "failed"
        BY <2>1 DEF FeedRun
      <3>2. LastRun.from >= 1 /\ LastRun.to <= ExpectedDate /\ LastRun.from <= LastRun.next
        BY <2>1 DEF RunsInRange, LastRun
      <3> HIDE DEF sync
      <3> QED
        BY <1>4, <2>1, <2>2, <3>1, <3>2, LastRunChanged DEF FailFeedSync, FeedSyncing, sync
    <2> QED
      BY <1>4, <2>3 DEF FailFeedSync, feedVars, storeVars, ExpectedDate
  <1>5. CASE DropFeed
    <2>1. CASE FeedSyncing
      <3>1. /\ feedRuns \in Seq(FeedRun) /\ Len(feedRuns) \in DOMAIN feedRuns /\ LastRun \in FeedRun
        BY <2>1 DEF FeedSyncing, LastRun, RunsInRange
      <3>2. feedRuns' = [feedRuns EXCEPT ![Len(feedRuns)] = [LastRun EXCEPT !.status = "cancelled"]]
        BY <1>5, <2>1, <3>1 DEF DropFeed, EndFeedRun, LastRun
      <3>3. feed' # "active"
        BY <1>5 DEF DropFeed
      <3>4. RunsInRange'
        <4> DEFINE sync == [LastRun EXCEPT !.status = "cancelled"]
        <4>1. sync \in FeedRun /\ sync.from = LastRun.from /\ sync.to = LastRun.to /\ sync.next = LastRun.next
                /\ sync.status = "cancelled"
          BY <3>1 DEF FeedRun
        <4>2. LastRun.from >= 1 /\ LastRun.to <= ExpectedDate /\ LastRun.from <= LastRun.next
          BY <3>1 DEF RunsInRange, LastRun
        <4> HIDE DEF sync
        <4> QED
          BY <1>5, <2>1, <3>1, <3>2, <3>3, <4>1, <4>2, LastRunChanged DEF DropFeed, FeedSyncing, sync
      <3> QED
        BY <1>5, <3>3, <3>4 DEF DropFeed, storeVars, ExpectedDate
    <2>2. CASE ~FeedSyncing
      BY <1>5, <2>2 DEF DropFeed, storeVars, RunsInRange, LastRun, ExpectedDate
    <2> QED
      BY <2>1, <2>2
  <1>6. CASE Relink \/ DayPasses \/ UNCHANGED readingVars
    <2>1. UNCHANGED <<feedVars, feedRuns, storeVars>>
      BY <1>6 DEF Relink, DayPasses, readingVars
    <2>2. day' \in Nat /\ OpensOn <= day' /\ day' <= ClosesOn /\ day <= day'
      BY <1>6 DEF Relink, DayPasses, readingVars
    <2>3. RunsInRange'
      <3>1. \A n \in DOMAIN feedRuns : feedRuns[n] \in FeedRun
        BY DEF RunsInRange
      <3>2. ExpectedDate <= ExpectedDate' /\ ExpectedDate \in Int /\ ExpectedDate' \in Int
        BY <2>2 DEF ExpectedDate
      <3>3. \A n \in DOMAIN feedRuns : feedRuns[n].to <= ExpectedDate'
        BY <3>1, <3>2 DEF RunsInRange, FeedRun
      <3> QED
        BY <2>1, <3>3 DEF RunsInRange, LastRun, feedVars
    <2> QED
      BY <2>1, <2>2, <2>3 DEF feedVars, storeVars, ExpectedDate
  <1> QED
    BY <1>1, <1>2, <1>3, <1>4, <1>5, <1>6 DEF ReadingNext

\* The inductive invariant of the search rows and the runs that store them: runs stay within
\* the days there are, and the last run of an active source was not cancelled (search_sync_service).
THEOREM ReadingInvariant == ReadingSpec => []ReadingInv
  BY ReadingInitInv, ReadingNextInv, PTL DEF ReadingSpec

-----------------------------------------------------------------------------
(* Rows and their sums                                                     *)

\* Rows with figures that are numbers.
Figured(F) == \A f \in F : {f[2].clicks, f[2].impressions, f[2].position} \subseteq Nat

LEMMA FactsFinite ==
    ASSUME ReadingInv, NEW W \in SUBSET Days
    PROVE  IsFiniteSet(Facts(W)) /\ Figured(Facts(W))
  <1>1. IsFiniteSet(W)
    <2>1. ClosesOn \in Nat /\ IsFiniteSet(1..ClosesOn)
      BY ReadingAssumption, FS_Interval
    <2> QED
      BY <2>1, FS_Subset DEF Days
  <1>2. \A d \in W : IsFiniteSet(rowsOn[d]) /\ \A r \in rowsOn[d] : {r.clicks, r.impressions, r.position} \subseteq Nat
    BY ReadingAssumption, FS_EmptySet DEF ReadingInv
  <1> DEFINE of == [d \in W |-> {<<d, r>> : r \in rowsOn[d]}]
  <1>3. ASSUME NEW d \in W PROVE IsFiniteSet(of[d])
    <2> DEFINE t == [r \in rowsOn[d] |-> <<d, r>>]
    <2>1. t \in Surjection(rowsOn[d], of[d])
      BY DEF Surjection
    <2> HIDE DEF t, of
    <2> QED
      BY <1>2, <2>1, FS_Surjection
  <1> DEFINE all == {of[d] : d \in W}
  <1>4. of \in Surjection(W, all)
    BY DEF Surjection
  <1>5. IsFiniteSet(all)
    <2> HIDE DEF of, all
    <2> QED
      BY <1>1, <1>4, FS_Surjection
  <1>6. IsFiniteSet(UNION all)
    <2>1. \A x \in all : IsFiniteSet(x)
      BY <1>3
    <2> HIDE DEF all
    <2> QED
      BY <1>5, <2>1, FS_UNION
  <1>7. Facts(W) = UNION all
    BY DEF Facts
  <1>8. Figured(Facts(W))
    BY <1>2 DEF Facts, Figured
  <1> QED
    BY <1>6, <1>7, <1>8

\* The figures of rows are numbers, and rows without impressions change no average.
LEMMA MetricsAgree ==
    ASSUME NEW F, IsFiniteSet(F), Figured(F)
    PROVE  /\ SnapshotMetric(F) = AggregateSearchMetrics(F)
           /\ Clicks(F) \in Nat /\ Impressions(F) \in Nat
           /\ SnapshotMetric(F).position \in Nat \X Nat
  <1> DEFINE c == [f \in F |-> f[2].clicks]
             i == [f \in F |-> f[2].impressions]
             w == [f \in F |-> f[2].position * f[2].impressions]
             P == {f \in F : f[2].impressions > 0}
  <1>1. c \in [F -> Nat] /\ i \in [F -> Nat] /\ w \in [F -> Nat]
    BY DEF Figured
  <1>2. [x \in F |-> c[x]] = c /\ [x \in F |-> i[x]] = i /\ [x \in F |-> w[x]] = w
    OBVIOUS
  <1>3. [x \in P |-> i[x]] = [f \in P |-> f[2].impressions]
        /\ [x \in P |-> w[x]] = [f \in P |-> f[2].position * f[2].impressions]
    OBVIOUS
  <1>4. Clicks(F) = SumIn(c, F) /\ Impressions(F) = SumIn(i, F) /\ Weight(F) = SumIn(w, F)
    BY <1>2 DEF Clicks, Impressions, Weight, SumIn
  <1>5. Impressions(P) = SumIn(i, P) /\ Weight(P) = SumIn(w, P)
    BY <1>3 DEF Impressions, Weight, SumIn
  <1>6. \A x \in F \ P : i[x] = 0 /\ w[x] = 0
    BY DEF Figured
  <1>7. \A x \in P : x \in F /\ i[x] > 0
    OBVIOUS
  <1>8. P \in SUBSET F /\ F \in SUBSET F
    OBVIOUS
  <1>9. P = {f \in F : f[2].impressions > 0}
    OBVIOUS
  <1> HIDE DEF c, i, w, P
  <1>10. Clicks(F) \in Nat /\ Impressions(F) \in Nat /\ Weight(F) \in Nat
    BY <1>1, <1>4, <1>8, SumParts
  <1>11. Impressions(P) = Impressions(F) /\ Weight(P) = Weight(F)
    BY <1>1, <1>4, <1>5, <1>6, <1>8, SumIgnoresZero
  <1>12. Impressions(F) = 0 <=> P = {}
    <2>1. CASE P = {}
      BY <1>1, <1>5, <1>11, <2>1, SumParts
    <2>2. CASE P # {}
      <3>1. PICK x \in P : TRUE
        BY <2>2
      <3>2. SumIn(i, P) = i[x] + SumIn(i, P \ {x}) /\ SumIn(i, P \ {x}) \in Nat /\ i[x] \in Nat
        BY <1>1, <1>7, <1>8, <3>1, SumParts
      <3>3. i[x] > 0
        BY <1>7, <3>1
      <3>4. Impressions(F) = i[x] + SumIn(i, P \ {x})
        BY <1>5, <1>11, <3>2
      <3>5. Impressions(F) # 0
        BY <3>2, <3>3, <3>4
      <3> QED
        BY <2>2, <3>5
    <2> QED
      BY <2>1, <2>2
  <1>13. AveragePosition(P) = AveragePosition(F) /\ AveragePosition(F) \in Nat \X Nat
    BY <1>10, <1>11, ReadingAssumption DEF AveragePosition
  <1> QED
    BY <1>9, <1>10, <1>12, <1>13 DEF SnapshotMetric, AggregateSearchMetrics, NoPosition

\* The snapshot and the baseline page choose the same days.
LEMMA WindowsAgree ==
    ASSUME ReadingInv, SnapshotPresent
    PROVE  /\ SnapshotCurrent = CurrentPeriod(through) /\ SnapshotPrior = PriorPeriod(through)
           /\ SnapshotWindow = BothPeriods(through)
           /\ SnapshotWindow \subseteq Days
           /\ through \in SnapshotWindow /\ through - 2 * ReadPeriod + 1 \in SnapshotWindow
           /\ feed = "active"
  <1>1. ReadPeriod \in Nat /\ ReadPeriod > 0 /\ ClosesOn \in Nat /\ through \in Nat /\ through <= ClosesOn
    BY ReadingAssumption DEF ReadingInv, ExpectedDate
  <1>2. PICK n \in DOMAIN feedRuns : feedRuns[n].from <= through - 2 * ReadPeriod + 1 /\ feed = "active"
    BY DEF SnapshotPresent, Authorities, SucceededRuns
  <1>3. feedRuns[n].from \in Nat /\ feedRuns[n].from >= 1
    <2>1. feedRuns \in Seq(FeedRun) /\ feedRuns[n].from >= 1
      BY <1>2 DEF ReadingInv, RunsInRange
    <2>2. feedRuns[n] \in FeedRun
      BY <1>2, <2>1
    <2> QED
      BY <2>1, <2>2 DEF FeedRun
  <1>4. through - 2 * ReadPeriod + 1 >= 1
    BY <1>1, <1>2, <1>3
  <1> QED
    BY <1>1, <1>2, <1>4 DEF SnapshotCurrent, SnapshotPrior, SnapshotWindow, CurrentPeriod, PriorPeriod,
                            BothPeriods, Days

\* So they report the same figures for a query.
LEMMA SameFigures ==
    ASSUME ReadingInv, SnapshotPresent, NEW q
    PROVE  LET now == SnapshotMetric(OfQuery(q, Facts(SnapshotCurrent)))
               old == SnapshotMetric(OfQuery(q, Facts(SnapshotPrior)))
           IN  /\ now = AggregateSearchMetrics(OfQuery(q, Facts(CurrentPeriod(through))))
               /\ old = AggregateSearchMetrics(OfQuery(q, Facts(PriorPeriod(through))))
               /\ {now.clicks, now.impressions, old.clicks, old.impressions} \subseteq Nat
               /\ now.position \in Nat \X Nat
  <1>1. SnapshotCurrent \in SUBSET Days /\ SnapshotPrior \in SUBSET Days
    BY WindowsAgree DEF SnapshotCurrent, SnapshotPrior
  <1>2. ASSUME NEW W \in SUBSET Days
        PROVE  /\ SnapshotMetric(OfQuery(q, Facts(W))) = AggregateSearchMetrics(OfQuery(q, Facts(W)))
               /\ Clicks(OfQuery(q, Facts(W))) \in Nat /\ Impressions(OfQuery(q, Facts(W))) \in Nat
               /\ SnapshotMetric(OfQuery(q, Facts(W))).position \in Nat \X Nat
    <2>1. IsFiniteSet(OfQuery(q, Facts(W))) /\ Figured(OfQuery(q, Facts(W)))
      <3>1. IsFiniteSet(Facts(W)) /\ Figured(Facts(W))
        BY FactsFinite
      <3>2. OfQuery(q, Facts(W)) \subseteq Facts(W)
        BY DEF OfQuery
      <3> QED
        BY <3>1, <3>2, FS_Subset DEF Figured
    <2> QED
      BY <2>1, MetricsAgree
  <1>3. \A F : SnapshotMetric(F).clicks = Clicks(F) /\ SnapshotMetric(F).impressions = Impressions(F)
    BY DEF SnapshotMetric
  <1> QED
    BY <1>1, <1>2, <1>3, WindowsAgree

LEMMA SnapshotIsBaselineHolds ==
    ASSUME ReadingInv PROVE SnapshotIsBaseline
  <1> SUFFICES ASSUME SnapshotPresent, SearchUsable(AssembledInput)
               PROVE  /\ CutoffValid(through) \/ CutoffTooOld(through)
                      /\ CutoffStored(through)
                      /\ BaselineStatus(through) \in {"ready", "no_data"}
                      /\ \A q \in Queries :
                           /\ SnapshotMetric(OfQuery(q, Facts(SnapshotCurrent)))
                                = AggregateSearchMetrics(OfQuery(q, Facts(CurrentPeriod(through))))
                           /\ SnapshotMetric(OfQuery(q, Facts(SnapshotPrior)))
                                = AggregateSearchMetrics(OfQuery(q, Facts(PriorPeriod(through))))
    BY DEF SnapshotIsBaseline
  <1>1. SnapshotWindow \subseteq siteDays
    BY DEF SearchUsable, DatesComplete, AssembledInput
  <1>0. CutoffValid(through) \/ CutoffTooOld(through)
    BY DEF CutoffValid, ReadingInv
  <1>2. CutoffStored(through)
    BY <1>1, WindowsAgree, ReadingAssumption DEF CutoffStored, ReadingInv
  <1>3. BaselineStatus(through) \in {"ready", "no_data"}
    BY <1>1, WindowsAgree DEF BaselineStatus
  <1> QED
    BY <1>0, <1>2, <1>3, SameFigures

-----------------------------------------------------------------------------
(* What the detectors find                                                 *)

LEMMA CandidateSubject ==
    ASSUME NEW type, NEW family, NEW subject, NEW words, NEW sc,
           NEW e \in Candidate(type, family, subject, words, sc)
    PROVE  e.subject = subject /\ Superseded(e).subject = subject
  BY DEF Candidate, Superseded

LEMMA LowCtrGuards ==
    ASSUME NEW s, NEW e \in HighImpressionsLowCtr(s)
    PROVE  \E q \in s.queries : /\ e.subject = <<"query", q.id>>
                                /\ q.impressions >= 100 /\ Within(1, q.position, 10) /\ LowCtr(q)
  <1>1. PICK q \in s.queries :
          /\ q.impressions >= 100 /\ Within(1, q.position, 10) /\ LowCtr(q)
          /\ e \in Candidate("high_impressions_low_ctr", "seo_snippet_update", <<"query", q.id>>, q.words,
                             SearchScores(q.impressions, "seo_snippet_update", 2 * q.relevance,
                                          AtMost(30, Shortfall(q) * 4)))
    BY DEF HighImpressionsLowCtr
  <1> QED
    BY <1>1, CandidateSubject

LEMMA RankingGuards ==
    ASSUME NEW s, NEW e \in RankingWithinReach(s)
    PROVE  \E q \in s.queries : /\ e.subject = <<"query", q.id>>
                                /\ q.impressions >= 100 /\ Within(4, q.position, 20)
  <1>1. PICK q \in s.queries :
          /\ q.impressions >= 100 /\ Within(4, q.position, 20)
          /\ e \in Candidate("ranking_within_reach", "existing_page_optimization", <<"query", q.id>>, q.words,
                             SearchScores(q.impressions, "existing_page_optimization", 2 * q.relevance,
                                          RankingSignal(q.position)))
    BY DEF RankingWithinReach
  <1> QED
    BY <1>1, CandidateSubject

LEMMA DemandGuards ==
    ASSUME NEW s, NEW e \in DemandWithoutContent(s)
    PROVE  \E q \in s.queries : /\ e.subject = <<"query", q.id>>
                                /\ q.impressions >= 50 /\ q.match = "unmatched"
  <1>1. PICK q \in s.queries :
          /\ q.impressions >= 50 /\ q.match = "unmatched"
          /\ e \in Candidate("search_demand_without_dedicated_content", "dedicated_content_creation",
                             <<"query", q.id>>, q.words,
                             SearchScores(q.impressions, "dedicated_content_creation", 2 * q.relevance,
                                          AtMost(30, q.impressions \div 20)))
    BY DEF DemandWithoutContent
  <1> QED
    BY <1>1, CandidateSubject

\* What the snapshot says of a query is what the two services count for it.
LEMMA QueryFigures ==
    ASSUME ReadingInv, SnapshotPresent, NEW q
    PROVE  LET s == QuerySnapshot(q)
               now == AggregateSearchMetrics(OfQuery(q, Facts(CurrentPeriod(through))))
               old == AggregateSearchMetrics(OfQuery(q, Facts(PriorPeriod(through))))
           IN  /\ s.id = q /\ s.match = SnapshotMatch(q)
               /\ s.impressions = now.impressions /\ s.clicks = now.clicks /\ s.position = now.position
               /\ s.priorImpressions = old.impressions /\ s.priorClicks = old.clicks
               /\ {now.clicks, now.impressions, old.clicks, old.impressions} \subseteq Nat
               /\ now.position \in Nat \X Nat
  BY SameFigures DEF QuerySnapshot

\* A query whose match is "unmatched" leads to no matched page in the current period.
LEMMA UnmatchedHasNoPage ==
    ASSUME ReadingInv, SnapshotPresent, NEW q, SnapshotMatch(q) = "unmatched"
    PROVE  ~ConfidentPage(q, through)
  <1> DEFINE G == {g \in OfQuery(q, Facts(SnapshotWindow)) : PageMatch[g[2].page] = "matched"}
             M == MatchedPages(q, SnapshotWindow)
  <1>1. M = {f[2].page : f \in G}
    BY DEF MatchedPages
  <1>2. IsFiniteSet(G)
    <2>1. IsFiniteSet(Facts(SnapshotWindow))
      BY WindowsAgree, FactsFinite
    <2>2. G \subseteq Facts(SnapshotWindow)
      BY DEF OfQuery
    <2> QED
      BY <2>1, <2>2, FS_Subset
  <1>3. IsFiniteSet(M)
    <2>1. [f \in G |-> f[2].page] \in Surjection(G, M)
      <3> HIDE DEF G, M
      <3> QED
        BY <1>1 DEF Surjection
    <2> HIDE DEF G, M
    <2> QED
      BY <1>2, <2>1, FS_Surjection
  <1>4. Cardinality(M) \in Nat /\ (Cardinality(M) = 0 <=> M = {})
    <2> HIDE DEF M
    <2> QED
      BY <1>3, FS_CardinalityType, FS_EmptySet
  <1>5. M = {}
    <2>1. Cardinality(M) # 1 /\ ~(Cardinality(M) > 1)
      BY DEF SnapshotMatch
    <2> HIDE DEF M
    <2> QED
      BY <1>4, <2>1
  <1>6. G = {}
    <2> HIDE DEF G, M
    <2> QED
      BY <1>1, <1>5
  <1>7. CurrentPeriod(through) \subseteq SnapshotWindow
    BY WindowsAgree DEF SnapshotCurrent
  <1>8. OfQuery(q, Facts(CurrentPeriod(through))) \subseteq OfQuery(q, Facts(SnapshotWindow))
    BY <1>7 DEF OfQuery, Facts
  <1> QED
    BY <1>6, <1>8 DEF ConfidentPage

LEMMA DetectedIsViewedHolds ==
    ASSUME ReadingInv PROVE DetectedIsViewed
  <1> SUFFICES ASSUME SnapshotPresent
               PROVE  /\ \A e \in HighImpressionsLowCtr(AssembledInput) :
                            "low_ctr" \in Views(e.subject[2], through)
                      /\ \A e \in RankingWithinReach(AssembledInput) :
                            "striking" \in Views(e.subject[2], through)
                      /\ \A e \in DemandWithoutContent(AssembledInput) :
                            "without_page" \in Views(e.subject[2], through)
                      /\ \A e \in SearchDecline(AssembledInput) :
                            ClicksDeclined(QuerySnapshot(e.subject[2])) =>
                                "declining" \in Views(e.subject[2], through)
    BY DEF DetectedIsViewed
  <1> DEFINE now(q) == AggregateSearchMetrics(OfQuery(q, Facts(CurrentPeriod(through))))
             old(q) == AggregateSearchMetrics(OfQuery(q, Facts(PriorPeriod(through))))
  <1>1. \A s \in AssembledInput.queries : \E q : s = QuerySnapshot(q)
    BY DEF AssembledInput
  <1>2. \A q : Views(q, through) = ClassifyQueryBaseline(now(q), old(q), ConfidentPage(q, through))
    BY DEF Views
  <1>3. \A q : /\ QuerySnapshot(q).id = q /\ QuerySnapshot(q).match = SnapshotMatch(q)
               /\ QuerySnapshot(q).impressions = now(q).impressions
               /\ QuerySnapshot(q).clicks = now(q).clicks /\ QuerySnapshot(q).position = now(q).position
               /\ QuerySnapshot(q).priorImpressions = old(q).impressions
               /\ QuerySnapshot(q).priorClicks = old(q).clicks
               /\ {now(q).clicks, now(q).impressions, old(q).clicks, old(q).impressions} \subseteq Nat
               /\ now(q).position \in Nat \X Nat
    BY QueryFigures
  <1> HIDE DEF now, old
  <1>4. ASSUME NEW e \in HighImpressionsLowCtr(AssembledInput)
        PROVE  "low_ctr" \in Views(e.subject[2], through)
    <2>1. PICK s \in AssembledInput.queries :
            e.subject = <<"query", s.id>> /\ s.impressions >= 100 /\ Within(1, s.position, 10) /\ LowCtr(s)
      BY LowCtrGuards
    <2>2. PICK q : s = QuerySnapshot(q)
      BY <1>1
    <2>3. e.subject[2] = q
      BY <1>3, <2>1, <2>2
    <2>4. now(q).impressions >= 100 /\ Within(0, now(q).position, 10)
            /\ now(q).clicks * 100 < now(q).impressions * 2
      BY <1>3, <2>1, <2>2 DEF Within, LowCtr
    <2> QED
      BY <1>2, <2>3, <2>4 DEF ClassifyQueryBaseline
  <1>5. ASSUME NEW e \in RankingWithinReach(AssembledInput)
        PROVE  "striking" \in Views(e.subject[2], through)
    <2>1. PICK s \in AssembledInput.queries :
            e.subject = <<"query", s.id>> /\ s.impressions >= 100 /\ Within(4, s.position, 20)
      BY RankingGuards
    <2>2. PICK q : s = QuerySnapshot(q)
      BY <1>1
    <2>3. e.subject[2] = q /\ now(q).impressions >= 100 /\ Within(4, now(q).position, 20)
      BY <1>3, <2>1, <2>2
    <2> QED
      BY <1>2, <2>3 DEF ClassifyQueryBaseline
  <1>6. ASSUME NEW e \in DemandWithoutContent(AssembledInput)
        PROVE  "without_page" \in Views(e.subject[2], through)
    <2>1. PICK s \in AssembledInput.queries :
            e.subject = <<"query", s.id>> /\ s.impressions >= 50 /\ s.match = "unmatched"
      BY DemandGuards
    <2>2. PICK q : s = QuerySnapshot(q)
      BY <1>1
    <2>3. e.subject[2] = q /\ now(q).impressions >= 20
      BY <1>3, <2>1, <2>2
    <2>4. ~ConfidentPage(q, through)
      BY <1>3, <2>1, <2>2, UnmatchedHasNoPage
    <2> QED
      BY <1>2, <2>3, <2>4 DEF ClassifyQueryBaseline
  <1>7. ASSUME NEW e \in SearchDecline(AssembledInput), ClicksDeclined(QuerySnapshot(e.subject[2]))
        PROVE  "declining" \in Views(e.subject[2], through)
    <2> DEFINE q == e.subject[2]
    <2>1. /\ now(q).impressions + old(q).impressions >= 100 /\ now(q).clicks < old(q).clicks
      BY <1>3, <1>7 DEF ClicksDeclined
    <2> HIDE DEF q
    <2>2. "declining" \in Views(q, through)
      BY <1>2, <2>1 DEF ClassifyQueryBaseline
    <2> QED
      BY <2>2 DEF q
  <1> QED
    BY <1>4, <1>5, <1>6, <1>7

-----------------------------------------------------------------------------
(* The lists                                                               *)

LEMMA ReadsAgreeHolds ==
    ASSUME ReadingInv PROVE ReadsAgree
  <1> DEFINE F == Facts(SnapshotWindow)
             total(items) == SumOver([i \in items |-> i.metrics.impressions])
             g == [f \in F |-> f[2].impressions]
  <1> SUFFICES ASSUME SnapshotPresent
               PROVE  /\ total(QueryItems(SnapshotWindow)) = total(PageItems(SnapshotWindow))
                      /\ \A i \in QueryItems(SnapshotWindow) :
                            /\ SnapshotMatch(i.query) = "matched" <=> i.matched = 1
                            /\ SnapshotMatch(i.query) = "unmatched" <=> i.matched = 0
    BY DEF ReadsAgree
  <1>1. IsFiniteSet(F) /\ Figured(F)
    BY WindowsAgree, FactsFinite
  <1>2. g \in [F -> Nat]
    BY <1>1 DEF Figured
  <1>3. ASSUME NEW G \in SUBSET F PROVE Impressions(G) = SumIn(g, G) /\ Impressions(G) \in Nat
    <2>1. [x \in G |-> g[x]] = [f \in G |-> f[2].impressions]
      OBVIOUS
    <2>2. Impressions(G) = SumIn(g, G)
      BY <2>1 DEF Impressions, SumIn
    <2> HIDE DEF F, g
    <2> QED
      BY <1>1, <1>2, <2>2, SumParts
  <1>4. total(QueryItems(SnapshotWindow)) = SumOver(g)
    <2> DEFINE K == {f[2].query : f \in F}
               key == [f \in F |-> f[2].query]
               item == [q \in K |-> [query |-> q, metrics |-> AggregateSearchMetrics(OfQuery(q, F)),
                                     matched |-> Cardinality(MatchedPages(q, SnapshotWindow))]]
               I == QueryItems(SnapshotWindow)
               v == [i \in I |-> i.metrics.impressions]
    <2>1. key \in [F -> K] /\ K = {key[x] : x \in F}
      OBVIOUS
    <2>2. item \in [K -> I] /\ I = {item[k] : k \in K}
      BY DEF QueryItems
    <2>3. \A j, k \in K : item[j] = item[k] => j = k
      OBVIOUS
    <2>4. \A k \in K : item[k].metrics.impressions = Impressions(OfQuery(k, F))
      BY DEF AggregateSearchMetrics
    <2>5. \A k \in K : OfQuery(k, F) = {x \in F : key[x] = k}
      BY DEF OfQuery
    <2> HIDE DEF K, key, item, I, F, g
    <2>6. \A k \in K : item[k].metrics.impressions = SumIn(g, {x \in F : key[x] = k})
                       /\ item[k].metrics.impressions \in Nat
      BY <1>3, <2>4, <2>5
    <2>7. v \in [I -> Nat] /\ \A k \in K : v[item[k]] = SumIn(g, {x \in F : key[x] = k})
      BY <2>2, <2>6
    <2> HIDE DEF v
    <2>8. Grouped(F, g, K, key, I, item, v)
      BY <2>1, <2>2, <2>3, <2>7 DEF Grouped
    <2>9. SumOver(v) = SumOver(g)
      BY <1>1, <1>2, <2>8, SumByKey
    <2> QED
      BY <2>9 DEF v, I
  <1>5. total(PageItems(SnapshotWindow)) = SumOver(g)
    <2> DEFINE K == {f[2].page : f \in F}
               key == [f \in F |-> f[2].page]
               item == [p \in K |-> [page |-> p, metrics |-> AggregateSearchMetrics(OfPage(p, F))]]
               I == PageItems(SnapshotWindow)
               v == [i \in I |-> i.metrics.impressions]
    <2>1. key \in [F -> K] /\ K = {key[x] : x \in F}
      OBVIOUS
    <2>2. item \in [K -> I] /\ I = {item[k] : k \in K}
      BY DEF PageItems
    <2>3. \A j, k \in K : item[j] = item[k] => j = k
      OBVIOUS
    <2>4. \A k \in K : item[k].metrics.impressions = Impressions(OfPage(k, F))
      BY DEF AggregateSearchMetrics
    <2>5. \A k \in K : OfPage(k, F) = {x \in F : key[x] = k}
      BY DEF OfPage
    <2> HIDE DEF K, key, item, I, F, g
    <2>6. \A k \in K : item[k].metrics.impressions = SumIn(g, {x \in F : key[x] = k})
                       /\ item[k].metrics.impressions \in Nat
      BY <1>3, <2>4, <2>5
    <2>7. v \in [I -> Nat] /\ \A k \in K : v[item[k]] = SumIn(g, {x \in F : key[x] = k})
      BY <2>2, <2>6
    <2> HIDE DEF v
    <2>8. Grouped(F, g, K, key, I, item, v)
      BY <2>1, <2>2, <2>3, <2>7 DEF Grouped
    <2>9. SumOver(v) = SumOver(g)
      BY <1>1, <1>2, <2>8, SumByKey
    <2> QED
      BY <2>9 DEF v, I
  <1>6. ASSUME NEW i \in QueryItems(SnapshotWindow)
        PROVE  /\ SnapshotMatch(i.query) = "matched" <=> i.matched = 1
               /\ SnapshotMatch(i.query) = "unmatched" <=> i.matched = 0
    <2> DEFINE M == MatchedPages(i.query, SnapshotWindow)
    <2>1. i.matched = Cardinality(M)
      BY DEF QueryItems
    <2>2. Cardinality(M) \in Nat
      <3> DEFINE G == {f \in OfQuery(i.query, F) : PageMatch[f[2].page] = "matched"}
      <3>1. G \subseteq F /\ M = {f[2].page : f \in G}
        BY DEF OfQuery, MatchedPages
      <3>2. [f \in G |-> f[2].page] \in Surjection(G, M)
        <4> HIDE DEF G, M
        <4> QED
          BY <3>1 DEF Surjection
      <3>3. IsFiniteSet(G)
        <4> HIDE DEF F, G
        <4> QED
          BY <1>1, <3>1, FS_Subset
      <3> HIDE DEF G, M
      <3> QED
        BY <3>2, <3>3, FS_Surjection, FS_CardinalityType
    <2>3. SnapshotMatch(i.query) = IF Cardinality(M) = 1 THEN "matched"
                                   ELSE IF Cardinality(M) > 1 THEN "ambiguous" ELSE "unmatched"
      BY DEF SnapshotMatch
    <2> HIDE DEF M
    <2> QED
      BY <2>1, <2>2, <2>3
  <1> QED
    BY <1>4, <1>5, <1>6

LEMMA UsableWasSyncedHolds ==
    ASSUME ReadingInv PROVE UsableWasSynced
  <1> SUFFICES ASSUME BaselineUsable
               PROVE  link = "active" /\ feed = "active" /\ LastRun.status = "succeeded"
    BY DEF UsableWasSynced
  <1>1. link = "active" /\ feed = "active" /\ ~FeedSyncing /\ LastRun.status # "failed"
    BY DEF BaselineUsable, HealthState
  <1>2. feedRuns \in Seq(FeedRun) /\ feedRuns # <<>> /\ LastRun.status # "cancelled"
    BY <1>1 DEF ReadingInv, RunsInRange
  <1>3. LastRun \in FeedRun
    BY <1>2 DEF LastRun
  <1> QED
    BY <1>1, <1>2, <1>3 DEF FeedRun, FeedSyncing

\* For any rows, days and pages: a snapshot the detectors may use holds the figures of the
\* baseline page, what a detector finds is listed in the view of that name, the lists count every
\* row once, and data called usable was synced (search_read_service, _assemble_search).
THEOREM ReadingSafetyHolds == ReadingSpec => []ReadingSafety
  <1>1. ReadingInv => ReadingSafety
    BY SnapshotIsBaselineHolds, DetectedIsViewedHolds, ReadsAgreeHolds, UsableWasSyncedHolds
       DEF ReadingSafety
  <1> QED
    BY <1>1, ReadingInvariant, PTL

=============================================================================
