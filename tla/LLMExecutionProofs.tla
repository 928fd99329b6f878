------------------------- MODULE LLMExecutionProofs -------------------------
(***************************************************************************)
(* The invariants of LLMExecution hold for any number of callers, requests  *)
(* and models, and a settled row is final.                                  *)
(*                                                                         *)
(* The invariants are not inductive by themselves.  Attempt numbers: every  *)
(* number in use, by a call or in the ledger, has been counted              *)
(* (NumbersCounted), and no two calls hold the same one (NumbersDistinct).  *)
(* The output: only a completed row has one (OutputIffCompleted), and a     *)
(* call about to complete the row has its success in the ledger            *)
(* (SuccessRecorded) and sent the row's request (RequestOfRow).             *)
(***************************************************************************)
EXTENDS LLMExecution, TLAPS

Holding(w) == callPc[w] \in {"call", "record"}

NumbersCounted ==
    /\ \A e \in ledger : e[1] \in 1..attemptCount
    /\ \A w \in Callers : Holding(w) => num[w] \in 1..attemptCount
    /\ \A w \in Callers : callPc[w] = "complete" => num[w] \in 1..attemptCount

NumbersDistinct ==
    /\ \A w, v \in Callers : w # v /\ Holding(w) /\ Holding(v) => num[w] # num[v]
    /\ \A w \in Callers : Holding(w) => \A o \in Outcome : <<num[w], o>> \notin ledger

OutputIffCompleted == output # 0 <=> rowStatus = "completed"

CategoryIffFailed == category # "none" <=> rowStatus = "failed"

SuccessRecorded ==
    \A w \in Callers : callPc[w] = "complete" => <<num[w], "ok">> \in ledger

FailureKnown ==
    \A w \in Callers : callPc[w] = "fail" => outcome[w] # "ok"

RequestOfRow ==
    /\ \A w \in Callers : callPc[w] # "idle" => req[w] = fingerprint /\ rowStatus # "none"
    /\ rowStatus # "none" => fingerprint \in Fingerprints

IInv ==
    /\ LLMTypeOK
    /\ LeaseIffRunning
    /\ OneOutput
    /\ OutputIsAccounted
    /\ NumbersCounted
    /\ NumbersDistinct
    /\ OutputIffCompleted
    /\ CategoryIffFailed
    /\ SuccessRecorded
    /\ FailureKnown
    /\ RequestOfRow

\* The row as inserted satisfies the inductive invariant.
LEMMA InitIInv == LLMInit => IInv
BY LLMAssumption
   DEF LLMInit, IInv, LLMTypeOK, LeaseIffRunning, OneOutput, OutputIsAccounted, NumbersCounted,
       NumbersDistinct, OutputIffCompleted, CategoryIffFailed, SuccessRecorded, FailureKnown,
       RequestOfRow, Holding, Status, Outcome, CallPC

LocalOK ==
    /\ callPc \in [Callers -> CallPC]
    /\ req \in [Callers -> Fingerprints \cup {NoRequest}]
    /\ reg \in [Callers -> 1..Registrations]
    /\ num \in [Callers -> Nat]
    /\ outcome \in [Callers -> Outcome]
    /\ lost \in [Callers -> BOOLEAN]

\* A call that leaves resets its local state to values of the right type.
LEMMA LeaveType == ASSUME LLMTypeOK, NEW w \in Callers, EndCall(w) PROVE LocalOK'
<1>1. 1 \in 1..Registrations
      BY LLMAssumption
<1>2. QED BY <1>1 DEF LLMTypeOK, LocalOK, EndCall, CallGoto, CallPC, Outcome

\* Types are kept by every step of the service.
LEMMA TypeStep == IInv /\ [LLMNext]_llmVars => LLMTypeOK'
<1> SUFFICES ASSUME IInv, [LLMNext]_llmVars PROVE LLMTypeOK'
    OBVIOUS
<1> USE LLMAssumption DEF IInv, LLMTypeOK, LocalOK, Status, Outcome, CallPC, CallGoto
<1>1. CASE UNCHANGED llmVars
      BY <1>1 DEF llmVars
<1>2. CASE LeaseExpires
      BY <1>2 DEF LeaseExpires, callVars
<1>3. ASSUME NEW w \in Callers, Execute(w) PROVE LLMTypeOK'
      <2>1. ASSUME NEW r \in Fingerprints, Create(w, r) PROVE LLMTypeOK'
            BY <2>1 DEF Create
      <2>2. ASSUME NEW r \in Fingerprints, Join(w, r) PROVE LLMTypeOK'
            BY <2>2 DEF Join, rowVars
      <2>3. ASSUME NEW r \in Fingerprints, Replay(w, r) PROVE LLMTypeOK'
            BY <2>3 DEF Replay, rowVars, callVars
      <2>4. CASE Reopen(w)
            BY <2>4, LeaveType DEF Reopen, callVars
      <2>5. CASE Acquire(w)
            BY <2>5, LeaveType DEF Acquire, callVars
      <2>6. CASE Allocate(w)
            BY <2>6, LeaveType DEF Allocate, NextNumber
      <2>7. CASE HeartbeatLost(w)
            BY <2>7 DEF HeartbeatLost, rowVars
      <2>8. CASE Answer(w)
            BY <2>8, LeaveType DEF Answer, rowVars
      <2>9. CASE ProviderError(w)
            BY <2>9 DEF ProviderError, rowVars
      <2>10. CASE Record(w)
             <3>1. <<num[w], outcome[w]>> \in Nat \X Outcome
                   OBVIOUS
             <3>2. ledger' \subseteq Nat \X Outcome
                   BY <2>10, <3>1 DEF Record, Entry
             <3>3. reg' \in [Callers -> 1..Registrations]
                   <4>1. CASE UNCHANGED reg
                         BY <4>1
                   <4>2. CASE reg[w] < Registrations /\ reg' = [reg EXCEPT ![w] = @ + 1]
                         <5>1. reg[w] + 1 \in 1..Registrations
                               BY <4>2
                         <5>2. QED BY <4>2, <5>1
                   <4>3. QED BY <2>10, <4>1, <4>2 DEF Record
             <3>4. callPc' \in [Callers -> CallPC]
                   BY <2>10 DEF Record
             <3>5. num' \in [Callers -> Nat] /\ lost' \in [Callers -> BOOLEAN]
                   <4>1. CASE UNCHANGED <<num, lost>>
                         BY <4>1
                   <4>2. CASE num' = [num EXCEPT ![w] = 0] /\ lost' = [lost EXCEPT ![w] = FALSE]
                         BY <4>2
                   <4>3. QED BY <2>10, <4>1, <4>2 DEF Record
             <3>6. UNCHANGED <<rowVars, returned, req, outcome>>
                   BY <2>10 DEF Record
             <3>7. QED BY <3>2, <3>3, <3>4, <3>5, <3>6 DEF rowVars
      <2>11. CASE CompleteExecution(w)
             <3>1. req[w] \in Fingerprints
                   BY <2>11 DEF CompleteExecution, RequestOfRow
             <3>2. QED BY <2>11, <3>1, LeaveType DEF CompleteExecution, CallRefused
      <2>12. CASE FailExecution(w)
             BY <2>12, LeaveType DEF FailExecution, EndLease, FailureCategory, FailureKnown
      <2>13. CASE Abort(w)
             BY <2>13, LeaveType DEF Abort, rowVars
      <2>14. QED BY <1>3, <2>1, <2>2, <2>3, <2>4, <2>5, <2>6, <2>7, <2>8, <2>9, <2>10, <2>11,
                    <2>12, <2>13 DEF Execute
<1>4. QED BY <1>1, <1>2, <1>3 DEF LLMNext

\* The lease, the category and the request of the row.
LEMMA RowStep ==
    IInv /\ [LLMNext]_llmVars
      => LeaseIffRunning' /\ CategoryIffFailed' /\ OutputIffCompleted' /\ FailureKnown'
<1> SUFFICES ASSUME IInv, [LLMNext]_llmVars
             PROVE LeaseIffRunning' /\ CategoryIffFailed' /\ OutputIffCompleted' /\ FailureKnown'
    OBVIOUS
<1> DEFINE RowInv == LeaseIffRunning /\ CategoryIffFailed /\ OutputIffCompleted /\ FailureKnown
<1> USE LLMAssumption DEF IInv, LLMTypeOK, LeaseIffRunning, CategoryIffFailed, OutputIffCompleted,
        FailureKnown, Status, Outcome, CallPC, CallGoto
<1>1. CASE UNCHANGED llmVars
      BY <1>1 DEF llmVars
<1>2. CASE LeaseExpires
      BY <1>2 DEF LeaseExpires, callVars
<1>3. ASSUME NEW w \in Callers, Execute(w) PROVE RowInv'
      <2>1. ASSUME NEW r \in Fingerprints, Create(w, r) PROVE RowInv'
            BY <2>1 DEF Create
      <2>2. ASSUME NEW r \in Fingerprints, Join(w, r) PROVE RowInv'
            BY <2>2 DEF Join, rowVars
      <2>3. ASSUME NEW r \in Fingerprints, Replay(w, r) PROVE RowInv'
            BY <2>3 DEF Replay, rowVars, callVars
      <2>4. CASE Reopen(w)
            BY <2>4 DEF Reopen, Retryable, EndCall, callVars
      <2>5. CASE Acquire(w)
            BY <2>5 DEF Acquire, EndCall, callVars
      <2>6. CASE Allocate(w)
            BY <2>6 DEF Allocate, EndCall
      <2>7. CASE HeartbeatLost(w)
            BY <2>7 DEF HeartbeatLost, rowVars
      <2>8. CASE Answer(w)
            BY <2>8 DEF Answer, EndCall, rowVars
      <2>9. CASE ProviderError(w)
            BY <2>9 DEF ProviderError, rowVars
      <2>10. CASE Record(w)
             BY <2>10 DEF Record, rowVars
      <2>11. CASE CompleteExecution(w)
             <3>1. num[w] # 0
                   BY <2>11 DEF CompleteExecution, NumbersCounted
             <3>2. QED BY <2>11, <3>1 DEF CompleteExecution, Fenced, EndCall
      <2>12. CASE FailExecution(w)
             BY <2>12 DEF FailExecution, Fenced, EndLease, FailureCategory, EndCall
      <2>13. CASE Abort(w)
             BY <2>13 DEF Abort, EndCall, rowVars
      <2>14. QED BY <1>3, <2>1, <2>2, <2>3, <2>4, <2>5, <2>6, <2>7, <2>8, <2>9, <2>10, <2>11,
                    <2>12, <2>13 DEF Execute
<1>4. QED BY <1>1, <1>2, <1>3 DEF LLMNext

\* A call works on the request of the row it found.
LEMMA RequestStep == IInv /\ [LLMNext]_llmVars => RequestOfRow'
<1> SUFFICES ASSUME IInv, [LLMNext]_llmVars PROVE RequestOfRow'
    OBVIOUS
<1> USE LLMAssumption DEF IInv, LLMTypeOK, RequestOfRow, Status, CallPC, CallGoto
<1>1. CASE UNCHANGED llmVars
      BY <1>1 DEF llmVars
<1>2. CASE LeaseExpires
      BY <1>2 DEF LeaseExpires, callVars
<1>3. ASSUME NEW w \in Callers, Execute(w) PROVE RequestOfRow'
      <2>1. ASSUME NEW r \in Fingerprints, Create(w, r) PROVE RequestOfRow'
            BY <2>1 DEF Create
      <2>2. ASSUME NEW r \in Fingerprints, Join(w, r) PROVE RequestOfRow'
            BY <2>2 DEF Join, SameRequest, rowVars
      <2>3. ASSUME NEW r \in Fingerprints, Replay(w, r) PROVE RequestOfRow'
            BY <2>3 DEF Replay, rowVars, callVars
      <2>4. CASE Reopen(w)
            BY <2>4 DEF Reopen, EndCall, callVars
      <2>5. CASE Acquire(w)
            BY <2>5 DEF Acquire, EndCall, callVars
      <2>6. CASE Allocate(w)
            BY <2>6 DEF Allocate, EndCall
      <2>7. CASE HeartbeatLost(w)
            BY <2>7 DEF HeartbeatLost, rowVars
      <2>8. CASE Answer(w)
            BY <2>8 DEF Answer, EndCall, rowVars
      <2>9. CASE ProviderError(w)
            BY <2>9 DEF ProviderError, rowVars
      <2>10. CASE Record(w)
             BY <2>10 DEF Record, rowVars
      <2>11. CASE CompleteExecution(w)
             BY <2>11 DEF CompleteExecution, EndCall
      <2>12. CASE FailExecution(w)
             BY <2>12 DEF FailExecution, EndCall
      <2>13. CASE Abort(w)
             BY <2>13 DEF Abort, EndCall, rowVars
      <2>14. QED BY <1>3, <2>1, <2>2, <2>3, <2>4, <2>5, <2>6, <2>7, <2>8, <2>9, <2>10, <2>11,
                    <2>12, <2>13 DEF Execute
<1>4. QED BY <1>1, <1>2, <1>3 DEF LLMNext

\* Attempt numbers: what is counted, what calls hold and what the ledger has.
LEMMA NumberStep == IInv /\ [LLMNext]_llmVars => NumbersCounted' /\ NumbersDistinct'
<1> SUFFICES ASSUME IInv, [LLMNext]_llmVars PROVE NumbersCounted' /\ NumbersDistinct'
    OBVIOUS
<1> DEFINE NumInv == NumbersCounted /\ NumbersDistinct
<1> USE LLMAssumption DEF IInv, LLMTypeOK, NumbersCounted, NumbersDistinct, Holding, CallPC, CallGoto
<1>1. CASE UNCHANGED llmVars
      BY <1>1 DEF llmVars
<1>2. CASE LeaseExpires
      BY <1>2 DEF LeaseExpires, callVars
<1>3. ASSUME NEW w \in Callers, Execute(w) PROVE NumInv'
      <2>1. ASSUME NEW r \in Fingerprints, Create(w, r) PROVE NumInv'
            BY <2>1 DEF Create
      <2>2. ASSUME NEW r \in Fingerprints, Join(w, r) PROVE NumInv'
            BY <2>2 DEF Join, rowVars
      <2>3. ASSUME NEW r \in Fingerprints, Replay(w, r) PROVE NumInv'
            BY <2>3 DEF Replay, rowVars, callVars
      <2>4. CASE Reopen(w)
            BY <2>4 DEF Reopen, EndCall, callVars
      <2>5. CASE Acquire(w)
            BY <2>5 DEF Acquire, EndCall, callVars
      <2>6. CASE Allocate(w)
            BY <2>6 DEF Allocate, NextNumber, EndCall
      <2>7. CASE HeartbeatLost(w)
            BY <2>7 DEF HeartbeatLost, rowVars
      <2>8. CASE Answer(w)
            BY <2>8 DEF Answer, EndCall, rowVars
      <2>9. CASE ProviderError(w)
            BY <2>9 DEF ProviderError, rowVars
      <2>10. CASE Record(w)
             BY <2>10 DEF Record, Entry, rowVars
      <2>11. CASE CompleteExecution(w)
             BY <2>11 DEF CompleteExecution, EndCall
      <2>12. CASE FailExecution(w)
             BY <2>12 DEF FailExecution, EndCall
      <2>13. CASE Abort(w)
             BY <2>13 DEF Abort, EndCall, rowVars
      <2>14. QED BY <1>3, <2>1, <2>2, <2>3, <2>4, <2>5, <2>6, <2>7, <2>8, <2>9, <2>10, <2>11,
                    <2>12, <2>13 DEF Execute
<1>4. QED BY <1>1, <1>2, <1>3 DEF LLMNext

\* The output is one of the ledger's successes, and all returns agree on it.
LEMMA OutputStep ==
    IInv /\ [LLMNext]_llmVars => OneOutput' /\ OutputIsAccounted' /\ SuccessRecorded'
<1> SUFFICES ASSUME IInv, [LLMNext]_llmVars
             PROVE OneOutput' /\ OutputIsAccounted' /\ SuccessRecorded'
    OBVIOUS
<1> DEFINE OutInv == OneOutput /\ OutputIsAccounted /\ SuccessRecorded
<1> USE LLMAssumption DEF IInv, LLMTypeOK, OneOutput, OutputIsAccounted, SuccessRecorded,
        LeaseIffRunning, CallPC, CallGoto
<1>1. CASE UNCHANGED llmVars
      BY <1>1 DEF llmVars
<1>2. CASE LeaseExpires
      BY <1>2 DEF LeaseExpires, callVars
<1>3. ASSUME NEW w \in Callers, Execute(w) PROVE OutInv'
      <2>1. ASSUME NEW r \in Fingerprints, Create(w, r) PROVE OutInv'
            BY <2>1 DEF Create
      <2>2. ASSUME NEW r \in Fingerprints, Join(w, r) PROVE OutInv'
            BY <2>2 DEF Join, rowVars
      <2>3. ASSUME NEW r \in Fingerprints, Replay(w, r) PROVE OutInv'
            BY <2>3 DEF Replay, SameRequest, rowVars, callVars
      <2>4. CASE Reopen(w)
            BY <2>4 DEF Reopen, Retryable, EndCall, callVars
      <2>5. CASE Acquire(w)
            BY <2>5 DEF Acquire, EndCall, callVars
      <2>6. CASE Allocate(w)
            BY <2>6 DEF Allocate, EndCall
      <2>7. CASE HeartbeatLost(w)
            BY <2>7 DEF HeartbeatLost, rowVars
      <2>8. CASE Answer(w)
            BY <2>8 DEF Answer, EndCall, rowVars
      <2>9. CASE ProviderError(w)
            BY <2>9 DEF ProviderError, rowVars
      <2>10. CASE Record(w)
             BY <2>10 DEF Record, Entry, rowVars
      <2>11. CASE CompleteExecution(w)
             BY <2>11 DEF CompleteExecution, CallRefused, Fenced, RequestOfRow, EndCall
      <2>12. CASE FailExecution(w)
             BY <2>12 DEF FailExecution, Fenced, EndCall
      <2>13. CASE Abort(w)
             BY <2>13 DEF Abort, EndCall, rowVars
      <2>14. QED BY <1>3, <2>1, <2>2, <2>3, <2>4, <2>5, <2>6, <2>7, <2>8, <2>9, <2>10, <2>11,
                    <2>12, <2>13 DEF Execute
<1>4. QED BY <1>1, <1>2, <1>3 DEF LLMNext

\* The inductive invariant holds in every reachable state of the ledger row.
THEOREM LLMInvariant == LLMSpec => []IInv
<1>1. IInv /\ [LLMNext]_llmVars => IInv'
      BY TypeStep, RowStep, RequestStep, NumberStep, OutputStep DEF IInv
<1>2. QED BY InitIInv, <1>1, PTL DEF LLMSpec

\* LLMTypeOK: every column keeps its type, for any number of callers.
THEOREM LLMTyped == LLMSpec => []LLMTypeOK
<1>1. IInv => LLMTypeOK
      BY DEF IInv
<1>2. QED BY LLMInvariant, <1>1, PTL

\* LeaseIffRunning: exactly a running row is leased.
THEOREM LLMLeaseIffRunning == LLMSpec => []LeaseIffRunning
<1>1. IInv => LeaseIffRunning
      BY DEF IInv
<1>2. QED BY LLMInvariant, <1>1, PTL

\* OneOutput: all calls that return agree with the stored output.
THEOREM LLMOneOutput == LLMSpec => []OneOutput
<1>1. IInv => OneOutput
      BY DEF IInv
<1>2. QED BY LLMInvariant, <1>1, PTL

\* OutputIsAccounted: the stored output is a success of the attempt ledger.
THEOREM LLMOutputIsAccounted == LLMSpec => []OutputIsAccounted
<1>1. IInv => OutputIsAccounted
      BY DEF IInv
<1>2. QED BY LLMInvariant, <1>1, PTL

\* AttemptNumberIsFree: no attempt is written under a number in use.
THEOREM LLMAttemptNumberIsFree == LLMSpec => []AttemptNumberIsFree
<1>1. IInv => AttemptNumberIsFree
      BY DEF IInv, NumbersDistinct, Holding, AttemptNumberIsFree
<1>2. QED BY LLMInvariant, <1>1, PTL

\* SettledIsFinal: a completed row and a permanently failed one stay as they are,
\* because neither holds a lease and only a transient failure is opened again.
THEOREM LLMSettledIsFinal == LLMSpec => SettledIsFinal
<1> DEFINE Frozen == (rowStatus = "completed" \/ (rowStatus = "failed" /\ category = "permanent"))
                        => UNCHANGED <<rowStatus, category, output>>
<1>1. IInv /\ [LLMNext]_llmVars => [Frozen]_llmVars
      <2> SUFFICES ASSUME IInv, LLMNext PROVE Frozen
          BY DEF llmVars
      <2> USE LLMAssumption DEF IInv, LLMTypeOK, LeaseIffRunning
      <2>1. CASE LeaseExpires
            BY <2>1 DEF LeaseExpires
      <2>2. ASSUME NEW w \in Callers, Execute(w) PROVE Frozen
            <3>1. ASSUME NEW r \in Fingerprints, Create(w, r) \/ Join(w, r) \/ Replay(w, r)
                  PROVE Frozen
                  BY <3>1 DEF Create, Join, Replay, rowVars
            <3>2. CASE Reopen(w)
                  BY <3>2 DEF Reopen, Retryable
            <3>3. CASE Acquire(w)
                  BY <3>3 DEF Acquire
            <3>4. CASE Allocate(w) \/ HeartbeatLost(w) \/ Answer(w)
                  BY <3>4 DEF Allocate, HeartbeatLost, Answer, rowVars
            <3>5. CASE ProviderError(w) \/ Record(w) \/ Abort(w)
                  BY <3>5 DEF ProviderError, Record, Abort, rowVars
            <3>6. CASE CompleteExecution(w)
                  BY <3>6 DEF CompleteExecution, Fenced
            <3>7. CASE FailExecution(w)
                  BY <3>7 DEF FailExecution, Fenced
            <3>8. QED BY <2>2, <3>1, <3>2, <3>3, <3>4, <3>5, <3>6, <3>7 DEF Execute
      <2>3. QED BY <2>1, <2>2 DEF LLMNext
<1>2. QED BY LLMInvariant, <1>1, PTL DEF LLMSpec, SettledIsFinal

\* ExecutionSafety: leases match the status, callers return one output, which is accounted for, and
\* attempt numbers never collide, for any number of callers.
THEOREM LLMExecutionSafety == LLMSpec => []ExecutionSafety
  BY LLMTyped, LLMLeaseIffRunning, LLMOneOutput, LLMOutputIsAccounted,
     LLMAttemptNumberIsFree, PTL
  DEF ExecutionSafety

=============================================================================
