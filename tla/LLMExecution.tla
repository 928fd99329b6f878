---------------------------- MODULE LLMExecution ----------------------------
(***************************************************************************)
(* One row of the LLM execution ledger: LLMExecutionService.execute         *)
(* (app/modules/llm/services/llm_execution_service.py) and its repository.  *)
(*                                                                         *)
(* Every caller that uses the same idempotency key shares the row.  A call  *)
(* takes a lease with a fresh token, asks the providers of its route one    *)
(* after the other while a heartbeat renews the lease, and commits what     *)
(* came of it under the token (a fence).  Each step is a transaction of its *)
(* own, and no transaction is open while a provider is asked.               *)
(*                                                                         *)
(* Tokens.  A caller begins a call only after its last one has ended, so it *)
(* stands for the token its call draws.  Answers.  Every provider call has  *)
(* an attempt number of its own, and the number stands for the answer.      *)
(* Time.  lease_expires_at is only compared with the clock: "live" or       *)
(* "expired".  A renewal keeps a live lease live, so it is no step here; a  *)
(* heartbeat that comes too late (LeaseExpires) is.                         *)
(***************************************************************************)
EXTENDS Naturals

CONSTANTS
    Callers,       \* concurrent calls of execute with the row's key
    NoToken,       \* lease_token IS NULL
    Fingerprints,  \* request fingerprints callers may send with the key
    NoRequest,     \* fingerprint of a row that does not exist
    Registrations, \* number of models in the route, tried in order
    MaxAttempts    \* bound: attempt numbers in a behaviour

ASSUME LLMAssumption ==
    /\ NoToken \notin Callers
    /\ NoRequest \notin Fingerprints
    /\ Registrations \in Nat \ {0}
    /\ MaxAttempts \in Nat

VARIABLES
    rowStatus,     \* status; "none" before the row exists
    fingerprint,   \* request_fingerprint
    category,      \* failure_category
    token,         \* lease_token
    lease,         \* lease_expires_at compared with now
    attemptCount,  \* attempt_count
    output,        \* validated_output_snapshot, 0 for NULL
    ledger,        \* llm_execution_attempts: number and outcome
    returned,      \* what calls have returned: request and output
    callPc,        \* what a call does next
    req,           \* the call's request fingerprint
    reg,           \* the registration the call is at
    num,           \* the call's attempt number
    outcome,       \* what the provider's answer came to
    lost           \* the heartbeat found the lease gone

rowVars == <<rowStatus, fingerprint, category, token, lease, attemptCount, output>>
callVars == <<req, reg, num, outcome, lost>>
llmVars == <<rowStatus, fingerprint, category, token, lease, attemptCount, output, ledger, returned,
          callPc, req, reg, num, outcome, lost>>

Status == {"none", "pending", "running", "completed", "failed"}
Outcome == {"ok", "transient", "permanent"}
CallPC == {"idle", "reopen", "acquire", "allocate", "call", "record", "complete", "fail"}

LLMInit ==
    /\ rowStatus = "none"
    /\ fingerprint = NoRequest
    /\ category = "none"
    /\ token = NoToken
    /\ lease = "null"
    /\ attemptCount = 0
    /\ output = 0
    /\ ledger = {}
    /\ returned = {}
    /\ callPc = [w \in Callers |-> "idle"]
    /\ req = [w \in Callers |-> NoRequest]
    /\ reg = [w \in Callers |-> 1]
    /\ num = [w \in Callers |-> 0]
    /\ outcome = [w \in Callers |-> "ok"]
    /\ lost = [w \in Callers |-> FALSE]

CallGoto(w, label) == callPc' = [callPc EXCEPT ![w] = label]

\* The call returns or raises, and its local state is gone.
EndCall(w) ==
    /\ CallGoto(w, "idle")
    /\ req' = [req EXCEPT ![w] = NoRequest]
    /\ reg' = [reg EXCEPT ![w] = 1]
    /\ num' = [num EXCEPT ![w] = 0]
    /\ outcome' = [outcome EXCEPT ![w] = "ok"]
    /\ lost' = [lost EXCEPT ![w] = FALSE]

\* The condition of fence_update, allocate_attempt and renew_lease.
Fenced(w) == token = w /\ lease = "live"

LeaseExpires ==
    /\ lease = "live"
    /\ lease' = "expired"
    /\ UNCHANGED <<rowStatus, fingerprint, category, token, attemptCount, output, ledger, returned,
                   callPc, callVars>>

-----------------------------------------------------------------------------
(* _create_or_replay and what execute makes of the row it gets.            *)

\* Mutant: a key that is used for another request replays the row.
SameRequestAny(r) == TRUE

SameRequest(r) == fingerprint = r

Create(w, r) ==
    /\ callPc[w] = "idle"
    /\ rowStatus = "none"
    /\ rowStatus' = "pending"
    /\ fingerprint' = r
    /\ req' = [req EXCEPT ![w] = r]
    /\ CallGoto(w, "acquire")
    /\ UNCHANGED <<category, token, lease, attemptCount, output, ledger, returned, reg, num,
                   outcome, lost>>

\* The row exists; one for another request raises and changes nothing.
Join(w, r) ==
    /\ callPc[w] = "idle"
    /\ rowStatus \in {"pending", "running", "failed"}
    /\ SameRequest(r)
    /\ req' = [req EXCEPT ![w] = r]
    /\ CallGoto(w, IF rowStatus = "failed" THEN "reopen" ELSE "acquire")
    /\ UNCHANGED <<rowVars, ledger, returned, reg, num, outcome, lost>>

Replay(w, r) ==
    /\ callPc[w] = "idle"
    /\ rowStatus = "completed"
    /\ SameRequest(r)
    /\ returned' = returned \cup {<<r, output>>}
    /\ UNCHANGED <<rowVars, ledger, callPc, callVars>>

\* Mutant: every failure may be tried again.
RetryableAlways == rowStatus = "failed"

Retryable == rowStatus = "failed" /\ category = "transient"

\* reopen_transient_failure; a call that cannot reopen the row raises.
Reopen(w) ==
    /\ callPc[w] = "reopen"
    /\ \/ /\ Retryable
          /\ rowStatus' = "pending"
          /\ category' = "none"
          /\ CallGoto(w, "acquire")
          /\ UNCHANGED callVars
       \/ /\ ~Retryable
          /\ EndCall(w)
          /\ UNCHANGED <<rowStatus, category>>
    /\ UNCHANGED <<fingerprint, token, lease, attemptCount, output, ledger, returned>>

-----------------------------------------------------------------------------
(* acquire_lease and allocate_attempt.                                     *)

Acquire(w) ==
    /\ callPc[w] = "acquire"
    /\ \/ /\ rowStatus \in {"pending", "running"}
          /\ lease # "live"
          /\ rowStatus' = "running"
          /\ token' = w
          /\ lease' = "live"
          /\ CallGoto(w, "allocate")
          /\ UNCHANGED callVars
       \/ /\ ~(rowStatus \in {"pending", "running"} /\ lease # "live")
          /\ EndCall(w)
          /\ UNCHANGED <<rowStatus, token, lease>>
    /\ UNCHANGED <<fingerprint, category, attemptCount, output, ledger, returned>>

\* Mutant: the number is read and not counted on.
NextNumberRead == attemptCount' = attemptCount

NextNumber == attemptCount' = attemptCount + 1

Allocate(w) ==
    /\ callPc[w] = "allocate"
    /\ \/ /\ Fenced(w)
          /\ attemptCount < MaxAttempts
          /\ NextNumber
          /\ num' = [num EXCEPT ![w] = attemptCount']
          /\ CallGoto(w, "call")
          /\ UNCHANGED <<req, reg, outcome, lost>>
       \/ /\ ~Fenced(w)
          /\ EndCall(w)
          /\ UNCHANGED attemptCount
    /\ UNCHANGED <<rowStatus, fingerprint, category, token, lease, output, ledger, returned>>

-----------------------------------------------------------------------------
(* The provider is asked; the heartbeat runs meanwhile.                    *)

HeartbeatLost(w) ==
    /\ callPc[w] = "call"
    /\ ~lost[w]
    /\ ~Fenced(w)
    /\ lost' = [lost EXCEPT ![w] = TRUE]
    /\ UNCHANGED <<rowVars, ledger, returned, callPc, req, reg, num, outcome>>

\* An answer: validated, or refused, empty or invalid.  Once the heartbeat has
\* found the lease gone the answer is dropped.
Answer(w) ==
    /\ callPc[w] = "call"
    /\ \/ /\ ~lost[w]
          /\ \E o \in {"ok", "permanent"} : outcome' = [outcome EXCEPT ![w] = o]
          /\ CallGoto(w, "record")
          /\ UNCHANGED <<req, reg, num, lost>>
       \/ /\ lost[w]
          /\ EndCall(w)
    /\ UNCHANGED <<rowVars, ledger, returned>>

\* LLMProviderError: what the heartbeat found does not matter.
ProviderError(w) ==
    /\ callPc[w] = "call"
    /\ \E o \in {"transient", "permanent"} : outcome' = [outcome EXCEPT ![w] = o]
    /\ CallGoto(w, "record")
    /\ UNCHANGED <<rowVars, ledger, returned, req, reg, num, lost>>

\* Mutant: only failed attempts are written down.
EntryFailedOnly(w) == IF outcome[w] = "ok" THEN {} ELSE {<<num[w], outcome[w]>>}

Entry(w) == {<<num[w], outcome[w]>>}

\* _record_attempt: not fenced.  A transient failure goes on to the next model.
Record(w) ==
    /\ callPc[w] = "record"
    /\ ledger' = ledger \cup Entry(w)
    /\ \/ /\ outcome[w] = "ok"
          /\ CallGoto(w, "complete")
          /\ UNCHANGED <<reg, num, lost>>
       \/ /\ outcome[w] = "transient" /\ reg[w] < Registrations
          /\ CallGoto(w, "allocate")
          /\ reg' = [reg EXCEPT ![w] = @ + 1]
          /\ num' = [num EXCEPT ![w] = 0]
          /\ lost' = [lost EXCEPT ![w] = FALSE]
       \/ /\ outcome[w] # "ok"
          /\ ~(outcome[w] = "transient" /\ reg[w] < Registrations)
          /\ CallGoto(w, "fail")
          /\ UNCHANGED <<reg, num, lost>>
    /\ UNCHANGED <<rowVars, returned, req, outcome>>

-----------------------------------------------------------------------------
(* The last transaction, fenced by the token.                              *)

\* Mutant: the answer is returned although the fence refused it.
RefusedReturns(w) == returned' = returned \cup {<<req[w], num[w]>>}

\* The fence refuses: the transaction is rolled back and the call raises.
CallRefused(w) == UNCHANGED returned

CompleteExecution(w) ==
    /\ callPc[w] = "complete"
    /\ \/ /\ Fenced(w)
          /\ rowStatus' = "completed"
          /\ output' = num[w]
          /\ token' = NoToken
          /\ lease' = "null"
          /\ returned' = returned \cup {<<req[w], num[w]>>}
       \/ /\ ~Fenced(w)
          /\ CallRefused(w)
          /\ UNCHANGED <<rowStatus, output, token, lease>>
    /\ EndCall(w)
    /\ UNCHANGED <<fingerprint, category, attemptCount, ledger>>

\* Mutant: the failed row keeps its lease.
EndLeaseKept == UNCHANGED <<token, lease>>

EndLease == token' = NoToken /\ lease' = "null"

\* The exception's class: LLMTransientError or one that is not retried.
FailureCategory(o) == o

\* _finish_failed
FailExecution(w) ==
    /\ callPc[w] = "fail"
    /\ \/ /\ Fenced(w)
          /\ rowStatus' = "failed"
          /\ category' = FailureCategory(outcome[w])
          /\ EndLease
       \/ /\ ~Fenced(w)
          /\ UNCHANGED <<rowStatus, category, token, lease>>
    /\ EndCall(w)
    /\ UNCHANGED <<fingerprint, attemptCount, output, ledger, returned>>

\* The process dies, or another exception ends the call; the lease stays.
Abort(w) ==
    /\ callPc[w] # "idle"
    /\ EndCall(w)
    /\ UNCHANGED <<rowVars, ledger, returned>>

-----------------------------------------------------------------------------
Execute(w) ==
    \/ \E r \in Fingerprints : Create(w, r) \/ Join(w, r) \/ Replay(w, r)
    \/ Reopen(w)
    \/ Acquire(w)
    \/ Allocate(w)
    \/ HeartbeatLost(w)
    \/ Answer(w)
    \/ ProviderError(w)
    \/ Record(w)
    \/ CompleteExecution(w)
    \/ FailExecution(w)
    \/ Abort(w)

LLMNext == LeaseExpires \/ \E w \in Callers : Execute(w)

LLMSpec == LLMInit /\ [][LLMNext]_llmVars

-----------------------------------------------------------------------------
\* Every column and every call's local state has its type.
LLMTypeOK ==
    /\ rowStatus \in Status
    /\ fingerprint \in Fingerprints \cup {NoRequest}
    /\ category \in {"none", "transient", "permanent"}
    /\ token \in Callers \cup {NoToken}
    /\ lease \in {"null", "live", "expired"}
    /\ attemptCount \in Nat
    /\ output \in Nat
    /\ ledger \subseteq (Nat \X Outcome)
    /\ returned \subseteq (Fingerprints \X Nat)
    /\ callPc \in [Callers -> CallPC]
    /\ req \in [Callers -> Fingerprints \cup {NoRequest}]
    /\ reg \in [Callers -> 1..Registrations]
    /\ num \in [Callers -> Nat]
    /\ outcome \in [Callers -> Outcome]
    /\ lost \in [Callers -> BOOLEAN]

\* llm_executions_lease_triplet, and more: exactly a running row is leased, so a
\* row that failed and is opened again can be leased at once.
LeaseIffRunning ==
    /\ (token # NoToken) <=> (rowStatus = "running")
    /\ (lease # "null") <=> (rowStatus = "running")

\* All calls that return with one key return one and the same output, the stored
\* one, for the request they sent, however often the providers were asked.
OneOutput ==
    \A p \in returned : rowStatus = "completed" /\ p = <<fingerprint, output>>

\* An output that is stored or returned is in the attempt ledger as a success:
\* what a provider was paid for and delivered is accounted for.
OutputIsAccounted ==
    output # 0 => <<output, "ok">> \in ledger

\* No attempt is refused by the ledger's unique key: calls that lost their lease
\* write their attempts late, but never under a number that is in use.
AttemptNumberIsFree ==
    \A w \in Callers : callPc[w] = "record" => \A o \in Outcome : <<num[w], o>> \notin ledger

\* Callers that lose their lease while a provider is asked: exactly a running execution has a
\* lease, all that return have the one stored output, which is a success of the attempt ledger, and
\* a late attempt never takes a number in use (LLMExecutionService.execute, fence_update).
ExecutionSafety ==
    /\ LLMTypeOK
    /\ LeaseIffRunning
    /\ OneOutput
    /\ OutputIsAccounted
    /\ AttemptNumberIsFree

\* A completed row and a row that failed for good are final: neither a late call
\* nor a retry changes them.
SettledIsFinal ==
    [][(rowStatus = "completed" \/ (rowStatus = "failed" /\ category = "permanent"))
          => UNCHANGED <<rowStatus, category, output>>]_llmVars

=============================================================================
