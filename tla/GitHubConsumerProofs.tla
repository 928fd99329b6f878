------------------------ MODULE GitHubConsumerProofs ------------------------
(***************************************************************************)
(* Proofs about GitHubConsumer, for any number of consumers, requests and   *)
(* executions.                                                              *)
(*                                                                         *)
(* ProcessedWasHandled is not inductive: an execution that is about to      *)
(* complete its consumer was told so by an earlier transaction              *)
(* (ExecutionKnows).  ConsumersAreFixed needs that nobody holds a consumer  *)
(* that has no row, since the unconditional writes of both failure handlers *)
(* and of _complete would create its state (RequestKnows, ExecutionKnows).  *)
(***************************************************************************)
EXTENDS GitHubConsumer, TLAPS

\* A consumer that a request is publishing has a row.
RequestKnows ==
    \A r \in Requests :
        rpc[r] \in {"send", "sendFailed"} => cur[r] \in Consumers /\ state[cur[r]] # "none"

\* A consumer that is being processed has a row, and one that is about to be
\* completed was handled.
ExecutionKnows ==
    \A x \in Executions :
        /\ xpc[x] # "idle" => job[x] \in Consumers /\ state[job[x]] # "none"
        /\ xpc[x] = "complete" => handled[job[x]]

Inv ==
    /\ TypeOK
    /\ DraftOnce
    /\ ProcessedWasHandled
    /\ RequestKnows
    /\ ExecutionKnows

\* Before the first delivery the invariant holds.
LEMMA InitInv == Init => Inv
<1> SUFFICES ASSUME Init PROVE Inv
  OBVIOUS
<1>1. TypeOK
  <2>1. crashes \in 0..MaxCrashes
    BY GitHubAssumption DEF Init
  <2>2. raw \in BOOLEAN /\ sent \in [Consumers -> BOOLEAN] /\ handled \in [Consumers -> BOOLEAN]
    BY Zenon DEF Init
  <2> QED BY <2>1, <2>2 DEF Init, TypeOK, State, RPC, XPC
<1>2. DraftOnce /\ ProcessedWasHandled /\ RequestKnows /\ ExecutionKnows
  BY DEF Init, DraftOnce, ProcessedWasHandled, RequestKnows, ExecutionKnows
<1> QED BY <1>1, <1>2 DEF Inv

-----------------------------------------------------------------------------
(* The webhook request.                                                    *)

\* Ingestion gives a row to what has none; it takes no state back.
LEMMA IngestInv ==
  ASSUME Inv, NEW r \in Requests, Ingest(r)
  PROVE  Inv'
  BY GitHubAssumption
  DEF Ingest, resultVars, executionVars, Inv, TypeOK, DraftOnce, ProcessedWasHandled,
      RequestKnows, ExecutionKnows, State, RPC, XPC

\* A request that selects, enqueues and sends holds only consumers with a row, and
\* its failure handler writes a state that is not "processed".
LEMMA PublishInv ==
  ASSUME Inv, NEW r \in Requests, Publish(r)
  PROVE  Inv'
<1> USE GitHubAssumption
    DEF resultVars, executionVars, Inv, TypeOK, DraftOnce, ProcessedWasHandled,
        RequestKnows, ExecutionKnows, State, RPC, XPC
<1>1. CASE SelectRows(r)
  BY <1>1 DEF SelectRows
<1>2. ASSUME NEW c \in Consumers, EnqueueRow(r, c) PROVE Inv'
  BY <1>2 DEF EnqueueRow, Unpublished
<1>3. CASE SendOk(r)
  <2>1. TypeOK'
    BY <1>3 DEF SendOk
  <2> QED BY <1>3, <2>1 DEF SendOk
<1>4. CASE SendFail(r)
  <2>1. PICK accepted \in {sent[cur[r]], TRUE} : sent' = [sent EXCEPT ![cur[r]] = accepted]
    BY <1>4 DEF SendFail
  <2>2. cur[r] \in Consumers
    BY <1>4 DEF SendFail
  <2>3. accepted \in BOOLEAN
    <3>1. sent[cur[r]] \in BOOLEAN
      BY <2>2
    <3> HIDE DEF Inv
    <3> QED BY <2>1, <3>1, Zenon
  <2>4. sent' \in [Consumers -> BOOLEAN]
    BY <2>1, <2>2, <2>3
  <2> QED BY <1>4, <2>4 DEF SendFail
<1>5. CASE MarkUnsent(r)
  BY <1>5 DEF MarkUnsent, EndRequest
<1> QED BY <1>1, <1>2, <1>3, <1>4, <1>5 DEF Publish

-----------------------------------------------------------------------------
(* The execution.                                                          *)

\* A claim takes a consumer with a row.
LEMMA ClaimInv ==
  ASSUME Inv, NEW x \in Executions, NEW c \in Consumers, Claim(x, c)
  PROVE  Inv'
  BY GitHubAssumption
  DEF Claim, GotoX, resultVars, requestVars, Inv, TypeOK, DraftOnce, ProcessedWasHandled,
      RequestKnows, ExecutionKnows, State, RPC, XPC

\* An execution completes what it handled, and generates a draft where there is none.
LEMMA ProcessInv ==
  ASSUME Inv, NEW x \in Executions, Process(x)
  PROVE  Inv'
<1> USE GitHubAssumption
    DEF resultVars, requestVars, Inv, TypeOK, DraftOnce, ProcessedWasHandled,
        RequestKnows, ExecutionKnows, State, RPC, XPC, GotoX
<1>1. CASE Load(x)
  <2>1. TypeOK'
    BY <1>1 DEF Load, EndExecution
  <2>2. CASE job[x] \in tracked
    BY <1>1, <2>1, <2>2 DEF Load
  <2> QED BY <1>1, <2>1, <2>2 DEF Load, EndExecution
<1>2. CASE Normalize(x)
  <2>1. CASE handled' = [handled EXCEPT ![job[x]] = TRUE] /\ GotoX(x, "complete")
    BY <1>2, <2>1 DEF Normalize
  <2>2. CASE GotoX(x, "generate") /\ UNCHANGED handled
    BY <1>2, <2>2 DEF Normalize
  <2> QED BY <1>2, <2>1, <2>2 DEF Normalize
<1>3. CASE Generate(x)
  BY <1>3 DEF Generate
<1>4. CASE Complete(x)
  BY <1>4 DEF Complete, EndExecution
<1>5. CASE Raise(x)
  BY <1>5 DEF Raise
<1>6. CASE Fail(x)
  BY <1>6 DEF Fail, FailureState, EndExecution
<1> QED BY <1>1, <1>2, <1>3, <1>4, <1>5, <1>6 DEF Process

\* Users, and processes that die, leave the consumers alone.
LEMMA OtherInv ==
  ASSUME Inv,
         \/ \E c \in Consumers : Track(c)
         \/ \E r \in Requests : CrashRequest(r)
         \/ \E x \in Executions : CrashExecution(x)
  PROVE  Inv'
<1> USE GitHubAssumption
    DEF resultVars, requestVars, executionVars, Inv, TypeOK, DraftOnce, ProcessedWasHandled,
        RequestKnows, ExecutionKnows, State, RPC, XPC
<1>1. CASE \E c \in Consumers : Track(c)
  BY <1>1 DEF Track
<1>2. ASSUME NEW r \in Requests, CrashRequest(r) PROVE Inv'
  BY <1>2 DEF CrashRequest, EndRequest
<1>3. ASSUME NEW x \in Executions, CrashExecution(x) PROVE Inv'
  BY <1>3 DEF CrashExecution, EndExecution
<1> QED BY <1>1, <1>2, <1>3

-----------------------------------------------------------------------------
\* The inductive invariant of deliveries, consumers and drafts.
THEOREM ConsumerInvariant == Spec => []Inv
<1>1. Inv /\ [Next]_vars => Inv'
  <2> SUFFICES ASSUME Inv, [Next]_vars PROVE Inv'
    OBVIOUS
  <2>1. CASE UNCHANGED vars
    BY <2>1 DEF vars, Inv, TypeOK, DraftOnce, ProcessedWasHandled, RequestKnows, ExecutionKnows
  <2>2. CASE \E c \in Consumers : Track(c)
    BY <2>2, OtherInv
  <2>3. ASSUME NEW r \in Requests, Ingest(r) \/ Publish(r) \/ CrashRequest(r) PROVE Inv'
    BY <2>3, IngestInv, PublishInv, OtherInv
  <2>4. ASSUME NEW x \in Executions,
               (\E c \in Consumers : Claim(x, c)) \/ Process(x) \/ CrashExecution(x)
        PROVE  Inv'
    BY <2>4, ClaimInv, ProcessInv, OtherInv
  <2> QED BY <2>1, <2>2, <2>3, <2>4 DEF Next
<1> QED BY <1>1, InitInv, PTL DEF Spec

\* ConsumerSafety: however often GitHub and Inngest deliver, and wherever requests and
\* executions die, a consumer has at most one draft and says "processed" only after its
\* event was handled.
THEOREM ConsumerSafetyHolds == Spec => []ConsumerSafety
  BY ConsumerInvariant, PTL DEF Inv, ConsumerSafety

\* ConsumersAreFixed: after the delivery is stored nobody gives it another consumer, not
\* even the writes that have no condition on the state.
THEOREM ConsumerFanOutIsFixed == Spec => ConsumersAreFixed
<1> DEFINE Fixed == raw => \A c \in Consumers : state[c] = "none" => state'[c] = "none"
<1>1. Inv /\ [Next]_vars => [Fixed]_vars
  <2> SUFFICES ASSUME Inv, Next PROVE Fixed
    OBVIOUS
  <2> USE DEF resultVars, requestVars, executionVars, Inv, TypeOK, RequestKnows, ExecutionKnows
  <2>1. CASE \E c \in Consumers : Track(c)
    BY <2>1 DEF Track
  <2>2. ASSUME NEW r \in Requests, Ingest(r) \/ Publish(r) \/ CrashRequest(r) PROVE Fixed
    BY <2>2 DEF Ingest, Publish, SelectRows, EnqueueRow, SendOk, SendFail, MarkUnsent,
                CrashRequest, Unpublished
  <2>3. ASSUME NEW x \in Executions,
               (\E c \in Consumers : Claim(x, c)) \/ Process(x) \/ CrashExecution(x)
        PROVE  Fixed
    BY <2>3 DEF Claim, Process, Load, Normalize, Generate, Complete, Raise, Fail, CrashExecution
  <2> QED BY <2>1, <2>2, <2>3 DEF Next
<1> QED BY <1>1, ConsumerInvariant, PTL DEF Spec, ConsumersAreFixed

=============================================================================
