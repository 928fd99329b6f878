--------------------------- MODULE GitHubConsumer ---------------------------
(***************************************************************************)
(* One GitHub delivery and its workspace consumers: ingestion               *)
(* (app/services/github_webhook.py), the publication of one Inngest event   *)
(* per consumer (app/workflows/publisher.py) and the workflow that turns    *)
(* the event into a draft (app/workflows/github.py and                      *)
(* EventToDraftService).                                                    *)
(*                                                                         *)
(* GitHub may deliver the same delivery id again, so several requests may   *)
(* handle it at once; Inngest runs the function at least once per event and *)
(* retries it, so several executions may process one consumer.  The         *)
(* consumer's processing_state is written by both, in separate transactions *)
(* and mostly without a condition on the state that is there.               *)
(*                                                                         *)
(* A consumer is identified with the tracked repository (of one workspace)  *)
(* it is created for: (workspace_id, raw_event_id) is unique.               *)
(***************************************************************************)
EXTENDS Naturals

CONSTANTS
    Consumers,   \* repositories that may track the delivery's repository
    Requests,    \* concurrent webhook requests with the delivery's id
    Executions,  \* concurrent executions of GitHubConsumerWorkflow.process
    NoConsumer,  \* cur of a request or job of an execution that has none
    MaxCrashes   \* bound: crashes of requests and executions in a behaviour

ASSUME GitHubAssumption ==
    /\ NoConsumer \notin Consumers
    /\ MaxCrashes \in Nat

VARIABLES
    tracked,   \* repositories with is_tracked and the delivery's full name
    raw,       \* the raw event is stored
    state,     \* processing_state; "none" without a consumer row
    sent,      \* Inngest has accepted the consumer's event
    handled,   \* the event was judged: ignored, scored out or turned into a draft
    drafts,    \* drafts inserted for the consumer
    rpc,       \* what a request does next
    rows,      \* consumers a request has selected and not come to yet
    cur,       \* the consumer a request is publishing
    xpc,       \* what an execution does next
    job,       \* the consumer of an execution
    crashes

requestVars == <<rpc, rows, cur>>
executionVars == <<xpc, job>>
resultVars == <<handled, drafts>>
vars == <<tracked, raw, state, sent, handled, drafts, rpc, rows, cur, xpc, job, crashes>>

State == {"none", "pending", "enqueued", "processed", "failed"}
Unpublished == {"pending", "failed"}
RPC == {"idle", "select", "enqueue", "send", "sendFailed"}
XPC == {"idle", "load", "normalize", "generate", "complete", "fail"}

Init ==
    /\ tracked \in SUBSET Consumers
    /\ raw = FALSE
    /\ state = [c \in Consumers |-> "none"]
    /\ sent = [c \in Consumers |-> FALSE]
    /\ handled = [c \in Consumers |-> FALSE]
    /\ drafts = [c \in Consumers |-> 0]
    /\ rpc = [r \in Requests |-> "idle"]
    /\ rows = [r \in Requests |-> {}]
    /\ cur = [r \in Requests |-> NoConsumer]
    /\ xpc = [x \in Executions |-> "idle"]
    /\ job = [x \in Executions |-> NoConsumer]
    /\ crashes = 0

\* Users start and stop tracking a repository.
Track(c) ==
    /\ tracked' = IF c \in tracked THEN tracked \ {c} ELSE tracked \cup {c}
    /\ UNCHANGED <<raw, state, sent, resultVars, requestVars, executionVars, crashes>>

-----------------------------------------------------------------------------
(* The webhook request.                                                    *)

EndRequest(r) ==
    /\ rpc' = [rpc EXCEPT ![r] = "idle"]
    /\ rows' = [rows EXCEPT ![r] = {}]
    /\ cur' = [cur EXCEPT ![r] = NoConsumer]

\* Mutant: a repeated delivery also gets consumers for what is tracked by now.
IngestAgain(r) ==
    /\ rpc[r] = "idle"
    /\ raw' = TRUE
    /\ state' = [c \in Consumers |->
                   IF c \in tracked /\ state[c] = "none" THEN "pending" ELSE state[c]]
    /\ rpc' = [rpc EXCEPT ![r] = "select"]
    /\ UNCHANGED <<tracked, sent, resultVars, rows, cur, executionVars, crashes>>

\* ingest_github_webhook, one transaction.  The unique delivery id makes a
\* second request wait for the first and then find the event stored.
Ingest(r) ==
    /\ rpc[r] = "idle"
    /\ raw' = TRUE
    /\ state' = [c \in Consumers |-> IF ~raw /\ c \in tracked THEN "pending" ELSE state[c]]
    /\ rpc' = [rpc EXCEPT ![r] = "select"]
    /\ UNCHANGED <<tracked, sent, resultVars, rows, cur, executionVars, crashes>>

\* publish_pending_consumers: the SELECT.
SelectRows(r) ==
    /\ rpc[r] = "select"
    /\ rows' = [rows EXCEPT ![r] = {c \in Consumers : state[c] \in Unpublished}]
    /\ rpc' = [rpc EXCEPT ![r] = IF rows'[r] = {} THEN "idle" ELSE "enqueue"]
    /\ UNCHANGED <<tracked, raw, state, sent, resultVars, cur, executionVars, crashes>>

\* The conditional UPDATE and its commit: whoever changes the row publishes it.
EnqueueRow(r, c) ==
    /\ rpc[r] = "enqueue"
    /\ c \in rows[r]
    /\ rows' = [rows EXCEPT ![r] = @ \ {c}]
    /\ \/ /\ state[c] \in Unpublished
          /\ state' = [state EXCEPT ![c] = "enqueued"]
          /\ cur' = [cur EXCEPT ![r] = c]
          /\ rpc' = [rpc EXCEPT ![r] = "send"]
       \/ /\ state[c] \notin Unpublished
          /\ rpc' = [rpc EXCEPT ![r] = IF rows[r] = {c} THEN "idle" ELSE "enqueue"]
          /\ UNCHANGED <<state, cur>>
    /\ UNCHANGED <<tracked, raw, sent, resultVars, executionVars, crashes>>

SendOk(r) ==
    /\ rpc[r] = "send"
    /\ sent' = [sent EXCEPT ![cur[r]] = TRUE]
    /\ cur' = [cur EXCEPT ![r] = NoConsumer]
    /\ rpc' = [rpc EXCEPT ![r] = IF rows[r] = {} THEN "idle" ELSE "enqueue"]
    /\ UNCHANGED <<tracked, raw, state, resultVars, rows, executionVars, crashes>>

\* publish raised; Inngest may have the event all the same.
SendFail(r) ==
    /\ rpc[r] = "send"
    /\ \E accepted \in {sent[cur[r]], TRUE} : sent' = [sent EXCEPT ![cur[r]] = accepted]
    /\ rpc' = [rpc EXCEPT ![r] = "sendFailed"]
    /\ UNCHANGED <<tracked, raw, state, resultVars, rows, cur, executionVars, crashes>>

\* The handler's UPDATE has no condition on the state, and the exception leaves
\* the rest of the rows as they are.
MarkUnsent(r) ==
    /\ rpc[r] = "sendFailed"
    /\ state' = [state EXCEPT ![cur[r]] = "failed"]
    /\ EndRequest(r)
    /\ UNCHANGED <<tracked, raw, sent, resultVars, executionVars, crashes>>

CrashRequest(r) ==
    /\ rpc[r] # "idle"
    /\ crashes < MaxCrashes
    /\ crashes' = crashes + 1
    /\ EndRequest(r)
    /\ UNCHANGED <<tracked, raw, state, sent, resultVars, executionVars>>

-----------------------------------------------------------------------------
(* GitHubConsumerWorkflow.process.                                         *)

EndExecution(x) ==
    /\ xpc' = [xpc EXCEPT ![x] = "idle"]
    /\ job' = [job EXCEPT ![x] = NoConsumer]

GotoX(x, label) == xpc' = [xpc EXCEPT ![x] = label]

\* _claim, up to its commit.  It marks the row but excludes nobody: a consumer
\* that another execution is processing is claimed again.  A processed consumer
\* is left alone.
Claim(x, c) ==
    /\ xpc[x] = "idle"
    /\ sent[c]
    /\ state[c] \in {"pending", "enqueued", "failed"}
    /\ state' = [state EXCEPT ![c] = "enqueued"]
    /\ job' = [job EXCEPT ![x] = c]
    /\ GotoX(x, "load")
    /\ UNCHANGED <<tracked, raw, sent, resultVars, requestVars, crashes>>

\* _claim, the second SELECT: a repository that is not eligible any more raises
\* outside the try block, and the row stays enqueued.
Load(x) ==
    /\ xpc[x] = "load"
    /\ \/ job[x] \in tracked /\ GotoX(x, "normalize") /\ UNCHANGED job
       \/ job[x] \notin tracked /\ EndExecution(x)
    /\ UNCHANGED <<tracked, raw, state, sent, resultVars, requestVars, crashes>>

\* An event that is not normalized or not on the tracked branch is ignored;
\* otherwise _persist_normalized stores it, unless it is stored already.
Normalize(x) ==
    /\ xpc[x] = "normalize"
    /\ \/ /\ handled' = [handled EXCEPT ![job[x]] = TRUE]
          /\ GotoX(x, "complete")
       \/ /\ GotoX(x, "generate")
          /\ UNCHANGED handled
    /\ UNCHANGED <<tracked, raw, state, sent, drafts, requestVars, job, crashes>>

\* Mutant: the generation run of an earlier execution is not looked for.
GenerateAnew(x) ==
    /\ xpc[x] = "generate"
    /\ drafts' = [drafts EXCEPT ![job[x]] = @ + 1]
    /\ handled' = [handled EXCEPT ![job[x]] = TRUE]
    /\ GotoX(x, "complete")
    /\ UNCHANGED <<tracked, raw, state, sent, requestVars, job, crashes>>

\* EventToDraftService.generate: run, candidates and draft are one transaction
\* under keys derived from the consumer.  The insert of the run waits for another
\* transaction's and then reuses it.  An event that scores too low has no run.
Generate(x) ==
    /\ xpc[x] = "generate"
    /\ \/ drafts[job[x]] = 0 /\ drafts' = [drafts EXCEPT ![job[x]] = @ + 1]
       \/ UNCHANGED drafts
    /\ handled' = [handled EXCEPT ![job[x]] = TRUE]
    /\ GotoX(x, "complete")
    /\ UNCHANGED <<tracked, raw, state, sent, requestVars, job, crashes>>

\* _complete: no condition on the state.
Complete(x) ==
    /\ xpc[x] = "complete"
    /\ state' = [state EXCEPT ![job[x]] = "processed"]
    /\ EndExecution(x)
    /\ UNCHANGED <<tracked, raw, sent, resultVars, requestVars, crashes>>

\* Mutant: an exception is finished like a success.
RaiseSwallowed(x) ==
    /\ xpc[x] \in {"normalize", "generate", "complete"}
    /\ GotoX(x, "complete")
    /\ UNCHANGED <<tracked, raw, state, sent, resultVars, requestVars, job, crashes>>

\* An exception of the try block.
Raise(x) ==
    /\ xpc[x] \in {"normalize", "generate", "complete"}
    /\ GotoX(x, "fail")
    /\ UNCHANGED <<tracked, raw, state, sent, resultVars, requestVars, job, crashes>>

FailureState == "failed"

\* The handler: no condition on the state.
Fail(x) ==
    /\ xpc[x] = "fail"
    /\ state' = [state EXCEPT ![job[x]] = FailureState]
    /\ EndExecution(x)
    /\ UNCHANGED <<tracked, raw, sent, resultVars, requestVars, crashes>>

CrashExecution(x) ==
    /\ xpc[x] # "idle"
    /\ crashes < MaxCrashes
    /\ crashes' = crashes + 1
    /\ EndExecution(x)
    /\ UNCHANGED <<tracked, raw, state, sent, resultVars, requestVars>>

-----------------------------------------------------------------------------
\* What a request does by itself once it has stored the event.
Publish(r) ==
    \/ SelectRows(r)
    \/ \E c \in Consumers : EnqueueRow(r, c)
    \/ SendOk(r)
    \/ SendFail(r)
    \/ MarkUnsent(r)

Process(x) ==
    \/ Load(x)
    \/ Normalize(x)
    \/ Generate(x)
    \/ Complete(x)
    \/ Raise(x)
    \/ Fail(x)

Next ==
    \/ \E c \in Consumers : Track(c)
    \/ \E r \in Requests : Ingest(r) \/ Publish(r) \/ CrashRequest(r)
    \/ \E x \in Executions : \/ \E c \in Consumers : Claim(x, c)
                             \/ Process(x)
                             \/ CrashExecution(x)

Spec == Init /\ [][Next]_vars

(***************************************************************************)
(* Fairness, as generous as it can be: GitHub delivers again and again      *)
(* (Ingest), a request that is not killed runs to its end (Publish), and a   *)
(* publication that is tried for ever is accepted some time (SendOk).        *)
(***************************************************************************)
FairSpec ==
    /\ Spec
    /\ \A r \in Requests : WF_vars(Ingest(r)) /\ WF_vars(Publish(r)) /\ SF_vars(SendOk(r))

-----------------------------------------------------------------------------
\* Every column, request and execution has its type.
TypeOK ==
    /\ tracked \in SUBSET Consumers
    /\ raw \in BOOLEAN
    /\ state \in [Consumers -> State]
    /\ sent \in [Consumers -> BOOLEAN]
    /\ handled \in [Consumers -> BOOLEAN]
    /\ drafts \in [Consumers -> Nat]
    /\ rpc \in [Requests -> RPC]
    /\ rows \in [Requests -> SUBSET Consumers]
    /\ cur \in [Requests -> Consumers \cup {NoConsumer}]
    /\ xpc \in [Executions -> XPC]
    /\ job \in [Executions -> Consumers \cup {NoConsumer}]
    /\ crashes \in 0..MaxCrashes

\* A consumer leads to at most one draft, although its event may be sent again,
\* its executions overlap and a processed consumer may be processed once more.
DraftOnce ==
    \A c \in Consumers : drafts[c] <= 1

\* A consumer says "processed" only if its event was judged to the end: no
\* exception, crash or late handler turns unfinished work into finished.
ProcessedWasHandled ==
    \A c \in Consumers : state[c] = "processed" => handled[c]

\* Redelivered webhooks, duplicated events and executions that overlap create at most one draft
\* of a consumer, and a consumer marked processed was handled (GitHubConsumerWorkflow.process).
ConsumerSafety ==
    /\ TypeOK
    /\ DraftOnce
    /\ ProcessedWasHandled

\* A delivery's consumers are fixed by the request that stores it: repeated
\* deliveries, and repositories tracked later, add none.
ConsumersAreFixed ==
    [][raw => \A c \in Consumers : state[c] = "none" => state'[c] = "none"]_vars

\* A processed consumer stays processed: processing it once more changes nothing
\* (test_consumer_workflow_is_idempotent_and_keeps_payload_out_of_event_metadata).
\* Not guaranteed: a publication that raised is recorded after the event was handled
\* (README, "What the code does not guarantee").
ProcessedIsFinal ==
    [][\A c \in Consumers : state[c] = "processed" => state'[c] = "processed"]_vars

\* One event is published per consumer that ingestion has committed.
EventPublished ==
    \A c \in Consumers : (state[c] = "pending") ~> sent[c]

=============================================================================
