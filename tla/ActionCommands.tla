--------------------------- MODULE ActionCommands ---------------------------
(***************************************************************************)
(* The commands users send with an Idempotency-Key to the actions of a plan *)
(* (app/modules/operator/api/weekly_growth_router.py), the receipts that    *)
(* make a repeated command harmless, and the measurement a completed action *)
(* schedules (schedule_measurement, MeasurementFollowupWorkflow).           *)
(*                                                                         *)
(* A command reads the receipts before it takes any lock; whether it was    *)
(* already applied is decided by the unique keys when it commits.  The two  *)
(* commands here are the two shapes there are: complete, which works under  *)
(* the action's row lock, and edit, which does not lock before it inserts.  *)
(* PlanAction has every command and every status of one action.             *)
(*                                                                         *)
(* A receipt is keyed by operation, resource and key.  The resource of      *)
(* complete is the action; the resource of edit is the row of the asset the *)
(* client names, and every revision is a row of its own: one key may be     *)
(* used once for every revision.  The number of the revision to edit comes  *)
(* with the command and need not be that of the row.                        *)
(*                                                                         *)
(* A measurement is keyed by the command's key within the workspace.  An    *)
(* action stores its metric under "name", while a measurement reads it      *)
(* under "metric": no baseline is read when the action is completed, and    *)
(* every follow-up ends "unavailable".                                      *)
(***************************************************************************)
EXTENDS Naturals, FiniteSets, Sequences

CONSTANTS
    Clients,         \* requests under way at once
    PlanActions,     \* the actions that are executing
    Editable,        \* the actions whose asset clients edit
    CommandKeys,     \* the Idempotency-Keys clients use
    Edits,           \* the contents clients give an asset
    WindowDays,      \* measurement_window_days
    MaxEdits,        \* bound: revisions of an asset
    MaxReceipts,     \* bound: no new command once there are so many receipts
    LastDay          \* bound: the day the model ends

ASSUME WindowAssumption ==
    /\ WindowDays \in Nat \ {0}
    /\ LastDay \in Nat
    /\ MaxEdits \in Nat
    /\ MaxReceipts \in Nat
    /\ Editable \subseteq PlanActions

VARIABLES
    stage,           \* PlanAction.status
    contents,        \* the contents of an action's asset, revision by revision
    receipts,        \* operator_command_receipts
    windows,         \* measurement_windows
    today,
    request,         \* the request a client has under way
    applied          \* how often a command took effect (history)

commandVars == <<stage, contents, receipts, windows, today, request, applied>>

\* The row a command names: a revision of the action's asset, or the action itself (0).
Rows == 0..MaxEdits
CommandNames == {"complete", "edit"} \X PlanActions \X Rows \X CommandKeys
NoRequest == [pc |-> "idle"]
MoreCommands == Cardinality(receipts) < MaxReceipts

CommandInit ==
    /\ stage = [a \in PlanActions |-> "executing"]
    /\ contents = [a \in PlanActions |-> <<CHOOSE b \in Edits : TRUE>>]
    /\ receipts = {}
    /\ windows = {}
    /\ today = 0
    /\ request = [c \in Clients |-> NoRequest]
    /\ applied = [x \in CommandNames |-> 0]

ClientIdle(c) == request' = [request EXCEPT ![c] = NoRequest]

\* Mutant: the receipts are not consulted.
UnseenAlways(op, a, i, k) == TRUE

\* _command_replay finds a receipt: the answer is the earlier result, or, for
\* another payload, a conflict; nothing changes.  Otherwise the command goes on.
Unseen(op, a, i, k) ==
    ~\E r \in receipts : r.op = op /\ r.action = a /\ r.row = i /\ r.key = k

Receipt(op, a, i, k, content, revision) ==
    [op |-> op, action |-> a, row |-> i, key |-> k, content |-> content, revision |-> revision]

-----------------------------------------------------------------------------
(* revise_asset_use_case.  Edits of an action that is executing leave its   *)
(* status alone.                                                           *)

\* Mutant: a stale edit is taken for a repetition of the latest one.
RepeatsStale(a, n, content) == n + 1 = Len(contents[a])

\* A stale edit that gave the latest content is a repetition under another key.
Repeats(a, n, content) ==
    /\ n + 1 = Len(contents[a])
    /\ contents[a][n + 1] = content

\* The client names the row of revision i and edits revision n.
EditRead(c, a, i, k, n, content) ==
    /\ request[c] = NoRequest
    /\ MoreCommands
    /\ i \in 1..Len(contents[a])
    /\ Unseen("edit", a, i, k)
    /\ n \in 1..Len(contents[a])
    /\ \/ n = Len(contents[a]) /\ n < MaxEdits
       \/ Repeats(a, n, content)
    /\ request' = [request EXCEPT ![c] =
           [pc |-> IF n = Len(contents[a]) THEN "insert" ELSE "repeat",
            action |-> a, row |-> i, key |-> k, revision |-> n + 1, content |-> content]]
    /\ UNCHANGED <<stage, contents, receipts, windows, today, applied>>

\* uq_operator_command_receipts_command
FreshReceipt(op, q) == Unseen(op, q.action, q.row, q.key)

\* The unique keys of the revision and of the receipt refuse a second commit.
EditCommit(c) ==
    LET q == request[c] IN
    /\ q.pc \in {"insert", "repeat"}
    /\ FreshReceipt("edit", q)
    /\ \/ /\ q.pc = "insert"
          /\ Len(contents[q.action]) + 1 = q.revision
          /\ contents' = [contents EXCEPT ![q.action] = Append(@, q.content)]
          /\ applied' = [applied EXCEPT ![<<"edit", q.action, q.row, q.key>>] = @ + 1]
       \/ /\ q.pc = "repeat"
          /\ UNCHANGED <<contents, applied>>
    /\ receipts' = receipts \cup {Receipt("edit", q.action, q.row, q.key, q.content, q.revision)}
    /\ ClientIdle(c)
    /\ UNCHANGED <<stage, windows, today>>

-----------------------------------------------------------------------------
(* transition_action_use_case, for "completed".                            *)

CompleteRead(c, a, k) ==
    /\ request[c] = NoRequest
    /\ MoreCommands
    /\ Unseen("complete", a, 0, k)
    /\ request' = [request EXCEPT ![c] =
           [pc |-> "lock", action |-> a, row |-> 0, key |-> k]]
    /\ UNCHANGED <<stage, contents, receipts, windows, today, applied>>

\* Mutant: a measurement is scheduled even when its key is taken.
KeyTakenNever(k) == FALSE

KeyTaken(k) == \E w \in windows : w.key = k

\* schedule_measurement; read_search_measurement finds no metric in the contract and
\* reads no baseline.
Scheduled(a, k) ==
    IF KeyTaken(k) THEN windows
    ELSE windows \cup {[key |-> k, action |-> a, start |-> today, status |-> "scheduled"]}

\* Under the action's lock.
CompleteCommit(c) ==
    LET q == request[c] IN
    /\ q.pc = "lock"
    /\ today + WindowDays <= LastDay
    /\ FreshReceipt("complete", q)
    /\ \/ /\ stage[q.action] = "executing"
          /\ stage' = [stage EXCEPT ![q.action] = "completed"]
          /\ windows' = Scheduled(q.action, q.key)
          /\ applied' = [applied EXCEPT ![<<"complete", q.action, q.row, q.key>>] = @ + 1]
       \/ /\ stage[q.action] = "completed"
          /\ UNCHANGED <<stage, windows, applied>>
    /\ receipts' = receipts \cup {Receipt("complete", q.action, q.row, q.key, "none", 0)}
    /\ ClientIdle(c)
    /\ UNCHANGED <<contents, today>>

\* A unique key refuses the commit, or the request dies; its transaction is undone.
RequestFails(c) ==
    /\ request[c] # NoRequest
    /\ ClientIdle(c)
    /\ UNCHANGED <<stage, contents, receipts, windows, today, applied>>

-----------------------------------------------------------------------------
(* MeasurementFollowupWorkflow.process, under the measurement's row lock.   *)
(* Its event is available at due_at and may be delivered again.             *)

\* The contract names no search metric: the measurement is unavailable.
FollowUp(w) ==
    /\ w.status = "scheduled"
    /\ today >= w.start + WindowDays
    /\ windows' = (windows \ {w}) \cup {[w EXCEPT !.status = "unavailable"]}
    /\ UNCHANGED <<stage, contents, receipts, today, request, applied>>

-----------------------------------------------------------------------------
NextDay ==
    /\ today < LastDay
    /\ today' = today + 1
    /\ UNCHANGED <<stage, contents, receipts, windows, request, applied>>

CommandNext ==
    \/ \E c \in Clients :
           \/ \E a \in PlanActions, k \in CommandKeys :
                  \/ CompleteRead(c, a, k)
                  \/ /\ a \in Editable
                     /\ \E i, n \in 1..MaxEdits, b \in Edits : EditRead(c, a, i, k, n, b)
           \/ EditCommit(c)
           \/ CompleteCommit(c)
           \/ RequestFails(c)
    \/ \E w \in windows : FollowUp(w)
    \/ NextDay

CommandSpec == CommandInit /\ [][CommandNext]_commandVars

-----------------------------------------------------------------------------
\* However often and however concurrently a command is sent for one resource under one
\* key, it takes effect once, and a receipt of an edit names the revision that holds
\* the content the client gave.  (The resource of an edit is the row of one revision: the
\* same key takes effect again for the row that the first edit made.)
CommandTakesEffectOnce ==
    /\ \A x \in CommandNames : applied[x] <= 1
    /\ \A r \in receipts : r.op = "edit" => contents[r.action][r.revision] = r.content

\* A completed action has a measurement of its own, unless the client completed
\* another action of the workspace under the same key: schedule_measurement
\* then returns the other action's measurement.
CompletedIsMeasured ==
    \A a \in PlanActions : stage[a] = "completed" =>
        \/ \E w \in windows : w.action = a
        \/ \E r \in receipts, w \in windows :
               r.op = "complete" /\ r.action = a /\ w.key = r.key /\ w.action # a

\* A workspace has one measurement per key, and a measurement is collected from
\* the day its window ends, never before.
MeasuredWhenDue ==
    /\ \A v, w \in windows : v.key = w.key => v = w
    /\ \A w \in windows : w.status # "scheduled" => today >= w.start + WindowDays

\* A command repeated for its resource with its key takes effect once, a completed action has its
\* measurement unless its key scheduled another's, and no measurement is collected before its window has ended
\* (transition_action_use_case, MeasurementService.process).
CommandSafety ==
    /\ CommandTakesEffectOnce
    /\ CompletedIsMeasured
    /\ MeasuredWhenDue

=============================================================================
