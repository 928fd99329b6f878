----------------------------- MODULE PlanAction -----------------------------
(***************************************************************************)
(* One action of a weekly plan and the asset prepared for it: the commands  *)
(* users send (app/modules/operator/services/weekly_growth_service.py) and  *)
(* the weekly workflow that prepares and risk-reviews the asset             *)
(* (OperatorAIService.process_accepted_recommendation).                     *)
(*                                                                         *)
(* The action is visible to users as soon as the plan exists, while the     *)
(* workflow is still preparing it, and the workflow prepares every action   *)
(* again when a failed run is retried.                                      *)
(*                                                                         *)
(* Isolation.  PostgreSQL runs at READ COMMITTED.  Commands that read       *)
(* everything under the action's row lock are one step.  The others (edit,  *)
(* reject, decide, and the workflow's link) read some rows before the lock, *)
(* or take none, and are two steps.  The ORM writes a column only when the  *)
(* new value differs from the one it loaded (Changed), so a stale read may  *)
(* also leave a column as another transaction wrote it.                     *)
(*                                                                         *)
(* Commands are idempotent by receipt (_command_replay, _record_command): a *)
(* repeated command returns the recorded result and changes nothing, and    *)
(* two copies of one command collide on the receipt's unique key.  A        *)
(* command of the model is one that has no receipt yet.                     *)
(***************************************************************************)
EXTENDS Naturals

CONSTANTS
    Users,        \* concurrent API requests
    Workers,      \* overlapping executions of the weekly workflow
    MaxRevision   \* bound: revisions of the asset

ASSUME PlanActionAssumption == MaxRevision \in Nat \ {0}

VARIABLES
    status,          \* plan_actions.status
    approvalStatus,  \* plan_actions.approval_status
    approvedRev,     \* plan_actions.approved_asset_revision, 0 for NULL
    approval,        \* approval_requests.status, "none" without a row
    approvalRev,     \* approval_requests.asset_revision, 0 for NULL
    kind,            \* kind of the prepared asset, "none" before there is one
    latest,          \* highest revision of the asset
    review,          \* risk review of revision 1; no other revision gets one
    accepted,        \* recommendation.accepted_at IS NOT NULL
    decision,        \* latest recommendation decision
    drafts,          \* asset revisions projected to X drafts
    measurements,    \* measurement windows of the action
    planReady,       \* the plan was finalized
    cmd,             \* the request a user has under way
    wpc,             \* what a workflow execution does next
    wSeen            \* the rows a workflow execution has read

actionVars == <<status, approvalStatus, approvedRev>>
approvalVars == <<approval, approvalRev>>
assetVars == <<kind, latest, review>>
decisionVars == <<accepted, decision>>
resultVars == <<drafts, measurements, planReady>>
workerVars == <<wpc, wSeen>>
vars == <<status, approvalStatus, approvedRev, approval, approvalRev, kind, latest, review,
          accepted, decision, drafts, measurements, planReady, cmd, wpc, wSeen>>

ActionStatus == {"pending", "ready", "executing", "completed", "failed", "dismissed"}
ApprovalStatus == {"pending", "approved", "rejected", "not_required"}
Approval == {"none", "pending", "approved", "rejected"}
Revisions == 1..MaxRevision

NoCommand == [op |-> "none", rev |-> 0, approval |-> "none", approvalRev |-> 0,
              accept |-> FALSE, accepted |-> FALSE]
Commands == [op : {"none", "revise", "reject", "decide"}, rev : 0..MaxRevision,
             approval : Approval, approvalRev : 0..MaxRevision,
             accept : BOOLEAN, accepted : BOOLEAN]
NothingSeen == [status |-> "pending", approvalStatus |-> "pending", approval |-> "none"]
Seen == [status : ActionStatus, approvalStatus : ApprovalStatus, approval : Approval]
WPC == {"idle", "prepare", "review", "linkRead", "linkWrite",
        "noAssetRead", "noAssetWrite", "finish"}

\* create_canonical_plan has committed.
Init ==
    /\ status = "pending"
    /\ approvalStatus = "pending"
    /\ approvedRev = 0
    /\ approval = "none"
    /\ approvalRev = 0
    /\ kind = "none"
    /\ latest = 0
    /\ review = "none"
    /\ accepted = FALSE
    /\ decision = "none"
    /\ drafts = {}
    /\ measurements = 0
    /\ planReady = FALSE
    /\ cmd = [u \in Users |-> NoCommand]
    /\ wpc = [k \in Workers |-> "idle"]
    /\ wSeen = [k \in Workers |-> NothingSeen]

\* The value of a column after a flush: what was loaded decides whether the
\* column is part of the UPDATE.
Changed(current, loaded, new) == IF new = loaded THEN current ELSE new

Done(u) == cmd' = [cmd EXCEPT ![u] = NoCommand]
GotoW(k, label) == wpc' = [wpc EXCEPT ![k] = label]
Forget(k) == wSeen' = [wSeen EXCEPT ![k] = NothingSeen]

-----------------------------------------------------------------------------
(* process_accepted_recommendation, run for the action by every pass of the *)
(* weekly workflow that finds the plan unfinished.  The recommendation was  *)
(* loaded when the pass began, and it must have been accepted by then.      *)

StartPass(k) ==
    /\ wpc[k] = "idle"
    /\ ~planReady
    /\ accepted
    /\ GotoW(k, "prepare")
    /\ UNCHANGED <<actionVars, approvalVars, assetVars, decisionVars, resultVars, cmd, wSeen>>

\* Mutant: an asset that is there already needs no review.
PrepareOnce(k) ==
    /\ wpc[k] = "prepare"
    /\ \/ /\ latest = 0
          /\ kind' \in {"asset", "no_asset"}
          /\ latest' = 1
          /\ GotoW(k, IF kind' = "asset" THEN "review" ELSE "noAssetRead")
       \/ /\ latest # 0
          /\ GotoW(k, "finish")
          /\ UNCHANGED <<kind, latest>>
    /\ UNCHANGED <<actionVars, approvalVars, review, decisionVars, resultVars, cmd, wSeen>>

\* prepare_asset: revision 1 is inserted unless it is there already.
Prepare(k) ==
    /\ wpc[k] = "prepare"
    /\ \/ /\ latest = 0
          /\ kind' \in {"asset", "no_asset"}
          /\ latest' = 1
       \/ /\ latest # 0
          /\ UNCHANGED <<kind, latest>>
    /\ GotoW(k, IF kind' = "asset" THEN "review" ELSE "noAssetRead")
    /\ UNCHANGED <<actionVars, approvalVars, review, decisionVars, resultVars, cmd, wSeen>>

\* review_risk, for revision 1: the first review stands.
Review(k) ==
    /\ wpc[k] = "review"
    /\ \/ review = "none" /\ review' \in {"pass", "block"}
       \/ review # "none" /\ UNCHANGED review
    /\ GotoW(k, "linkRead")
    /\ UNCHANGED <<actionVars, approvalVars, kind, latest, decisionVars, resultVars, cmd, wSeen>>

ReadAction(k, from, to) ==
    /\ wpc[k] = from
    /\ wSeen' = [wSeen EXCEPT ![k] = [status |-> status, approvalStatus |-> approvalStatus,
                                      approval |-> approval]]
    /\ GotoW(k, to)
    /\ UNCHANGED <<actionVars, approvalVars, assetVars, decisionVars, resultVars, cmd>>

LinkRead(k) == ReadAction(k, "linkRead", "linkWrite")
NoAssetRead(k) == ReadAction(k, "noAssetRead", "noAssetWrite")

\* What the workflow leaves in the action's columns.
WriteAction(k, newApproval, newStatus) ==
    /\ approvalStatus' = Changed(approvalStatus, wSeen[k].approvalStatus, newApproval)
    /\ status' = Changed(status, wSeen[k].status, newStatus)
    /\ UNCHANGED approvedRev

\* The approval request is created once, for revision 1; a second insert would
\* violate its unique key, and the pass fails.
LinkWrite(k) ==
    /\ wpc[k] = "linkWrite"
    /\ \/ /\ review = "block"
          /\ WriteAction(k, "rejected", "dismissed")
          /\ GotoW(k, "finish")
          /\ UNCHANGED approvalVars
       \/ /\ review = "pass"
          /\ wSeen[k].approval # "none"
          /\ WriteAction(k, "pending", "pending")
          /\ GotoW(k, "finish")
          /\ UNCHANGED approvalVars
       \/ /\ review = "pass"
          /\ wSeen[k].approval = "none"
          /\ approval = "none"
          /\ approval' = "pending"
          /\ approvalRev' = 1
          /\ WriteAction(k, "pending", "pending")
          /\ GotoW(k, "finish")
       \/ /\ review = "pass"
          /\ wSeen[k].approval = "none"
          /\ approval # "none"
          /\ GotoW(k, "idle")
          /\ UNCHANGED <<actionVars, approvalVars>>
    /\ Forget(k)
    /\ UNCHANGED <<assetVars, decisionVars, resultVars, cmd>>

NoAssetWrite(k) ==
    /\ wpc[k] = "noAssetWrite"
    /\ WriteAction(k, "not_required", "dismissed")
    /\ GotoW(k, "finish")
    /\ Forget(k)
    /\ UNCHANGED <<approvalVars, assetVars, decisionVars, resultVars, cmd>>

\* finalize_plan, once every action of the plan has been processed.
Finish(k) ==
    /\ wpc[k] = "finish"
    /\ planReady' = TRUE
    /\ GotoW(k, "idle")
    /\ UNCHANGED <<actionVars, approvalVars, assetVars, decisionVars, drafts, measurements,
                   cmd, wSeen>>

\* The pass raises, here or at another action of the plan, or its process dies.
FailPass(k) ==
    /\ wpc[k] # "idle"
    /\ GotoW(k, "idle")
    /\ Forget(k)
    /\ UNCHANGED <<actionVars, approvalVars, assetVars, decisionVars, resultVars, cmd>>

-----------------------------------------------------------------------------
(* approve_action_revision_use_case with approve_exact_revision and         *)
(* project_x_asset_to_draft, under the action's lock.                       *)

\* transition_action
Transition(current, target) ==
    \/ target = current
    \/ current = "pending" /\ target \in {"ready", "dismissed"}
    \/ current = "ready" /\ target \in {"executing", "dismissed"}
    \/ current = "executing" /\ target \in {"completed", "failed", "dismissed"}
    \/ current = "failed" /\ target \in {"ready", "dismissed"}

Reviewed(r) == r = 1 /\ review = "pass"

\* Mutant: the revision is not compared with the latest one.
ApprovableStale(r) ==
    /\ r \in 1..latest
    /\ Reviewed(r)
    /\ approval = "pending"
    /\ Transition(status, "ready")

Approvable(r) ==
    /\ r = latest
    /\ Reviewed(r)
    /\ approval = "pending"
    /\ Transition(status, "ready")

Approve(u, r) ==
    /\ cmd[u] = NoCommand
    /\ ~(approvalStatus = "approved" /\ approvedRev = r)
    /\ Approvable(r)
    /\ approval' = "approved"
    /\ approvalRev' = r
    /\ approvedRev' = r
    /\ approvalStatus' = "approved"
    /\ status' = "ready"
    /\ drafts' \in {drafts, drafts \cup {r}}
    /\ UNCHANGED <<assetVars, decisionVars, measurements, planReady, cmd, workerVars>>

-----------------------------------------------------------------------------
(* transition_action_use_case with transition_canonical_action and          *)
(* schedule_measurement, under the action's lock.  The routes offer start,  *)
(* complete and dismiss; asking for the status the action already has only  *)
(* leaves a receipt.                                                       *)

Start(u) ==
    /\ cmd[u] = NoCommand
    /\ status # "executing"
    /\ Transition(status, "executing")
    /\ status' = "executing"
    /\ UNCHANGED <<approvalStatus, approvedRev, approvalVars, assetVars, decisionVars,
                   resultVars, cmd, workerVars>>

\* Mutant: completing a completed action is a transition to itself.
CompletesAlways == Transition(status, "completed")

Completes == status # "completed" /\ Transition(status, "completed")

Complete(u) ==
    /\ cmd[u] = NoCommand
    /\ Completes
    /\ status' = "completed"
    /\ measurements' = measurements + 1
    /\ UNCHANGED <<approvalStatus, approvedRev, approvalVars, assetVars, decisionVars,
                   drafts, planReady, cmd, workerVars>>

Dismiss(u) ==
    /\ cmd[u] = NoCommand
    /\ status # "dismissed"
    /\ Transition(status, "dismissed")
    /\ status' = "dismissed"
    /\ accepted' = FALSE
    /\ decision' = "dismissed"
    /\ UNCHANGED <<approvalStatus, approvedRev, approvalVars, assetVars, resultVars, cmd,
                   workerVars>>

-----------------------------------------------------------------------------
(* revise_asset_use_case.  The latest revision is read before the action is *)
(* locked; an asset that is not editable content (no_asset) is refused.     *)

ReviseRead(u) ==
    /\ cmd[u] = NoCommand
    /\ kind = "asset"
    /\ latest < MaxRevision
    /\ cmd' = [cmd EXCEPT ![u] = [NoCommand EXCEPT !.op = "revise", !.rev = latest]]
    /\ UNCHANGED <<actionVars, approvalVars, assetVars, decisionVars, resultVars, workerVars>>

\* Mutant: an edit leaves an action that is ready as it is.
AfterEditReady(s) == s

AfterEdit(s) == IF s = "ready" THEN "pending" ELSE s

\* The unique key (recommendation, revision) refuses the edit that comes second.
ReviseWrite(u) ==
    /\ cmd[u].op = "revise"
    /\ \/ /\ latest = cmd[u].rev
          /\ latest' = latest + 1
          /\ approvedRev' = 0
          /\ approvalStatus' = "pending"
          /\ status' = AfterEdit(status)
          /\ approval' = IF approval = "none" THEN "none" ELSE "pending"
          /\ approvalRev' = 0
       \/ /\ latest # cmd[u].rev
          /\ UNCHANGED <<latest, actionVars, approvalVars>>
    /\ Done(u)
    /\ UNCHANGED <<kind, review, decisionVars, resultVars, workerVars>>

-----------------------------------------------------------------------------
(* reject_asset_use_case.  Any revision may be named; the approval request  *)
(* is read before the action is locked, whatever the action's status.       *)

RejectRead(u, r) ==
    /\ cmd[u] = NoCommand
    /\ r <= latest
    /\ approval # "none"
    /\ cmd' = [cmd EXCEPT ![u] = [NoCommand EXCEPT !.op = "reject", !.rev = r,
                                    !.approval = approval, !.approvalRev = approvalRev]]
    /\ UNCHANGED <<actionVars, approvalVars, assetVars, decisionVars, resultVars, workerVars>>

RejectWrite(u) ==
    /\ cmd[u].op = "reject"
    /\ approval' = Changed(approval, cmd[u].approval, "rejected")
    /\ approvalRev' = Changed(approvalRev, cmd[u].approvalRev, cmd[u].rev)
    /\ approvalStatus' = "rejected"
    /\ status' = "pending"
    /\ Done(u)
    /\ UNCHANGED <<approvedRev, assetVars, decisionVars, resultVars, workerVars>>

-----------------------------------------------------------------------------
(* decide_recommendation, without any lock.                                *)

Verdict(accept) == IF accept THEN "accepted" ELSE "dismissed"

DecideRead(u, accept) ==
    /\ cmd[u] = NoCommand
    /\ status # "dismissed"
    /\ decision \in {"none", Verdict(accept)}
    /\ cmd' = [cmd EXCEPT ![u] = [NoCommand EXCEPT !.op = "decide", !.accept = accept,
                                    !.accepted = accepted]]
    /\ UNCHANGED <<actionVars, approvalVars, assetVars, decisionVars, resultVars, workerVars>>

DecideWrite(u) ==
    /\ cmd[u].op = "decide"
    /\ accepted' = Changed(accepted, cmd[u].accepted, cmd[u].accept)
    /\ decision' = Verdict(cmd[u].accept)
    /\ Done(u)
    /\ UNCHANGED <<actionVars, approvalVars, assetVars, resultVars, workerVars>>

-----------------------------------------------------------------------------
Workflow(k) ==
    \/ StartPass(k)
    \/ Prepare(k)
    \/ Review(k)
    \/ LinkRead(k)
    \/ LinkWrite(k)
    \/ NoAssetRead(k)
    \/ NoAssetWrite(k)
    \/ Finish(k)
    \/ FailPass(k)

Command(u) ==
    \/ \E r \in Revisions : Approve(u, r) \/ RejectRead(u, r)
    \/ RejectWrite(u)
    \/ Start(u)
    \/ Complete(u)
    \/ Dismiss(u)
    \/ ReviseRead(u)
    \/ ReviseWrite(u)
    \/ \E accept \in BOOLEAN : DecideRead(u, accept)
    \/ DecideWrite(u)

Next ==
    \/ \E k \in Workers : Workflow(k)
    \/ \E u \in Users : Command(u)

Spec == Init /\ [][Next]_vars

-----------------------------------------------------------------------------
\* Every column and every local value has its type.
TypeOK ==
    /\ status \in ActionStatus
    /\ approvalStatus \in ApprovalStatus
    /\ approvedRev \in 0..MaxRevision
    /\ approval \in Approval
    /\ approvalRev \in 0..MaxRevision
    /\ kind \in {"none", "asset", "no_asset"}
    /\ latest \in 0..MaxRevision
    /\ review \in {"none", "pass", "block"}
    /\ accepted \in BOOLEAN
    /\ decision \in {"none", "accepted", "dismissed"}
    /\ drafts \in SUBSET Revisions
    /\ measurements \in Nat
    /\ planReady \in BOOLEAN
    /\ cmd \in [Users -> Commands]
    /\ wpc \in [Workers -> WPC]
    /\ wSeen \in [Workers -> Seen]

\* An approval in force covers exactly the latest revision, whose risk review
\* passed, and the approval request agrees with the action: an edit, a
\* rejection or a retried workflow pass never leaves an approval behind for
\* another revision than the one users see.
ApprovalCoversLatest ==
    approvalStatus = "approved" =>
        /\ approvedRev = latest
        /\ Reviewed(approvedRev)
        /\ approval = "approved"
        /\ approvalRev = approvedRev

\* Only an approved action is ready, hence may be started: no interleaving of
\* the workflow's unlocked writes with the users' commands leaves an action
\* ready without its approval.
ReadyIsApproved ==
    status = "ready" => approvalStatus = "approved"

\* An action is completed, and its measurement scheduled, at most once, although
\* a rejection or a workflow pass may open a completed action again.
MeasuredOnce ==
    measurements <= 1

\* Whatever edits, rejections and preparations race with an approval: the approval in force is
\* for the latest revision, whose review passed, only an approved action is ready, and an action
\* schedules one measurement at most (approve_action_revision_use_case, revise_asset_use_case,
\* process_accepted_recommendation, transition_canonical_action).
ApprovalSafety ==
    /\ TypeOK
    /\ ApprovalCoversLatest
    /\ ReadyIsApproved
    /\ MeasuredOnce

\* transition_action knows no way out of completed or dismissed, and
\* test_transition_matrix_rejects_regressions asserts as much.
TerminalIsFinal ==
    [][(status \in {"completed", "dismissed"}) => status' = status]_vars

\* "Dismissed actions cannot change recommendation decision."
\* (weekly_growth_service.py:533).  Not guaranteed: the action is read without a lock
\* (README, "What the code does not guarantee").
DismissedKeepsDecision ==
    [][(status = "dismissed") => decision' = decision]_vars

=============================================================================
