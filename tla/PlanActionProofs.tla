--------------------------- MODULE PlanActionProofs ---------------------------
(***************************************************************************)
(* Safety of a plan action for any number of users, workflow executions and *)
(* revisions.                                                               *)
(*                                                                          *)
(* Approval: ReadyIsApproved and MeasuredOnce are not inductive: the workflow *)
(* writes columns it loaded without a lock.  They hold because an action can*)
(* be approved once only: the approval request leaves "pending" with the    *)
(* first approval or rejection, and comes back to it only with an edit,     *)
(* whose revision has no risk review.  Spent says that this chance is gone; *)
(* it never comes back, and a stale reader is harmless once it holds.       *)
(*                                                                          *)
(* Offers: an execution about to finish has prepared the action, nothing    *)
(* takes that back, and one with nothing to approve stays dismissed         *)
(* (Prepared, Hopeless, OfferInv).                                          *)
(*                                                                          *)
(* Commands: a key that was applied has its receipt (AppliedHasReceipt), the*)
(* revision a receipt or a repeat names is stored with its content          *)
(* (ReceiptsHold, RepeatsHold), since content is never taken from an asset. *)
(***************************************************************************)
EXTENDS PlanActionOffers, ActionCommands, TLAPS

\* No approval of the action can succeed any more.
Spent ==
    \/ approval \in {"approved", "rejected"}
    \/ latest > 1
    \/ review = "block"
    \/ kind = "no_asset"

\* prepare_asset and review_risk run in this order, and only for content.
AssetShape ==
    /\ latest = 0 <=> kind = "none"
    /\ review # "none" => kind = "asset"

\* What a request relies on between its read and its write.
CommandKnows ==
    \A u \in Users :
        /\ cmd[u].op = "revise" => cmd[u].rev > 0 /\ cmd[u].rev < MaxRevision
        /\ cmd[u].op = "reject" /\ cmd[u].approval = "rejected" => Spent

\* What a workflow execution relies on between its steps.  One that read an
\* undecided status together with a decision can no longer meet a ready action.
PassKnows ==
    \A k \in Workers :
        /\ wpc[k] \in {"review", "linkRead", "linkWrite"} => kind = "asset"
        /\ wpc[k] \in {"linkRead", "linkWrite"} => review # "none"
        /\ wpc[k] \in {"noAssetRead", "noAssetWrite"} => kind = "no_asset"
        /\ /\ wpc[k] = "linkWrite"
           /\ wSeen[k].status = "pending"
           /\ wSeen[k].approvalStatus # "pending"
           => Spent /\ status # "ready"

\* A decision, and every status behind an approval, use the chance up.
DecidedIsSpent ==
    /\ approvalStatus # "pending" => Spent
    /\ status \in {"ready", "executing", "completed"} => Spent

\* Once measured, the action is on no way to a second completion.
MeasuredIsOver ==
    \/ measurements = 0
    \/ /\ measurements = 1
       /\ Spent
       /\ status \notin {"ready", "executing"}

Inv ==
    /\ TypeOK
    /\ ApprovalCoversLatest
    /\ ReadyIsApproved
    /\ AssetShape
    /\ CommandKnows
    /\ PassKnows
    /\ DecidedIsSpent
    /\ MeasuredIsOver
    /\ status # "failed"

-----------------------------------------------------------------------------
\* A plan that has just been created satisfies the invariant.
LEMMA InitInv == Init => Inv
  <1> SUFFICES ASSUME Init PROVE Inv
    OBVIOUS
  <1> USE PlanActionAssumption DEF Init
  <1>1. NoCommand \in Commands /\ NothingSeen \in Seen
    BY DEF NoCommand, Commands, NothingSeen, Seen, ActionStatus, ApprovalStatus, Approval
  <1>2. TypeOK
    <2>1. /\ cmd \in [Users -> Commands]
          /\ wpc \in [Workers -> WPC]
          /\ wSeen \in [Workers -> Seen]
      BY <1>1 DEF WPC
    <2>2. QED
      BY <2>1, accepted \in BOOLEAN, planReady \in BOOLEAN, drafts \in SUBSET Revisions
         DEF TypeOK, ActionStatus, ApprovalStatus, Approval
  <1>3. CommandKnows /\ PassKnows
    BY DEF CommandKnows, PassKnows, NoCommand
  <1>4. QED
    BY <1>2, <1>3 DEF Inv, ApprovalCoversLatest, ReadyIsApproved, AssetShape, DecidedIsSpent,
                      MeasuredIsOver

\* The steps of a workflow execution before it touches the action: the asset and
\* its review are written once, and reading leaves a true record behind.
LEMMA PrepareInv ==
    ASSUME Inv, NEW k \in Workers,
           StartPass(k) \/ Prepare(k) \/ Review(k) \/ LinkRead(k) \/ NoAssetRead(k)
    PROVE  Inv'
  <1> USE DEF Inv, TypeOK, ApprovalCoversLatest, ReadyIsApproved, AssetShape, CommandKnows,
              PassKnows, DecidedIsSpent, MeasuredIsOver, Spent, Reviewed, GotoW, Seen, WPC,
              actionVars, approvalVars, assetVars, decisionVars, resultVars
  <1>1. CASE StartPass(k)
    BY <1>1 DEF StartPass
  <1>2. CASE Prepare(k)
    BY <1>2, PlanActionAssumption DEF Prepare
  <1>3. CASE Review(k)
    BY <1>3 DEF Review
  <1>4. CASE LinkRead(k)
    BY <1>4 DEF LinkRead, ReadAction
  <1>5. CASE NoAssetRead(k)
    BY <1>5 DEF NoAssetRead, ReadAction
  <1>6. QED
    BY <1>1, <1>2, <1>3, <1>4, <1>5

\* The workflow's unlocked writes.  A column that was loaded with the value the
\* workflow wants keeps what another transaction has made of it: PassKnows rules
\* out that the status survives as ready while the approval does not.
LEMMA LinkInv ==
    ASSUME Inv, NEW k \in Workers, LinkWrite(k) \/ NoAssetWrite(k)
    PROVE  Inv'
  <1> USE DEF Inv, GotoW, Forget, WriteAction, Changed, assetVars, decisionVars, resultVars,
              approvalVars, actionVars
  <1>1. wpc' \in [Workers -> WPC] /\ wSeen' \in [Workers -> Seen]
    BY DEF LinkWrite, NoAssetWrite, TypeOK, WPC, Seen, NothingSeen, ActionStatus,
           ApprovalStatus, Approval
  <1>2. TypeOK'
    BY <1>1, PlanActionAssumption
       DEF LinkWrite, NoAssetWrite, TypeOK, ActionStatus, ApprovalStatus, Approval
  <1>3. ApprovalCoversLatest'
    BY DEF LinkWrite, NoAssetWrite, ApprovalCoversLatest, Reviewed
  <1>4. ReadyIsApproved'
    BY DEF LinkWrite, NoAssetWrite, ReadyIsApproved, ApprovalCoversLatest, Reviewed, AssetShape,
           PassKnows
  <1>5. Spent => Spent'
    BY DEF LinkWrite, NoAssetWrite, Spent
  <1>6. AssetShape' /\ CommandKnows'
    BY <1>5 DEF LinkWrite, NoAssetWrite, AssetShape, CommandKnows
  <1>7. PassKnows'
    BY <1>5 DEF LinkWrite, NoAssetWrite, PassKnows, TypeOK
  <1>8. DecidedIsSpent' /\ MeasuredIsOver'
    BY <1>5 DEF LinkWrite, NoAssetWrite, DecidedIsSpent, MeasuredIsOver, Spent, PassKnows
  <1>9. status' # "failed"
    BY DEF LinkWrite, NoAssetWrite
  <1>10. QED
    BY <1>2, <1>3, <1>4, <1>6, <1>7, <1>8, <1>9

\* finalize_plan, and a pass that ends early.
LEMMA FinishInv ==
    ASSUME Inv, NEW k \in Workers, Finish(k) \/ FailPass(k)
    PROVE  Inv'
  <1> USE DEF Inv, GotoW, Forget, actionVars, approvalVars, assetVars, decisionVars, resultVars
  <1>1. wpc' \in [Workers -> WPC] /\ wSeen' \in [Workers -> Seen]
    BY DEF Finish, FailPass, TypeOK, WPC, Seen, NothingSeen, ActionStatus, ApprovalStatus,
           Approval
  <1>2. TypeOK'
    BY <1>1 DEF Finish, FailPass, TypeOK
  <1>3. PassKnows'
    BY DEF Finish, FailPass, PassKnows, TypeOK, Spent
  <1>4. QED
    BY <1>2, <1>3 DEF Finish, FailPass, ApprovalCoversLatest, ReadyIsApproved, AssetShape,
                      CommandKnows, DecidedIsSpent, MeasuredIsOver, Spent, Reviewed

\* approve_action_revision_use_case: it needs an unspent chance and uses it up.
LEMMA ApproveInv ==
    ASSUME Inv, NEW u \in Users, NEW r \in Revisions, Approve(u, r)
    PROVE  Inv'
  <1> USE DEF Inv, Approve, Approvable, Reviewed, Revisions, assetVars, decisionVars, workerVars
  <1>1. TypeOK'
    BY PlanActionAssumption DEF TypeOK, ActionStatus, ApprovalStatus, Approval
  <1>2. ~Spent
    BY DEF Spent, AssetShape
  <1>3. Spent'
    BY DEF Spent
  <1>4. AssetShape' /\ CommandKnows'
    BY <1>3 DEF AssetShape, CommandKnows
  <1>5. PassKnows'
    BY <1>2 DEF PassKnows
  <1>6. ApprovalCoversLatest' /\ ReadyIsApproved' /\ DecidedIsSpent' /\ MeasuredIsOver'
    BY <1>2, <1>3 DEF ApprovalCoversLatest, ReadyIsApproved, DecidedIsSpent, MeasuredIsOver
  <1>7. QED
    BY <1>1, <1>4, <1>5, <1>6

\* transition_action_use_case: a completion finds no earlier measurement.
LEMMA TransitionInv ==
    ASSUME Inv, NEW u \in Users, Start(u) \/ Complete(u) \/ Dismiss(u)
    PROVE  Inv'
  <1> USE DEF Inv, TypeOK, ApprovalCoversLatest, ReadyIsApproved, AssetShape, CommandKnows,
              PassKnows, DecidedIsSpent, MeasuredIsOver, Spent, Reviewed, Transition,
              ActionStatus, approvalVars, assetVars, decisionVars, resultVars, workerVars
  <1>1. CASE Start(u)
    BY <1>1 DEF Start
  <1>2. CASE Complete(u)
    BY <1>2 DEF Complete, Completes
  <1>3. CASE Dismiss(u)
    BY <1>3 DEF Dismiss
  <1>4. QED
    BY <1>1, <1>2, <1>3

\* revise_asset_use_case: the new revision has no review, so the chance is gone.
LEMMA ReviseInv ==
    ASSUME Inv, NEW u \in Users, ReviseRead(u) \/ ReviseWrite(u)
    PROVE  Inv'
  <1> USE PlanActionAssumption DEF Inv, Done, decisionVars, resultVars, workerVars
  <1>1. CASE ReviseRead(u)
    <2> USE <1>1 DEF ReviseRead, actionVars, approvalVars, assetVars
    <2>1. cmd' \in [Users -> Commands]
      BY DEF TypeOK, Commands, NoCommand, Approval
    <2>2. TypeOK'
      BY <2>1 DEF TypeOK
    <2>3. CommandKnows'
      BY DEF CommandKnows, TypeOK, AssetShape, NoCommand, Spent
    <2>4. QED
      BY <2>2, <2>3 DEF ApprovalCoversLatest, ReadyIsApproved, AssetShape, PassKnows,
                        DecidedIsSpent, MeasuredIsOver, Spent, Reviewed
  <1>2. CASE ReviseWrite(u)
    <2> USE <1>2 DEF ReviseWrite, AfterEdit, actionVars, approvalVars
    <2>1. cmd' \in [Users -> Commands]
      BY DEF TypeOK, Commands, NoCommand, Approval
    <2>2. TypeOK'
      BY <2>1 DEF TypeOK, CommandKnows, ActionStatus, ApprovalStatus, Approval
    <2>3. Spent => Spent'
      BY DEF Spent, CommandKnows, TypeOK
    <2>4. CommandKnows'
      BY <2>3 DEF CommandKnows, TypeOK, NoCommand
    <2>5. PassKnows' /\ AssetShape'
      BY <2>3 DEF PassKnows, AssetShape, TypeOK, CommandKnows
    <2>6. ApprovalCoversLatest' /\ ReadyIsApproved'
      BY DEF ApprovalCoversLatest, ReadyIsApproved, Reviewed
    <2>7. DecidedIsSpent' /\ MeasuredIsOver' /\ status' # "failed"
      BY <2>3 DEF DecidedIsSpent, MeasuredIsOver
    <2>8. QED
      BY <2>2, <2>4, <2>5, <2>6, <2>7
  <1>3. QED
    BY <1>1, <1>2

\* reject_asset_use_case: the approval it loaded may be out of date, and then
\* either its own write or what it read tells that the chance is gone.
LEMMA RejectInv ==
    ASSUME Inv, NEW u \in Users, RejectWrite(u) \/ \E r \in Revisions : RejectRead(u, r)
    PROVE  Inv'
  <1>0. Revisions \subseteq 0..MaxRevision
    BY PlanActionAssumption DEF Revisions
  <1> USE PlanActionAssumption DEF Inv, Done, decisionVars, resultVars, workerVars, assetVars
  <1>1. CASE \E r \in Revisions : RejectRead(u, r)
    <2> PICK r \in Revisions : RejectRead(u, r)
      BY <1>1
    <2> USE DEF RejectRead, actionVars, approvalVars
    <2>0. r \in 0..MaxRevision
      BY <1>0
    <2>1. cmd' \in [Users -> Commands]
      BY <2>0 DEF TypeOK, Commands, NoCommand, Approval
    <2>2. TypeOK'
      BY <2>1 DEF TypeOK
    <2>3. CommandKnows'
      BY DEF CommandKnows, TypeOK, NoCommand, Spent
    <2>4. QED
      BY <2>2, <2>3 DEF ApprovalCoversLatest, ReadyIsApproved, AssetShape, PassKnows,
                        DecidedIsSpent, MeasuredIsOver, Spent, Reviewed
  <1>2. CASE RejectWrite(u)
    <2> USE <1>2 DEF RejectWrite, Changed
    <2>1. cmd' \in [Users -> Commands]
      BY DEF TypeOK, Commands, NoCommand, Approval
    <2>2. TypeOK'
      BY <2>1 DEF TypeOK, Commands, ActionStatus, ApprovalStatus, Approval
    <2>3. Spent'
      BY DEF Spent, CommandKnows
    <2>4. CommandKnows'
      BY <2>3 DEF CommandKnows, TypeOK, NoCommand
    <2>5. PassKnows' /\ AssetShape'
      BY <2>3 DEF PassKnows, AssetShape
    <2>6. QED
      BY <2>2, <2>3, <2>4, <2>5 DEF ApprovalCoversLatest, ReadyIsApproved, DecidedIsSpent,
                                    MeasuredIsOver
  <1>3. QED
    BY <1>1, <1>2

\* decide_recommendation touches neither the action nor its approval.
LEMMA DecideInv ==
    ASSUME Inv, NEW u \in Users,
           DecideWrite(u) \/ \E accept \in BOOLEAN : DecideRead(u, accept)
    PROVE  Inv'
  <1> USE PlanActionAssumption DEF Inv, actionVars, approvalVars, assetVars, resultVars, workerVars
  <1>1. /\ cmd' \in [Users -> Commands]
        /\ accepted' \in BOOLEAN
        /\ decision' \in {"none", "accepted", "dismissed"}
        /\ \A v \in Users : cmd'[v] = cmd[v] \/ cmd'[v].op \in {"none", "decide"}
    <2>1. CASE DecideWrite(u)
      BY <2>1 DEF DecideWrite, Done, Changed, Verdict, TypeOK, Commands, NoCommand, Approval
    <2>2. ASSUME NEW accept \in BOOLEAN, DecideRead(u, accept)
          PROVE  <1>1!:
      BY <2>2 DEF DecideRead, decisionVars, TypeOK, Commands, NoCommand, Approval
    <2>3. QED
      BY <2>1, <2>2
  <1>2. UNCHANGED <<actionVars, approvalVars, assetVars, resultVars, workerVars>>
    BY DEF DecideWrite, DecideRead
  <1>3. TypeOK'
    BY <1>1, <1>2 DEF TypeOK
  <1>4. CommandKnows'
    BY <1>1, <1>2 DEF CommandKnows, Spent
  <1>5. QED
    BY <1>2, <1>3, <1>4 DEF ApprovalCoversLatest, ReadyIsApproved, AssetShape, PassKnows,
                            DecidedIsSpent, MeasuredIsOver, Spent, Reviewed

-----------------------------------------------------------------------------
\* The inductive invariant of a plan action under all of its commands and the
\* workflow.
THEOREM PlanActionInvariant == Spec => []Inv
  <1>1. ASSUME Inv, [Next]_vars PROVE Inv'
    <2>1. CASE UNCHANGED vars
      BY <1>1, <2>1 DEF vars, Inv, TypeOK, ApprovalCoversLatest, ReadyIsApproved, AssetShape,
         CommandKnows, PassKnows, DecidedIsSpent, MeasuredIsOver, Spent, Reviewed
    <2>2. ASSUME NEW k \in Workers, Workflow(k) PROVE Inv'
      BY <1>1, <2>2, PrepareInv, LinkInv, FinishInv DEF Workflow
    <2>3. ASSUME NEW u \in Users, Command(u) PROVE Inv'
      BY <1>1, <2>3, ApproveInv, TransitionInv, ReviseInv, RejectInv, DecideInv DEF Command
    <2>4. QED
      BY <1>1, <2>1, <2>2, <2>3 DEF Next
  <1>2. QED
    BY <1>1, InitInv, PTL DEF Spec

\* Every column keeps its type: no stale write leaves the bounds of the model.
THEOREM PlanActionTypeOK == Spec => []TypeOK
  BY PlanActionInvariant, PTL DEF Inv

\* An approval in force is for the latest, reviewed revision, whatever edits,
\* rejections and retried workflow passes overlap.
THEOREM PlanActionApprovalCoversLatest == Spec => []ApprovalCoversLatest
  BY PlanActionInvariant, PTL DEF Inv

\* Nothing but an approval makes an action ready.
THEOREM PlanActionReadyIsApproved == Spec => []ReadyIsApproved
  BY PlanActionInvariant, PTL DEF Inv

\* An action is completed and measured at most once.
THEOREM PlanActionMeasuredOnce == Spec => []MeasuredOnce
  <1>1. Inv => MeasuredOnce
    BY DEF Inv, MeasuredIsOver, MeasuredOnce
  <1>2. QED
    BY <1>1, PlanActionInvariant, PTL

\* ApprovalSafety: an approval in force is for the latest, reviewed revision, only an approved
\* action is ready, and an action is measured at most once, for every set of users and
\* workflow passes.
THEOREM PlanActionApprovalSafety == Spec => []ApprovalSafety
  BY PlanActionTypeOK, PlanActionApprovalCoversLatest, PlanActionReadyIsApproved,
     PlanActionMeasuredOnce, PTL
  DEF ApprovalSafety

-----------------------------------------------------------------------------
\* There is nothing users could approve: the asset has no content, or its review blocked it.
Hopeless == kind = "no_asset" \/ review = "block"

\* An action that users may be shown: asset, review and request are there, and it is dismissed
\* when there is nothing to approve.
Prepared ==
    /\ latest > 0
    /\ kind = "asset" => review # "none"
    /\ review = "pass" => approval # "none"
    /\ Hopeless => status = "dismissed"

\* The approval request is of a reviewed asset, and names the only revision there is; a rejection
\* under way has found it.
RequestShape ==
    /\ approval # "none" => review = "pass"
    /\ latest <= 1 /\ approval # "none" => approvalRev = 1
    /\ \A u \in Users : cmd[u].op = "reject" =>
           approval # "none" /\ cmd[u].rev > 0 /\ cmd[u].rev <= latest

\* What finalize_plan relies on: every execution about to finish has prepared the action, an
\* approval request that an execution has seen is still there, and so is a dismissal.
OfferInv ==
    /\ planReady => Prepared
    /\ RequestShape
    /\ \A k \in Workers :
           /\ wpc[k] = "finish" => Prepared
           /\ wpc[k] = "linkWrite" /\ wSeen[k].approval # "none" => approval # "none"
           /\ /\ wpc[k] \in {"linkWrite", "noAssetWrite"}
              /\ Hopeless
              /\ wSeen[k].status = "dismissed"
              => status = "dismissed"

\* Nothing takes away what users may be shown: an action stays prepared, an approval request once
\* made is never removed, and an action with nothing to approve is never taken up again, by edits,
\* rejections and repeated passes of the workflow.
LEMMA PreparedStays ==
    ASSUME Inv, OfferInv, [Next]_vars
    PROVE  /\ Prepared => Prepared'
           /\ approval # "none" => approval' # "none"
           /\ Hopeless /\ status = "dismissed" => status' = "dismissed"
  <1> DEFINE Kept == /\ Prepared => Prepared'
                     /\ approval # "none" => approval' # "none"
                     /\ Hopeless /\ status = "dismissed" => status' = "dismissed"
  <1> USE DEF Prepared, Hopeless, actionVars, approvalVars, assetVars, decisionVars, resultVars,
              workerVars
  <1>1. ASSUME UNCHANGED vars PROVE Kept
    BY <1>1 DEF vars
  <1>2. ASSUME NEW k \in Workers, Workflow(k) PROVE Kept
    <2> USE DEF Inv, PassKnows, TypeOK
    <2>1. CASE Prepare(k)
      BY <2>1 DEF Prepare, AssetShape
    <2>2. CASE Review(k)
      BY <2>2 DEF Review
    <2>3. CASE LinkWrite(k)
      BY <2>3 DEF LinkWrite, WriteAction, Changed
    <2>4. CASE NoAssetWrite(k)
      BY <2>4 DEF NoAssetWrite, WriteAction, Changed, OfferInv
    <2>5. CASE StartPass(k) \/ LinkRead(k) \/ NoAssetRead(k) \/ Finish(k) \/ FailPass(k)
      BY <2>5 DEF StartPass, LinkRead, NoAssetRead, ReadAction, Finish, FailPass
    <2>6. QED
      BY <1>2, <2>1, <2>2, <2>3, <2>4, <2>5 DEF Workflow
  <1>3. ASSUME NEW u \in Users, Command(u) PROVE Kept
    <2>1. CASE ReviseWrite(u)
      BY <2>1 DEF ReviseWrite, AfterEdit, Inv, TypeOK
    <2>2. CASE RejectWrite(u)
      <3>1. approval # "none" /\ review = "pass" /\ kind = "asset"
        BY <2>2 DEF RejectWrite, OfferInv, RequestShape, Inv, AssetShape
      <3>2. QED
        BY <2>2, <3>1 DEF RejectWrite, Changed
    <2>3. CASE \E r \in Revisions : Approve(u, r) \/ RejectRead(u, r)
      BY <2>3 DEF Approve, Approvable, Reviewed, RejectRead, Inv, AssetShape
    <2>4. CASE Start(u) \/ Complete(u) \/ Dismiss(u) \/ ReviseRead(u) \/ DecideWrite(u)
      BY <2>4 DEF Start, Complete, Completes, Transition, Dismiss, ReviseRead, DecideWrite
    <2>5. CASE \E accept \in BOOLEAN : DecideRead(u, accept)
      BY <2>5 DEF DecideRead
    <2>6. QED
      BY <1>3, <2>1, <2>2, <2>3, <2>4, <2>5 DEF Command
  <1> HIDE DEF Kept
  <1>4. Kept
    BY <1>1, <1>2, <1>3 DEF Next
  <1>5. QED
    BY <1>4 DEF Kept

\* Only LinkWrite makes the approval request, for a review that passed and for revision 1.
LEMMA RequestShapeStep ==
    ASSUME Inv, OfferInv, [Next]_vars
    PROVE  RequestShape'
  <1>0. approval # "none" => approval' # "none"
    BY PreparedStays
  <1> USE <1>0 DEF RequestShape, OfferInv, Inv, TypeOK, actionVars, approvalVars, assetVars,
                   decisionVars, resultVars, workerVars
  <1>1. CASE UNCHANGED vars
    BY <1>1 DEF vars
  <1>2. ASSUME NEW k \in Workers, Workflow(k) PROVE RequestShape'
    <2>1. CASE Prepare(k)
      BY <2>1 DEF Prepare, AssetShape
    <2>2. CASE Review(k)
      BY <2>2 DEF Review
    <2>3. CASE LinkWrite(k)
      BY <2>3 DEF LinkWrite
    <2>4. CASE NoAssetWrite(k)
      BY <2>4 DEF NoAssetWrite
    <2>5. CASE StartPass(k) \/ LinkRead(k) \/ NoAssetRead(k) \/ Finish(k) \/ FailPass(k)
      BY <2>5 DEF StartPass, LinkRead, NoAssetRead, ReadAction, Finish, FailPass
    <2>6. QED
      BY <1>2, <2>1, <2>2, <2>3, <2>4, <2>5 DEF Workflow
  <1>3. ASSUME NEW u \in Users, Command(u) PROVE RequestShape'
    <2> USE DEF Done, NoCommand
    <2>1. CASE ReviseWrite(u)
      <3>1. /\ latest' >= latest /\ (latest' = latest => UNCHANGED approvalRev)
            /\ latest' # latest => latest' > 1
        BY <2>1 DEF ReviseWrite, CommandKnows
      <3>2. approval' # "none" => approval # "none"
        BY <2>1 DEF ReviseWrite
      <3>3. \A v \in Users : cmd'[v].op = "reject" => cmd'[v] = cmd[v]
        BY <2>1 DEF ReviseWrite
      <3>4. UNCHANGED review /\ latest \in Nat /\ latest' \in Nat
        BY <2>1 DEF ReviseWrite
      <3>5. \A v \in Users : cmd[v].rev \in Nat
        BY PlanActionAssumption DEF Commands
      <3>6. (latest' <= 1 /\ approval' # "none") => approvalRev' = 1
        BY <3>1, <3>2, <3>4
      <3>7. \A v \in Users : cmd'[v].op = "reject" =>
                approval' # "none" /\ cmd'[v].rev > 0 /\ cmd'[v].rev <= latest'
        BY <3>1, <3>3, <3>4, <3>5
      <3>8. QED
        BY <3>2, <3>4, <3>6, <3>7
    <2>2. CASE RejectWrite(u)
      BY <2>2 DEF RejectWrite, Changed, Commands
    <2>3. ASSUME NEW r \in Revisions, Approve(u, r) PROVE RequestShape'
      BY <2>3 DEF Approve, Approvable, Reviewed
    <2>4. ASSUME NEW r \in Revisions, RejectRead(u, r) PROVE RequestShape'
      BY <2>4, PlanActionAssumption DEF RejectRead, Revisions
    <2>5. CASE Start(u) \/ Complete(u) \/ Dismiss(u) \/ ReviseRead(u) \/ DecideWrite(u)
      <3>1. UNCHANGED <<approval, approvalRev, latest, review>>
        BY <2>5 DEF Start, Complete, Dismiss, ReviseRead, DecideWrite
      <3>2. \A v \in Users : cmd'[v].op = "reject" => cmd'[v] = cmd[v]
        <4>1. CASE Start(u) \/ Complete(u) \/ Dismiss(u)
          BY <4>1 DEF Start, Complete, Dismiss
        <4>2. CASE ReviseRead(u)
          BY <4>2 DEF ReviseRead
        <4>3. CASE DecideWrite(u)
          BY <4>3 DEF DecideWrite
        <4>4. QED
          BY <2>5, <4>1, <4>2, <4>3
      <3>3. QED
        BY <3>1, <3>2
    <2>6. CASE \E accept \in BOOLEAN : DecideRead(u, accept)
      BY <2>6 DEF DecideRead
    <2>7. QED
      BY <1>3, <2>1, <2>2, <2>3, <2>4, <2>5, <2>6 DEF Command
  <1>4. QED
    BY <1>1, <1>2, <1>3 DEF Next

\* No command touches the workflow, the kind of the asset or its review.
LEMMA CommandLeaves ==
    ASSUME NEW u \in Users, Command(u)
    PROVE  UNCHANGED <<kind, review, planReady, wpc, wSeen>>
  <1> USE DEF assetVars, resultVars, workerVars
  <1>1. CASE \E r \in Revisions : Approve(u, r) \/ RejectRead(u, r)
    BY <1>1 DEF Approve, RejectRead
  <1>2. CASE RejectWrite(u) \/ ReviseRead(u) \/ ReviseWrite(u) \/ DecideWrite(u)
    BY <1>2 DEF RejectWrite, ReviseRead, ReviseWrite, DecideWrite
  <1>3. CASE Start(u) \/ Complete(u) \/ Dismiss(u)
    BY <1>3 DEF Start, Complete, Dismiss
  <1>4. CASE \E accept \in BOOLEAN : DecideRead(u, accept)
    BY <1>4 DEF DecideRead
  <1>5. QED
    BY <1>1, <1>2, <1>3, <1>4 DEF Command

\* Every step keeps what finalize_plan relies on.
LEMMA OfferStep ==
    ASSUME Inv, OfferInv, [Next]_vars
    PROVE  OfferInv'
  <1>0. /\ Prepared => Prepared'
        /\ approval # "none" => approval' # "none"
        /\ Hopeless /\ status = "dismissed" => status' = "dismissed"
        /\ RequestShape'
    BY PreparedStays, RequestShapeStep
  <1>9. \A k \in Workers : wpc[k] \in {"linkWrite", "noAssetWrite"} => (Hopeless' => Hopeless)
    <2> SUFFICES ASSUME NEW k \in Workers, wpc[k] \in {"linkWrite", "noAssetWrite"}
                 PROVE  UNCHANGED <<kind, review>>
      BY DEF Hopeless
    <2>1. latest # 0 /\ (kind = "asset" => review # "none")
      BY DEF Inv, PassKnows, AssetShape
    <2>2. ASSUME NEW j \in Workers, Workflow(j) PROVE UNCHANGED <<kind, review>>
      BY <2>1, <2>2 DEF Workflow, StartPass, Prepare, Review, LinkRead, NoAssetRead, ReadAction,
         LinkWrite, NoAssetWrite, Finish, FailPass, assetVars, Inv, PassKnows
    <2>3. ASSUME NEW u \in Users, Command(u) PROVE UNCHANGED <<kind, review>>
      BY <2>3, CommandLeaves
    <2>4. QED
      BY <2>2, <2>3 DEF Next, vars
  <1> USE <1>0, <1>9 DEF OfferInv
  <1>1. CASE UNCHANGED vars
    BY <1>1 DEF vars
  <1>2. ASSUME NEW k \in Workers, Workflow(k) PROVE OfferInv'
    <2> USE DEF GotoW, resultVars, workerVars, TypeOK, Inv
    <2>1. CASE StartPass(k) \/ Prepare(k) \/ Review(k)
      <3>1. UNCHANGED <<planReady, wSeen>> /\ wpc' \in [Workers -> WPC]
        BY <2>1, kind' = "asset" \/ kind' # "asset" DEF StartPass, Prepare, Review, WPC
      <3>2. \A j \in Workers :
                wpc'[j] = wpc[j] \/ wpc'[j] \notin {"finish", "linkWrite", "noAssetWrite"}
        BY <2>1 DEF StartPass, Prepare, Review
      <3>3. QED
        BY <3>1, <3>2
    <2>2. CASE LinkRead(k) \/ NoAssetRead(k)
      <3>1. /\ wSeen'[k].approval = approval /\ wSeen'[k].status = status
            /\ wpc'[k] # "finish"
            /\ UNCHANGED <<planReady, approval, status>>
        BY <2>2 DEF LinkRead, NoAssetRead, ReadAction, approvalVars, actionVars
      <3>2. \A j \in Workers : j # k => wpc'[j] = wpc[j] /\ wSeen'[j] = wSeen[j]
        BY <2>2 DEF LinkRead, NoAssetRead, ReadAction
      <3>3. QED
        BY <3>1, <3>2
    <2>3. CASE LinkWrite(k)
      <3>1. wpc'[k] = "finish" => Prepared'
        BY <2>3 DEF LinkWrite, Prepared, Hopeless, PassKnows, AssetShape, approvalVars, assetVars,
           WriteAction, Changed
      <3>2. \A j \in Workers : j # k => wpc'[j] = wpc[j] /\ wSeen'[j] = wSeen[j]
        BY <2>3 DEF LinkWrite, Forget
      <3>3. wpc'[k] \notin {"linkWrite", "noAssetWrite"} /\ UNCHANGED planReady
        BY <2>3 DEF LinkWrite
      <3>4. QED
        BY <3>1, <3>2, <3>3
    <2>4. CASE NoAssetWrite(k)
      <3>1. Prepared'
        BY <2>4 DEF NoAssetWrite, Prepared, Hopeless, PassKnows, AssetShape, approvalVars,
           assetVars, WriteAction, Changed
      <3>2. \A j \in Workers : j # k => wpc'[j] = wpc[j] /\ wSeen'[j] = wSeen[j]
        BY <2>4 DEF NoAssetWrite, Forget
      <3>3. wpc'[k] \notin {"linkWrite", "noAssetWrite"} /\ UNCHANGED planReady
        BY <2>4 DEF NoAssetWrite
      <3>4. QED
        BY <3>1, <3>2, <3>3
    <2>5. CASE Finish(k) \/ FailPass(k)
      <3>1. /\ wpc'[k] = "idle"
            /\ \A j \in Workers : j # k => wpc'[j] = wpc[j] /\ wSeen'[j] = wSeen[j]
            /\ planReady' => planReady \/ wpc[k] = "finish"
        BY <2>5 DEF Finish, FailPass, Forget
      <3>2. QED
        BY <3>1
    <2>6. QED
      BY <1>2, <2>1, <2>2, <2>3, <2>4, <2>5 DEF Workflow
  <1>3. ASSUME NEW u \in Users, Command(u) PROVE OfferInv'
    <2>1. UNCHANGED <<planReady, wpc, wSeen>>
      BY <1>3, CommandLeaves
    <2>2. QED
      BY <2>1
  <1>4. QED
    BY <1>1, <1>2, <1>3 DEF Next

\* Both invariants together imply OfferSafety.  Only a pending action can be approved: a ready one
\* is approved already, and none is ever "failed".  A listed action that is not dismissed has a
\* review that passed and its request; with the only revision still undecided, nothing has moved
\* the action on (DecidedIsSpent), and the approval goes through.
LEMMA OfferInvSafe == Inv /\ OfferInv => OfferSafety
  <1> SUFFICES ASSUME Inv, OfferInv PROVE OfferSafety
    OBVIOUS
  <1>1. OfferedIsAccepted
    <2>1. /\ "start" \in ActionOffers => Transition(status, "executing")
          /\ "complete" \in ActionOffers => Completes
          /\ "dismiss" \in ActionOffers => Transition(status, "dismissed")
          /\ "accept" \in RecommendationOffers => DecideAccepted(TRUE)
          /\ "dismiss" \in RecommendationOffers => DecideAccepted(FALSE)
      BY DEF ActionOffers, RecommendationOffers, RecommendationState, DecideAccepted, Verdict,
             Transition, Completes, Inv, TypeOK, ActionStatus
    <2>2. ASSUME Listed, ~Edited, ~Hopeless
          PROVE  latest = 1 /\ review = "pass" /\ approval # "none" /\ approvalRev = 1
      BY <2>2 DEF Listed, Edited, Hopeless, OfferInv, Prepared, RequestShape, Inv, TypeOK, AssetShape
    <2>3. ASSUME latest = 1, review = "pass", approval = "pending", status # "dismissed"
          PROVE  Approvable(1)
      <3>1. ~Spent
        BY <2>3 DEF Spent, Inv, AssetShape
      <3>2. status = "pending"
        BY <2>3, <3>1 DEF Inv, DecidedIsSpent, TypeOK, ActionStatus
      <3>3. QED
        BY <2>3, <3>2 DEF Approvable, Reviewed, Transition
    <2>4. ASSUME Listed, "approve_asset_revision" \in ActionOffers
          PROVE  ApproveAccepted(latest) \/ Edited \/ Rejected \/ Reopened
      <3>1. status = "pending"
        BY <2>4 DEF ActionOffers
      <3>2. ~Hopeless
        BY <2>4, <3>1 DEF Listed, OfferInv, Prepared
      <3>3. CASE approvalStatus = "approved"
        BY <3>3 DEF Inv, ApprovalCoversLatest, ApproveAccepted
      <3>4. QED
        BY <2>2, <2>3, <2>4, <3>1, <3>2, <3>3
           DEF ApproveAccepted, Rejected, Reopened, Inv, TypeOK, Approval
    <2>5. ASSUME Listed, "approve" \in AssetOffers(latest)
          PROVE  ApproveAccepted(latest) \/ Edited \/ RiskBlocked \/ status = "dismissed"
      <3>1. kind = "asset" /\ ShownApproval(latest) \notin {"approved", "rejected"}
        BY <2>5 DEF AssetOffers, HasPage
      <3>2. RiskBlocked \/ ~Hopeless
        BY <3>1 DEF RiskBlocked, Hopeless
      <3>3. QED
        BY <2>2, <2>3, <2>5, <3>1, <3>2
           DEF ApproveAccepted, ShownApproval, Inv, TypeOK, Approval
    <2>6. ASSUME Listed, "reject" \in AssetOffers(latest)
          PROVE  RejectAccepted \/ RiskBlocked
      <3>1. kind = "asset"
        BY <2>6 DEF AssetOffers, HasPage
      <3>2. QED
        BY <2>6, <3>1 DEF RejectAccepted, RiskBlocked, Listed, OfferInv, Prepared, Inv, TypeOK
    <2>7. QED
      BY <2>1, <2>4, <2>5, <2>6 DEF OfferedIsAccepted
  <1>2. ApprovableIsOffered
    <2> SUFFICES ASSUME NEW r \in Revisions, Approvable(r)
                 PROVE  "approve" \in AssetOffers(r) /\ "approve_asset_revision" \in ActionOffers
      BY DEF ApprovableIsOffered
    <2>1. status = "pending"
      BY DEF Approvable, Transition, Inv, ReadyIsApproved, ApprovalCoversLatest
    <2>2. ShownApproval(r) \in {"pending", "none"} /\ r = latest /\ kind = "asset"
      BY DEF ShownApproval, Approvable, Reviewed, Inv, AssetShape
    <2>3. QED
      BY <2>1, <2>2 DEF ActionOffers, AssetOffers, HasPage
  <1>3. ListedIsPrepared
    BY DEF ListedIsPrepared, Listed, OfferInv, Prepared
  <1>4. QED
    BY <1>1, <1>2, <1>3 DEF OfferSafety

\* OfferSafety: for every set of users, workflow executions and revisions, a command the API lists
\* is accepted, up to the named refusals of an approval, an approvable revision is offered for approval, and what a ready plan lists is
\* prepared (_action, _recommendation and _asset_projection of weekly_growth_router).
THEOREM PlanActionOfferSafety == Spec => []OfferSafety
  <1>1. Init => OfferInv
    BY DEF Init, OfferInv, Prepared, RequestShape, NoCommand
  <1>2. ASSUME Inv, OfferInv, [Next]_vars PROVE OfferInv'
    BY <1>2, OfferStep
  <1>3. QED
    BY <1>1, <1>2, PlanActionInvariant, OfferInvSafe, PTL DEF Spec

-----------------------------------------------------------------------------
\* What an asset can contain, the text it is prepared with included.
Contents == Edits \cup {CHOOSE b \in Edits : TRUE}

\* A request between its read and its commit.
LockRequests == [pc : {"lock"}, action : PlanActions, row : {0}, key : CommandKeys]
EditRequests == [pc : {"insert", "repeat"}, action : PlanActions, row : Rows, key : CommandKeys,
                 revision : Nat, content : Contents]
Requests == {NoRequest} \cup LockRequests \cup EditRequests

\* Every column and every request has its type.
CommandTypeOK ==
    /\ stage \in [PlanActions -> {"executing", "completed"}]
    /\ contents \in [PlanActions -> Seq(Contents)]
    /\ today \in Nat
    /\ request \in [Clients -> Requests]
    /\ applied \in [CommandNames -> Nat]

\* A record of measurement_windows.
WindowShape(w) ==
    /\ w = [key |-> w.key, action |-> w.action, start |-> w.start, status |-> w.status]
    /\ w.start \in Nat

WindowsShaped == \A w \in windows : WindowShape(w)

\* A command that took effect has left its receipt.
AppliedHasReceipt ==
    \A op \in {"complete", "edit"}, a \in PlanActions, i \in Rows, k \in CommandKeys :
        /\ applied[<<op, a, i, k>>] <= 1
        /\ Unseen(op, a, i, k) => applied[<<op, a, i, k>>] = 0

\* Content is never taken back from an asset.
Holds(a, n, content) ==
    a \in PlanActions /\ n \in 1..Len(contents[a]) /\ contents[a][n] = content

ReceiptsHold ==
    \A r \in receipts : r.op = "edit" => Holds(r.action, r.revision, r.content)

RepeatsHold ==
    \A c \in Clients : request[c].pc = "repeat" =>
        Holds(request[c].action, request[c].revision, request[c].content)

CommandInv ==
    /\ CommandTypeOK
    /\ WindowsShaped
    /\ AppliedHasReceipt
    /\ ReceiptsHold
    /\ RepeatsHold
    /\ CompletedIsMeasured
    /\ MeasuredWhenDue

\* Executing actions without receipts or measurements satisfy the invariant.
LEMMA CommandInitInv == CommandInit => CommandInv
  <1> SUFFICES ASSUME CommandInit PROVE CommandInv
    OBVIOUS
  <1>1. CommandTypeOK
    <2>1. contents \in [PlanActions -> Seq(Contents)]
      BY DEF CommandInit, Contents
    <2>2. QED
      BY <2>1, WindowAssumption DEF CommandInit, CommandTypeOK, Requests
  <1>2. RepeatsHold
    BY DEF CommandInit, RepeatsHold, NoRequest
  <1>3. AppliedHasReceipt
    <2> SUFFICES ASSUME NEW op \in {"complete", "edit"}, NEW a \in PlanActions,
                        NEW i \in Rows, NEW k \in CommandKeys
                 PROVE  applied[<<op, a, i, k>>] = 0
      BY DEF AppliedHasReceipt
    <2>1. <<op, a, i, k>> \in CommandNames
      BY DEF CommandNames
    <2>2. QED
      BY <2>1 DEF CommandInit
  <1>4. QED
    BY <1>1, <1>2, <1>3 DEF CommandInv, CommandInit, WindowsShaped, ReceiptsHold,
       CompletedIsMeasured, MeasuredWhenDue

\* A step that only begins or gives up a request: whatever it remembers for a repetition holds.
LEMMA RequestInv ==
    ASSUME CommandInv, NEW c \in Clients, NEW q \in Requests,
           request' = [request EXCEPT ![c] = q],
           q.pc = "repeat" => Holds(q.action, q.revision, q.content),
           UNCHANGED <<stage, contents, receipts, windows, today, applied>>
    PROVE  CommandInv'
  <1> USE DEF CommandInv
  <1>1. CommandTypeOK'
    BY DEF CommandTypeOK
  <1>2. RepeatsHold'
    BY DEF RepeatsHold, Holds, CommandTypeOK
  <1>3. QED
    BY <1>1, <1>2 DEF WindowsShaped, AppliedHasReceipt, Unseen, ReceiptsHold, Holds,
       CompletedIsMeasured, MeasuredWhenDue

\* revise_asset_use_case before its inserts: a stale edit is remembered only for what the asset holds.
LEMMA EditReadInv ==
    ASSUME CommandInv, NEW c \in Clients, NEW a \in PlanActions, NEW i \in 1..MaxEdits,
           NEW k \in CommandKeys, NEW n \in 1..MaxEdits, NEW b \in Edits,
           EditRead(c, a, i, k, n, b)
    PROVE  CommandInv'
  <1> DEFINE q == [pc |-> IF n = Len(contents[a]) THEN "insert" ELSE "repeat",
                   action |-> a, row |-> i, key |-> k, revision |-> n + 1, content |-> b]
  <1>0. contents[a] \in Seq(Contents) /\ Len(contents[a]) \in Nat /\ n \in Nat
    BY WindowAssumption DEF CommandInv, CommandTypeOK
  <1>1. q \in Requests
    <2>1. n + 1 \in Nat /\ b \in Contents /\ i \in Rows
      BY <1>0, WindowAssumption DEF Contents, Rows
    <2>2. QED
      BY <2>1 DEF Requests, EditRequests
  <1>2. q.pc = "repeat" => Holds(q.action, q.revision, q.content)
    BY <1>0 DEF EditRead, Repeats, Holds
  <1>3. /\ request' = [request EXCEPT ![c] = q]
        /\ UNCHANGED <<stage, contents, receipts, windows, today, applied>>
    BY DEF EditRead
  <1> HIDE DEF q
  <1>4. QED
    BY <1>1, <1>2, <1>3, RequestInv

\* transition_action_use_case before it takes the lock.
LEMMA CompleteReadInv ==
    ASSUME CommandInv, NEW c \in Clients, NEW a \in PlanActions, NEW k \in CommandKeys,
           CompleteRead(c, a, k)
    PROVE  CommandInv'
  <1> DEFINE q == [pc |-> "lock", action |-> a, row |-> 0, key |-> k]
  <1>1. q \in Requests /\ q.pc # "repeat"
    BY DEF Requests, LockRequests
  <1>2. /\ request' = [request EXCEPT ![c] = q]
        /\ UNCHANGED <<stage, contents, receipts, windows, today, applied>>
    BY DEF CompleteRead
  <1> HIDE DEF q
  <1>3. QED
    BY <1>1, <1>2, RequestInv

\* A request that a unique key refuses, or that dies, leaves nothing behind.
LEMMA RequestFailsInv ==
    ASSUME CommandInv, NEW c \in Clients, RequestFails(c)
    PROVE  CommandInv'
  <1>1. NoRequest \in Requests /\ NoRequest.pc # "repeat"
    BY DEF Requests, NoRequest
  <1>2. QED
    BY <1>1, RequestInv DEF RequestFails, ClientIdle

\* Counting another effect of a command keeps the type of the history.
LEMMA AppliedType ==
    ASSUME applied \in [CommandNames -> Nat], NEW x
    PROVE  [applied EXCEPT ![x] = @ + 1] \in [CommandNames -> Nat]
  <1>1. \A y \in CommandNames : applied[y] + 1 \in Nat
    OBVIOUS
  <1>2. QED
    BY <1>1

\* A command that commits with a new receipt: its name was unused, so this is its first effect, and
\* from now on the receipt stands for it.
LEMMA AppliedStep ==
    ASSUME AppliedHasReceipt, CommandTypeOK,
           NEW op \in {"complete", "edit"}, NEW a \in PlanActions, NEW i \in Rows,
           NEW k \in CommandKeys, NEW b, NEW n,
           Unseen(op, a, i, k),
           receipts' = receipts \cup {Receipt(op, a, i, k, b, n)},
           \/ applied' = [applied EXCEPT ![<<op, a, i, k>>] = @ + 1]
           \/ UNCHANGED applied
    PROVE  AppliedHasReceipt'
  <1> SUFFICES ASSUME NEW p \in {"complete", "edit"}, NEW x \in PlanActions, NEW j \in Rows,
                      NEW y \in CommandKeys
               PROVE  /\ applied'[<<p, x, j, y>>] <= 1
                      /\ Unseen(p, x, j, y)' => applied'[<<p, x, j, y>>] = 0
    BY DEF AppliedHasReceipt
  <1>1. <<p, x, j, y>> \in CommandNames /\ <<op, a, i, k>> \in CommandNames
    BY DEF CommandNames
  <1>2. applied[<<op, a, i, k>>] = 0
    BY DEF AppliedHasReceipt
  <1> DEFINE z == <<p, x, j, y>>
             d == <<op, a, i, k>>
  <1>3. Unseen(p, x, j, y)' => Unseen(p, x, j, y) /\ z # d
    <2>1. /\ Receipt(op, a, i, k, b, n).op = op /\ Receipt(op, a, i, k, b, n).action = a
          /\ Receipt(op, a, i, k, b, n).row = i
          /\ Receipt(op, a, i, k, b, n).key = k /\ Receipt(op, a, i, k, b, n) \in receipts'
      BY DEF Receipt
    <2>2. QED
      BY <2>1 DEF Unseen
  <1>4. applied[<<p, x, j, y>>] <= 1 /\ (Unseen(p, x, j, y) => applied[<<p, x, j, y>>] = 0)
    BY DEF AppliedHasReceipt
  <1>5. \/ applied'[z] = applied[z]
        \/ z = d /\ applied'[z] = 1
    <2>1. z \in CommandNames /\ d \in CommandNames /\ applied[d] = 0
      BY <1>1, <1>2
    <2>2. applied' = [applied EXCEPT ![d] = @ + 1] \/ UNCHANGED applied
      OBVIOUS
    <2> HIDE DEF z, d
    <2>3. QED
      BY <2>1, <2>2 DEF CommandTypeOK
  <1>6. QED
    BY <1>3, <1>4, <1>5

\* An edit commits: revisions are only appended, so that older receipts keep their content, and the
\* new receipt names the revision just inserted, or the one it repeats.
LEMMA EditCommitInv ==
    ASSUME CommandInv, NEW c \in Clients, EditCommit(c)
    PROVE  CommandInv'
  <1> DEFINE q == request[c]
             a == q.action
  <1>0. /\ q \in EditRequests
        /\ q.pc \in {"insert", "repeat"} /\ a \in PlanActions /\ q.row \in Rows /\ q.key \in CommandKeys
        /\ q.revision \in Nat /\ q.content \in Contents
    <2>1. q \in Requests /\ q.pc \in {"insert", "repeat"}
      BY DEF CommandInv, CommandTypeOK, EditCommit
    <2>2. q \in EditRequests
      BY <2>1 DEF Requests, LockRequests, NoRequest
    <2>3. QED
      BY <2>2 DEF EditRequests
  <1>1. /\ Unseen("edit", a, q.row, q.key)
        /\ receipts' = receipts \cup {Receipt("edit", a, q.row, q.key, q.content, q.revision)}
        /\ request' = [request EXCEPT ![c] = NoRequest]
        /\ UNCHANGED <<stage, windows, today>>
    BY DEF EditCommit, FreshReceipt, ClientIdle
  <1>2. \/ /\ q.pc = "insert"
           /\ Len(contents[a]) + 1 = q.revision
           /\ contents' = [contents EXCEPT ![a] = Append(@, q.content)]
           /\ applied' = [applied EXCEPT ![<<"edit", a, q.row, q.key>>] = @ + 1]
        \/ q.pc = "repeat" /\ UNCHANGED <<contents, applied>>
    BY DEF EditCommit
  <1>3. \A x \in PlanActions : contents[x] \in Seq(Contents) /\ Len(contents[x]) \in Nat
    BY DEF CommandInv, CommandTypeOK
  <1>4. \A x, n, b : Holds(x, n, b) => Holds(x, n, b)'
    <2> SUFFICES ASSUME NEW x \in PlanActions, NEW n \in 1..Len(contents[x])
                 PROVE  n \in 1..Len(contents'[x]) /\ contents'[x][n] = contents[x][n]
      BY DEF Holds
    <2>1. contents'[x] = contents[x] \/ contents'[x] = Append(contents[x], q.content)
      BY <1>2 DEF CommandInv, CommandTypeOK
    <2>2. contents[x] \in Seq(Contents) /\ Len(contents[x]) \in Nat
      BY <1>3
    <2>3. CASE contents'[x] = Append(contents[x], q.content)
      BY <2>2, <2>3, <1>0
    <2>4. QED
      BY <2>1, <2>3
  <1>5. ASSUME NEW x, NEW n, NEW b, x = a, n = q.revision, b = q.content
        PROVE  Holds(x, n, b)'
    <2>1. CASE q.pc = "repeat"
      BY <1>4, <1>5, <2>1 DEF CommandInv, RepeatsHold
    <2>2. CASE q.pc = "insert"
      <3>1. /\ contents'[a] = Append(contents[a], q.content)
            /\ Len(contents[a]) + 1 = q.revision
        BY <1>0, <1>2, <2>2 DEF CommandInv, CommandTypeOK
      <3>2. contents[a] \in Seq(Contents) /\ Len(contents[a]) \in Nat
        BY <1>0, <1>3
      <3>3. n \in 1..Len(contents'[x]) /\ contents'[x][n] = b
        BY <1>0, <1>5, <3>1, <3>2
      <3>4. QED
        BY <1>0, <1>5, <3>3 DEF Holds
    <2>3. QED
      BY <1>0, <2>1, <2>2
  <1>6. CommandTypeOK'
    <2>1. contents' \in [PlanActions -> Seq(Contents)]
      <3>1. Append(contents[a], q.content) \in Seq(Contents)
        BY <1>0, <1>3
      <3>2. QED
        BY <1>2, <3>1 DEF CommandInv, CommandTypeOK
    <2>2. request' \in [Clients -> Requests]
      BY <1>1 DEF CommandInv, CommandTypeOK, Requests
    <2>3. applied' \in [CommandNames -> Nat]
      <3>1. applied \in [CommandNames -> Nat]
        BY DEF CommandInv, CommandTypeOK
      <3>2. [applied EXCEPT ![<<"edit", a, q.row, q.key>>] = @ + 1] \in [CommandNames -> Nat]
        BY <3>1, AppliedType
      <3>3. QED
        BY <1>2, <3>1, <3>2
    <2>4. QED
      BY <1>1, <2>1, <2>2, <2>3 DEF CommandInv, CommandTypeOK
  <1>7. AppliedHasReceipt'
    BY <1>0, <1>1, <1>2, AppliedStep DEF CommandInv
  <1>8. ReceiptsHold'
    <2>1. Receipt("edit", a, q.row, q.key, q.content, q.revision).action = a
          /\ Receipt("edit", a, q.row, q.key, q.content, q.revision).revision = q.revision
          /\ Receipt("edit", a, q.row, q.key, q.content, q.revision).content = q.content
      BY DEF Receipt
    <2>2. ASSUME NEW r \in receipts', r.op = "edit"
          PROVE  Holds(r.action, r.revision, r.content)'
      <3>1. CASE r \in receipts
        <4>1. Holds(r.action, r.revision, r.content)
          BY <2>2, <3>1 DEF CommandInv, ReceiptsHold
        <4>2. QED
          BY <1>4, <4>1
      <3>2. CASE r = Receipt("edit", a, q.row, q.key, q.content, q.revision)
        BY <1>5, <2>1, <3>2
      <3>3. QED
        BY <1>1, <3>1, <3>2
    <2>3. QED
      BY <2>2 DEF ReceiptsHold
  <1>9. RepeatsHold'
    <2>1. \A d \in Clients : request'[d].pc = "repeat" => request'[d] = request[d]
      BY <1>1 DEF CommandInv, CommandTypeOK, NoRequest
    <2>2. QED
      BY <1>4, <2>1 DEF CommandInv, RepeatsHold
  <1>10. CompletedIsMeasured'
    BY <1>1 DEF CommandInv, CompletedIsMeasured
  <1>11. QED
    BY <1>1, <1>6, <1>7, <1>8, <1>9, <1>10 DEF CommandInv, WindowsShaped, MeasuredWhenDue

\* schedule_measurement adds a scheduled measurement of the action unless the key is taken.
LEMMA ScheduledWindow ==
    ASSUME CommandInv, NEW a, NEW k, windows' = Scheduled(a, k)
    PROVE  \/ KeyTaken(k) /\ windows' = windows
           \/ /\ ~KeyTaken(k)
              /\ \E v : /\ windows' = windows \cup {v}
                        /\ WindowShape(v) /\ v.key = k /\ v.action = a
                        /\ v.status = "scheduled"
  <1>1. CASE ~KeyTaken(k)
    <2> DEFINE v == [key |-> k, action |-> a, start |-> today, status |-> "scheduled"]
    <2>1. windows' = windows \cup {v}
      BY <1>1 DEF Scheduled
    <2>2. WindowShape(v) /\ v.key = k /\ v.action = a /\ v.status = "scheduled"
      BY DEF WindowShape, CommandInv, CommandTypeOK
    <2>3. QED
      BY <1>1, <2>1, <2>2
  <1>2. QED
    BY <1>1 DEF Scheduled

\* A completion commits under the action's lock: it schedules the action's own measurement, or its
\* receipt shares the key of another one.
LEMMA CompleteCommitInv ==
    ASSUME CommandInv, NEW c \in Clients, CompleteCommit(c)
    PROVE  CommandInv'
  <1> DEFINE q == request[c]
             a == q.action
  <1>0. a \in PlanActions /\ q.row = 0 /\ 0 \in Rows /\ q.key \in CommandKeys
    <2>1. q \in Requests /\ q.pc = "lock"
      BY DEF CommandInv, CommandTypeOK, CompleteCommit
    <2>2. q \in LockRequests
      BY <2>1 DEF Requests, EditRequests, NoRequest
    <2>3. QED
      BY <2>2, WindowAssumption DEF LockRequests, Rows
  <1>1. /\ Unseen("complete", a, q.row, q.key)
        /\ receipts' = receipts \cup {Receipt("complete", a, q.row, q.key, "none", 0)}
        /\ request' = [request EXCEPT ![c] = NoRequest]
        /\ UNCHANGED <<contents, today>>
    BY DEF CompleteCommit, FreshReceipt, ClientIdle
  <1>2. \/ /\ stage[a] = "executing"
           /\ stage' = [stage EXCEPT ![a] = "completed"]
           /\ windows' = Scheduled(a, q.key)
           /\ applied' = [applied EXCEPT ![<<"complete", a, q.row, q.key>>] = @ + 1]
        \/ UNCHANGED <<stage, windows, applied>>
    BY DEF CompleteCommit
  <1>3. CommandTypeOK'
    <2>1. request' \in [Clients -> Requests]
      BY <1>1 DEF CommandInv, CommandTypeOK, Requests
    <2>2. applied' \in [CommandNames -> Nat]
      <3>1. applied \in [CommandNames -> Nat]
        BY DEF CommandInv, CommandTypeOK
      <3>2. [applied EXCEPT ![<<"complete", a, q.row, q.key>>] = @ + 1] \in [CommandNames -> Nat]
        BY <3>1, AppliedType
      <3>3. QED
        BY <1>2, <3>1, <3>2
    <2>3. QED
      BY <1>1, <1>2, <2>1, <2>2 DEF CommandInv, CommandTypeOK
  <1>4. AppliedHasReceipt'
    BY <1>0, <1>1, <1>2, AppliedStep DEF CommandInv
  <1>5. ReceiptsHold' /\ RepeatsHold'
    <2>1. \A d \in Clients : request'[d].pc = "repeat" => request'[d] = request[d]
      BY <1>1 DEF CommandInv, CommandTypeOK, NoRequest
    <2>2. \A x, n, b : Holds(x, n, b) => Holds(x, n, b)'
      BY <1>1 DEF Holds
    <2>3. Receipt("complete", a, q.row, q.key, "none", 0).op = "complete"
      BY DEF Receipt
    <2>4. QED
      BY <1>1, <2>1, <2>2, <2>3 DEF CommandInv, ReceiptsHold, RepeatsHold
  <1>6. /\ windows \subseteq windows'
        /\ \A v \in windows' : v \in windows \/ (v.status = "scheduled" /\ ~KeyTaken(v.key) /\ WindowShape(v))
        /\ \A v, w \in windows' : v \notin windows /\ w \notin windows => v = w
        /\ UNCHANGED stage
           \/ /\ stage' = [stage EXCEPT ![a] = "completed"]
              /\ \E v \in windows' : v.key = q.key /\ (v.action = a \/ v \in windows)
    <2>1. CASE UNCHANGED <<stage, windows, applied>>
      BY <2>1
    <2>2. ASSUME windows' = Scheduled(a, q.key),
                 stage' = [stage EXCEPT ![a] = "completed"]
          PROVE  <1>6!:
      <3>1. CASE KeyTaken(q.key) /\ windows' = windows
        BY <2>2, <3>1 DEF KeyTaken
      <3>2. ASSUME ~KeyTaken(q.key), NEW v, windows' = windows \cup {v},
                   WindowShape(v), v.key = q.key, v.action = a, v.status = "scheduled"
            PROVE  <1>6!:
        BY <2>2, <3>2
      <3>3. QED
        BY <2>2, <3>1, <3>2, ScheduledWindow
    <2>3. QED
      BY <1>2, <2>1, <2>2
  <1>7. WindowsShaped' /\ MeasuredWhenDue'
    BY <1>1, <1>6 DEF CommandInv, WindowsShaped, MeasuredWhenDue, KeyTaken
  <1>8. CompletedIsMeasured'
    <2> SUFFICES ASSUME NEW x \in PlanActions, stage'[x] = "completed"
                 PROVE  \/ \E w \in windows' : w.action = x
                        \/ \E r \in receipts', w \in windows' :
                               r.op = "complete" /\ r.action = x /\ w.key = r.key /\ w.action # x
      BY DEF CompletedIsMeasured
    <2>1. CASE stage[x] = "completed"
      BY <1>1, <1>6, <2>1 DEF CommandInv, CompletedIsMeasured
    <2>2. CASE stage[x] # "completed"
      <3>1. x = a /\ \E v \in windows' : v.key = q.key
        BY <1>6, <2>2 DEF CommandInv, CommandTypeOK
      <3>2. \E r \in receipts' : r.op = "complete" /\ r.action = a /\ r.key = q.key
        <4>1. Receipt("complete", a, q.row, q.key, "none", 0) \in receipts'
          BY <1>1
        <4>2. /\ Receipt("complete", a, q.row, q.key, "none", 0).op = "complete"
              /\ Receipt("complete", a, q.row, q.key, "none", 0).action = a
              /\ Receipt("complete", a, q.row, q.key, "none", 0).key = q.key
          BY DEF Receipt
        <4>3. QED
          BY <4>1, <4>2
      <3>3. QED
        BY <3>1, <3>2
    <2>3. QED
      BY <2>1, <2>2
  <1>9. QED
    BY <1>3, <1>4, <1>5, <1>7, <1>8 DEF CommandInv

\* Collecting a measurement changes its status and nothing else.
LEMMA CollectedWindow ==
    ASSUME NEW w, WindowShape(w), NEW s, NEW v, v = [w EXCEPT !.status = s]
    PROVE  WindowShape(v) /\ v.key = w.key /\ v.action = w.action /\ v.start = w.start
  <1>1. PICK k, a, d, t : w = [key |-> k, action |-> a, start |-> d, status |-> t]
    BY DEF WindowShape
  <1>2. v = [key |-> k, action |-> a, start |-> d, status |-> s]
    BY <1>1
  <1>3. QED
    BY <1>1, <1>2 DEF WindowShape

\* MeasurementFollowupWorkflow.process: the measurement stays in its place, with its key and action.
LEMMA FollowUpInv ==
    ASSUME CommandInv, NEW w \in windows, FollowUp(w)
    PROVE  CommandInv'
  <1> DEFINE v == [w EXCEPT !.status = "unavailable"]
  <1>1. /\ windows' = (windows \ {w}) \cup {v}
        /\ today >= w.start + WindowDays
        /\ UNCHANGED <<stage, contents, receipts, today, request, applied>>
    BY DEF FollowUp
  <1>2. /\ WindowShape(v) /\ v.key = w.key /\ v.action = w.action /\ v.start = w.start
    BY CollectedWindow DEF CommandInv, WindowsShaped
  <1> HIDE DEF v
  <1>3. WindowsShaped' /\ MeasuredWhenDue'
    BY <1>1, <1>2 DEF CommandInv, WindowsShaped, MeasuredWhenDue
  <1>4. CompletedIsMeasured'
    <2>1. \A u \in windows : \E x \in windows' : x.key = u.key /\ x.action = u.action
      BY <1>1, <1>2
    <2>2. QED
      BY <1>1, <2>1 DEF CommandInv, CompletedIsMeasured
  <1>5. QED
    BY <1>1, <1>3, <1>4 DEF CommandInv, CommandTypeOK, AppliedHasReceipt, Unseen, ReceiptsHold,
       RepeatsHold, Holds

\* The days that pass touch no measurement.
LEMMA NextDayInv ==
    ASSUME CommandInv, NextDay
    PROVE  CommandInv'
  <1>1. /\ UNCHANGED <<stage, contents, receipts, windows, request, applied>>
        /\ today' \in Nat /\ today' >= today
    BY DEF CommandInv, CommandTypeOK, NextDay
  <1>2. MeasuredWhenDue'
    <2> SUFFICES ASSUME NEW w \in windows, w.status # "scheduled"
                 PROVE  today' >= w.start + WindowDays
      BY <1>1 DEF CommandInv, MeasuredWhenDue
    <2>1. today >= w.start + WindowDays /\ today \in Nat /\ w.start \in Nat
      BY DEF CommandInv, MeasuredWhenDue, CommandTypeOK, WindowsShaped, WindowShape
    <2>2. QED
      BY <1>1, <2>1, WindowAssumption
  <1>3. QED
    BY <1>1, <1>2 DEF CommandInv, CommandTypeOK, AppliedHasReceipt, Unseen, ReceiptsHold,
       RepeatsHold, Holds, WindowsShaped, CompletedIsMeasured

\* Every step keeps the invariant.
LEMMA CommandNextInv == CommandInv /\ [CommandNext]_commandVars => CommandInv'
  <1> SUFFICES ASSUME CommandInv, [CommandNext]_commandVars PROVE CommandInv'
    OBVIOUS
  <1>1. CASE UNCHANGED commandVars
    BY <1>1 DEF commandVars, CommandInv, CommandTypeOK, AppliedHasReceipt, Unseen, ReceiptsHold,
       RepeatsHold, Holds, WindowsShaped, CompletedIsMeasured, MeasuredWhenDue
  <1>2. CASE CommandNext
    BY <1>2, EditReadInv, CompleteReadInv, RequestFailsInv, EditCommitInv, CompleteCommitInv,
       FollowUpInv, NextDayInv DEF CommandNext
  <1>3. QED
    BY <1>1, <1>2

\* The inductive invariant of the commands, their receipts and the measurements.
THEOREM CommandInvariant == CommandSpec => []CommandInv
  BY CommandInitInv, CommandNextInv, PTL DEF CommandSpec

\* CommandSafety: for every set of clients, actions and keys, a command repeated for its
\* resource with its key takes effect once, a
\* completed action has a measurement unless its key scheduled another action's, and no measurement
\* is collected before its window has ended (_command_replay, schedule_measurement).
THEOREM CommandSafetyHolds == CommandSpec => []CommandSafety
  <1>1. CommandInv => CommandSafety
    <2> SUFFICES ASSUME CommandInv PROVE CommandSafety
      OBVIOUS
    <2>1. \A x \in CommandNames : applied[x] <= 1
      BY DEF CommandInv, AppliedHasReceipt, CommandNames
    <2>2. QED
      BY <2>1 DEF CommandInv, CommandSafety, CommandTakesEffectOnce, ReceiptsHold, Holds
  <1>2. QED
    BY <1>1, CommandInvariant, PTL

=============================================================================
