-------------------------- MODULE PlanActionOffers --------------------------
(***************************************************************************)
(* What the API shows of an action, its recommendation and its asset        *)
(* (app/modules/operator/api/weekly_growth_router.py), and the commands it  *)
(* calls valid, over the states of PlanAction.  A client shows a button for *)
(* every valid command; the services decide on their own whether they       *)
(* accept it.                                                               *)
(***************************************************************************)
EXTENDS PlanAction

\* Mutant: an action can be dismissed in any state.
ActionOffersDismiss ==
    {"dismiss"} \cup
    CASE status = "pending" -> {"approve_asset_revision"}
      [] status = "ready" -> {"start"}
      [] status = "executing" -> {"complete"}
      [] OTHER -> {}

\* _action
ActionOffers ==
    CASE status = "pending" -> {"approve_asset_revision", "dismiss"}
      [] status = "ready" -> {"start", "dismiss"}
      [] status = "executing" -> {"complete"}
      [] OTHER -> {}

\* _recommendation
RecommendationState ==
    IF status = "dismissed" THEN "dismissed"
    ELSE IF decision = "none" THEN "proposed" ELSE decision

RecommendationOffers ==
    IF RecommendationState = "proposed" THEN {"accept", "dismiss"} ELSE {}

\* The approval request as _asset_projection reads it, for one revision.
ShownApproval(r) == IF approval # "none" /\ approvalRev = r THEN approval ELSE "none"

\* An asset without content (no_asset) has no page: its kind is not one of AssetKind.
HasPage == kind = "asset"

\* Mutant: only a revision without any approval request can be decided on.
AssetOffersUnasked(r) ==
    IF r # latest \/ ~HasPage THEN {}
    ELSE {"edit"} \cup IF ShownApproval(r) # "none" THEN {} ELSE {"approve", "reject"}

\* _asset_projection; the offer to publish a linked draft is left out.
AssetOffers(r) ==
    IF r # latest \/ ~HasPage THEN {}
    ELSE {"edit"} \cup
         IF ShownApproval(r) \in {"approved", "rejected"} THEN {} ELSE {"approve", "reject"}

\* list_plans and list_actions show what belongs to a plan that is ready.
Listed == planReady

\* decide_recommendation_use_case
DecideAccepted(accept) == status # "dismissed" /\ decision \in {"none", Verdict(accept)}

\* approve_action_revision_use_case: an approval in force is answered again.
ApproveAccepted(r) == (approvalStatus = "approved" /\ approvedRev = r) \/ Approvable(r)

\* reject_asset_use_case
RejectAccepted == approval # "none"

\* Why an approval that is offered is refused although the plan is ready.
Edited == latest > 1                    \* the risk review is of revision 1 alone
RiskBlocked == review = "block"
Rejected == approval = "rejected"
Reopened ==                             \* a repeated pass reset the action, not the request
    approval = "approved" /\ approvalStatus # "approved"

-----------------------------------------------------------------------------
\* A command that the API calls valid for an action, for its recommendation or for its asset
\* is accepted by the service when it arrives before anything else happens, whatever the
\* workflow and other users have done to the action so far.  Approving and rejecting are the
\* exception: before the plan is ready there may be no asset, review or request yet, and
\* afterwards they are refused for the reasons named here and for no other.
OfferedIsAccepted ==
    /\ "start" \in ActionOffers => Transition(status, "executing")
    /\ "complete" \in ActionOffers => Completes
    /\ "dismiss" \in ActionOffers => Transition(status, "dismissed")
    /\ "accept" \in RecommendationOffers => DecideAccepted(TRUE)
    /\ "dismiss" \in RecommendationOffers => DecideAccepted(FALSE)
    /\ Listed /\ "approve_asset_revision" \in ActionOffers =>
           ApproveAccepted(latest) \/ Edited \/ Rejected \/ Reopened
    /\ Listed /\ "approve" \in AssetOffers(latest) =>
           ApproveAccepted(latest) \/ Edited \/ RiskBlocked \/ status = "dismissed"
    /\ Listed /\ "reject" \in AssetOffers(latest) => RejectAccepted \/ RiskBlocked

\* What can be approved can be found: when the service would approve a revision, the page of
\* the asset offers to approve it, and the action asks for it.
ApprovableIsOffered ==
    \A r \in Revisions :
        Approvable(r) => "approve" \in AssetOffers(r) /\ "approve_asset_revision" \in ActionOffers

\* What the API lists is prepared: once the plan is ready, its action has an asset, and an
\* asset with content has its risk review and, unless blocked, its approval request,
\* although passes of the workflow fail, are repeated and overlap.
ListedIsPrepared ==
    Listed =>
        /\ latest > 0
        /\ kind = "asset" => review # "none"
        /\ review = "pass" => approval # "none"

\* The commands the API lists for an action are the ones its services accept in that state, up to
\* the named refusals of an approval, an approvable revision is offered for approval, and a listed asset is prepared
\* (_action, _asset_projection and _ready_plan of weekly_growth_router).
OfferSafety ==
    /\ OfferedIsAccepted
    /\ ApprovableIsOffered
    /\ ListedIsPrepared

=============================================================================
