-------------------------- MODULE ProductActivation --------------------------
(***************************************************************************)
(* Products of a workspace, their profiles and the activation of one of     *)
(* them (app/modules/products).  A profile is edited as a draft that the    *)
(* client names by its revision, and approved as the next version; both     *)
(* commands hold the product's lock and are one step here.  The activation  *)
(* product is a column of the workspace.  Commands lock that row, and       *)
(* create_product does so after its INSERT, whose foreign key holds a share *)
(* of the same lock.                                                        *)
(***************************************************************************)
EXTENDS Naturals, FiniteSets

CONSTANTS
    Editors,      \* users and their requests
    Items,        \* products
    NoItem,       \* no product
    MaxRevision,  \* bound: revisions of a draft
    MaxProfile    \* bound: profiles of the workspace

ASSUME ActivationAssumption ==
    NoItem \notin Items /\ IsFiniteSet(Items) /\ {MaxRevision, MaxProfile} \subseteq Nat

VARIABLES
    alive,        \* products
    creating,     \* the product a request has inserted and not committed
    activation,   \* workspaces.activation_product_id
    completed,    \* workspaces.onboarding_completed
    finalized,    \* history: through finalize_activation_and_start
    website,      \* products whose website is crawled
    searching,    \* products with a search source that has data
    deferred,     \* products whose search_mode is deferred_reduced
    target,       \* the product a mode command has read (one command at a time)
    profile,      \* the draft: its profile, revision and completeness; no = 0 without one
    profiles,     \* profiles created for a product
    version,      \* version of the approved profile
    approvedOf,   \* history: the profile and revision that were approved
    approvedAs,   \* history: the profile and revision the approver had loaded
    loaded        \* the draft a client shows

workspaceVars == <<activation, completed, finalized>>
sourceStateVars == <<website, searching, deferred, target>>
profileVars == <<profile, profiles, version, approvedOf, approvedAs, loaded>>
activationVars == <<alive, creating, activation, completed, finalized, website, searching, deferred,
                    target, profile, profiles, version, approvedOf, approvedAs, loaded>>

NoProfile == [no |-> 0, rev |-> 0, complete |-> FALSE]
NoView == [item |-> NoItem, no |-> 0, rev |-> 0]

ActivationInit ==
    /\ alive = {}
    /\ creating = [u \in Editors |-> NoItem]
    /\ activation = NoItem
    /\ completed = FALSE
    /\ finalized = FALSE
    /\ website = {} /\ searching = {} /\ deferred = {}
    /\ target = NoItem
    /\ profile = [p \in Items |-> NoProfile]
    /\ profiles = [p \in Items |-> 0]
    /\ version = [p \in Items |-> 0]
    /\ approvedOf = [p \in Items |-> <<0, 0>>]
    /\ approvedAs = [p \in Items |-> <<0, 0>>]
    /\ loaded = [u \in Editors |-> NoView]

-----------------------------------------------------------------------------
(* Products.                                                               *)

\* create_product up to its flush.
InsertProduct(u, p) ==
    /\ creating[u] = NoItem
    /\ p \notin alive /\ \A v \in Editors : creating[v] # p
    /\ profiles[p] = 0
    /\ creating' = [creating EXCEPT ![u] = p]
    /\ UNCHANGED <<alive, workspaceVars, sourceStateVars, profileVars>>

OthersCreating(u) == \E v \in Editors \ {u} : creating[v] # NoItem

\* Mutant: the workspace is not read again under its lock.
FirstProductBlind(p) == p

\* The first product of the workspace becomes its activation product.
FirstProduct(p) == IF activation = NoItem THEN p ELSE activation

\* It then locks the workspace, for which every other share must be gone, and commits.
CommitProduct(u) ==
    /\ creating[u] # NoItem
    /\ ~OthersCreating(u)
    /\ alive' = alive \cup {creating[u]}
    /\ activation' = FirstProduct(creating[u])
    /\ creating' = [creating EXCEPT ![u] = NoItem]
    /\ UNCHANGED <<completed, finalized, sourceStateVars, profileVars>>

\* Two requests that hold shares wait for each other; the database aborts one.
CreateDeadlock(u) ==
    /\ creating[u] # NoItem
    /\ OthersCreating(u)
    /\ creating' = [creating EXCEPT ![u] = NoItem]
    /\ UNCHANGED <<alive, workspaceVars, sourceStateVars, profileVars>>

\* Mutant: the foreign key of the workspace is missing.
MayDeleteAny(p) == TRUE

\* fk_workspaces_activation_product_tenant restricts.
MayDelete(p) == p # activation

\* delete_product; profiles and sources go with it.
DeleteProduct(p) ==
    /\ p \in alive /\ MayDelete(p)
    /\ alive' = alive \ {p}
    /\ website' = website \ {p} /\ searching' = searching \ {p} /\ deferred' = deferred \ {p}
    /\ profile' = [profile EXCEPT ![p] = NoProfile]
    /\ version' = [version EXCEPT ![p] = 0]
    /\ UNCHANGED <<creating, workspaceVars, target, profiles, approvedOf, approvedAs, loaded>>

\* Crawls, syncs and disconnections of a product's sources; only those of the activation
\* product are read.
SourcesChange(p) ==
    /\ p = activation /\ p \in alive
    /\ \/ p \notin website /\ website' = website \cup {p} /\ searching' = searching
       \/ p \in website /\ website' = website \ {p} /\ searching' = searching
       \/ p \notin searching /\ searching' = searching \cup {p} /\ website' = website
       \/ p \in searching /\ searching' = searching \ {p} /\ website' = website
    /\ UNCHANGED <<alive, creating, workspaceVars, deferred, target, profileVars>>

-----------------------------------------------------------------------------
(* Activation.                                                             *)

WorkspaceFree == \A u \in Editors : creating[u] = NoItem

MaySelect(p) == completed => activation = p

\* set_activation_product; to select the same product again changes nothing.
SelectActivation(p) ==
    /\ WorkspaceFree
    /\ p \in alive /\ MaySelect(p) /\ p # activation
    /\ activation' = p
    /\ UNCHANGED <<alive, creating, completed, finalized, sourceStateVars, profileVars>>

\* put_search_mode reads the activation product ...
ReadMode ==
    /\ target = NoItem /\ activation # NoItem
    /\ target' = activation
    /\ UNCHANGED <<alive, creating, workspaceVars, website, searching, deferred, profileVars>>

\* ... and set_search_mode locks the rows the session already holds, whose attributes are
\* not read again: the mode goes to the product that was read.
WriteMode ==
    /\ target # NoItem
    /\ WorkspaceFree
    /\ \/ target \in alive /\ deferred' = deferred \cup {target}
       \/ target \in alive /\ target \in searching /\ deferred' = deferred \ {target}
       \/ target \notin searching /\ deferred' = deferred
    /\ target' = NoItem
    /\ UNCHANGED <<alive, creating, workspaceVars, website, searching, profileVars>>

\* Mutant: the profile is not asked for.
SourcesReadyNoProfile(p) == p \in website /\ (p \in searching \/ p \in deferred)

\* ActivationState.source_blockers is empty.
SourcesReady(p) ==
    /\ version[p] > 0
    /\ p \in website
    /\ p \in searching \/ p \in deferred

\* finalize_activation_and_start, whose run is the schedule's (module WeeklySchedule).
FinalizeActivation ==
    /\ WorkspaceFree
    /\ activation # NoItem /\ SourcesReady(activation)
    /\ completed' = TRUE
    /\ finalized' = TRUE
    /\ UNCHANGED <<alive, creating, activation, sourceStateVars, profileVars>>

\* complete_onboarding asks for the profiles of the products that repositories are
\* assigned to, and does not lock the workspace.
CompleteOnboarding ==
    /\ \E p \in alive : version[p] > 0
    /\ ~completed
    /\ completed' = TRUE
    /\ UNCHANGED <<alive, creating, activation, finalized, sourceStateVars, profileVars>>

-----------------------------------------------------------------------------
(* Profiles.                                                               *)

\* A client loads the draft of a product, or that there is none, and shows what it did not show.
LoadProfile(u, p) ==
    /\ p \in alive
    /\ loaded' = [loaded EXCEPT ![u] = [item |-> p, no |-> profile[p].no, rev |-> profile[p].rev]]
    /\ loaded' # loaded
    /\ UNCHANGED <<alive, creating, workspaceVars, sourceStateVars, profile, profiles, version,
                   approvedOf, approvedAs>>

\* Mutant: any revision is good.
RevisionMatchesAny(u) == TRUE

\* expected_revision, which is the revision alone: every draft starts at 1.
RevisionMatches(u) == profile[loaded[u].item].rev = loaded[u].rev

\* Every profile that was created, as its product and its number; MaxProfile bounds them.
CreatedProfiles == {x \in Items \X (1..MaxProfile) : x[2] <= profiles[x[1]]}

\* save_draft
SaveDraft(u, complete) ==
    LET p == loaded[u].item
        d == profile[p]
    IN  /\ p \in alive
        /\ RevisionMatches(u)
        /\ d.rev < MaxRevision
        /\ IF d.no = 0
             THEN /\ Cardinality(CreatedProfiles) < MaxProfile
                  /\ profiles' = [profiles EXCEPT ![p] = @ + 1]
                  /\ profile' = [profile EXCEPT ![p] = [no |-> profiles[p] + 1, rev |-> 1,
                                                        complete |-> complete]]
             ELSE /\ profiles' = profiles
                  /\ profile' = [profile EXCEPT ![p].rev = @ + 1, ![p].complete = complete]
        /\ loaded' = [loaded EXCEPT ![u].no = profile'[p].no, ![u].rev = profile'[p].rev]
        /\ UNCHANGED <<alive, creating, workspaceVars, sourceStateVars, version, approvedOf, approvedAs>>

\* approve_draft
ApproveProfileDraft(u) ==
    LET p == loaded[u].item
        d == profile[p]
    IN  /\ p \in alive
        /\ d.no # 0 /\ loaded[u].rev # 0
        /\ RevisionMatches(u)
        /\ d.complete
        /\ version' = [version EXCEPT ![p] = @ + 1]
        /\ approvedOf' = [approvedOf EXCEPT ![p] = <<d.no, d.rev>>]
        /\ approvedAs' = [approvedAs EXCEPT ![p] = <<loaded[u].no, loaded[u].rev>>]
        /\ profile' = [profile EXCEPT ![p] = NoProfile]
        /\ loaded' = [loaded EXCEPT ![u].no = 0, ![u].rev = 0]
        /\ UNCHANGED <<alive, creating, workspaceVars, sourceStateVars, profiles>>

-----------------------------------------------------------------------------
ActivationNext ==
    \/ \E u \in Editors, p \in Items : InsertProduct(u, p) \/ LoadProfile(u, p)
    \/ \E u \in Editors :
        CommitProduct(u) \/ CreateDeadlock(u) \/ ApproveProfileDraft(u)
    \/ \E u \in Editors, complete \in BOOLEAN : SaveDraft(u, complete)
    \/ \E p \in Items : DeleteProduct(p) \/ SourcesChange(p) \/ SelectActivation(p)
    \/ ReadMode \/ WriteMode \/ FinalizeActivation \/ CompleteOnboarding

ActivationSpec == ActivationInit /\ [][ActivationNext]_activationVars

-----------------------------------------------------------------------------
\* Products, profiles and requests have their types, and only products that exist have
\* sources.
ActivationTypeOK ==
    /\ alive \subseteq Items
    /\ creating \in [Editors -> Items \cup {NoItem}]
    /\ activation \in Items \cup {NoItem}
    /\ {completed, finalized} \subseteq BOOLEAN
    /\ website \subseteq alive /\ searching \subseteq alive /\ deferred \subseteq alive
    /\ target \in Items \cup {NoItem}
    /\ profile \in [Items -> [no : 0..MaxProfile, rev : 0..MaxRevision, complete : BOOLEAN]]
    /\ {profiles, version} \subseteq [Items -> 0..MaxProfile]
    /\ {approvedOf, approvedAs} \subseteq [Items -> (0..MaxProfile) \X (0..MaxRevision)]
    /\ loaded \in [Editors -> [item : Items \cup {NoItem}, no : 0..MaxProfile, rev : 0..MaxRevision]]

\* A workspace with products has one of them to activate, however creations, deadlocks
\* and deletions follow each other.
ActivationProductExists == alive # {} => activation \in alive

\* Once onboarding is completed the activation product stays, also when a request that
\* was already creating another product commits afterwards.
OnboardedStays == [][completed => activation' = activation]_activationVars

\* An activation that was finalized rests on an approved profile of the product it is
\* about, from then on.
FinalizedHasProfile == finalized => activation # NoItem /\ version[activation] > 0

\* What became a version is the draft its approver had loaded: edits in between refuse the
\* approval - unless the draft he had loaded was itself approved and a new one has come to
\* the same revision number.
ApprovedWasLoaded ==
    \A p \in Items : approvedAs[p] = approvedOf[p] \/ approvedAs[p][1] < approvedOf[p][1]

\* The activation's product exists while members create and delete products, an approved profile
\* is the draft its approver loaded or a later one of its number, and a finalized activation has an approved profile
\* (set_activation_product, approve_draft, finalize_activation_and_start).
ActivationSafety ==
    /\ ActivationTypeOK
    /\ ActivationProductExists
    /\ ApprovedWasLoaded
    /\ FinalizedHasProfile

=============================================================================
