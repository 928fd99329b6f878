--------------------------- MODULE WorkspaceProofs ----------------------------
(***************************************************************************)
(* Safety of what a workspace's requests and jobs do, for any number of     *)
(* them: the review and publication of drafts, the integration connections, *)
(* search synchronisation, website crawls and product activation.           *)
(*                                                                          *)
(* Drafts: a request whose attempt is committed holds a text that was       *)
(* approved (RequestHolds); for a command it is the only one                *)
(* (OneRequestPerCommand) and X was not asked before it (NotYetAsked).      *)
(* Connections: one part per provider (XInv, GitInv), one for repository    *)
(* tracking (RepoInv) and one for onboarding (OnboardInv).  Each says what a*)
(* request that read without a lock may rely on unless another one crossed. *)
(* Search: the days before the one a run goes on with are stored            *)
(* (ProgressIsStored), the owner of a run fetches that day (OwnerKnows), and*)
(* a source that was disconnected has no run that goes on.                  *)
(* Crawls: one run at most is active and its counts are its own (RunsInv);  *)
(* what an execution read about the source stays true (CrawlerKnows).       *)
(* A walk: the fetches made and those set aside for the targets stay within *)
(* the limit (FetchBudget), and what was found is a target or has a result  *)
(* (NothingLeftOut).  Paths of redirects and the cut of the sorted targets  *)
(* are by induction, as a least counterexample (LeastNat, SmallestSubset).  *)
(* Activation: a draft is the newest profile of its product, and no client  *)
(* shows one that does not exist yet (ProfileInv).                          *)
(***************************************************************************)
EXTENDS Integers, DraftReview, Connections, SearchSync, WebsiteCrawl, CrawlWalk, ProductActivation,
        FiniteSetTheorems, WellFoundedInduction, TLAPS

\* A request whose attempt is committed: it asks X, or has its answer.
Past == {"connect", "ask", "posted", "unknown", "failed"}

\* What a request past its first transaction holds: an attempt, a text the draft had
\* while it was approved, and for a command the asset's own text.
RequestHolds ==
    \A r \in Requests :
        /\ pc[r] # "idle" => key[r] \in Keys
        /\ pc[r] = "insert" => key[r] \in Commands
        /\ pc[r] \in Past => attempt[key[r]] # "none" /\ text[r] \in seen
        /\ pc[r] \in Past /\ key[r] \in Commands => text[r] = Source
        /\ pc[r] = "posted" => posts[key[r]] # None

\* Only the request that inserted a command's attempt goes on with it.
OneRequestPerCommand ==
    \A r, s \in Requests :
        pc[r] \in Past /\ pc[s] \in Past /\ key[r] = key[s] /\ key[r] \in Commands => r = s

\* X is not asked under a command's key before its attempt is committed, nor before
\* the request that committed it has a connection.
NotYetAsked ==
    /\ \A k \in Commands : attempt[k] = "none" => asked[k] = 0
    /\ \A r \in Requests :
        pc[r] \in {"connect", "ask"} /\ key[r] \in Commands => asked[key[r]] = 0

\* A command posts the asset's own text.
CommandPostsSource ==
    \A k \in Commands : posts[k] \in {None, Source}

\* The content of an approved draft is one of the approved contents.
ApprovedIsSeen ==
    status = "approved" => content \in seen

DraftInv ==
    /\ DraftSafety
    /\ RequestHolds
    /\ OneRequestPerCommand
    /\ NotYetAsked
    /\ CommandPostsSource
    /\ ApprovedIsSeen

\* Before the first command there is a draft and no attempt to publish.
LEMMA DraftInit == Init => DraftInv
  <1> SUFFICES ASSUME Init PROVE DraftInv
    OBVIOUS
  <1>1. TypeOK
    <2>1. crashes \in 0..MaxCrashes /\ asked \in [Keys -> 0..MaxAsked]
      BY DraftAssumption DEF Init
    <2>2. approved \in BOOLEAN
      BY Zenon DEF Init
    <2> QED BY <2>1, <2>2 DEF Init, TypeOK, Kind, Status, Attempt, PC, Contents
  <1> QED BY <1>1, DraftAssumption
      DEF Init, DraftInv, DraftSafety, AskedOncePerCommand, OnlyApprovedIsPosted, CompletedIsPosted,
          PostedHasReceipt, RequestHolds, OneRequestPerCommand, NotYetAsked, CommandPostsSource,
          ApprovedIsSeen, Keys, Past

\* Creation and review touch neither an attempt nor X, keep what was approved among
\* the approved contents, and leave a posted draft alone.
LEMMA ReviewInv ==
  ASSUME DraftInv, CreateFromEvent \/ ProjectXAsset \/ Review
  PROVE  DraftInv'
  <1> USE DraftAssumption
      DEF xVars, callVars, DraftInv, DraftSafety, TypeOK, AskedOncePerCommand, OnlyApprovedIsPosted,
          CompletedIsPosted, PostedHasReceipt, RequestHolds, OneRequestPerCommand, NotYetAsked,
          CommandPostsSource, ApprovedIsSeen, Open, Status, Contents, Remember
  <1>1. CASE CreateFromEvent
    BY <1>1 DEF CreateFromEvent
  <1>2. CASE ProjectXAsset
    BY <1>2 DEF ProjectXAsset
  <1>3. ASSUME NEW c \in Edits, EditDraftContent(c) PROVE DraftInv'
    BY <1>3 DEF EditDraftContent
  <1>4. CASE ApproveDraft
    BY <1>4 DEF ApproveDraft
  <1>5. CASE RejectDraft
    BY <1>5 DEF RejectDraft
  <1>6. ASSUME NEW g \in Runs, SelectDraftCandidate(g) PROVE DraftInv'
    BY <1>6 DEF SelectDraftCandidate
  <1>7. ASSUME NEW g \in Runs, RegenerateDraftAngle(g) PROVE DraftInv'
    BY <1>7 DEF RegenerateDraftAngle, Regenerable, GenerateRun
  <1> QED BY <1>1, <1>2, <1>3, <1>4, <1>5, <1>6, <1>7 DEF Review

\* A request that ends leaves everything it relied on to the others.
LEMMA EndCallInv ==
  ASSUME DraftInv, NEW r \in Requests, EndCall(r)
  PROVE  /\ pc' \in [Requests -> PC]
         /\ key' \in [Requests -> Keys \cup {None}]
         /\ text' \in [Requests -> Contents \cup {None}]
         /\ lock' \in Requests \cup {None}
         /\ pc'[r] = "idle"
         /\ \A s \in Requests \ {r} : pc'[s] = pc[s] /\ key'[s] = key[s] /\ text'[s] = text[s]
  BY DEF EndCall, DraftInv, DraftSafety, TypeOK, PC

\* Publication, up to the call of X.
LEMMA PublishFirstInv ==
  ASSUME DraftInv, NEW r \in Requests,
         \/ PublishDraft(r)
         \/ \E k \in Commands : LookUpCommand(r, k)
         \/ InsertAttempt(r)
         \/ InsertRefused(r)
         \/ ConnectionFound(r)
         \/ ConnectionUnusable(r)
  PROVE  DraftInv'
  <1> USE DraftAssumption
      DEF draftVars, xVars, callVars, DraftInv, DraftSafety, TypeOK, AskedOncePerCommand,
          OnlyApprovedIsPosted, CompletedIsPosted, PostedHasReceipt, RequestHolds,
          OneRequestPerCommand, NotYetAsked, CommandPostsSource, ApprovedIsSeen, Past, PC, Keys, Attempt
  <1>1. CASE PublishDraft(r)
    BY <1>1 DEF PublishDraft, Publishable
  <1>2. ASSUME NEW k \in Commands, LookUpCommand(r, k) PROVE DraftInv'
    BY <1>2 DEF LookUpCommand
  <1>3. CASE InsertAttempt(r)
    BY <1>3 DEF InsertAttempt, MatchesAsset, Remember, Open, Status, Contents
  <1>4. CASE InsertRefused(r)
    BY <1>4, EndCallInv DEF InsertRefused
  <1>5. CASE ConnectionFound(r)
    BY <1>5 DEF ConnectionFound
  <1>6. CASE ConnectionUnusable(r)
    BY <1>6, EndCallInv DEF ConnectionUnusable
  <1> QED BY <1>1, <1>2, <1>3, <1>4, <1>5, <1>6

\* The answer of X and the last transaction.
LEMMA PublishLastInv ==
  ASSUME DraftInv, NEW r \in Requests,
         \/ AskX(r)
         \/ RecordFailure(r)
         \/ RecordPost(r)
         \/ RecordPostRefused(r)
         \/ Crash(r)
  PROVE  DraftInv'
  <1> USE DraftAssumption
      DEF draftVars, xVars, callVars, DraftInv, DraftSafety, TypeOK, AskedOncePerCommand,
          OnlyApprovedIsPosted, CompletedIsPosted, PostedHasReceipt, RequestHolds,
          OneRequestPerCommand, NotYetAsked, CommandPostsSource, ApprovedIsSeen, Past, PC, Keys,
          Attempt, Status
  <1>1. CASE AskX(r)
    <2>1. PICK outcome \in {"posted", "unknown", "failed"} :
              /\ pc' = [pc EXCEPT ![r] = outcome]
              /\ XCreates(key[r], text[r]) \/ (outcome # "posted" /\ posts' = posts)
      BY <1>1 DEF AskX
    <2>2. key[r] \in Keys /\ text[r] \in Contents /\ text[r] # None
      BY <1>1 DEF AskX, Contents
    <2>3. TypeOK'
      <3>1. posts' \in [Keys -> Contents \cup {None}]
        BY <2>1, <2>2 DEF XCreates
      <3> QED BY <1>1, <2>1, <2>2, <3>1 DEF AskX
    <2>4. \A k \in Keys : k # key[r] => posts'[k] = posts[k] /\ asked'[k] = asked[k]
      BY <1>1, <2>1, <2>2 DEF AskX, XCreates
    <2>5. posts'[key[r]] \in {posts[key[r]], text[r]} /\ (posts[key[r]] # None => posts'[key[r]] # None)
          /\ (outcome = "posted" => posts'[key[r]] # None)
      BY <2>1, <2>2 DEF XCreates
    <2>6. AskedOncePerCommand' /\ NotYetAsked' /\ OneRequestPerCommand'
      BY <1>1, <2>1, <2>2, <2>4 DEF AskX
    <2>7. OnlyApprovedIsPosted' /\ CommandPostsSource'
      BY <1>1, <2>2, <2>4, <2>5 DEF AskX
    <2>8. CompletedIsPosted' /\ PostedHasReceipt'
      BY <1>1, <2>2, <2>4, <2>5 DEF AskX
    <2>9. RequestHolds'
      BY <1>1, <2>1, <2>2, <2>4, <2>5 DEF AskX
    <2> QED BY <1>1, <2>3, <2>6, <2>7, <2>8, <2>9 DEF AskX
  <1>2. CASE RecordFailure(r)
    BY <1>2, EndCallInv DEF RecordFailure
  <1>3. CASE RecordPost(r)
    BY <1>3, EndCallInv DEF RecordPost
  <1>4. CASE RecordPostRefused(r)
    BY <1>4, EndCallInv DEF RecordPostRefused
  <1>5. CASE Crash(r)
    BY <1>5, EndCallInv DEF Crash
  <1> QED BY <1>1, <1>2, <1>3, <1>4, <1>5

\* The inductive invariant of a draft, its reviews and the requests that publish it.
THEOREM DraftInvariant == Spec => []DraftInv
  <1>1. DraftInv /\ [Next]_vars => DraftInv'
    <2> SUFFICES ASSUME DraftInv, [Next]_vars PROVE DraftInv'
      OBVIOUS
    <2>1. CASE CreateFromEvent \/ ProjectXAsset \/ Review
      BY <2>1, ReviewInv
    <2>2. ASSUME NEW r \in Requests, Publish(r) \/ Crash(r) PROVE DraftInv'
      BY <2>2, PublishFirstInv, PublishLastInv DEF Publish
    <2>3. CASE UNCHANGED vars
      BY <2>3 DEF vars, DraftInv, DraftSafety, TypeOK, AskedOncePerCommand, OnlyApprovedIsPosted,
          CompletedIsPosted, PostedHasReceipt, RequestHolds, OneRequestPerCommand, NotYetAsked,
          CommandPostsSource, ApprovedIsSeen
    <2> QED BY <2>1, <2>2, <2>3 DEF Next
  <1> QED BY <1>1, DraftInit, PTL DEF Spec

\* DraftSafety: for every set of requests and commands, however requests die and answers come late, X
\* is asked once per command and only with approved content, a completed asset was posted, and a
\* posted draft has its receipt (approve_and_publish_draft_revision, publish_draft).
THEOREM DraftSafetyHolds == Spec => []DraftSafety
  <1>1. DraftInv => DraftSafety
    BY DEF DraftInv
  <1> QED BY <1>1, DraftInvariant, PTL

\* PostedIsFinal: no edit, rejection or late request takes the status or the content of a posted draft
\* back (the commands raise once it is posted).
THEOREM DraftPostedIsFinal == Spec => PostedIsFinal
  <1> DEFINE Kept == status = "posted" => status' = "posted" /\ content' = content
  <1>1. [Next]_vars => [Kept]_vars
    BY DEF Next, vars, CreateFromEvent, ProjectXAsset, Review, Publish, EditDraftContent, ApproveDraft,
       RejectDraft, SelectDraftCandidate, RegenerateDraftAngle, Regenerable, PublishDraft,
       LookUpCommand, InsertAttempt, MatchesAsset, InsertRefused, ConnectionFound,
       ConnectionUnusable, AskX, RecordFailure, RecordPost, RecordPostRefused, Crash, draftVars, Open
  <1> QED BY <1>1, PTL DEF Spec, PostedIsFinal

-----------------------------------------------------------------------------
(* The connections of a workspace.                                         *)

\* Where a request may be.
Phases == {"idle", "save", "attach", "track", "untrack", "complete", "trigger"}

\* The requests, and what a request that is under way is about.
AdminTypes ==
    /\ apc \in [Admins -> Phases]
    /\ afor \in [Admins -> Accounts \cup Installations \cup {NoAccount}]
    /\ aread \in [Admins -> {"none", "active", "revoked"}]
    /\ agen \in [Admins -> 0..MaxTracked]
    /\ repoLock \in Admins \cup {NoAccount}
    /\ \A d \in Admins : /\ apc[d] = "save" => afor[d] \in Accounts
                         /\ apc[d] = "attach" => afor[d] \in Installations

\* Unless saves crossed, one account is active and alone has a secret, and a request that
\* is about to save has read the row as it is.
XInv ==
    /\ xrow \in [Accounts -> XRow]
    /\ saves \in 0..MaxSaves
    /\ overlapped \in BOOLEAN
    /\ ~overlapped =>
          /\ \A a, b \in Accounts : xrow[a].status = "active" /\ xrow[b].status = "active" => a = b
          /\ \A a \in Accounts : xrow[a].secret <=> xrow[a].status = "active"
          /\ \A d \in Admins : apc[d] = "save" => aread[d] = xrow[afor[d]].status

\* Unless attachments crossed, at most one is under way, and it has read the installations
\* as they are.
GitInv ==
    /\ installs \subseteq Installations
    /\ installed \in [Installations -> Installations \cup {NoAccount}]
    /\ gitCrossed \in BOOLEAN
    /\ ~gitCrossed =>
          /\ \A i, j \in installs : i = j
          /\ \A d, e \in Admins : apc[d] = "attach" /\ apc[e] = "attach" => d = e
          /\ \A d \in Admins : apc[d] = "attach" /\ aread[d] = "none" => installs = {}

\* A request that switches the tracking has the repository's lock, and has read it as it is.
RepoInv ==
    /\ repoRow \in BOOLEAN /\ tracked \in BOOLEAN /\ assigned \in BOOLEAN
    /\ generation \in 0..MaxTracked
    /\ enabledEvents = 1..generation
    /\ enablings = generation
    /\ \A d \in Admins :
          apc[d] \in {"track", "untrack"} =>
              /\ repoLock = d /\ agen[d] = generation
              /\ aread[d] = IF tracked THEN "active" ELSE "none"

\* The one request that made the onboarding completed, if any did, is the one that triggers.
OnboardInv ==
    /\ onboarded \in BOOLEAN /\ activated \in BOOLEAN
    /\ generations \in Nat /\ unheard \in Nat
    /\ activated => onboarded
    /\ ~onboarded \/ activated => generations = 0 /\ unheard = 0 /\ \A d \in Admins : apc[d] # "trigger"
    /\ onboarded /\ ~activated => generations + unheard = 1
    /\ \A d, e \in Admins : apc[d] = "trigger" => unheard = 1 /\ (apc[e] = "trigger" => d = e)

ConnectionInv == AdminTypes /\ XInv /\ GitInv /\ RepoInv /\ OnboardInv

\* A set without two different members has at most one.
LEMMA AtMostOne == ASSUME NEW S, \A a, b \in S : a = b PROVE Cardinality(S) \in 0..1
  <1>1. CASE S = {}
    BY <1>1, FS_EmptySet
  <1>2. ASSUME NEW a \in S PROVE S = {a}
    BY <1>2
  <1>3. ASSUME NEW a PROVE Cardinality({a}) = 1
    BY FS_Singleton
  <1> QED BY <1>1, <1>2, <1>3

\* The invariant implies what the workspace promises of its connections.
LEMMA ConnectionInvSafe == ConnectionInv => ConnectionSafety
  <1> SUFFICES ASSUME ConnectionInv PROVE ConnectionSafety
    OBVIOUS
  <1>1. {overlapped, gitCrossed, repoRow, tracked, assigned, onboarded, activated} \subseteq BOOLEAN
    BY Zenon DEF ConnectionInv, XInv, GitInv, RepoInv, OnboardInv
  <1>2. enabledEvents \subseteq 1..generation /\ {enablings, generations, unheard} \subseteq Nat
    BY DEF ConnectionInv, RepoInv, OnboardInv
  <1>3. ConnectionTypeOK
    BY <1>1, <1>2 DEF ConnectionTypeOK, ConnectionInv, AdminTypes, XInv, GitInv, RepoInv, Phases
  <1>4. OneXAccount
    <2> SUFFICES ASSUME ~overlapped
                 PROVE  ~(Cardinality({a \in Accounts : xrow[a].status = "active"}) > 1)
      BY DEF OneXAccount
    <2> QED BY AtMostOne DEF ConnectionInv, XInv
  <1>5. SecretIffActive
    BY DEF SecretIffActive, ConnectionInv, XInv
  <1>6. OneInstallation
    BY AtMostOne DEF OneInstallation, ConnectionInv, GitInv
  <1>7. EventPerGeneration
    BY DEF EventPerGeneration, ConnectionInv, RepoInv
  <1>8. GenerationTriggeredOnce
    BY DEF GenerationTriggeredOnce, ConnectionInv, OnboardInv
  <1> QED BY <1>3, <1>4, <1>5, <1>6, <1>7, <1>8 DEF ConnectionSafety

\* A workspace without connections satisfies the invariant.
LEMMA ConnectionInitInv == ConnectionInit => ConnectionInv
  <1> SUFFICES ASSUME ConnectionInit PROVE ConnectionInv
    OBVIOUS
  <1> USE ConnectionAssumption DEF ConnectionInit
  <1>1. AdminTypes
    BY DEF AdminTypes, Phases
  <1>2. /\ overlapped \in BOOLEAN /\ gitCrossed \in BOOLEAN /\ repoRow \in BOOLEAN /\ tracked \in BOOLEAN
        /\ assigned \in BOOLEAN /\ onboarded \in BOOLEAN
    BY Zenon
  <1>3. XInv
    <2>1. NoRow \in XRow /\ NoRow.status = "none" /\ ~NoRow.secret
      BY DEF NoRow, XRow
    <2> QED BY <1>2, <2>1 DEF XInv
  <1>4. GitInv
    BY <1>2 DEF GitInv
  <1>5. RepoInv
    BY <1>2 DEF RepoInv
  <1>6. OnboardInv
    BY <1>2 DEF OnboardInv
  <1> QED BY <1>1, <1>3, <1>4, <1>5, <1>6 DEF ConnectionInv

\* A request in one of these phases was in it before, and is about the same.
Frame(phases) ==
    \A e \in Admins :
        apc'[e] \in phases =>
            apc[e] = apc'[e] /\ afor'[e] = afor[e] /\ aread'[e] = aread[e] /\ agen'[e] = agen[e]

\* What a step that leaves one of the four alone preserves.
LEMMA XKept ==
  ASSUME ConnectionInv, Frame({"save"}), UNCHANGED <<xrow, overlapped>>, saves' \in 0..MaxSaves
  PROVE  XInv'
  <1>1. \A d \in Admins : apc'[d] = "save" => apc[d] = "save" /\ afor'[d] = afor[d] /\ aread'[d] = aread[d]
    BY DEF Frame
  <1> QED BY <1>1 DEF ConnectionInv, XInv

\* What the invariant says of the installations depends on their rows and requests only.
LEMMA GitKept ==
  ASSUME ConnectionInv, Frame({"attach"}), UNCHANGED <<installs, installed, gitCrossed>>
  PROVE  GitInv'
  <1>1. \A d \in Admins : apc'[d] = "attach" => apc[d] = "attach" /\ aread'[d] = aread[d]
    BY DEF Frame
  <1> QED BY <1>1 DEF ConnectionInv, GitInv

\* What the invariant says of tracked repositories depends on their rows and requests only.
LEMMA RepoKept ==
  ASSUME ConnectionInv, Frame({"track", "untrack"}),
         repoRow' \in BOOLEAN, assigned' \in BOOLEAN,
         UNCHANGED <<tracked, generation, enabledEvents, enablings>>,
         \A d \in Admins : repoLock = d /\ apc'[d] \in {"track", "untrack"} => repoLock' = d
  PROVE  RepoInv'
  <1>1. \A d \in Admins : apc'[d] \in {"track", "untrack"} =>
           apc[d] \in {"track", "untrack"} /\ agen'[d] = agen[d] /\ aread'[d] = aread[d]
    BY DEF Frame
  <1> QED BY <1>1 DEF ConnectionInv, RepoInv

\* What the invariant says of the onboarding depends on its rows and requests only.
LEMMA OnboardKept ==
  ASSUME ConnectionInv, Frame({"trigger"}), UNCHANGED <<onboarded, generations, unheard, activated>>
  PROVE  OnboardInv'
  <1>1. \A d \in Admins : apc'[d] = "trigger" => apc[d] = "trigger"
    BY DEF Frame
  <1> QED BY <1>1 DEF ConnectionInv, OnboardInv

\* A request that is over.
LEMMA AdminIdleStep ==
  ASSUME ConnectionInv, NEW d \in Admins, AdminIdle(d)
  PROVE  /\ AdminTypes' /\ apc'[d] = "idle"
         /\ \A e \in Admins \ {d} :
               apc'[e] = apc[e] /\ afor'[e] = afor[e] /\ aread'[e] = aread[e] /\ agen'[e] = agen[e]
         /\ Frame(Phases \ {"idle"})
         /\ \A e \in Admins : repoLock = e /\ apc'[e] \in {"track", "untrack"} => repoLock' = e
  <1>1. /\ apc'[d] = "idle"
        /\ \A e \in Admins \ {d} :
              apc'[e] = apc[e] /\ afor'[e] = afor[e] /\ aread'[e] = aread[e] /\ agen'[e] = agen[e]
    BY DEF ConnectionInv, AdminTypes, AdminIdle
  <1>2. AdminTypes'
    <2>1. "idle" \in Phases /\ 0 \in 0..MaxTracked
      BY ConnectionAssumption DEF Phases
    <2>2. repoLock' \in Admins \cup {NoAccount}
      BY DEF ConnectionInv, AdminTypes, AdminIdle
    <2>3. /\ apc' \in [Admins -> Phases]
          /\ afor' \in [Admins -> Accounts \cup Installations \cup {NoAccount}]
          /\ aread' \in [Admins -> {"none", "active", "revoked"}]
          /\ agen' \in [Admins -> 0..MaxTracked]
      BY <2>1 DEF ConnectionInv, AdminTypes, AdminIdle
    <2> QED BY <1>1, <2>2, <2>3 DEF ConnectionInv, AdminTypes
  <1>3. Frame(Phases \ {"idle"})
    BY <1>1 DEF Frame
  <1>4. \A e \in Admins : repoLock = e /\ apc'[e] \in {"track", "untrack"} => repoLock' = e
    BY <1>1 DEF AdminIdle
  <1> QED BY <1>1, <1>2, <1>3, <1>4

\* A request that leaves everything but itself alone.
LEMMA AllKept ==
  ASSUME ConnectionInv, Frame(Phases \ {"idle"}), AdminTypes',
         \A e \in Admins : repoLock = e /\ apc'[e] \in {"track", "untrack"} => repoLock' = e
  PROVE  /\ UNCHANGED <<xrow, saves, overlapped>> => XInv'
         /\ UNCHANGED <<installs, installed, gitCrossed>> => GitInv'
         /\ UNCHANGED repoVars => RepoInv'
         /\ UNCHANGED <<onboarded, generations, unheard, activated>> => OnboardInv'
  <1>1. Frame({"save"}) /\ Frame({"attach"}) /\ Frame({"track", "untrack"}) /\ Frame({"trigger"})
    BY DEF Frame, Phases
  <1>2. saves \in 0..MaxSaves /\ repoRow \in BOOLEAN /\ assigned \in BOOLEAN
    BY DEF ConnectionInv, XInv, RepoInv
  <1>3. UNCHANGED repoVars => repoRow' \in BOOLEAN /\ assigned' \in BOOLEAN
    BY <1>2 DEF repoVars
  <1> QED BY <1>1, <1>2, <1>3, XKept, GitKept, RepoKept, OnboardKept DEF repoVars

\* A request that dies between its transactions leaves the rows as they are.
LEMMA AdminDiesInv == ASSUME ConnectionInv, NEW d \in Admins, AdminDies(d) PROVE ConnectionInv'
  BY AdminIdleStep, AllKept DEF ConnectionInv, AdminDies, xConnVars, gitVars, onboardVars

\* A request that begins, or goes on, in another phase.
LEMMA AdminMoves ==
  ASSUME ConnectionInv, NEW d \in Admins, NEW p \in Phases,
         apc' = [apc EXCEPT ![d] = p],
         afor' = afor \/ \E x \in Accounts \cup Installations : afor' = [afor EXCEPT ![d] = x],
         aread' = aread \/ \E r \in {"none", "active", "revoked"} : aread' = [aread EXCEPT ![d] = r],
         agen' = agen \/ \E g \in 0..MaxTracked : agen' = [agen EXCEPT ![d] = g],
         repoLock' \in {repoLock, d},
         p = "save" => afor'[d] \in Accounts,
         p = "attach" => afor'[d] \in Installations
  PROVE  /\ AdminTypes' /\ apc'[d] = p
         /\ \A e \in Admins \ {d} :
               apc'[e] = apc[e] /\ afor'[e] = afor[e] /\ aread'[e] = aread[e] /\ agen'[e] = agen[e]
         /\ \A phases : p \notin phases => Frame(phases)
  <1>1. /\ apc'[d] = p
        /\ \A e \in Admins \ {d} :
              apc'[e] = apc[e] /\ afor'[e] = afor[e] /\ aread'[e] = aread[e] /\ agen'[e] = agen[e]
    BY DEF ConnectionInv, AdminTypes
  <1>2. /\ apc' \in [Admins -> Phases]
        /\ aread' \in [Admins -> {"none", "active", "revoked"}]
        /\ agen' \in [Admins -> 0..MaxTracked]
    BY DEF ConnectionInv, AdminTypes
  <1>3. afor' \in [Admins -> Accounts \cup Installations \cup {NoAccount}]
    BY DEF ConnectionInv, AdminTypes
  <1>4. AdminTypes'
    BY <1>1, <1>2, <1>3 DEF ConnectionInv, AdminTypes
  <1> QED BY <1>1, <1>4 DEF Frame

\* X: the row is read, saved, revoked.
LEMMA XStepInv ==
  ASSUME ConnectionInv, NEW d \in Admins,
         SaveXCommit(d) \/ DisconnectX(d) \/ \E a \in Accounts : SaveXRead(d, a)
  PROVE  ConnectionInv'
  <1>0. /\ xrow \in [Accounts -> XRow] /\ saves \in 0..MaxSaves /\ overlapped \in BOOLEAN
        /\ MaxSaves \in Nat
    BY ConnectionAssumption DEF ConnectionInv, XInv
  <1>1. ASSUME NEW a \in Accounts, SaveXRead(d, a) PROVE ConnectionInv'
    <2>1. /\ saves' = saves + 1 /\ saves < MaxSaves
          /\ apc' = [apc EXCEPT ![d] = "save"] /\ afor' = [afor EXCEPT ![d] = a]
          /\ aread' = [aread EXCEPT ![d] = xrow[a].status]
          /\ UNCHANGED <<agen, repoLock, xrow, overlapped, installs, installed, gitCrossed, repoVars, onboardVars>>
      BY <1>1 DEF SaveXRead, gitVars
    <2>2. afor'[d] = a /\ aread'[d] = xrow[a].status /\ xrow[a].status \in {"none", "active", "revoked"}
      BY <1>0, <2>1 DEF ConnectionInv, AdminTypes, XRow
    <2>3. /\ AdminTypes' /\ apc'[d] = "save"
          /\ \A e \in Admins \ {d} :
                 apc'[e] = apc[e] /\ afor'[e] = afor[e] /\ aread'[e] = aread[e] /\ agen'[e] = agen[e]
          /\ \A phases : "save" \notin phases => Frame(phases)
      BY <2>1, <2>2, AdminMoves DEF Phases
    <2>4. saves' \in 0..MaxSaves
      BY <1>0, <2>1
    <2>5. XInv'
      BY <2>1, <2>2, <2>3, <2>4 DEF ConnectionInv, XInv
    <2>6. GitInv' /\ OnboardInv'
      BY <2>1, <2>3, GitKept, OnboardKept DEF onboardVars
    <2>7. RepoInv'
      BY <2>1, <2>3, RepoKept DEF repoVars, ConnectionInv, RepoInv
    <2> QED BY <2>3, <2>5, <2>6, <2>7 DEF ConnectionInv
  <1>2. CASE DisconnectX(d)
    <2>1. /\ xrow' = [a \in Accounts |-> Revoked(xrow[a])]
          /\ overlapped' = (overlapped \/ Saving(d))
          /\ apc[d] = "idle"
          /\ UNCHANGED <<saves, adminVars, gitVars, repoVars, onboardVars>>
      BY <1>2 DEF DisconnectX, Disconnected
    <2>2. overlapped' \in BOOLEAN /\ (~overlapped' => ~overlapped /\ \A e \in Admins : apc[e] # "save")
      BY <2>1 DEF Saving
    <2>3. /\ xrow' \in [Accounts -> XRow]
          /\ \A a \in Accounts : /\ xrow'[a].status # "active"
                                 /\ xrow'[a].secret => xrow[a].secret /\ xrow[a].status # "active"
      BY <1>0, <2>1 DEF Revoked, XRow
    <2>4. XInv'
      BY <1>0, <2>1, <2>2, <2>3 DEF ConnectionInv, XInv, adminVars
    <2>5. AdminTypes' /\ Frame(Phases \ {"idle"})
      BY <2>1 DEF ConnectionInv, AdminTypes, adminVars, Frame
    <2> QED BY <2>1, <2>4, <2>5, AllKept DEF ConnectionInv, adminVars, gitVars, onboardVars
  <1>3. CASE SaveXCommit(d)
    <2> DEFINE a == afor[d]
    <2>1. /\ apc[d] = "save" /\ AdminIdle(d)
          /\ overlapped' = (overlapped \/ Saving(d))
          /\ UNCHANGED <<saves, installs, installed, gitCrossed, repoVars, onboardVars>>
      BY <1>3 DEF SaveXCommit, gitVars
    <2>2. overlapped' \in BOOLEAN /\ (~overlapped' => ~overlapped /\ \A e \in Admins \ {d} : apc[e] # "save")
      BY <2>1 DEF Saving
    <2>3. a \in Accounts
      BY <2>1 DEF ConnectionInv, AdminTypes
    <2>4. /\ xrow' \in [Accounts -> XRow]
          /\ ~overlapped =>
                /\ \A b, c \in Accounts : xrow'[b].status = "active" /\ xrow'[c].status = "active" => b = c
                /\ \A b \in Accounts : xrow'[b].secret <=> xrow'[b].status = "active"
      <3>1. CASE xrow' = xrow
        BY <1>0, <3>1 DEF ConnectionInv, XInv
      <3>2. CASE xrow' = [OthersRevoked(a) EXCEPT ![a] = Saved(@, aread[d])]
        <4>1. \A b \in Accounts \ {a} : xrow'[b] = Revoked(xrow[b])
          BY <3>2 DEF OthersRevoked
        <4>2. xrow'[a] = Saved(xrow[a], aread[d])
          BY <2>3, <3>2 DEF OthersRevoked
        <4>3. \A b \in Accounts \ {a} :
                /\ xrow'[b] \in XRow /\ xrow'[b].status # "active"
                /\ xrow'[b].secret => xrow[b].secret /\ xrow[b].status # "active"
          <5> TAKE b \in Accounts \ {a}
          <5>1. xrow[b] \in XRow /\ xrow'[b] = Revoked(xrow[b])
            BY <1>0, <4>1
          <5>2. CASE xrow[b].status = "active"
            BY <5>1, <5>2 DEF Revoked, XRow
          <5>3. CASE xrow[b].status # "active"
            <6>1. xrow'[b] = xrow[b]
              BY <5>1, <5>3 DEF Revoked
            <6> QED BY <5>1, <5>3, <6>1
          <5> QED BY <5>2, <5>3
        <4>4. xrow'[a] \in XRow /\ xrow'[a].secret
          BY <1>0, <2>3, <4>2 DEF Saved, XRow
        <4>5. ~overlapped => xrow'[a].status = "active"
          BY <2>1, <4>2 DEF Saved, ConnectionInv, XInv
        <4>6. xrow' \in [Accounts -> XRow]
          <5>1. xrow' = [b \in Accounts |-> xrow'[b]]
            BY <3>2 DEF OthersRevoked
          <5> QED BY <4>3, <4>4, <5>1
        <4> QED BY <4>3, <4>4, <4>5, <4>6 DEF ConnectionInv, XInv
      <3> QED BY <1>3, <3>1, <3>2 DEF SaveXCommit
    <2>5. /\ AdminTypes' /\ apc'[d] = "idle"
          /\ \A e \in Admins \ {d} :
                 apc'[e] = apc[e] /\ afor'[e] = afor[e] /\ aread'[e] = aread[e] /\ agen'[e] = agen[e]
          /\ Frame(Phases \ {"idle"})
          /\ \A e \in Admins : repoLock = e /\ apc'[e] \in {"track", "untrack"} => repoLock' = e
      BY <2>1, AdminIdleStep
    <2>6. XInv'
      BY <1>0, <2>1, <2>2, <2>4, <2>5 DEF XInv
    <2> QED BY <2>1, <2>5, <2>6, AllKept DEF ConnectionInv, onboardVars
  <1> QED BY <1>1, <1>2, <1>3

\* The GitHub App: the installations are looked up, then written.
LEMMA GitStepInv ==
  ASSUME ConnectionInv, NEW d \in Admins,
         AttachCommit(d) \/ \E i \in Installations : AttachRead(d, i)
  PROVE  ConnectionInv'
  <1>1. ASSUME NEW i \in Installations, AttachRead(d, i) PROVE ConnectionInv'
    <2>1. /\ apc' = [apc EXCEPT ![d] = "attach"] /\ afor' = [afor EXCEPT ![d] = i]
          /\ aread' = [aread EXCEPT ![d] = IF installs = {} THEN "none" ELSE "active"]
          /\ gitCrossed' = (gitCrossed \/ \E e \in Admins : apc[e] = "attach")
          /\ UNCHANGED <<agen, repoLock, xrow, saves, overlapped, installs, installed, repoVars, onboardVars>>
      BY <1>1 DEF AttachRead, xConnVars
    <2>2. gitCrossed' \in BOOLEAN /\ (~gitCrossed' => ~gitCrossed /\ \A e \in Admins : apc[e] # "attach")
      BY <2>1
    <2>3. afor'[d] = i /\ aread'[d] = IF installs = {} THEN "none" ELSE "active"
      BY <2>1 DEF ConnectionInv, AdminTypes
    <2>4. /\ AdminTypes' /\ apc'[d] = "attach"
          /\ \A e \in Admins \ {d} :
                 apc'[e] = apc[e] /\ afor'[e] = afor[e] /\ aread'[e] = aread[e] /\ agen'[e] = agen[e]
          /\ \A phases : "attach" \notin phases => Frame(phases)
      BY <2>1, <2>3, AdminMoves DEF Phases
    <2>5. GitInv'
      BY <2>1, <2>2, <2>3, <2>4 DEF ConnectionInv, GitInv
    <2>6. XInv' /\ OnboardInv'
      BY <2>1, <2>4, XKept, OnboardKept DEF onboardVars, ConnectionInv, XInv
    <2>7. RepoInv'
      BY <2>1, <2>4, RepoKept DEF repoVars, ConnectionInv, RepoInv
    <2> QED BY <2>4, <2>5, <2>6, <2>7 DEF ConnectionInv
  <1>2. CASE AttachCommit(d)
    <2>1. /\ apc[d] = "attach" /\ AdminIdle(d)
          /\ UNCHANGED <<xrow, saves, overlapped, gitCrossed, repoVars, onboardVars>>
      BY <1>2 DEF AttachCommit, xConnVars
    <2>2. /\ AdminTypes' /\ apc'[d] = "idle"
          /\ \A e \in Admins \ {d} :
                 apc'[e] = apc[e] /\ afor'[e] = afor[e] /\ aread'[e] = aread[e] /\ agen'[e] = agen[e]
          /\ Frame(Phases \ {"idle"})
          /\ \A e \in Admins : repoLock = e /\ apc'[e] \in {"track", "untrack"} => repoLock' = e
      BY <2>1, AdminIdleStep
    <2>3. afor[d] \in Installations
      BY <2>1 DEF ConnectionInv, AdminTypes
    <2>4. /\ installs' \subseteq Installations
          /\ installed' \in [Installations -> Installations \cup {NoAccount}]
          /\ installs' = installs \/ (aread[d] = "none" /\ installs' = installs \cup {afor[d]})
      BY <1>2, <2>3 DEF AttachCommit, InsertsInstallation, ConnectionInv, GitInv
    <2>5. GitInv'
      BY <2>1, <2>2, <2>4 DEF ConnectionInv, GitInv
    <2> QED BY <2>1, <2>2, <2>5, AllKept DEF ConnectionInv, onboardVars
  <1> QED BY <1>1, <1>2

\* The repository: tracking is switched under its lock.
LEMMA RepoStepInv ==
  ASSUME ConnectionInv,
         \/ SyncRepositories
         \/ \E on \in BOOLEAN : AssignRepository(on)
         \/ \E d \in Admins : TrackCommit(d) \/ \E on \in BOOLEAN : TrackRead(d, on)
  PROVE  ConnectionInv'
  <1>1. CASE SyncRepositories \/ \E on \in BOOLEAN : AssignRepository(on)
    <2>1. /\ UNCHANGED <<xrow, saves, overlapped, apc, afor, aread, agen, repoLock, installs, installed, gitCrossed,
                       tracked, generation, enabledEvents, enablings, onboarded, generations, unheard,
                       activated>>
      BY <1>1 DEF SyncRepositories, AssignRepository, xConnVars, adminVars, gitVars, onboardVars
    <2>2. repoRow' \in BOOLEAN /\ assigned' \in BOOLEAN
      BY <1>1 DEF SyncRepositories, AssignRepository, ConnectionInv, RepoInv
    <2>3. \A phases : Frame(phases)
      BY <2>1 DEF Frame
    <2>4. AdminTypes'
      BY <2>1 DEF ConnectionInv, AdminTypes
    <2>5. RepoInv'
      BY <2>1, <2>2, <2>3, RepoKept
    <2> QED BY <2>1, <2>3, <2>4, <2>5, AllKept DEF ConnectionInv
  <1>2. ASSUME NEW d \in Admins, NEW on \in BOOLEAN, TrackRead(d, on) PROVE ConnectionInv'
    <2> DEFINE p == IF on THEN "track" ELSE "untrack"
               r == IF tracked THEN "active" ELSE "none"
    <2>1. /\ repoLock = NoAccount /\ repoLock' = d
          /\ apc' = [apc EXCEPT ![d] = p] /\ aread' = [aread EXCEPT ![d] = r]
          /\ agen' = [agen EXCEPT ![d] = generation]
          /\ UNCHANGED <<afor, xrow, saves, overlapped, installs, installed, gitCrossed, repoVars, onboardVars>>
      BY <1>2 DEF TrackRead, xConnVars, gitVars
    <2>2. p \in {"track", "untrack"} /\ r \in {"none", "active"} /\ generation \in 0..MaxTracked
      BY DEF ConnectionInv, RepoInv
    <2>3. aread'[d] = r /\ agen'[d] = generation
      BY <2>1 DEF ConnectionInv, AdminTypes
    <2> HIDE DEF p, r
    <2>4. /\ AdminTypes' /\ apc'[d] = p
          /\ \A e \in Admins \ {d} :
                 apc'[e] = apc[e] /\ afor'[e] = afor[e] /\ aread'[e] = aread[e] /\ agen'[e] = agen[e]
          /\ \A phases : p \notin phases => Frame(phases)
      <3>1. p \in Phases /\ p # "save" /\ p # "attach" /\ r \in {"none", "active", "revoked"}
        BY <2>2 DEF Phases
      <3> QED BY <2>1, <2>2, <3>1, AdminMoves
    <2>5. \A e \in Admins \ {d} : apc[e] \notin {"track", "untrack"}
      BY <2>1, ConnectionAssumption DEF ConnectionInv, RepoInv
    <2>6. RepoInv'
      BY <2>1, <2>3, <2>4, <2>5 DEF ConnectionInv, RepoInv, repoVars, r
    <2>7. Frame({"save"}) /\ Frame({"attach"}) /\ Frame({"trigger"})
      BY <2>2, <2>4
    <2>8. XInv' /\ GitInv' /\ OnboardInv'
      BY <2>1, <2>7, XKept, GitKept, OnboardKept DEF onboardVars, ConnectionInv, XInv
    <2> QED BY <2>4, <2>6, <2>8 DEF ConnectionInv
  <1>3. ASSUME NEW d \in Admins, TrackCommit(d) PROVE ConnectionInv'
    <2>1. /\ apc[d] \in {"track", "untrack"} /\ AdminIdle(d)
          /\ UNCHANGED <<xrow, saves, overlapped, installs, installed, gitCrossed, repoRow, assigned, onboardVars>>
      BY <1>3 DEF TrackCommit, xConnVars, gitVars
    <2>2. /\ AdminTypes' /\ apc'[d] = "idle"
          /\ \A e \in Admins \ {d} :
                 apc'[e] = apc[e] /\ afor'[e] = afor[e] /\ aread'[e] = aread[e] /\ agen'[e] = agen[e]
          /\ Frame(Phases \ {"idle"})
          /\ \A e \in Admins : repoLock = e /\ apc'[e] \in {"track", "untrack"} => repoLock' = e
      BY <2>1, AdminIdleStep
    <2>3. /\ repoLock = d /\ agen[d] = generation /\ aread[d] = IF tracked THEN "active" ELSE "none"
          /\ generation \in 0..MaxTracked /\ enabledEvents = 1..generation /\ enablings = generation
          /\ tracked \in BOOLEAN /\ MaxTracked \in Nat
      BY <2>1, ConnectionAssumption DEF ConnectionInv, RepoInv
    <2>4. \A e \in Admins : apc'[e] \notin {"track", "untrack"}
      BY <2>1, <2>2, <2>3 DEF ConnectionInv, RepoInv
    <2>5. tracked' = (apc[d] = "track") /\ tracked' \in BOOLEAN
      BY <1>3, Zenon DEF TrackCommit
    <2>6. /\ generation' \in 0..MaxTracked /\ enabledEvents' = 1..generation' /\ enablings' = generation'
      <3>1. CASE apc[d] = "track" /\ ~tracked
        <4>1. /\ agen[d] < MaxTracked /\ generation' = agen[d] + 1
              /\ enabledEvents' = enabledEvents \cup {agen[d] + 1} /\ enablings' = enablings + 1
          BY <1>3, <2>3, <3>1 DEF TrackCommit
        <4> QED BY <2>3, <4>1
      <3>2. CASE ~(apc[d] = "track" /\ ~tracked)
        <4>1. generation' = agen[d] /\ enabledEvents' = enabledEvents /\ enablings' = enablings
          BY <1>3, <2>3, <3>2 DEF TrackCommit
        <4> QED BY <2>3, <4>1
      <3> QED BY <3>1, <3>2
    <2>7. RepoInv'
      BY <2>1, <2>4, <2>5, <2>6 DEF ConnectionInv, RepoInv
    <2> QED BY <2>1, <2>2, <2>7, AllKept DEF ConnectionInv, onboardVars
  <1> QED BY <1>1, <1>2, <1>3

\* The onboarding.
LEMMA OnboardStepInv ==
  ASSUME ConnectionInv, NEW d \in Admins, CompleteRead(d) \/ CompleteCommit(d) \/ TriggerGeneration(d)
  PROVE  ConnectionInv'
  <1>1. ASSUME NEW p \in {"complete", "trigger"}, apc' = [apc EXCEPT ![d] = p],
               UNCHANGED <<afor, aread, agen, repoLock, xrow, saves, overlapped, installs, installed, gitCrossed,
                           repoVars>>
        PROVE  /\ AdminTypes' /\ XInv' /\ GitInv' /\ RepoInv' /\ apc'[d] = p
               /\ \A e \in Admins \ {d} : apc'[e] = apc[e]
    <2>1. /\ AdminTypes' /\ apc'[d] = p
          /\ \A e \in Admins \ {d} : apc'[e] = apc[e]
          /\ \A phases : p \notin phases => Frame(phases)
      <3>1. p \in Phases /\ p # "save" /\ p # "attach"
        BY DEF Phases
      <3> QED BY <1>1, <3>1, AdminMoves
    <2>2. XInv' /\ GitInv'
      BY <1>1, <2>1, XKept, GitKept DEF ConnectionInv, XInv
    <2>3. RepoInv'
      BY <1>1, <2>1, RepoKept DEF repoVars, ConnectionInv, RepoInv
    <2> QED BY <2>1, <2>2, <2>3
  <1>2. CASE CompleteRead(d)
    <2>1. /\ apc' = [apc EXCEPT ![d] = "complete"]
          /\ UNCHANGED <<afor, aread, agen, repoLock, xrow, saves, overlapped, installs, installed, gitCrossed,
                         repoVars, onboarded, generations, unheard, activated>>
      BY <1>2 DEF CompleteRead, xConnVars, gitVars, onboardVars
    <2>2. OnboardInv'
      BY <1>1, <2>1 DEF ConnectionInv, OnboardInv
    <2> QED BY <1>1, <2>1, <2>2 DEF ConnectionInv
  <1>3. CASE CompleteCommit(d)
    <2>1. /\ onboarded' = TRUE
          /\ UNCHANGED <<xrow, saves, overlapped, installs, installed, gitCrossed, repoVars, generations, activated>>
      BY <1>3 DEF CompleteCommit, xConnVars, gitVars
    <2>2. CASE onboarded
      <3>1. AdminIdle(d) /\ unheard' = unheard
        BY <1>3, <2>2 DEF CompleteCommit, NewlyCompleted
      <3>2. onboarded' = onboarded
        BY <2>1, <2>2 DEF ConnectionInv, OnboardInv
      <3> QED BY <2>1, <3>1, <3>2, AdminIdleStep, AllKept DEF ConnectionInv
    <2>3. CASE ~onboarded
      <3>1. /\ apc' = [apc EXCEPT ![d] = "trigger"] /\ unheard' = unheard + 1
            /\ UNCHANGED <<afor, aread, agen, repoLock>>
        BY <1>3, <2>3 DEF CompleteCommit, NewlyCompleted
      <3>2. OnboardInv'
        BY <1>1, <2>1, <2>3, <3>1 DEF ConnectionInv, OnboardInv
      <3> QED BY <1>1, <2>1, <3>1, <3>2 DEF ConnectionInv
    <2> QED BY <2>2, <2>3
  <1>4. CASE TriggerGeneration(d)
    <2>1. /\ apc[d] = "trigger" /\ AdminIdle(d)
          /\ \/ generations' = generations + 1 /\ unheard' = unheard - 1
             \/ UNCHANGED <<generations, unheard>>
          /\ UNCHANGED <<xrow, saves, overlapped, installs, installed, gitCrossed, repoVars, onboarded,
                         activated>>
      BY <1>4 DEF TriggerGeneration, xConnVars, gitVars
    <2>2. \A e \in Admins : apc'[e] # "trigger"
      BY <2>1, AdminIdleStep DEF ConnectionInv, OnboardInv
    <2>3. OnboardInv'
      BY <2>1, <2>2 DEF ConnectionInv, OnboardInv
    <2> QED BY <2>1, <2>3, AdminIdleStep, AllKept DEF ConnectionInv
  <1> QED BY <1>2, <1>3, <1>4

\* The activation completes the onboarding; nobody has triggered, and nobody will.
LEMMA ActivationOnboardsInv == ASSUME ConnectionInv, ActivationOnboards PROVE ConnectionInv'
  <1>1. /\ onboarded' = TRUE
        /\ UNCHANGED <<apc, afor, aread, agen, repoLock, xrow, saves, overlapped, installs, installed,
                       gitCrossed, repoVars, generations, unheard>>
    BY DEF ActivationOnboards, xConnVars, adminVars, gitVars
  <1>2. AdminTypes' /\ Frame(Phases \ {"idle"})
    BY <1>1 DEF ConnectionInv, AdminTypes, Frame
  <1>3. OnboardInv'
    BY <1>1 DEF ActivationOnboards, ConnectionInv, OnboardInv
  <1> QED BY <1>1, <1>2, <1>3, AllKept DEF ConnectionInv

\* Every step of every request keeps the invariant.
LEMMA ConnectionNextInv == ConnectionInv /\ [ConnectionNext]_connectionVars => ConnectionInv'
  <1> SUFFICES ASSUME ConnectionInv, [ConnectionNext]_connectionVars PROVE ConnectionInv'
    OBVIOUS
  <1>1. CASE UNCHANGED connectionVars
    <2>1. AdminTypes' /\ Frame(Phases \ {"idle"})
      BY <1>1 DEF connectionVars, ConnectionInv, AdminTypes, Frame
    <2> QED BY <1>1, <2>1, AllKept DEF connectionVars, ConnectionInv, repoVars
  <1>2. CASE ConnectionNext
    BY <1>2, XStepInv, GitStepInv, RepoStepInv, OnboardStepInv, AdminDiesInv, ActivationOnboardsInv DEF ConnectionNext
  <1> QED BY <1>1, <1>2

\* The inductive invariant of the connections of a workspace.
THEOREM ConnectionInvariant == ConnectionSpec => []ConnectionInv
  BY ConnectionInitInv, ConnectionNextInv, PTL DEF ConnectionSpec

\* ConnectionSafety: for every set of accounts, installations and requests that overlap, and but for
\* the crossings its parts name, a workspace has one active X account, which alone has its secret,
\* one GitHub connection, one event of every tracking generation, and one first generation
\* of an onboarding that complete_onboarding completed (x_connection_callback,
\* attach_github_installation, update_repository_tracking, complete_onboarding).
THEOREM ConnectionSafetyHolds == ConnectionSpec => []ConnectionSafety
  BY ConnectionInvariant, ConnectionInvSafe, PTL

-----------------------------------------------------------------------------
(* The search property and its syncs.                                      *)

\* A row of search_sync_runs.
SyncJob ==
    [status : RunState, key : SyncKeys \cup {NoKey}, from : 0..FinalDay, to : 0..FinalDay,
     progress : 0..FinalDay, owner : Syncers \cup {NoSyncer}, leased : BOOLEAN, tries : 0..SyncTries]

\* What an execution may do next, and which run it does it for.
SyncerTypes ==
    /\ job \in [Sources -> SyncJob]
    /\ ypc \in [Syncers -> {"idle", "load", "renew", "fetch", "succeed", "fail", "expire"}]
    /\ yrun \in [Syncers -> [source : 0..MaxSource, key : SyncKeys \cup {NoKey}]]
    /\ \A y \in Syncers : ypc[y] # "idle" => yrun[y].source \in Sources

\* A source that was never selected has nothing; one that was, was selected in the past.
SourceKnows ==
    \A s \in Sources :
        /\ src[s] = "none" => job[s] = NoJob /\ latest[s] = 0
        /\ src[s] # "none" => chosenOn[s] \in FirstDay..clock
        /\ job[s].status # "none" => job[s].from >= 1
        /\ job[s].status = "none" => job[s] = NoJob

\* The days before the one a run goes on with are stored, those of its window and those
\* since the selection.
ProgressIsStored ==
    \A s \in Sources :
        job[s].status # "none" =>
            \A d \in 1..FinalDay :
                d < ResumeDay(job[s]) /\ (job[s].from <= d \/ chosenOn[s] <= d) => d \in stored[s]

\* The owner of a run fetches the day the run goes on with, and is done after the last.
OwnerKnows ==
    \A y \in Syncers :
        IsMine(y) =>
            /\ ypc[y] \in {"renew", "fetch"} => yday[y] = ResumeDay(job[RunOf(y)])
            /\ ypc[y] = "succeed" => job[RunOf(y)].to < ResumeDay(job[RunOf(y)])

\* An execution uses the credentials of the connection, unless those were replaced
\* meanwhile, and one that ends with a rejection has seen it rejected.
GrantKnows ==
    /\ conn # "none" => grantNo >= 1
    /\ \A y \in Syncers :
          /\ ypc[y] \in {"fetch", "expire"} => ygrant[y] \in 1..grantNo /\ (~late => ygrant[y] = grantNo)
          /\ ypc[y] = "expire" => ygrant[y] \in rejected

\* A source that was disconnected, and not replaced, has no run that goes on.
DisconnectedIsDone ==
    \A s \in Sources : src[s] = "disconnected" /\ s \notin switched => ~Active(s)

SyncInv ==
    /\ SyncSafety
    /\ SyncerTypes
    /\ SourceKnows
    /\ ProgressIsStored
    /\ OwnerKnows
    /\ GrantKnows
    /\ DisconnectedIsDone

\* The empty row.
LEMMA NoJobType == NoJob \in SyncJob /\ NoJob.status = "none" /\ ~NoJob.leased
  BY SearchAssumption DEF NoJob, SyncJob, RunState

\* A workspace without a search connection satisfies the invariant.
LEMMA SyncInitInv == SearchInit => SyncInv
  <1> SUFFICES ASSUME SearchInit PROVE SyncInv
    OBVIOUS
  <1> USE SearchAssumption DEF SearchInit
  <1>1. late \in BOOLEAN
    BY Zenon
  <1>2. SyncerTypes
    BY NoJobType DEF SyncerTypes, NoYRun
  <1>3. \A s \in Sources : job[s] = NoJob
    OBVIOUS
  <1>4. SearchTypeOK
    <2>1. {chosenOn, latest} \subseteq [Sources -> 0..FinalDay]
      OBVIOUS
    <2>2. \A s \in Sources :
            /\ job[s].status \in RunState
            /\ job[s].key \in SyncKeys \cup {NoKey}
            /\ job[s].owner # NoSyncer <=> job[s].status = "running"
            /\ job[s].tries <= SyncTries
      BY <1>3 DEF NoJob, RunState
    <2>3. clock \in FirstDay..FinalDay /\ grantNo \in 0..MaxGrants /\ rejected \subseteq 1..grantNo
          /\ hands \in 0..MaxHands /\ upsets \in 0..MaxUpsets /\ selecting \in 0..MaxSource
      OBVIOUS
    <2> QED BY <1>1, <2>1, <2>2, <2>3 DEF SearchTypeOK
  <1>5. SourceKnows /\ ProgressIsStored /\ GrantKnows /\ DisconnectedIsDone
    BY <1>3, NoJobType DEF SourceKnows, ProgressIsStored, GrantKnows, DisconnectedIsDone
  <1>6. OwnerKnows
    BY DEF OwnerKnows
  <1>7. NoGapSinceSelected /\ SucceededIsStored /\ ExpiredWasRejected
    BY <1>3, NoJobType DEF NoGapSinceSelected, SucceededIsStored, ExpiredWasRejected
  <1> QED BY <1>2, <1>4, <1>5, <1>6, <1>7 DEF SyncInv, SyncSafety

\* What SearchTypeOK says of the runs.
JobsOK ==
    \A s \in Sources :
        /\ job[s].status \in RunState
        /\ job[s].key \in SyncKeys \cup {NoKey}
        /\ job[s].owner # NoSyncer <=> job[s].status = "running"
        /\ job[s].tries <= SyncTries

\* A run that is still the same run, with the same progress, and has not succeeded.
SameRun(j, k) ==
    /\ k.key = j.key /\ k.from = j.from /\ k.to = j.to /\ k.progress = j.progress
    /\ k.owner # NoSyncer <=> k.status = "running"
    /\ k.status = "none" <=> j.status = "none"
    /\ k.status = "succeeded" => j.status = "succeeded"
    /\ k.status \in {"pending", "running"} => j.status \in {"pending", "running"}

\* Steps that leave every run the same run and store nothing.
LEMMA SameRuns ==
  ASSUME SyncInv,
         job' \in [Sources -> SyncJob],
         \A s \in Sources : SameRun(job[s], job'[s]),
         UNCHANGED <<latest, stored, chosenOn>>
  PROVE  /\ JobsOK'
         /\ ProgressIsStored'
         /\ NoGapSinceSelected'
         /\ SucceededIsStored'
         /\ \A s \in Sources : Active(s)' => Active(s)
         /\ \A s \in Sources : job'[s].status # "none" => job'[s].from >= 1
  <1>1. JobsOK'
    BY SearchAssumption DEF JobsOK, SyncJob, SameRun
  <1>2. ProgressIsStored'
    BY DEF SyncInv, ProgressIsStored, SameRun, ResumeDay
  <1>3. NoGapSinceSelected'
    BY DEF SyncInv, SyncSafety, NoGapSinceSelected
  <1>4. SucceededIsStored'
    BY DEF SyncInv, SyncSafety, SucceededIsStored, SameRun
  <1>5. \A s \in Sources : Active(s)' => Active(s)
    BY DEF Active, SameRun
  <1>6. \A s \in Sources : job'[s].status # "none" => job'[s].from >= 1
    BY DEF SyncInv, SourceKnows, SameRun
  <1> QED BY <1>1, <1>2, <1>3, <1>4, <1>5, <1>6

\* An execution that goes on as owner of its run was so before.
LEMMA SameOwners ==
  ASSUME SyncInv,
         \A s \in Sources : SameRun(job[s], job'[s]),
         \A s \in Sources, y \in Syncers :
            job'[s].owner = y => job[s].owner = y \/ ypc'[y] \notin {"renew", "fetch", "succeed"},
         \A y \in Syncers :
            \/ ypc'[y] \notin {"renew", "fetch", "succeed"}
            \/ ypc'[y] = ypc[y] /\ yrun'[y] = yrun[y] /\ yday'[y] = yday[y]
  PROVE  OwnerKnows'
  <1> SUFFICES ASSUME NEW y \in Syncers, IsMine(y)', ypc'[y] \in {"renew", "fetch", "succeed"}
               PROVE  /\ ypc'[y] \in {"renew", "fetch"} => yday'[y] = ResumeDay(job[RunOf(y)])'
                      /\ ypc'[y] = "succeed" => job'[RunOf(y)'].to < ResumeDay(job[RunOf(y)])'
    BY DEF OwnerKnows
  <1>1. ypc'[y] = ypc[y] /\ yrun'[y] = yrun[y] /\ yday'[y] = yday[y] /\ RunOf(y)' = RunOf(y) /\ RunOf(y) \in Sources
    BY DEF RunOf, SyncInv, SyncerTypes
  <1>2. SameRun(job[RunOf(y)], job'[RunOf(y)])
    BY <1>1
  <1>3. IsMine(y)
    BY <1>1, <1>2 DEF IsMine, SameRun
  <1> QED BY <1>1, <1>2, <1>3 DEF SyncInv, OwnerKnows, SameRun, ResumeDay

\* Runs that stay the same, with the same owner or none.
JobsKept ==
    /\ job' \in [Sources -> SyncJob]
    /\ \A s \in Sources : SameRun(job[s], job'[s]) /\ (job[s] = NoJob => job'[s] = NoJob)
    /\ \A s \in Sources, y \in Syncers : job'[s].owner = y => job[s].owner = y

\* A step that leaves the runs and their executions alone keeps everything the invariant says of
\* them.
LEMMA JobsUnchanged ==
  ASSUME SyncInv, job' = job
  PROVE  JobsKept
  BY DEF JobsKept, SameRun, SyncInv, SyncerTypes, SyncSafety, SearchTypeOK, SourceKnows

\* cancel_active_runs ends the runs of the sources and leaves the others alone.
LEMMA CancelledRuns ==
  ASSUME SyncInv, NEW S \in SUBSET Sources, job' = Cancelled(S)
  PROVE  JobsKept /\ \A s \in S : ~Active(s)'
  <1>1. \A s \in Sources : /\ job[s] \in SyncJob
                           /\ job[s].owner # NoSyncer <=> job[s].status = "running"
    BY DEF SyncInv, SyncerTypes, SyncSafety, SearchTypeOK, SourceKnows
  <1>2. ASSUME NEW s \in Sources
        PROVE  /\ job'[s] \in SyncJob /\ SameRun(job[s], job'[s]) /\ (s \in S => ~Active(s)')
               /\ \A y \in Syncers : job'[s].owner = y => job[s].owner = y
               /\ job[s] = NoJob => job'[s] = NoJob
    <2>1. CASE s \in S /\ Active(s)
      <3>1. job'[s] = [job[s] EXCEPT !.status = "cancelled", !.owner = NoSyncer, !.leased = FALSE]
        BY <2>1 DEF Cancelled
      <3>2. job'[s] \in SyncJob
        BY <1>1, <3>1 DEF SyncJob, RunState
      <3>3. job[s] # NoJob
        BY <2>1 DEF Active, NoJob
      <3> QED BY <1>1, <2>1, <3>1, <3>2, <3>3, SearchAssumption DEF Active, SameRun, SyncJob
    <2>2. CASE ~(s \in S /\ Active(s))
      BY <1>1, <2>2, SearchAssumption DEF Cancelled, Active, SameRun
    <2> QED BY <2>1, <2>2
  <1> QED BY <1>2 DEF Cancelled, JobsKept

\* Steps in which no execution takes part and no run is started.
LEMMA OutsideStep ==
  ASSUME SyncInv, JobsKept,
         UNCHANGED <<latest, stored, chosenOn, usedKeys, hands, ypc, yrun, yday, ygrant>>
  PROVE  /\ JobsOK' /\ SyncerTypes' /\ ProgressIsStored' /\ OwnerKnows'
         /\ NoGapSinceSelected' /\ SucceededIsStored'
         /\ \A s \in Sources : Active(s)' => Active(s)
         /\ (\A s \in Sources : src'[s] = "none" <=> src[s] = "none") /\ clock' >= clock /\ clock' \in Nat
               => SourceKnows'
  <1>1. OwnerKnows'
    BY SameOwners DEF JobsKept
  <1>2. SyncerTypes'
    BY DEF JobsKept, SyncInv, SyncerTypes
  <1>3. ASSUME \A s \in Sources : src'[s] = "none" <=> src[s] = "none", clock' >= clock, clock' \in Nat
        PROVE  SourceKnows'
    <2>1. \A s \in Sources : src'[s] = "none" => job'[s] = NoJob /\ latest'[s] = 0
      BY <1>3 DEF SyncInv, SourceKnows, JobsKept
    <2>2. \A s \in Sources : src'[s] # "none" => chosenOn'[s] \in FirstDay..clock'
      BY <1>3, SearchAssumption DEF SyncInv, SourceKnows, SyncSafety, SearchTypeOK
    <2>3. \A s \in Sources : job'[s].status = "none" => job'[s] = NoJob
      BY DEF SyncInv, SourceKnows, JobsKept, SameRun
    <2> QED BY <2>1, <2>2, <2>3, SameRuns DEF SourceKnows, JobsKept
  <1> QED BY <1>1, <1>2, <1>3, SameRuns DEF JobsKept

\* What SearchTypeOK says of everything else.
RestOK ==
    /\ clock \in FirstDay..FinalDay
    /\ conn \in {"none", "active", "expired", "revoked"}
    /\ grantNo \in 0..MaxGrants /\ rejected \subseteq 1..grantNo
    /\ late \in BOOLEAN
    /\ src \in [Sources -> {"none", "active", "disconnected"}]
    /\ chosenOn \in [Sources -> 0..FinalDay] /\ latest \in [Sources -> 0..FinalDay]
    /\ stored \in [Sources -> SUBSET (1..FinalDay)]
    /\ usedKeys \in [Sources -> SUBSET SyncKeys]
    /\ hands \in 0..MaxHands /\ upsets \in 0..MaxUpsets
    /\ switched \subseteq Sources /\ announced \subseteq Sources
    /\ selecting \in 0..MaxSource
    /\ yday \in [Syncers -> 0..(FinalDay + 1)]
    /\ ygrant \in [Syncers -> 0..MaxGrants]

\* The type invariant of SearchSync is that of the rest of the state and that of the runs.
LEMMA TypeParts == (SearchTypeOK <=> RestOK /\ JobsOK) /\ (SearchTypeOK' <=> RestOK' /\ JobsOK')
  BY DEF SearchTypeOK, RestOK, JobsOK

\* Sources that are disconnected.
LEMMA DisconnectedSources ==
  ASSUME SyncInv, NEW S \in SUBSET ActiveSources, src' = DisconnectedIn(S)
  PROVE  /\ src' \in [Sources -> {"none", "active", "disconnected"}]
         /\ \A s \in Sources : src'[s] = "none" <=> src[s] = "none"
         /\ \A s \in Sources : src'[s] = "disconnected" => s \in S \/ src[s] = "disconnected"
  BY DEF SyncInv, SyncSafety, SearchTypeOK, DisconnectedIn, ActiveSources

\* The connection, the clock and the selection's event.
LEMMA ConnectionStepInv ==
  ASSUME SyncInv,
         \/ \E same \in BOOLEAN : SaveSearchConnection(same)
         \/ RefreshRejected \/ RefreshSucceeds \/ RevokeProvider \/ SelectElsewhere \/ WriteSelectedEvent
         \/ SelectionDies \/ NextClock
         \/ \E s \in Sources : DisconnectSource(s)
  PROVE  SyncInv'
  <1> USE SearchAssumption DEF connVars, sourceVars, syncerVars, Upset
  <1>0. RestOK /\ ActiveSources \subseteq Sources
    BY TypeParts DEF SyncInv, SyncSafety, ActiveSources
  <1>1. ASSUME NEW same \in BOOLEAN, SaveSearchConnection(same) PROVE SyncInv'
    <2> USE <1>1 DEF SaveSearchConnection, Replaces
    <2>1. late' \in BOOLEAN /\ (~late' => ~late /\ ~UsedBy(Syncers))
      BY Zenon
    <2>2. CASE src' = src /\ job' = job
      <3>1. JobsKept
        BY <2>2, JobsUnchanged
      <3>2. RestOK'
        BY <1>0, <2>1, <2>2 DEF RestOK
      <3>3. GrantKnows' /\ DisconnectedIsDone' /\ ExpiredWasRejected'
        BY <1>0, <2>1, <2>2 DEF RestOK, SyncInv, GrantKnows, DisconnectedIsDone, ExpiredWasRejected, UsedBy, Active
      <3> QED BY <1>0, <2>2, <3>1, <3>2, <3>3, OutsideStep, TypeParts DEF SyncInv, SyncSafety, RestOK
    <2>3. CASE src' = DisconnectedIn(ActiveSources) /\ job' = Cancelled(ActiveSources)
      <3>1. JobsKept /\ \A s \in ActiveSources : ~Active(s)'
        BY <1>0, <2>3, CancelledRuns
      <3>2. RestOK'
        BY <1>0, <2>1, <2>3, DisconnectedSources DEF RestOK
      <3>3. GrantKnows' /\ ExpiredWasRejected'
        BY <1>0, <2>1, <2>3 DEF RestOK, SyncInv, GrantKnows, ExpiredWasRejected, UsedBy
      <3>4. DisconnectedIsDone'
        BY <1>0, <2>3, <3>1, DisconnectedSources, OutsideStep DEF SyncInv, DisconnectedIsDone
      <3> QED BY <1>0, <2>3, <3>1, <3>2, <3>3, <3>4, OutsideStep, DisconnectedSources, TypeParts
          DEF SyncInv, SyncSafety, RestOK
    <2> QED BY <2>2, <2>3
  <1>2. CASE RefreshRejected \/ WriteSelectedEvent \/ SelectionDies \/ NextClock
    <2>1. JobsKept
      BY <1>2, JobsUnchanged DEF RefreshRejected, WriteSelectedEvent, SelectionDies, NextClock
    <2>2. RestOK'
      <3>1. CASE RefreshRejected
        <4>1. rejected' \subseteq 1..grantNo /\ upsets' \in 0..MaxUpsets
          BY <1>0, <3>1 DEF RefreshRejected, RestOK, SyncInv, GrantKnows
        <4> QED BY <1>0, <3>1, <4>1 DEF RefreshRejected, RestOK
      <3>2. CASE WriteSelectedEvent
        <4>1. announced' \subseteq Sources /\ selecting' \in 0..MaxSource
          BY <1>0, <3>2 DEF WriteSelectedEvent, RestOK, Sources
        <4> QED BY <1>0, <3>2, <4>1 DEF WriteSelectedEvent, RestOK
      <3>3. CASE SelectionDies
        <4>1. upsets' \in 0..MaxUpsets /\ selecting' \in 0..MaxSource
          BY <1>0, <3>3 DEF SelectionDies, RestOK
        <4> QED BY <1>0, <3>3, <4>1 DEF SelectionDies, RestOK
      <3>4. CASE NextClock
        <4>1. clock' \in FirstDay..FinalDay
          BY <1>0, <3>4 DEF NextClock, RestOK
        <4> QED BY <1>0, <3>4, <4>1 DEF NextClock, RestOK
      <3> QED BY <1>2, <3>1, <3>2, <3>3, <3>4
    <2>3. GrantKnows' /\ ExpiredWasRejected' /\ DisconnectedIsDone'
      BY <1>0, <1>2 DEF RefreshRejected, WriteSelectedEvent, SelectionDies, NextClock, RestOK, SyncInv, SyncSafety,
         GrantKnows, ExpiredWasRejected, DisconnectedIsDone, Active
    <2>4. src' = src /\ clock' >= clock /\ clock' \in Nat
      BY <1>0, <1>2 DEF RefreshRejected, WriteSelectedEvent, SelectionDies, NextClock, RestOK
    <2>5. UNCHANGED <<latest, stored, chosenOn, usedKeys, hands, ypc, yrun, yday, ygrant>>
      BY <1>2 DEF RefreshRejected, WriteSelectedEvent, SelectionDies, NextClock
    <2> QED BY <2>1, <2>2, <2>3, <2>4, <2>5, OutsideStep, TypeParts DEF SyncInv, SyncSafety
  <1>3. CASE RevokeProvider
    <2> USE <1>3 DEF RevokeProvider
    <2>1. JobsKept /\ \A s \in ActiveSources : ~Active(s)'
      BY <1>0, CancelledRuns
    <2>2. RestOK'
      BY <1>0, DisconnectedSources DEF RestOK
    <2>3. GrantKnows' /\ ExpiredWasRejected'
      BY DEF SyncInv, GrantKnows, ExpiredWasRejected
    <2>4. DisconnectedIsDone'
      BY <1>0, <2>1, DisconnectedSources, OutsideStep DEF SyncInv, DisconnectedIsDone
    <2> QED BY <1>0, <2>1, <2>2, <2>3, <2>4, OutsideStep, DisconnectedSources, TypeParts DEF SyncInv, SyncSafety, RestOK
  <1>4. CASE SelectElsewhere
    <2> USE <1>4 DEF SelectElsewhere
    <2>1. JobsKept
      BY JobsUnchanged
    <2>2. RestOK'
      BY <1>0, DisconnectedSources DEF RestOK
    <2>3. GrantKnows' /\ ExpiredWasRejected'
      BY DEF SyncInv, SyncSafety, GrantKnows, ExpiredWasRejected
    <2>4. DisconnectedIsDone'
      BY <1>0, <2>1, DisconnectedSources, OutsideStep DEF SyncInv, DisconnectedIsDone
    <2> QED BY <1>0, <2>1, <2>2, <2>3, <2>4, OutsideStep, DisconnectedSources, TypeParts DEF SyncInv, SyncSafety, RestOK
  <1>5. ASSUME NEW s \in Sources, DisconnectSource(s) PROVE SyncInv'
    <2>6. /\ upsets < MaxUpsets /\ upsets' = upsets + 1
          /\ src[s] = "active" /\ src' = DisconnectedIn({s}) /\ job' = Cancelled({s})
          /\ UNCHANGED <<clock, conn, grantNo, rejected, late, chosenOn, latest, stored, usedKeys, hands,
                         switched, announced, selecting, ypc, yrun, yday, ygrant>>
      BY <1>5 DEF DisconnectSource
    <2>0. {s} \in SUBSET ActiveSources /\ {s} \in SUBSET Sources
      BY <2>6 DEF ActiveSources
    <2>5. /\ src' \in [Sources -> {"none", "active", "disconnected"}]
          /\ \A t \in Sources : src'[t] = "none" <=> src[t] = "none"
          /\ \A t \in Sources : src'[t] = "disconnected" => t = s \/ src[t] = "disconnected"
      BY <2>0, <2>6, DisconnectedSources
    <2>1. JobsKept /\ ~Active(s)'
      BY <2>0, <2>6, CancelledRuns
    <2>2. RestOK'
      <3>1. upsets' \in 0..MaxUpsets
        <4>1. upsets \in 0..MaxUpsets
          BY <1>0 DEF RestOK
        <4> QED BY <2>6, <4>1
      <3> QED BY <1>0, <2>5, <2>6, <3>1 DEF RestOK
    <2>3. GrantKnows' /\ ExpiredWasRejected'
      BY <2>6 DEF SyncInv, SyncSafety, GrantKnows, ExpiredWasRejected
    <2>4. DisconnectedIsDone'
      BY <2>1, <2>5, <2>6, OutsideStep DEF SyncInv, DisconnectedIsDone
    <2>7. /\ JobsOK' /\ SyncerTypes' /\ ProgressIsStored' /\ OwnerKnows'
          /\ NoGapSinceSelected' /\ SucceededIsStored'
      BY <2>1, <2>6, OutsideStep
    <2>8. SourceKnows'
      <3>1. clock' >= clock /\ clock' \in Nat
        BY <1>0, <2>6 DEF RestOK
      <3> QED BY <2>1, <2>5, <2>6, <3>1, OutsideStep
    <2> QED BY <2>2, <2>3, <2>4, <2>7, <2>8, TypeParts DEF SyncInv, SyncSafety
  <1>6. CASE RefreshSucceeds
    <2> USE <1>6 DEF RefreshSucceeds, Replaces
    <2>1. late' \in BOOLEAN /\ (~late' => ~late /\ ~UsedBy(Syncers))
      BY Zenon
    <2>2. JobsKept
      BY JobsUnchanged
    <2>3. RestOK'
      BY <1>0, <2>1 DEF RestOK
    <2>4. GrantKnows' /\ DisconnectedIsDone' /\ ExpiredWasRejected'
      BY <1>0, <2>1 DEF RestOK, SyncInv, GrantKnows, DisconnectedIsDone, ExpiredWasRejected, UsedBy, Active
    <2> QED BY <1>0, <2>2, <2>3, <2>4, OutsideStep, TypeParts DEF SyncInv, SyncSafety, RestOK
  <1> QED BY <1>1, <1>2, <1>3, <1>4, <1>5, <1>6

\* A new run starts at a day before which everything since the selection is stored.
LEMMA NewRun ==
  ASSUME SyncInv, NEW s \in Sources, NEW k \in SyncKeys, NEW a \in 1..FinalDay, NEW b \in 0..FinalDay,
         job' = [job EXCEPT ![s] = NewJob(k, a, b)],
         \A d \in 1..FinalDay : d < a /\ chosenOn'[s] <= d => d \in stored[s],
         \A t \in Sources \ {s} : chosenOn'[t] = chosenOn[t],
         UNCHANGED <<stored, ypc, yrun, yday>>
  PROVE  /\ JobsOK' /\ SyncerTypes' /\ ProgressIsStored' /\ OwnerKnows' /\ SucceededIsStored'
         /\ \A t \in Sources \ {s} : job'[t] = job[t]
         /\ job'[s].from = a /\ job'[s].status = "pending"
  <1> DEFINE n == NewJob(k, a, b)
  <1>1. /\ n \in SyncJob
        /\ n.status = "pending" /\ n.key = k /\ n.from = a /\ n.to = b /\ n.progress = 0
        /\ n.owner = NoSyncer /\ n.tries = 0 /\ ~n.leased
    <2>1. n = [NoJob EXCEPT !.status = "pending", !.key = k, !.from = a, !.to = b]
      BY DEF NewJob
    <2>2. n \in SyncJob
      <3>1. a \in 0..FinalDay /\ "pending" \in RunState /\ k \in SyncKeys \cup {NoKey}
        BY SearchAssumption DEF RunState
      <3> HIDE DEF n
      <3> QED BY <2>1, <3>1, NoJobType DEF SyncJob
    <2>3. NoJob.progress = 0 /\ NoJob.owner = NoSyncer /\ NoJob.tries = 0 /\ ~NoJob.leased
      BY DEF NoJob
    <2> QED BY <2>1, <2>2, <2>3, NoJobType DEF SyncJob
  <1> HIDE DEF n
  <1>2. job \in [Sources -> SyncJob] /\ job'[s] = n /\ \A t \in Sources \ {s} : job'[t] = job[t]
    BY DEF n, SyncInv, SyncerTypes
  <1>3. job' \in [Sources -> SyncJob]
    BY <1>1, <1>2 DEF n
  <1>4. JobsOK'
    BY <1>1, <1>2, SearchAssumption DEF JobsOK, SyncInv, SyncSafety, SearchTypeOK, RunState
  <1>5. SyncerTypes'
    BY <1>3 DEF SyncInv, SyncerTypes
  <1>6. ResumeDay(n) = a
    BY <1>1 DEF ResumeDay
  <1>7. ProgressIsStored'
    <2> SUFFICES ASSUME NEW t \in Sources, job'[t].status # "none", NEW d \in 1..FinalDay,
                        d < ResumeDay(job'[t]), job'[t].from <= d \/ chosenOn'[t] <= d
                 PROVE  d \in stored[t]
      BY DEF ProgressIsStored
    <2>1. CASE t = s
      BY <1>1, <1>2, <1>6, <2>1
    <2>2. CASE t # s
      BY <1>2, <2>2 DEF SyncInv, ProgressIsStored
    <2> QED BY <2>1, <2>2
  <1>8. OwnerKnows'
    <2> SUFFICES ASSUME NEW y \in Syncers, IsMine(y)', ypc[y] \in {"renew", "fetch", "succeed"}
                 PROVE  /\ ypc[y] \in {"renew", "fetch"} => yday[y] = ResumeDay(job'[RunOf(y)])
                        /\ ypc[y] = "succeed" => job'[RunOf(y)].to < ResumeDay(job'[RunOf(y)])
      BY DEF OwnerKnows, RunOf
    <2>1. RunOf(y) \in Sources \ {s}
      BY <1>1, <1>2, SearchAssumption DEF IsMine, RunOf, SyncInv, SyncerTypes
    <2>2. IsMine(y) /\ job'[RunOf(y)] = job[RunOf(y)]
      BY <1>2, <2>1 DEF IsMine, RunOf
    <2> QED BY <2>2 DEF SyncInv, OwnerKnows
  <1>9. SucceededIsStored'
    BY <1>1, <1>2 DEF SyncInv, SyncSafety, SucceededIsStored
  <1> QED BY <1>1, <1>2, <1>4, <1>5, <1>7, <1>8, <1>9

\* Selection of a property: the initial window ends with the day of the selection at
\* the latest, and begins before it.
LEMMA SelectInv ==
  ASSUME SyncInv, NEW s \in Sources, SelectProperty(s)
  PROVE  SyncInv'
  <1> USE SearchAssumption
  <1> DEFINE a == clock - Lag - InitialDays + 1
             b == clock - Lag
             k == <<"initial", 0>>
  <1>0. RestOK
    BY TypeParts DEF SyncInv, SyncSafety
  <1>1. /\ src[s] = "none"
        /\ src' = [DisconnectedIn(ActiveSources) EXCEPT ![s] = "active"]
        /\ switched' = switched \cup ActiveSources
        /\ chosenOn' = [chosenOn EXCEPT ![s] = clock]
        /\ job' = [job EXCEPT ![s] = NewJob(k, a, b)]
        /\ usedKeys' = [usedKeys EXCEPT ![s] = @ \cup {k}]
        /\ selecting' = s
        /\ UNCHANGED <<upsets, clock, conn, grantNo, rejected, late, latest, stored, hands, announced,
                       ypc, yrun, yday, ygrant>>
    BY DEF SelectProperty, connVars, syncerVars
  <1>2. a \in 1..FinalDay /\ b \in 0..FinalDay /\ a <= clock /\ clock \in 0..FinalDay
    BY <1>0 DEF RestOK
  <1>3. k \in SyncKeys
    BY DEF SyncKeys
  <1>4. chosenOn'[s] = clock /\ \A t \in Sources \ {s} : chosenOn'[t] = chosenOn[t]
    BY <1>0, <1>1 DEF RestOK
  <1> HIDE DEF a, b, k
  <1>5. \A d \in 1..FinalDay : d < a /\ chosenOn'[s] <= d => d \in stored[s]
    BY <1>2, <1>4
  <1>6. /\ JobsOK' /\ SyncerTypes' /\ ProgressIsStored' /\ OwnerKnows' /\ SucceededIsStored'
        /\ \A t \in Sources \ {s} : job'[t] = job[t]
        /\ job'[s].from = a /\ job'[s].status = "pending"
    BY <1>1, <1>2, <1>3, <1>4, <1>5, NewRun
  <1>7. /\ src' \in [Sources -> {"none", "active", "disconnected"}]
        /\ src'[s] = "active"
        /\ \A t \in Sources \ {s} :
              /\ src'[t] = "none" <=> src[t] = "none"
              /\ src'[t] = "disconnected" => t \in ActiveSources \/ src[t] = "disconnected"
    BY <1>0, <1>1 DEF RestOK, DisconnectedIn, ActiveSources
  <1>8. RestOK'
    <2>1. chosenOn' \in [Sources -> 0..FinalDay] /\ selecting' \in 0..MaxSource
      BY <1>0, <1>1, <1>2 DEF RestOK, Sources
    <2>2. usedKeys' \in [Sources -> SUBSET SyncKeys] /\ switched' \subseteq Sources
      BY <1>0, <1>1, <1>3 DEF RestOK, ActiveSources
    <2> QED BY <1>0, <1>1, <1>7, <2>1, <2>2 DEF RestOK
  <1>9. SourceKnows'
    <2>1. clock \in FirstDay..clock
      BY <1>0 DEF RestOK
    <2> QED BY <1>1, <1>2, <1>4, <1>6, <1>7, <2>1 DEF SyncInv, SourceKnows
  <1>10. NoGapSinceSelected'
    BY <1>1, <1>4 DEF SyncInv, SyncSafety, NoGapSinceSelected, SourceKnows
  <1>11. GrantKnows' /\ ExpiredWasRejected'
    BY <1>1 DEF SyncInv, SyncSafety, GrantKnows, ExpiredWasRejected
  <1>12. DisconnectedIsDone'
    BY <1>1, <1>6, <1>7 DEF SyncInv, DisconnectedIsDone, Active
  <1> QED BY <1>6, <1>8, <1>9, <1>10, <1>11, <1>12, TypeParts DEF SyncInv, SyncSafety

\* Later windows: they begin at the selection, or at most one day after the latest day.
LEMMA RequestInv ==
  ASSUME SyncInv, NEW s \in Sources, RequestManualSync(s) \/ ScheduleSync(s)
  PROVE  SyncInv'
  <1> USE SearchAssumption
  <1>0. RestOK
    BY TypeParts DEF SyncInv, SyncSafety
  <1> DEFINE a == WindowStart(s)
             b == Cutoff
  <1>1. PICK k \in SyncKeys :
          /\ src[s] = "active"
          /\ a <= b
          /\ job' = [job EXCEPT ![s] = NewJob(k, a, b)]
          /\ usedKeys' = [usedKeys EXCEPT ![s] = @ \cup {k}]
    <2>1. CASE RequestManualSync(s)
      <3>1. <<"manual", hands + 1>> \in SyncKeys
        BY <1>0, <2>1 DEF RequestManualSync, RestOK, SyncKeys
      <3> QED BY <2>1, <3>1 DEF RequestManualSync, RequestSync
    <2>2. CASE ScheduleSync(s)
      <3>1. <<"scheduled", Cutoff>> \in SyncKeys
        BY <1>0, <2>2 DEF RestOK, SyncKeys, Cutoff
      <3> QED BY <2>2, <3>1 DEF ScheduleSync, RequestSync
    <2> QED BY <2>1, <2>2
  <1>2. /\ hands' \in 0..MaxHands
        /\ UNCHANGED <<upsets, clock, conn, grantNo, rejected, late, src, chosenOn, switched, announced,
                       selecting, latest, stored, ypc, yrun, yday, ygrant>>
    BY <1>0 DEF RequestManualSync, ScheduleSync, RestOK, connVars, sourceVars, syncerVars
  <1>3. chosenOn[s] \in 1..FinalDay /\ latest[s] \in 0..FinalDay
    BY <1>0, <1>1 DEF SyncInv, SourceKnows, RestOK
  <1>4. a \in 1..FinalDay /\ b \in 0..FinalDay
    <2>1. b \in Int /\ b <= FinalDay
      BY <1>0 DEF RestOK, Cutoff
    <2>2. a \in Int /\ a >= 1
      BY <1>3 DEF WindowStart
    <2> QED BY <1>1, <2>1, <2>2
  <1>5. \A d \in 1..FinalDay : d < a /\ chosenOn'[s] <= d => d \in stored[s]
    <2>1. \A d \in 1..FinalDay : latest[s] # 0 /\ chosenOn[s] <= d /\ d <= latest[s] => d \in stored[s]
      BY <1>3 DEF SyncInv, SyncSafety, NoGapSinceSelected
    <2> QED BY <1>2, <1>3, <2>1 DEF WindowStart
  <1> HIDE DEF a, b
  <1>6. /\ JobsOK' /\ SyncerTypes' /\ ProgressIsStored' /\ OwnerKnows' /\ SucceededIsStored'
        /\ \A t \in Sources \ {s} : job'[t] = job[t]
        /\ job'[s].from = a /\ job'[s].status = "pending"
    BY <1>1, <1>2, <1>4, <1>5, NewRun
  <1>7. RestOK'
    <2>1. usedKeys' \in [Sources -> SUBSET SyncKeys]
      BY <1>0, <1>1 DEF RestOK
    <2> QED BY <1>0, <1>2, <2>1 DEF RestOK
  <1>8. SourceKnows' /\ NoGapSinceSelected'
    BY <1>1, <1>2, <1>4, <1>6 DEF SyncInv, SyncSafety, SourceKnows, NoGapSinceSelected
  <1>9. GrantKnows' /\ ExpiredWasRejected' /\ DisconnectedIsDone'
    BY <1>1, <1>2, <1>6 DEF SyncInv, SyncSafety, GrantKnows, ExpiredWasRejected, DisconnectedIsDone, Active
  <1> QED BY <1>6, <1>7, <1>8, <1>9, TypeParts DEF SyncInv, SyncSafety

\* Steps that leave the runs the same runs and store nothing, whoever owns them.
LEMMA RunStep ==
  ASSUME SyncInv,
         job' \in [Sources -> SyncJob],
         \A s \in Sources : SameRun(job[s], job'[s]) /\ (job[s] = NoJob => job'[s] = NoJob),
         UNCHANGED <<clock, src, switched, latest, stored, chosenOn>>
  PROVE  /\ JobsOK' /\ SourceKnows' /\ ProgressIsStored' /\ NoGapSinceSelected' /\ SucceededIsStored'
         /\ DisconnectedIsDone'
  <1>1. /\ JobsOK' /\ ProgressIsStored' /\ NoGapSinceSelected' /\ SucceededIsStored'
        /\ \A s \in Sources : Active(s)' => Active(s)
        /\ \A s \in Sources : job'[s].status # "none" => job'[s].from >= 1
    BY SameRuns
  <1>2. SourceKnows'
    <2>1. \A s \in Sources : job'[s].status = "none" => job'[s] = NoJob
      BY DEF SyncInv, SourceKnows, SameRun
    <2> QED BY <1>1, <2>1 DEF SyncInv, SourceKnows
  <1>3. DisconnectedIsDone'
    BY <1>1 DEF SyncInv, DisconnectedIsDone
  <1> QED BY <1>1, <1>2, <1>3

\* Whatever a run's owner, its lease and its tries become, it is the same run.
LEMMA JobChange ==
  ASSUME SyncInv, NEW s \in Sources, job[s].status # "none",
         NEW j \in SyncJob, SameRun(job[s], j), job' = [job EXCEPT ![s] = j]
  PROVE  /\ job' \in [Sources -> SyncJob]
         /\ \A t \in Sources : SameRun(job[t], job'[t]) /\ (job[t] = NoJob => job'[t] = NoJob)
         /\ job'[s] = j
         /\ \A t \in Sources \ {s} : job'[t] = job[t]
  <1>1. /\ job \in [Sources -> SyncJob]
        /\ \A t \in Sources : job[t].owner # NoSyncer <=> job[t].status = "running"
    BY DEF SyncInv, SyncerTypes, SyncSafety, SearchTypeOK, SourceKnows
  <1>2. job' \in [Sources -> SyncJob] /\ job'[s] = j /\ \A t \in Sources \ {s} : job'[t] = job[t]
    BY <1>1
  <1>3. \A t \in Sources : SameRun(job[t], job[t])
    BY <1>1 DEF SameRun
  <1>4. job[s] # NoJob
    BY NoJobType
  <1> QED BY <1>2, <1>3, <1>4

\* _claim, and a lease that runs out.
LEMMA ClaimSyncInv ==
  ASSUME SyncInv, NEW s \in Sources,
         SyncLeaseExpires(s) \/ \E y \in Syncers : ClaimSync(y, s)
  PROVE  SyncInv'
  <1> USE SearchAssumption
  <1>0. /\ RestOK /\ job[s] \in SyncJob /\ job \in [Sources -> SyncJob]
        /\ job[s].owner # NoSyncer <=> job[s].status = "running"
        /\ job[s].leased => job[s].status # "none"
    BY TypeParts, NoJobType DEF SyncInv, SyncSafety, SearchTypeOK, SyncerTypes, SourceKnows
  <1>1. CASE SyncLeaseExpires(s)
    <2> DEFINE j == [job[s] EXCEPT !.leased = FALSE]
    <2>1. /\ upsets' \in 0..MaxUpsets /\ job[s].leased
          /\ UNCHANGED <<clock, conn, grantNo, rejected, late, src, chosenOn, switched, announced, selecting,
                         latest, stored, usedKeys, hands, ypc, yrun, yday, ygrant>>
      BY <1>0, <1>1 DEF SyncLeaseExpires, Upset, RestOK, connVars, sourceVars, syncerVars
    <2>2. job' = [job EXCEPT ![s] = j]
      BY <1>0, <1>1 DEF SyncLeaseExpires
    <2>3. j \in SyncJob /\ j.owner = job[s].owner
      BY <1>0 DEF SyncJob
    <2>4. SameRun(job[s], j) /\ job[s].status # "none"
      BY <1>0, <2>1 DEF SyncJob, SameRun
    <2> HIDE DEF j
    <2>5. /\ job' \in [Sources -> SyncJob]
          /\ \A t \in Sources : SameRun(job[t], job'[t]) /\ (job[t] = NoJob => job'[t] = NoJob)
          /\ job'[s] = j
          /\ \A t \in Sources \ {s} : job'[t] = job[t]
      BY <2>2, <2>3, <2>4, JobChange
    <2>6. /\ JobsOK' /\ SourceKnows' /\ ProgressIsStored' /\ NoGapSinceSelected' /\ SucceededIsStored'
          /\ DisconnectedIsDone'
      BY <2>1, <2>5, RunStep
    <2>7. OwnerKnows'
      BY <2>1, <2>3, <2>5, SameOwners
    <2>8. RestOK' /\ SyncerTypes' /\ GrantKnows' /\ ExpiredWasRejected'
      BY <1>0, <2>1, <2>5 DEF RestOK, SyncInv, SyncSafety, SyncerTypes, GrantKnows, ExpiredWasRejected
    <2> QED BY <2>6, <2>7, <2>8, TypeParts DEF SyncInv, SyncSafety
  <1>2. ASSUME NEW y \in Syncers, ClaimSync(y, s) PROVE SyncInv'
    <2>1. /\ ypc[y] = "idle" /\ Active(s) /\ job[s].tries < SyncTries
          /\ UNCHANGED <<upsets, clock, conn, grantNo, rejected, late, src, chosenOn, switched, announced,
                         selecting, latest, stored, usedKeys, hands, yday, ygrant>>
      BY <1>2 DEF ClaimSync, connVars, sourceVars
    <2>2. PICK j \in SyncJob :
            /\ job' = [job EXCEPT ![s] = j]
            /\ SameRun(job[s], j)
            /\ \/ j.owner = job[s].owner /\ UNCHANGED <<ypc, yrun>>
               \/ /\ j.owner = y
                  /\ ypc' = [ypc EXCEPT ![y] = "load"]
                  /\ yrun' = [yrun EXCEPT ![y] = [source |-> s, key |-> job[s].key]]
      <3>1. CASE job[s].leased
        <4> DEFINE j == [job[s] EXCEPT !.tries = @ + 1]
        <4>1. job' = [job EXCEPT ![s] = j] /\ UNCHANGED <<ypc, yrun>>
          BY <1>0, <1>2, <3>1 DEF ClaimSync
        <4>2. j \in SyncJob /\ j.owner = job[s].owner
          BY <1>0, <2>1 DEF SyncJob
        <4>3. SameRun(job[s], j)
          BY <1>0, <2>1 DEF SyncJob, SameRun
        <4> QED BY <4>1, <4>2, <4>3
      <3>2. CASE ~job[s].leased
        <4> DEFINE j == Claimed(job[s], y)
        <4>1. /\ job' = [job EXCEPT ![s] = j]
              /\ ypc' = [ypc EXCEPT ![y] = "load"]
              /\ yrun' = [yrun EXCEPT ![y] = [source |-> s, key |-> job[s].key]]
          <5>1. job' = [job EXCEPT ![s] = j]
            BY <1>0, <1>2, <3>2 DEF ClaimSync
          <5> HIDE DEF j
          <5>2. ypc' = [ypc EXCEPT ![y] = "load"]
            BY <1>2, <3>2 DEF ClaimSync
          <5>3. yrun' = [yrun EXCEPT ![y] = [source |-> s, key |-> job[s].key]]
            BY <1>2, <3>2 DEF ClaimSync
          <5> QED BY <5>1, <5>2, <5>3
        <4>2. j \in SyncJob /\ j.owner = y
          <5>1. "running" \in RunState /\ job[s].tries + 1 \in 0..SyncTries
            BY <1>0, <2>1 DEF SyncJob, RunState
          <5> QED BY <1>0, <5>1 DEF SyncJob, Claimed
        <4>3. SameRun(job[s], j)
          BY <1>0, <2>1 DEF SyncJob, SameRun, Active, Claimed
        <4> QED BY <4>1, <4>2, <4>3
      <3> QED BY <3>1, <3>2
    <2>3. job[s].status # "none"
      BY <2>1 DEF Active
    <2>4. /\ job' \in [Sources -> SyncJob]
          /\ \A t \in Sources : SameRun(job[t], job'[t]) /\ (job[t] = NoJob => job'[t] = NoJob)
          /\ job'[s] = j
          /\ \A t \in Sources \ {s} : job'[t] = job[t]
      BY <2>2, <2>3, JobChange
    <2>5. /\ JobsOK' /\ SourceKnows' /\ ProgressIsStored' /\ NoGapSinceSelected' /\ SucceededIsStored'
          /\ DisconnectedIsDone'
      BY <2>1, <2>4, RunStep
    <2>6. SyncerTypes' /\ ypc'[y] \in {"idle", "load"}
          /\ \A z \in Syncers \ {y} : ypc'[z] = ypc[z] /\ yrun'[z] = yrun[z]
      <3>1. [source |-> s, key |-> job[s].key] \in [source : 0..MaxSource, key : SyncKeys \cup {NoKey}]
        BY <1>0 DEF SyncJob, Sources
      <3> QED BY <2>1, <2>2, <2>4, <3>1 DEF SyncInv, SyncerTypes
    <2>7. OwnerKnows'
      <3>1. \A t \in Sources, z \in Syncers :
               job'[t].owner = z => job[t].owner = z \/ ypc'[z] \notin {"renew", "fetch", "succeed"}
        BY <2>2, <2>4, <2>6
      <3> QED BY <2>1, <2>4, <2>6, <3>1, SameOwners
    <2>8. RestOK' /\ GrantKnows' /\ ExpiredWasRejected'
      BY <1>0, <2>1, <2>6 DEF RestOK, SyncInv, SyncSafety, GrantKnows, ExpiredWasRejected
    <2> QED BY <2>5, <2>6, <2>7, <2>8, TypeParts DEF SyncInv, SyncSafety
  <1> QED BY <1>1, <1>2

\* An execution that is over, for whatever reason, leaves the others alone.
LEMMA SyncerIdleStep ==
  ASSUME SyncInv, NEW y \in Syncers, SyncerIdle(y)
  PROVE  /\ ypc' \in [Syncers -> {"idle", "load", "renew", "fetch", "succeed", "fail", "expire"}]
         /\ yrun' \in [Syncers -> [source : 0..MaxSource, key : SyncKeys \cup {NoKey}]]
         /\ yday' \in [Syncers -> 0..(FinalDay + 1)]
         /\ ygrant' \in [Syncers -> 0..MaxGrants]
         /\ ypc'[y] = "idle"
         /\ \A z \in Syncers \ {y} :
               ypc'[z] = ypc[z] /\ yrun'[z] = yrun[z] /\ yday'[z] = yday[z] /\ ygrant'[z] = ygrant[z]
  <1>1. /\ ypc \in [Syncers -> {"idle", "load", "renew", "fetch", "succeed", "fail", "expire"}]
        /\ yrun \in [Syncers -> [source : 0..MaxSource, key : SyncKeys \cup {NoKey}]]
        /\ yday \in [Syncers -> 0..(FinalDay + 1)]
        /\ ygrant \in [Syncers -> 0..MaxGrants]
    BY DEF SyncInv, SyncerTypes, SyncSafety, SearchTypeOK
  <1>2. /\ NoYRun \in [source : 0..MaxSource, key : SyncKeys \cup {NoKey}]
        /\ 0 \in 0..(FinalDay + 1) /\ 0 \in 0..MaxGrants
    BY SearchAssumption DEF NoYRun
  <1> QED BY <1>1, <1>2 DEF SyncerIdle

\* The run an execution owns is running.
LEMMA OwnedRun ==
  ASSUME SyncInv, NEW y \in Syncers, ypc[y] # "idle", IsMine(y)
  PROVE  /\ RunOf(y) \in Sources /\ job[RunOf(y)] \in SyncJob
         /\ job[RunOf(y)].status = "running" /\ job[RunOf(y)].owner = y
         /\ job[RunOf(y)] # NoJob /\ job[RunOf(y)].from >= 1
         /\ chosenOn[RunOf(y)] \in FirstDay..clock
  <1>1. RunOf(y) \in Sources /\ job[RunOf(y)] \in SyncJob /\ job[RunOf(y)].owner = y
    BY DEF SyncInv, SyncerTypes, RunOf, IsMine
  <1>2. job[RunOf(y)].status = "running"
    BY <1>1, SearchAssumption DEF SyncInv, SyncSafety, SearchTypeOK
  <1> QED BY <1>1, <1>2, NoJobType DEF SyncInv, SourceKnows

\* An execution that ends with its run, or without it, given back or failed.
LEMMA EndRunInv ==
  ASSUME SyncInv, NEW y \in Syncers, FailAtLoad(y) \/ FailAtFetch(y) \/ SyncerDies(y)
  PROVE  SyncInv'
  <1> USE SearchAssumption
  <1>0. RestOK /\ job \in [Sources -> SyncJob]
    BY TypeParts DEF SyncInv, SyncSafety, SyncerTypes
  <1>1. /\ SyncerIdle(y) /\ ypc[y] # "idle"
        /\ UNCHANGED <<clock, grantNo, late, src, chosenOn, switched, announced, selecting, latest, stored,
                       usedKeys, hands>>
    BY DEF FailAtLoad, FailAtFetch, SyncerDies, EndRun, sourceVars, connVars
  <1>2. upsets' \in 0..MaxUpsets
    BY <1>0 DEF FailAtLoad, FailAtFetch, SyncerDies, Upset, RestOK
  <1>3. /\ job' \in [Sources -> SyncJob]
        /\ \A t \in Sources : SameRun(job[t], job'[t]) /\ (job[t] = NoJob => job'[t] = NoJob)
        /\ \A t \in Sources, z \in Syncers : job'[t].owner = z => job[t].owner = z
    <2>1. CASE job' = job
      BY <2>1, JobsUnchanged DEF JobsKept
    <2>2. ASSUME NEW outcome, EndRun(y, outcome), IsMine(y)
          PROVE  <1>3!1 /\ <1>3!2 /\ <1>3!3
      <3> DEFINE s == RunOf(y)
                 j == IF outcome = "release" THEN Released(job[s]) ELSE Failed(job[s])
      <3>1. s \in Sources /\ job[s] \in SyncJob /\ job[s].status = "running" /\ job[s] # NoJob
        BY <1>1, <2>2, OwnedRun
      <3>2. j \in SyncJob
        <4>1. "pending" \in RunState /\ "failed" \in RunState /\ NoSyncer \in Syncers \cup {NoSyncer}
          BY DEF RunState
        <4>2. Released(job[s]) \in SyncJob
          BY <3>1, <4>1 DEF SyncJob, Released
        <4>3. Failed(job[s]) \in SyncJob
          BY <3>1, <4>1 DEF SyncJob, Failed
        <4> QED BY <4>2, <4>3
      <3>3. SameRun(job[s], j) /\ j.owner = NoSyncer
        BY <3>1 DEF SameRun, Released, Failed, SyncJob
      <3>4. job' = [job EXCEPT ![s] = j]
        BY <1>0, <2>2, <3>1 DEF EndRun
      <3> HIDE DEF j, s
      <3>5. /\ <1>3!1 /\ <1>3!2
            /\ job'[s] = j
            /\ \A t \in Sources \ {s} : job'[t] = job[t]
        BY <3>1, <3>2, <3>3, <3>4, JobChange
      <3> QED BY <3>1, <3>3, <3>5
    <2>3. ASSUME NEW outcome, EndRun(y, outcome) PROVE <1>3!1 /\ <1>3!2 /\ <1>3!3
      <3>1. CASE ~IsMine(y)
        BY <2>1, <2>3, <3>1 DEF EndRun
      <3> QED BY <2>2, <2>3, <3>1
    <2>4. CASE FailAtLoad(y)
      BY <2>3, <2>4 DEF FailAtLoad
    <2>5. CASE FailAtFetch(y)
      BY <2>3, <2>5 DEF FailAtFetch
    <2>6. CASE SyncerDies(y)
      BY <2>1, <2>6 DEF SyncerDies
    <2> QED BY <2>4, <2>5, <2>6
  <1>4. /\ conn' \in {"none", "active", "expired", "revoked"} /\ rejected \subseteq rejected'
        /\ rejected' \subseteq 1..grantNo
        /\ conn' # "none" => grantNo >= 1
        /\ conn' = "expired" => rejected' # {} /\ (~late => grantNo \in rejected')
    <2>0. /\ conn \in {"none", "active", "expired", "revoked"} /\ rejected \subseteq 1..grantNo
          /\ conn # "none" => grantNo >= 1
          /\ conn = "expired" => rejected # {} /\ (~late => grantNo \in rejected)
          /\ grantNo \in Nat
          /\ ypc[y] \in {"fetch", "expire"} => ygrant[y] \in 1..grantNo /\ (~late => ygrant[y] = grantNo)
          /\ ypc[y] = "expire" => ygrant[y] \in rejected
      BY <1>0 DEF RestOK, SyncInv, SyncSafety, GrantKnows, ExpiredWasRejected
    <2>1. CASE FailAtLoad(y)
      BY <2>0, <2>1 DEF FailAtLoad, EndRun, ExpiresConnection
    <2>2. CASE FailAtFetch(y)
      <3>1. PICK outcome \in {"release", "fail", "expire"} :
               /\ EndRun(y, outcome)
               /\ rejected' = IF outcome = "expire" THEN rejected \cup {ygrant[y]} ELSE rejected
        BY <2>2 DEF FailAtFetch
      <3>2. ygrant[y] \in 1..grantNo /\ (~late => ygrant[y] = grantNo)
        BY <2>0, <2>2 DEF FailAtFetch
      <3>3. conn' = conn \/ (conn' = "expired" /\ outcome = "expire")
        BY <3>1 DEF EndRun, ExpiresConnection
      <3>4. rejected \subseteq rejected' /\ rejected' \subseteq 1..grantNo
        BY <2>0, <3>1, <3>2
      <3> QED BY <2>0, <3>1, <3>2, <3>3, <3>4
    <2>3. CASE SyncerDies(y)
      BY <2>0, <2>3 DEF SyncerDies, connVars
    <2> QED BY <2>1, <2>2, <2>3
  <1>5. /\ JobsOK' /\ SourceKnows' /\ ProgressIsStored' /\ NoGapSinceSelected' /\ SucceededIsStored'
        /\ DisconnectedIsDone'
    BY <1>1, <1>3, RunStep
  <1>6. OwnerKnows'
    BY <1>1, <1>3, SyncerIdleStep, SameOwners
  <1>7. RestOK'
    BY <1>0, <1>1, <1>2, <1>4, SyncerIdleStep DEF RestOK
  <1>8. SyncerTypes'
    BY <1>1, <1>3, SyncerIdleStep DEF SyncInv, SyncerTypes
  <1>9. GrantKnows' /\ ExpiredWasRejected'
    BY <1>1, <1>4, SyncerIdleStep DEF SyncInv, GrantKnows, ExpiredWasRejected
  <1> QED BY <1>5, <1>6, <1>7, <1>8, <1>9, TypeParts DEF SyncInv, SyncSafety

\* _succeed: its owner has seen the last day stored.
LEMMA SucceedInv ==
  ASSUME SyncInv, NEW y \in Syncers, Succeed(y)
  PROVE  SyncInv'
  <1> USE SearchAssumption
  <1> DEFINE s == RunOf(y)
             j == [job[s] EXCEPT !.status = "succeeded", !.owner = NoSyncer, !.leased = FALSE]
  <1>0. RestOK /\ job \in [Sources -> SyncJob]
    BY TypeParts DEF SyncInv, SyncSafety, SyncerTypes
  <1>1. /\ SyncerIdle(y) /\ ypc[y] = "succeed"
        /\ UNCHANGED <<upsets, clock, conn, grantNo, rejected, late, src, chosenOn, switched, announced, selecting,
                       stored, usedKeys, hands>>
    BY DEF Succeed, sourceVars, connVars
  <1>2. CASE ~IsMine(y)
    <2>1. UNCHANGED <<job, latest>>
      BY <1>2 DEF Succeed
    <2>2. JobsKept
      BY <2>1, JobsUnchanged
    <2>3. /\ JobsOK' /\ SourceKnows' /\ ProgressIsStored' /\ NoGapSinceSelected' /\ SucceededIsStored'
          /\ DisconnectedIsDone'
      BY <1>1, <2>1, <2>2, RunStep DEF JobsKept
    <2>4. OwnerKnows'
      BY <1>1, <2>2, SyncerIdleStep, SameOwners DEF JobsKept
    <2>5. RestOK'
      BY <1>0, <1>1, <2>1, SyncerIdleStep DEF RestOK
    <2>6. SyncerTypes'
      BY <1>1, <2>1, SyncerIdleStep DEF SyncInv, SyncerTypes
    <2>7. GrantKnows' /\ ExpiredWasRejected'
      BY <1>1, SyncerIdleStep DEF SyncInv, SyncSafety, GrantKnows, ExpiredWasRejected
    <2> QED BY <2>3, <2>4, <2>5, <2>6, <2>7, TypeParts DEF SyncInv, SyncSafety
  <1>3. CASE IsMine(y)
    <2>1. /\ s \in Sources /\ job[s] \in SyncJob /\ job[s].status = "running" /\ job[s].owner = y
          /\ job[s] # NoJob /\ job[s].from >= 1 /\ chosenOn[s] \in FirstDay..clock
      BY <1>1, <1>3, OwnedRun
    <2>2. job' = [job EXCEPT ![s] = j] /\ latest' = [latest EXCEPT ![s] = job[s].to]
      BY <1>0, <1>3, <2>1 DEF Succeed
    <2>3. job[s].to < ResumeDay(job[s])
      BY <1>1, <1>3 DEF SyncInv, OwnerKnows
    <2>4. \A d \in 1..FinalDay : d <= job[s].to /\ (job[s].from <= d \/ chosenOn[s] <= d) => d \in stored[s]
      <3>1. ResumeDay(job[s]) \in Nat /\ job[s].to \in Nat
        BY <2>1 DEF ResumeDay, SyncJob
      <3> QED BY <2>1, <2>3, <3>1 DEF SyncInv, ProgressIsStored
    <2>5. /\ j \in SyncJob
          /\ j.status = "succeeded" /\ j.owner = NoSyncer
          /\ j.key = job[s].key /\ j.from = job[s].from /\ j.to = job[s].to /\ j.progress = job[s].progress
          /\ j.tries = job[s].tries
      <3>1. "succeeded" \in RunState
        BY DEF RunState
      <3> QED BY <2>1, <3>1 DEF SyncJob
    <2> HIDE DEF j, s
    <2>6. job'[s] = j /\ latest'[s] = job[s].to /\ job' \in [Sources -> SyncJob]
          /\ \A t \in Sources \ {s} : job'[t] = job[t] /\ latest'[t] = latest[t]
      BY <1>0, <2>1, <2>2, <2>5 DEF RestOK
    <2>7. JobsOK'
      BY <2>1, <2>5, <2>6 DEF JobsOK, SyncInv, SyncSafety, SearchTypeOK, RunState, SyncJob
    <2>8. SourceKnows'
      BY <1>1, <2>1, <2>5, <2>6 DEF SyncInv, SourceKnows
    <2>9. ProgressIsStored'
      <3>1. ResumeDay(j) = ResumeDay(job[s])
        BY <2>5 DEF ResumeDay
      <3> QED BY <1>1, <2>1, <2>5, <2>6, <3>1 DEF SyncInv, ProgressIsStored
    <2>10. SucceededIsStored'
      <3>1. j.from..j.to \subseteq stored[s]
        BY <2>1, <2>4, <2>5 DEF SyncJob
      <3> QED BY <1>1, <2>5, <2>6, <3>1 DEF SyncInv, SyncSafety, SucceededIsStored
    <2>11. NoGapSinceSelected'
      <3>1. chosenOn[s]..job[s].to \subseteq stored[s]
        BY <1>0, <2>1, <2>4 DEF SyncJob, RestOK
      <3> QED BY <1>1, <2>6, <3>1 DEF SyncInv, SyncSafety, NoGapSinceSelected
    <2>12. DisconnectedIsDone'
      BY <1>1, <2>5, <2>6 DEF SyncInv, DisconnectedIsDone, Active
    <2>13. OwnerKnows'
      <3> SUFFICES ASSUME NEW z \in Syncers, IsMine(z)', ypc'[z] \in {"renew", "fetch", "succeed"}
                   PROVE  /\ ypc'[z] \in {"renew", "fetch"} => yday'[z] = ResumeDay(job[RunOf(z)])'
                          /\ ypc'[z] = "succeed" => job'[RunOf(z)'].to < ResumeDay(job[RunOf(z)])'
        BY DEF OwnerKnows
      <3>1. /\ z # y /\ ypc'[z] = ypc[z] /\ yday'[z] = yday[z] /\ yrun'[z] = yrun[z] /\ RunOf(z)' = RunOf(z)
            /\ RunOf(z) \in Sources
        BY <1>1, SyncerIdleStep DEF RunOf, SyncInv, SyncerTypes
      <3>2. RunOf(z) # s
        BY <2>5, <2>6, <3>1 DEF IsMine
      <3>3. IsMine(z) /\ job'[RunOf(z)] = job[RunOf(z)]
        BY <2>6, <3>1, <3>2 DEF IsMine
      <3> QED BY <3>1, <3>3 DEF SyncInv, OwnerKnows
    <2>14. RestOK'
      <3>1. latest' \in [Sources -> 0..FinalDay]
        BY <1>0, <2>1, <2>2 DEF RestOK, SyncJob
      <3> QED BY <1>0, <1>1, <3>1, SyncerIdleStep DEF RestOK
    <2>15. SyncerTypes'
      BY <1>1, <2>6, SyncerIdleStep DEF SyncInv, SyncerTypes
    <2>16. GrantKnows' /\ ExpiredWasRejected'
      BY <1>1, SyncerIdleStep DEF SyncInv, SyncSafety, GrantKnows, ExpiredWasRejected
    <2> QED BY <2>7, <2>8, <2>9, <2>10, <2>11, <2>12, <2>13, <2>14, <2>15, <2>16, TypeParts DEF SyncInv, SyncSafety
  <1> QED BY <1>2, <1>3

\* load_processing_context, and a window of which nothing is left.
LEMMA LoadInv ==
  ASSUME SyncInv, NEW y \in Syncers, LoadContext(y) \/ NothingLeft(y)
  PROVE  SyncInv'
  <1> USE SearchAssumption
  <1>0. /\ RestOK /\ job \in [Sources -> SyncJob]
        /\ ypc \in [Syncers -> {"idle", "load", "renew", "fetch", "succeed", "fail", "expire"}]
    BY TypeParts DEF SyncInv, SyncSafety, SyncerTypes
  <1>1. UNCHANGED <<clock, conn, grantNo, late, src, chosenOn, switched, announced, selecting,
                    latest, stored, job, usedKeys, hands, yrun>>
    BY DEF LoadContext, NothingLeft, sourceVars, connVars
  <1>2. JobsKept
    BY <1>1, JobsUnchanged
  <1>3. /\ JobsOK' /\ SourceKnows' /\ ProgressIsStored' /\ NoGapSinceSelected' /\ SucceededIsStored'
        /\ DisconnectedIsDone'
    BY <1>1, <1>2, RunStep DEF JobsKept
  <1>4. CASE LoadContext(y)
    <2>1. /\ ypc[y] = "load"
          /\ yday' = [yday EXCEPT ![y] = ResumeDay(job[RunOf(y)])]
          /\ ygrant' = [ygrant EXCEPT ![y] = grantNo]
      BY <1>4 DEF LoadContext
    <2>2. PICK p \in {"fetch", "renew", "expire", "fail"} :
            /\ ypc' = [ypc EXCEPT ![y] = p]
            /\ p # "fail" => conn = "active"
            /\ IF p = "expire" THEN rejected' = rejected \cup {grantNo} /\ Upset
                               ELSE UNCHANGED <<rejected, upsets>>
      BY <1>4 DEF LoadContext
    <2>3. /\ ypc'[y] = p /\ yday'[y] = ResumeDay(job[RunOf(y)]) /\ ygrant'[y] = grantNo
          /\ ypc' \in [Syncers -> {"idle", "load", "renew", "fetch", "succeed", "fail", "expire"}]
          /\ \A z \in Syncers \ {y} : ypc'[z] = ypc[z] /\ yday'[z] = yday[z] /\ ygrant'[z] = ygrant[z]
      BY <1>0, <2>1, <2>2 DEF RestOK
    <2>4. RunOf(y) \in Sources /\ ResumeDay(job[RunOf(y)]) \in 0..(FinalDay + 1)
      <3>1. RunOf(y) \in Sources
        BY <2>1 DEF SyncInv, SyncerTypes, RunOf
      <3>2. job[RunOf(y)].from \in 0..FinalDay /\ job[RunOf(y)].progress \in 0..FinalDay
        BY <1>0, <3>1 DEF SyncJob
      <3> QED BY <3>1, <3>2 DEF ResumeDay
    <2>5. conn = "active" => grantNo \in 1..grantNo
      BY <1>0 DEF RestOK, SyncInv, GrantKnows
    <2>6. RestOK'
      <3>1. rejected' \subseteq 1..grantNo /\ upsets' \in 0..MaxUpsets
        <4>1. CASE p = "expire"
          <5>1. /\ rejected' = rejected \cup {grantNo} /\ upsets < MaxUpsets /\ upsets' = upsets + 1
                /\ grantNo \in 1..grantNo
            BY <2>2, <2>5, <4>1 DEF Upset
          <5>2. rejected \subseteq 1..grantNo /\ upsets \in 0..MaxUpsets
            BY <1>0 DEF RestOK
          <5>3. upsets' \in 0..MaxUpsets
            BY <5>1, <5>2
          <5> QED BY <5>1, <5>2, <5>3
        <4>2. CASE p # "expire"
          BY <1>0, <2>2, <4>2 DEF RestOK
        <4> QED BY <4>1, <4>2
      <3>2. yday' \in [Syncers -> 0..(FinalDay + 1)] /\ ygrant' \in [Syncers -> 0..MaxGrants]
        BY <1>0, <2>1, <2>4 DEF RestOK
      <3> QED BY <1>0, <1>1, <3>1, <3>2 DEF RestOK
    <2>7. SyncerTypes'
      BY <1>0, <1>1, <2>1, <2>3 DEF SyncInv, SyncerTypes
    <2>8. GrantKnows' /\ ExpiredWasRejected'
      <3>1. rejected \subseteq rejected' /\ (p = "expire" => grantNo \in rejected')
        BY <2>2
      <3> QED BY <1>1, <2>2, <2>3, <2>5, <3>1 DEF SyncInv, SyncSafety, GrantKnows, ExpiredWasRejected
    <2>9. OwnerKnows'
      BY <1>1, <2>2, <2>3 DEF SyncInv, OwnerKnows, IsMine, RunOf
    <2> QED BY <1>3, <2>6, <2>7, <2>8, <2>9, TypeParts DEF SyncInv, SyncSafety
  <1>5. CASE NothingLeft(y)
    <2>1. /\ ypc[y] = "fetch" /\ NoDayLeft(y) /\ ypc' = [ypc EXCEPT ![y] = "succeed"]
          /\ UNCHANGED <<upsets, rejected, yday, ygrant>>
      BY <1>5 DEF NothingLeft, connVars
    <2>2. RestOK'
      BY <1>0, <1>1, <2>1 DEF RestOK
    <2>3. /\ ypc' \in [Syncers -> {"idle", "load", "renew", "fetch", "succeed", "fail", "expire"}]
          /\ ypc'[y] = "succeed" /\ \A z \in Syncers \ {y} : ypc'[z] = ypc[z]
      BY <1>0, <2>1
    <2>4. SyncerTypes' /\ GrantKnows' /\ ExpiredWasRejected'
      BY <1>1, <2>1, <2>3 DEF SyncInv, SyncSafety, SyncerTypes, GrantKnows, ExpiredWasRejected
    <2>5. OwnerKnows'
      <3>1. IsMine(y) => job[RunOf(y)].to < ResumeDay(job[RunOf(y)])
        BY <2>1 DEF SyncInv, OwnerKnows, NoDayLeft
      <3> QED BY <1>1, <2>1, <2>3, <3>1 DEF SyncInv, OwnerKnows, IsMine, RunOf
    <2> QED BY <1>3, <2>2, <2>4, <2>5, TypeParts DEF SyncInv, SyncSafety
  <1> QED BY <1>4, <1>5

\* The refreshed token is written; other executions may go on with the former one.
LEMMA RenewInv ==
  ASSUME SyncInv, NEW y \in Syncers, RenewGrant(y)
  PROVE  SyncInv'
  <1> USE SearchAssumption
  <1>0. /\ RestOK /\ job \in [Sources -> SyncJob]
        /\ ypc \in [Syncers -> {"idle", "load", "renew", "fetch", "succeed", "fail", "expire"}]
    BY TypeParts DEF SyncInv, SyncSafety, SyncerTypes
  <1>1. /\ ypc[y] = "renew"
        /\ UNCHANGED <<upsets, clock, conn, rejected, src, chosenOn, switched, announced, selecting, latest,
                       stored, job, usedKeys, hands, yrun, yday>>
    BY DEF RenewGrant, sourceVars
  <1>2. JobsKept
    BY <1>1, JobsUnchanged
  <1>3. /\ JobsOK' /\ SourceKnows' /\ ProgressIsStored' /\ NoGapSinceSelected' /\ SucceededIsStored'
        /\ DisconnectedIsDone'
    BY <1>1, <1>2, RunStep DEF JobsKept
  <1>4. CASE conn # "active"
    <2>1. ypc' = [ypc EXCEPT ![y] = "fail"] /\ UNCHANGED <<grantNo, late, ygrant>>
      BY <1>4 DEF RenewGrant
    <2>2. /\ ypc' \in [Syncers -> {"idle", "load", "renew", "fetch", "succeed", "fail", "expire"}]
          /\ ypc'[y] = "fail" /\ \A z \in Syncers \ {y} : ypc'[z] = ypc[z]
      BY <1>0, <2>1
    <2>3. RestOK' /\ SyncerTypes' /\ GrantKnows' /\ ExpiredWasRejected'
      BY <1>0, <1>1, <2>1, <2>2 DEF RestOK, SyncInv, SyncSafety, SyncerTypes, GrantKnows, ExpiredWasRejected
    <2>4. OwnerKnows'
      BY <1>1, <2>2 DEF SyncInv, OwnerKnows, IsMine, RunOf
    <2> QED BY <1>3, <2>3, <2>4, TypeParts DEF SyncInv, SyncSafety
  <1>5. CASE conn = "active"
    <2>1. /\ grantNo < MaxGrants /\ grantNo' = grantNo + 1 /\ late' = (late \/ UsedBy(Syncers \ {y}))
          /\ ygrant' = [ygrant EXCEPT ![y] = grantNo + 1]
          /\ ypc' = [ypc EXCEPT ![y] = "fetch"]
      BY <1>5 DEF RenewGrant, Replaces
    <2>2. /\ ypc' \in [Syncers -> {"idle", "load", "renew", "fetch", "succeed", "fail", "expire"}]
          /\ ypc'[y] = "fetch" /\ ygrant'[y] = grantNo + 1
          /\ \A z \in Syncers \ {y} : ypc'[z] = ypc[z] /\ ygrant'[z] = ygrant[z]
      BY <1>0, <2>1 DEF RestOK
    <2>3. late' \in BOOLEAN /\ (~late' => ~late /\ ~UsedBy(Syncers \ {y}))
      BY <2>1, Zenon
    <2>4. RestOK'
      <3>1. grantNo' \in 0..MaxGrants /\ rejected' \subseteq 1..grantNo'
        BY <1>0, <1>1, <2>1 DEF RestOK
      <3>2. ygrant' \in [Syncers -> 0..MaxGrants]
        BY <1>0, <2>1 DEF RestOK
      <3> QED BY <1>0, <1>1, <2>3, <3>1, <3>2 DEF RestOK
    <2>5. SyncerTypes'
      BY <1>1, <2>2 DEF SyncInv, SyncerTypes
    <2>6. GrantKnows'
      <3>1. grantNo \in Nat
        BY <1>0 DEF RestOK
      <3>2. \A z \in Syncers \ {y} : ~late' => ypc[z] \notin {"fetch", "expire"}
        BY <2>3 DEF UsedBy
      <3> QED BY <1>1, <2>1, <2>2, <3>1, <3>2 DEF SyncInv, GrantKnows
    <2>7. ExpiredWasRejected'
      BY <1>1, <1>5 DEF ExpiredWasRejected
    <2>8. OwnerKnows'
      BY <1>1, <2>2 DEF SyncInv, OwnerKnows, IsMine, RunOf
    <2> QED BY <1>3, <2>4, <2>5, <2>6, <2>7, <2>8, TypeParts DEF SyncInv, SyncSafety
  <1> QED BY <1>4, <1>5

\* _persist_day: the owner's day is the one after the run's progress, so the stored
\* days stay without a hole.
LEMMA PersistInv ==
  ASSUME SyncInv, NEW y \in Syncers, PersistDay(y)
  PROVE  SyncInv'
  <1> USE SearchAssumption
  <1>0. RestOK /\ job \in [Sources -> SyncJob]
        /\ ypc \in [Syncers -> {"idle", "load", "renew", "fetch", "succeed", "fail", "expire"}]
    BY TypeParts DEF SyncInv, SyncSafety, SyncerTypes
  <1>1. /\ ypc[y] = "fetch" /\ ~NoDayLeft(y)
        /\ UNCHANGED <<upsets, clock, conn, grantNo, rejected, late, src, chosenOn, switched, announced, selecting,
                       usedKeys, hands>>
    BY DEF PersistDay, sourceVars, connVars
  <1>2. CASE ~MayPersist(y)
    <2>1. SyncerIdle(y) /\ UNCHANGED <<stored, latest, job>>
      BY <1>2 DEF PersistDay
    <2>2. JobsKept
      BY <2>1, JobsUnchanged
    <2>3. /\ JobsOK' /\ SourceKnows' /\ ProgressIsStored' /\ NoGapSinceSelected' /\ SucceededIsStored'
          /\ DisconnectedIsDone'
      BY <1>1, <2>1, <2>2, RunStep DEF JobsKept
    <2>4. OwnerKnows'
      BY <1>1, <2>1, <2>2, SyncerIdleStep, SameOwners DEF JobsKept
    <2>5. RestOK'
      BY <1>0, <1>1, <2>1, SyncerIdleStep DEF RestOK
    <2>6. SyncerTypes'
      BY <1>1, <2>1, SyncerIdleStep DEF SyncInv, SyncerTypes
    <2>7. GrantKnows' /\ ExpiredWasRejected'
      BY <1>1, <2>1, SyncerIdleStep DEF SyncInv, SyncSafety, GrantKnows, ExpiredWasRejected
    <2> QED BY <2>3, <2>4, <2>5, <2>6, <2>7, TypeParts DEF SyncInv, SyncSafety
  <1>3. CASE MayPersist(y)
    <2> DEFINE s == RunOf(y)
               d == yday[y]
               j == [job[s] EXCEPT !.progress = d, !.leased = TRUE]
    <2>1. /\ s \in Sources /\ job[s] \in SyncJob /\ job[s].status = "running" /\ job[s].owner = y
          /\ job[s] # NoJob /\ job[s].from >= 1 /\ chosenOn[s] \in FirstDay..clock
      BY <1>1, <1>3, OwnedRun DEF MayPersist
    <2>2. /\ stored' = [stored EXCEPT ![s] = @ \cup {d}]
          /\ latest' = [latest EXCEPT ![s] = d]
          /\ yday' = [yday EXCEPT ![y] = d + 1]
          /\ ypc' = [ypc EXCEPT ![y] = IF d < job[s].to THEN "fetch" ELSE "succeed"]
          /\ UNCHANGED <<yrun, ygrant>>
      BY <1>3 DEF PersistDay
    <2>3. job' = [job EXCEPT ![s] = j]
      BY <1>0, <1>3, <2>1 DEF PersistDay
    <2>4. d = ResumeDay(job[s]) /\ d <= job[s].to
      <3>1. d = ResumeDay(job[s])
        BY <1>1, <1>3 DEF MayPersist, SyncInv, OwnerKnows
      <3>2. d \in Nat /\ job[s].to \in Nat
        BY <1>0, <2>1 DEF RestOK, SyncJob
      <3> QED BY <1>1, <3>1, <3>2 DEF NoDayLeft
    <2>5. d \in 1..FinalDay /\ job[s].to \in 0..FinalDay /\ job[s].from \in 1..FinalDay
      BY <2>1, <2>4 DEF SyncJob, ResumeDay
    <2>6. /\ j \in SyncJob
          /\ j.status = "running" /\ j.owner = y
          /\ j.key = job[s].key /\ j.from = job[s].from /\ j.to = job[s].to /\ j.progress = d
          /\ j.tries = job[s].tries
      <3>1. d \in 0..FinalDay
        BY <2>5
      <3> QED BY <2>1, <3>1 DEF SyncJob
    <2>7. \A e \in 1..FinalDay : e < d + 1 /\ (job[s].from <= e \/ chosenOn[s] <= e) => e \in stored[s] \cup {d}
      BY <2>1, <2>4, <2>5 DEF SyncInv, ProgressIsStored
    <2>8. ResumeDay(j) = d + 1
      BY <2>5, <2>6 DEF ResumeDay
    <2> HIDE DEF j, s, d
    <2>9. /\ job' \in [Sources -> SyncJob] /\ job'[s] = j /\ latest'[s] = d /\ stored'[s] = stored[s] \cup {d}
          /\ \A t \in Sources \ {s} : job'[t] = job[t] /\ latest'[t] = latest[t] /\ stored'[t] = stored[t]
      BY <1>0, <2>1, <2>2, <2>3, <2>6 DEF RestOK
    <2>10. /\ ypc' \in [Syncers -> {"idle", "load", "renew", "fetch", "succeed", "fail", "expire"}]
           /\ ypc'[y] = IF d < job[s].to THEN "fetch" ELSE "succeed"
           /\ yday'[y] = d + 1
           /\ \A z \in Syncers \ {y} : ypc'[z] = ypc[z] /\ yday'[z] = yday[z]
      BY <1>0, <2>2 DEF RestOK
    <2>11. JobsOK'
      BY <2>1, <2>6, <2>9 DEF JobsOK, SyncInv, SyncSafety, SearchTypeOK, RunState, SyncJob
    <2>12. SourceKnows'
      BY <1>1, <2>1, <2>6, <2>9 DEF SyncInv, SourceKnows
    <2>13. ProgressIsStored'
      BY <1>1, <2>6, <2>7, <2>8, <2>9 DEF SyncInv, ProgressIsStored
    <2>14. SucceededIsStored'
      BY <2>6, <2>9 DEF SyncInv, SyncSafety, SucceededIsStored
    <2>15. NoGapSinceSelected'
      <3>1. chosenOn[s]..d \subseteq stored[s] \cup {d}
        BY <1>0, <2>1, <2>5, <2>7 DEF RestOK
      <3> QED BY <1>1, <2>9, <3>1 DEF SyncInv, SyncSafety, NoGapSinceSelected
    <2>16. DisconnectedIsDone'
      BY <1>1, <2>1, <2>6, <2>9 DEF SyncInv, DisconnectedIsDone, Active
    <2>17. OwnerKnows'
      <3> SUFFICES ASSUME NEW z \in Syncers, IsMine(z)', ypc'[z] \in {"renew", "fetch", "succeed"}
                   PROVE  /\ ypc'[z] \in {"renew", "fetch"} => yday'[z] = ResumeDay(job[RunOf(z)])'
                          /\ ypc'[z] = "succeed" => job'[RunOf(z)'].to < ResumeDay(job[RunOf(z)])'
        BY DEF OwnerKnows
      <3>1. CASE z = y
        <4>1. RunOf(y)' = s
          BY <2>2 DEF RunOf, s
        <4> QED BY <2>5, <2>6, <2>8, <2>9, <2>10, <3>1, <4>1
      <3>2. CASE z # y
        <4>1. /\ ypc'[z] = ypc[z] /\ yday'[z] = yday[z] /\ yrun'[z] = yrun[z] /\ RunOf(z)' = RunOf(z)
              /\ RunOf(z) \in Sources
          BY <2>2, <2>10, <3>2 DEF RunOf, SyncInv, SyncerTypes
        <4>2. RunOf(z) # s
          BY <2>6, <2>9, <3>2, <4>1 DEF IsMine
        <4>3. IsMine(z) /\ job'[RunOf(z)] = job[RunOf(z)]
          BY <2>9, <4>1, <4>2 DEF IsMine
        <4> QED BY <4>1, <4>3 DEF SyncInv, OwnerKnows
      <3> QED BY <3>1, <3>2
    <2>18. RestOK'
      <3>1. latest' \in [Sources -> 0..FinalDay] /\ stored' \in [Sources -> SUBSET (1..FinalDay)]
        BY <1>0, <2>1, <2>2, <2>5 DEF RestOK
      <3>2. yday' \in [Syncers -> 0..(FinalDay + 1)]
        BY <1>0, <2>2, <2>5 DEF RestOK
      <3> QED BY <1>0, <1>1, <2>2, <3>1, <3>2 DEF RestOK
    <2>19. SyncerTypes'
      BY <1>1, <2>2, <2>9, <2>10 DEF SyncInv, SyncerTypes
    <2>20. GrantKnows' /\ ExpiredWasRejected'
      BY <1>1, <2>2, <2>10 DEF SyncInv, SyncSafety, GrantKnows, ExpiredWasRejected
    <2> QED BY <2>11, <2>12, <2>13, <2>14, <2>15, <2>16, <2>17, <2>18, <2>19, <2>20, TypeParts DEF SyncInv, SyncSafety
  <1> QED BY <1>2, <1>3

\* Every step of the connection, of the commands and of the executions keeps the invariant.
LEMMA SyncNextInv == SyncInv /\ [SearchNext]_searchVars => SyncInv'
  <1> SUFFICES ASSUME SyncInv, [SearchNext]_searchVars PROVE SyncInv'
    OBVIOUS
  <1>1. CASE UNCHANGED searchVars
    <2>1. JobsKept
      BY <1>1, JobsUnchanged DEF searchVars
    <2>2. RestOK
      BY TypeParts DEF SyncInv, SyncSafety
    <2>3. RestOK' /\ GrantKnows' /\ ExpiredWasRejected' /\ clock' >= clock /\ clock' \in Nat
      BY <1>1, <2>2, SearchAssumption DEF searchVars, RestOK, SyncInv, SyncSafety, GrantKnows, ExpiredWasRejected
    <2>4. JobsOK' /\ SourceKnows' /\ ProgressIsStored' /\ NoGapSinceSelected' /\ SucceededIsStored'
          /\ DisconnectedIsDone' /\ OwnerKnows' /\ SyncerTypes'
      BY <1>1, <2>1, RunStep, OutsideStep DEF searchVars, JobsKept
    <2> QED BY <2>3, <2>4, TypeParts DEF SyncInv, SyncSafety
  <1>2. CASE SearchNext
    BY <1>2, ConnectionStepInv, SelectInv, RequestInv, ClaimSyncInv, LoadInv, RenewInv, PersistInv, SucceedInv,
       EndRunInv
       DEF SearchNext, SyncerStep
  <1> QED BY <1>1, <1>2

\* The inductive invariant of the search connection and its syncs.
THEOREM SyncInvariant == SearchSpec => []SyncInv
  BY SyncInitInv, SyncNextInv, PTL DEF SearchSpec

\* SyncSafety: for every set of executions, sources and days, syncs that are late, fail, are cancelled
\* or lose their lease leave no hole since the selection, one that succeeded has stored its window,
\* and only a rejection of its credentials expires a connection (SearchSyncService).
THEOREM SyncSafetyHolds == SearchSpec => []SyncSafety
  <1>1. SyncInv => SyncSafety
    BY DEF SyncInv
  <1> QED BY <1>1, SyncInvariant, PTL

\* DisconnectedStoresNothing: an execution that is still under way when its source is disconnected
\* stores nothing more, unless another source took the place of that one.
THEOREM SyncDisconnectedStoresNothing == SearchSpec => DisconnectedStoresNothing
  <1> DEFINE P == \A s \in Sources : src[s] = "disconnected" /\ s \notin switched => stored'[s] = stored[s]
  <1>1. SyncInv /\ [SearchNext]_searchVars => [P]_searchVars
    <2> SUFFICES ASSUME SyncInv, SearchNext, stored' # stored PROVE P
      OBVIOUS
    <2>1. PICK y \in Syncers : PersistDay(y) /\ MayPersist(y)
      <3>1. PICK y \in Syncers : PersistDay(y)
        BY DEF SearchNext, SyncerStep, SaveSearchConnection, RefreshRejected, RefreshSucceeds, RevokeProvider, SelectElsewhere,
           WriteSelectedEvent, SelectionDies, NextClock, SelectProperty, DisconnectSource, RequestManualSync,
           ScheduleSync, SyncLeaseExpires, SyncerDies, ClaimSync, LoadContext, RenewGrant, NothingLeft, Succeed, FailAtLoad,
           FailAtFetch, EndRun
      <3> QED BY <3>1 DEF PersistDay
    <2>2. RunOf(y) \in Sources /\ Active(RunOf(y))
      BY <2>1, OwnedRun DEF PersistDay, MayPersist, Active
    <2>3. \A t \in Sources \ {RunOf(y)} : stored'[t] = stored[t]
      BY <2>1, <2>2 DEF PersistDay, SyncInv, SyncSafety, SearchTypeOK
    <2> QED BY <2>2, <2>3 DEF SyncInv, DisconnectedIsDone
  <1> QED BY <1>1, SyncInvariant, PTL DEF SearchSpec, DisconnectedStoresNothing

-----------------------------------------------------------------------------
(* The website's crawls.                                                   *)

\* A row of the crawl runs.
CrawlRow ==
    [status : {"none", "pending", "running", "succeeded", "failed"},
     coded : BOOLEAN, counted : BOOLEAN, tries : 0..CrawlTries, closed : BOOLEAN]

\* The executions, and the run an execution that is under way is about.
CrawlerTypes ==
    /\ cpc \in [Crawlers -> {"idle", "walk", "handle", "write"}]
    /\ crun \in [Crawlers -> 0..MaxCrawl]
    /\ sawNone \in [Crawlers -> BOOLEAN] /\ sawCounted \in [Crawlers -> BOOLEAN]
    /\ \A e \in Crawlers : cpc[e] # "idle" => crun[e] \in Crawls

\* The runs; one at most is active, and one that never failed and has not succeeded has
\* no failure in its counts.
RunsInv ==
    /\ crawl \in [Crawls -> CrawlRow]
    /\ everFailed \subseteq Crawls
    /\ \A r, q \in ActiveCrawls : r = q
    /\ \A r \in Crawls : crawl[r].counted => crawl[r].status = "succeeded" \/ r \in everFailed

\* The event is that of the first success.
SiteInv ==
    /\ site \in {"none", "active", "disconnected"}
    /\ crawledOnce \in BOOLEAN
    /\ crawlEvent \in 0..MaxCrawl /\ firstDone = crawlEvent
    /\ crawledOnce <=> crawlEvent # 0

\* An execution that saw a source that was crawled is right, and one that saw a failure in
\* the counts of its run is right.
CrawlerKnows ==
    \A e \in Crawlers :
        /\ cpc[e] = "walk" /\ ~sawNone[e] => crawledOnce
        /\ cpc[e] \in {"walk", "write"} /\ sawCounted[e] => crun[e] \in everFailed

CrawlInv == CrawlerTypes /\ RunsInv /\ SiteInv /\ CrawlerKnows

\* The invariant implies what the crawls promise.
LEMMA CrawlInvSafe == CrawlInv => CrawlSafety
  <1> SUFFICES ASSUME CrawlInv PROVE CrawlSafety
    OBVIOUS
  <1>1. CrawlTypeOK
    BY DEF CrawlTypeOK, CrawlInv, CrawlerTypes, RunsInv, SiteInv, CrawlRow
  <1>2. OneActiveCrawl
    BY AtMostOne DEF OneActiveCrawl, CrawlInv, RunsInv
  <1>3. InitialCrawlRecorded
    BY DEF InitialCrawlRecorded, CrawlInv, SiteInv
  <1> QED BY <1>1, <1>2, <1>3 DEF CrawlSafety

\* A product without a website satisfies the invariant.
LEMMA CrawlInitInv == CrawlInit => CrawlInv
  <1> SUFFICES ASSUME CrawlInit PROVE CrawlInv
    OBVIOUS
  <1> USE CrawlAssumption DEF CrawlInit
  <1>1. CrawlerTypes
    BY DEF CrawlerTypes
  <1>2. NoCrawl \in CrawlRow /\ NoCrawl.status = "none" /\ ~NoCrawl.counted
    BY DEF NoCrawl, CrawlRow
  <1>3. RunsInv
    BY <1>2 DEF RunsInv, ActiveCrawls
  <1>4. crawledOnce \in BOOLEAN
    BY Zenon
  <1>5. SiteInv
    BY <1>4 DEF SiteInv
  <1>6. CrawlerKnows
    BY DEF CrawlerKnows
  <1> QED BY <1>1, <1>3, <1>5, <1>6 DEF CrawlInv

\* An execution that is over.
LEMMA CrawlerIdleStep ==
  ASSUME CrawlInv, NEW e \in Crawlers, CrawlerIdle(e),
         everFailed \subseteq everFailed', crawledOnce => crawledOnce'
  PROVE  CrawlerTypes' /\ CrawlerKnows'
  <1>1. /\ cpc'[e] = "idle"
        /\ \A f \in Crawlers \ {e} :
              cpc'[f] = cpc[f] /\ crun'[f] = crun[f] /\ sawNone'[f] = sawNone[f] /\ sawCounted'[f] = sawCounted[f]
    BY DEF CrawlInv, CrawlerTypes, CrawlerIdle
  <1>2. 0 \in 0..MaxCrawl
    BY CrawlAssumption
  <1>3. /\ cpc' \in [Crawlers -> {"idle", "walk", "handle", "write"}]
        /\ crun' \in [Crawlers -> 0..MaxCrawl]
        /\ sawNone' \in [Crawlers -> BOOLEAN] /\ sawCounted' \in [Crawlers -> BOOLEAN]
    BY <1>2 DEF CrawlInv, CrawlerTypes, CrawlerIdle
  <1>4. CrawlerTypes'
    BY <1>1, <1>3 DEF CrawlInv, CrawlerTypes
  <1>5. CrawlerKnows'
    BY <1>1 DEF CrawlInv, CrawlerKnows
  <1> QED BY <1>4, <1>5

\* An execution that raises goes to its handler.
LEMMA RaisesStep ==
  ASSUME CrawlInv, NEW e \in Crawlers, cpc[e] # "idle", Raises(e),
         UNCHANGED <<siteVars, crawl, everFailed, crun, sawNone, sawCounted>>
  PROVE  CrawlInv'
  <1>1. CrawlerTypes'
    BY DEF CrawlInv, CrawlerTypes, Raises
  <1>2. CrawlerKnows'
    BY DEF CrawlInv, CrawlerTypes, CrawlerKnows, Raises, siteVars
  <1>3. RunsInv' /\ SiteInv'
    BY DEF CrawlInv, RunsInv, SiteInv, siteVars, ActiveCrawls
  <1> QED BY <1>1, <1>2, <1>3 DEF CrawlInv

\* The row of a run changes.
LEMMA RowStep ==
  ASSUME CrawlInv, NEW r \in Crawls, NEW c \in CrawlRow, crawl' = [crawl EXCEPT ![r] = c],
         c.status \in {"pending", "running"} => NoOtherActive(r),
         c.counted => c.status = "succeeded" \/ r \in everFailed',
         everFailed' \in {everFailed, everFailed \cup {r}}
  PROVE  RunsInv'
  <1>1. /\ crawl' \in [Crawls -> CrawlRow] /\ crawl'[r] = c
        /\ \A q \in Crawls \ {r} : crawl'[q] = crawl[q]
    BY DEF CrawlInv, RunsInv
  <1>2. everFailed' \subseteq Crawls /\ everFailed \subseteq everFailed'
    BY DEF CrawlInv, RunsInv
  <1>3. \A p, q \in ActiveCrawls' : p = q
    BY <1>1 DEF CrawlInv, RunsInv, ActiveCrawls, NoOtherActive
  <1>4. \A q \in Crawls : crawl'[q].counted => crawl'[q].status = "succeeded" \/ q \in everFailed'
    BY <1>1, <1>2 DEF CrawlInv, RunsInv
  <1> QED BY <1>1, <1>2, <1>3, <1>4 DEF RunsInv

\* The source, and a new run.
LEMMA SiteStepInv ==
  ASSUME CrawlInv, SaveSite \/ DisconnectSite \/ \E r \in Crawls : RequestCrawl(r)
  PROVE  CrawlInv'
  <1>1. UNCHANGED <<crawledOnce, crawlEvent, firstDone, everFailed, cpc, crun, sawNone, sawCounted>>
    BY DEF SaveSite, DisconnectSite, RequestCrawl, crawlerVars, siteVars
  <1>2. CrawlerTypes' /\ CrawlerKnows' /\ SiteInv'
    BY <1>1 DEF SaveSite, DisconnectSite, RequestCrawl, CrawlInv, CrawlerTypes, CrawlerKnows, SiteInv, siteVars
  <1>3. RunsInv'
    <2>1. CASE crawl' = crawl
      BY <1>1, <2>1 DEF CrawlInv, RunsInv, ActiveCrawls
    <2>2. ASSUME NEW r \in Crawls, RequestCrawl(r) PROVE RunsInv'
      <3> DEFINE c == [crawl[r] EXCEPT !.status = "pending"]
      <3>1. crawl[r] \in CrawlRow
        BY DEF CrawlInv, RunsInv
      <3>2. crawl' = [crawl EXCEPT ![r] = c] /\ NoOtherActive(r) /\ crawl[r].status = "none"
        BY <2>2 DEF RequestCrawl, CrawlInv, RunsInv
      <3>3. c \in CrawlRow /\ (c.counted => crawl[r].counted)
        BY <3>1 DEF CrawlRow
      <3>4. c.counted => r \in everFailed'
        BY <1>1, <3>2, <3>3 DEF CrawlInv, RunsInv
      <3> HIDE DEF c
      <3> QED BY <1>1, <3>2, <3>3, <3>4, RowStep
    <2> QED BY <2>1, <2>2 DEF SaveSite, DisconnectSite
  <1> QED BY <1>2, <1>3 DEF CrawlInv

\* Inngest starts an execution.
LEMMA StartCrawlInv ==
  ASSUME CrawlInv, NEW e \in Crawlers, NEW r \in Crawls, StartCrawl(e, r)
  PROVE  CrawlInv'
  <1>0. /\ crawl \in [Crawls -> CrawlRow] /\ crawl[r] \in CrawlRow /\ everFailed \subseteq Crawls
        /\ crawl[r].counted => crawl[r].status = "succeeded" \/ r \in everFailed
    BY DEF CrawlInv, RunsInv
  <1>1. /\ crawl[r].tries < CrawlTries
        /\ UNCHANGED <<site, crawledOnce, crawlEvent, firstDone, everFailed>>
    BY DEF StartCrawl, siteVars
  <1>2. crawl[r].tries + 1 \in 0..CrawlTries /\ r \in 0..MaxCrawl
    BY <1>0, <1>1, CrawlAssumption DEF CrawlRow, Crawls
  <1>3. SiteInv'
    BY <1>1 DEF CrawlInv, SiteInv
  <1>4. CASE crawl[r].status = "succeeded"
    <2> DEFINE c == [crawl[r] EXCEPT !.tries = @ + 1, !.closed = TRUE]
    <2>1. crawl' = [crawl EXCEPT ![r] = c] /\ UNCHANGED <<cpc, crun, sawNone, sawCounted>>
      BY <1>0, <1>4 DEF StartCrawl, crawlerVars
    <2>2. c \in CrawlRow /\ c.status = "succeeded"
      BY <1>0, <1>2, <1>4 DEF CrawlRow
    <2> HIDE DEF c
    <2>3. RunsInv'
      BY <1>1, <2>1, <2>2, RowStep
    <2>4. CrawlerTypes' /\ CrawlerKnows'
      BY <1>1, <2>1 DEF CrawlInv, CrawlerTypes, CrawlerKnows
    <2> QED BY <1>3, <2>3, <2>4 DEF CrawlInv
  <1>5. CASE crawl[r].status # "succeeded" /\ NoOtherActive(r)
    <2> DEFINE c == [crawl[r] EXCEPT !.status = "running", !.coded = FALSE, !.tries = @ + 1]
    <2>1. /\ crawl' = [crawl EXCEPT ![r] = c]
          /\ crun' = [crun EXCEPT ![e] = r]
          /\ cpc' = [cpc EXCEPT ![e] = "walk"]
          /\ sawNone' = [sawNone EXCEPT ![e] = ~crawledOnce]
          /\ sawCounted' = [sawCounted EXCEPT ![e] = crawl[r].counted]
      BY <1>0, <1>5 DEF StartCrawl
    <2>2. c \in CrawlRow /\ (c.counted => crawl[r].counted)
      BY <1>0, <1>2 DEF CrawlRow
    <2> HIDE DEF c
    <2>3. RunsInv'
      BY <1>0, <1>1, <1>5, <2>1, <2>2, RowStep
    <2>4. crawl[r].counted \in BOOLEAN /\ crawledOnce \in BOOLEAN
      BY <1>0 DEF CrawlRow, CrawlInv, SiteInv
    <2>5. /\ cpc'[e] = "walk" /\ crun'[e] = r /\ sawNone'[e] = ~crawledOnce /\ sawCounted'[e] = crawl[r].counted
          /\ \A f \in Crawlers \ {e} :
                cpc'[f] = cpc[f] /\ crun'[f] = crun[f] /\ sawNone'[f] = sawNone[f] /\ sawCounted'[f] = sawCounted[f]
      BY <2>1 DEF CrawlInv, CrawlerTypes
    <2>6. /\ cpc' \in [Crawlers -> {"idle", "walk", "handle", "write"}]
          /\ crun' \in [Crawlers -> 0..MaxCrawl]
          /\ sawNone' \in [Crawlers -> BOOLEAN] /\ sawCounted' \in [Crawlers -> BOOLEAN]
      BY <1>2, <2>1, <2>4 DEF CrawlInv, CrawlerTypes
    <2>7. CrawlerTypes'
      BY <2>5, <2>6 DEF CrawlInv, CrawlerTypes
    <2>8. CrawlerKnows'
      BY <1>0, <1>1, <1>5, <2>5 DEF CrawlInv, CrawlerKnows
    <2> QED BY <1>3, <2>3, <2>7, <2>8 DEF CrawlInv
  <1>6. CASE crawl[r].status # "succeeded" /\ ~NoOtherActive(r)
    <2> DEFINE c == [crawl[r] EXCEPT !.tries = @ + 1]
    <2>1. /\ crawl' = [crawl EXCEPT ![r] = c]
          /\ crun' = [crun EXCEPT ![e] = r]
          /\ cpc' = [cpc EXCEPT ![e] = "handle"]
          /\ UNCHANGED <<sawNone, sawCounted>>
      BY <1>0, <1>6 DEF StartCrawl, Raises
    <2>2. c \in CrawlRow /\ (c.counted => crawl[r].counted) /\ c.status = crawl[r].status
      BY <1>0, <1>2 DEF CrawlRow
    <2>3. c.status \notin {"pending", "running"} \/ ActiveCrawls = {r}
      BY <1>0, <2>2 DEF CrawlInv, RunsInv, ActiveCrawls
    <2> HIDE DEF c
    <2>4. RunsInv'
      BY <1>0, <1>1, <1>6, <2>1, <2>2, <2>3, RowStep DEF NoOtherActive
    <2>5. CrawlerTypes'
      BY <1>2, <2>1 DEF CrawlInv, CrawlerTypes
    <2>6. CrawlerKnows'
      BY <1>1, <2>1 DEF CrawlInv, CrawlerTypes, CrawlerKnows
    <2> QED BY <1>3, <2>4, <2>5, <2>6 DEF CrawlInv
  <1> QED BY <1>4, <1>5, <1>6

\* A failure is written.
LEMMA FailRunStep ==
  ASSUME CrawlInv, NEW e \in Crawlers, cpc[e] # "idle", FailRun(e)
  PROVE  RunsInv' /\ SiteInv' /\ everFailed \subseteq everFailed' /\ crawledOnce' = crawledOnce
  <1> DEFINE r == crun[e]
             c == FailedCrawl(crawl[r], cpc[e] = "walk")
  <1>1. r \in Crawls /\ crawl[r] \in CrawlRow
    BY DEF CrawlInv, CrawlerTypes, RunsInv
  <1>2. /\ crawl' = [crawl EXCEPT ![r] = c] /\ everFailed' = everFailed \cup {r}
        /\ UNCHANGED <<site, crawledOnce, crawlEvent, firstDone>>
    BY <1>1 DEF FailRun, siteVars, CrawlInv, RunsInv
  <1>3. c \in CrawlRow /\ c.status = "failed"
    BY <1>1 DEF FailedCrawl, CrawlRow
  <1> HIDE DEF r, c
  <1>4. RunsInv'
    BY <1>1, <1>2, <1>3, RowStep
  <1>5. SiteInv'
    BY <1>2 DEF CrawlInv, SiteInv
  <1> QED BY <1>2, <1>4, <1>5

\* An execution that fails, or finds its run ended, keeps the invariant.
LEMMA CrawlFailsInv ==
  ASSUME CrawlInv, NEW e \in Crawlers,
         CrawlFails(e) \/ CrawlRaises(e) \/ HandlerWrites(e) \/ CrawlerDies(e)
  PROVE  CrawlInv'
  <1>1. cpc[e] # "idle"
    BY DEF CrawlFails, CrawlRaises, HandlerWrites, CrawlerDies
  <1>2. CASE FailRun(e) /\ CrawlerIdle(e)
    BY <1>1, <1>2, FailRunStep, CrawlerIdleStep DEF CrawlInv
  <1>3. CASE Raises(e) /\ UNCHANGED <<siteVars, crawl, everFailed, crun, sawNone, sawCounted>>
    BY <1>1, <1>3, RaisesStep
  <1>4. CASE CrawlerIdle(e) /\ UNCHANGED <<siteVars, crawl, everFailed>>
    <2>1. RunsInv' /\ SiteInv'
      BY <1>4 DEF CrawlInv, RunsInv, SiteInv, siteVars, ActiveCrawls
    <2> QED BY <1>4, <2>1, CrawlerIdleStep DEF CrawlInv, siteVars
  <1> QED BY <1>2, <1>3, <1>4 DEF CrawlFails, CrawlRaises, HandlerWrites, CrawlerDies

\* The handler looks at the run.
LEMMA HandlerReadsInv ==
  ASSUME CrawlInv, NEW e \in Crawlers, HandlerReads(e)
  PROVE  CrawlInv'
  <1>1. cpc[e] = "handle" /\ UNCHANGED <<site, crawledOnce, crawlEvent, firstDone, crawl, everFailed>>
    BY DEF HandlerReads, siteVars
  <1>2. RunsInv' /\ SiteInv'
    BY <1>1 DEF CrawlInv, RunsInv, SiteInv, ActiveCrawls
  <1>3. CASE CrawlerIdle(e)
    BY <1>1, <1>2, <1>3, CrawlerIdleStep DEF CrawlInv
  <1>4. CASE ~Spared(e)
    <2>1. /\ cpc' = [cpc EXCEPT ![e] = "write"]
          /\ sawCounted' = [sawCounted EXCEPT ![e] = crawl[crun[e]].counted]
          /\ UNCHANGED <<crun, sawNone>>
      BY <1>4 DEF HandlerReads
    <2>2. crun[e] \in Crawls /\ crawl[crun[e]].counted \in BOOLEAN
      BY <1>1 DEF CrawlInv, CrawlerTypes, RunsInv, CrawlRow
    <2>3. /\ cpc'[e] = "write" /\ sawCounted'[e] = crawl[crun[e]].counted
          /\ \A f \in Crawlers \ {e} : cpc'[f] = cpc[f] /\ sawCounted'[f] = sawCounted[f]
          /\ cpc' \in [Crawlers -> {"idle", "walk", "handle", "write"}]
          /\ sawCounted' \in [Crawlers -> BOOLEAN]
      BY <2>1, <2>2 DEF CrawlInv, CrawlerTypes
    <2>4. CrawlerTypes'
      BY <2>1, <2>2, <2>3 DEF CrawlInv, CrawlerTypes
    <2>5. crawl[crun[e]].counted => crun[e] \in everFailed
      BY <1>4, <2>2 DEF CrawlInv, RunsInv, Spared
    <2>6. CrawlerKnows'
      BY <1>1, <2>1, <2>3, <2>5 DEF CrawlInv, CrawlerKnows
    <2> QED BY <1>2, <2>4, <2>6 DEF CrawlInv
  <1> QED BY <1>3, <1>4 DEF HandlerReads

\* A success is committed, with the event when the execution saw none.
LEMMA CrawlSucceedsInv ==
  ASSUME CrawlInv, NEW e \in Crawlers, CrawlSucceeds(e)
  PROVE  CrawlInv'
  <1>1. cpc[e] = "walk"
    BY DEF CrawlSucceeds
  <1>2. PICK pageFailed \in BOOLEAN :
          \/ /\ MaySucceed(e, pageFailed) /\ EventFits(e)
             /\ crawl' = [crawl EXCEPT ![crun[e]] =
                             [@ EXCEPT !.status = "succeeded", !.counted = pageFailed, !.closed = TRUE]]
             /\ crawledOnce' = TRUE
             /\ crawlEvent' = IF sawNone[e] THEN crun[e] ELSE crawlEvent
             /\ firstDone' = IF firstDone = 0 THEN crun[e] ELSE firstDone
             /\ CrawlerIdle(e)
             /\ UNCHANGED <<site, everFailed>>
          \/ Raises(e) /\ UNCHANGED <<siteVars, crawl, everFailed, crun, sawNone, sawCounted>>
    BY DEF CrawlSucceeds
  <1>3. CASE Raises(e) /\ UNCHANGED <<siteVars, crawl, everFailed, crun, sawNone, sawCounted>>
    BY <1>1, <1>3, RaisesStep
  <1>4. CASE ~(Raises(e) /\ UNCHANGED <<siteVars, crawl, everFailed, crun, sawNone, sawCounted>>)
    <2> DEFINE r == crun[e]
               c == [crawl[r] EXCEPT !.status = "succeeded", !.counted = pageFailed, !.closed = TRUE]
    <2>1. r \in Crawls /\ crawl[r] \in CrawlRow /\ r # 0 /\ r \in 0..MaxCrawl
      <3>1. r \in Crawls /\ crawl[r] \in CrawlRow
        BY <1>1 DEF CrawlInv, CrawlerTypes, RunsInv
      <3> QED BY <3>1 DEF Crawls
    <2>2. /\ crawl' = [crawl EXCEPT ![r] = c]
          /\ crawledOnce' = TRUE
          /\ crawlEvent' = IF sawNone[e] THEN r ELSE crawlEvent
          /\ firstDone' = IF firstDone = 0 THEN r ELSE firstDone
          /\ CrawlerIdle(e)
          /\ UNCHANGED <<site, everFailed>>
          /\ EventFits(e)
      BY <1>2, <1>4, <2>1 DEF CrawlInv, RunsInv
    <2>3. c \in CrawlRow /\ c.status = "succeeded"
      BY <2>1 DEF CrawlRow
    <2> HIDE DEF c
    <2>4. RunsInv'
      BY <2>1, <2>2, <2>3, RowStep
    <2>5. SiteInv'
      <3>1. /\ crawlEvent \in 0..MaxCrawl /\ firstDone = crawlEvent
            /\ sawNone[e] => crawlEvent \in {0, r}
            /\ ~sawNone[e] => crawlEvent # 0
        BY <1>1, <2>2 DEF EventFits, CrawlInv, SiteInv, CrawlerKnows
      <3>2. crawlEvent' \in 0..MaxCrawl /\ firstDone' = crawlEvent' /\ crawlEvent' # 0
        BY <2>1, <2>2, <3>1
      <3> QED BY <2>2, <3>2 DEF CrawlInv, SiteInv
    <2> QED BY <2>2, <2>4, <2>5, CrawlerIdleStep DEF CrawlInv
  <1> QED BY <1>3, <1>4

\* Every step of the commands and of the executions keeps the invariant.
LEMMA CrawlNextInv == CrawlInv /\ [CrawlNext]_crawlVars => CrawlInv'
  <1> SUFFICES ASSUME CrawlInv, [CrawlNext]_crawlVars PROVE CrawlInv'
    OBVIOUS
  <1>1. CASE UNCHANGED crawlVars
    BY <1>1 DEF crawlVars, CrawlInv, CrawlerTypes, RunsInv, SiteInv, CrawlerKnows, ActiveCrawls
  <1>2. CASE CrawlNext
    BY <1>2, SiteStepInv, StartCrawlInv, CrawlFailsInv, HandlerReadsInv, CrawlSucceedsInv DEF CrawlNext
  <1> QED BY <1>1, <1>2

\* The inductive invariant of the website source and its crawl runs.
THEOREM CrawlInvariant == CrawlSpec => []CrawlInv
  BY CrawlInitInv, CrawlNextInv, PTL DEF CrawlSpec

\* CrawlSafety: for every set of crawls and overlapping executions, a source has one active crawl, and
\* the first success of its crawls writes the one event about it (WebsiteCrawlService).
THEOREM CrawlSafetyHolds == CrawlSpec => []CrawlSafety
  BY CrawlInvariant, CrawlInvSafe, PTL

\* CrawlSuccessKept: an execution that ends late does not turn the success of a run into a failure,
\* although it writes blindly, unless the run had failed before (_fail_run).
THEOREM CrawlKeepsSuccess == CrawlSpec => CrawlSuccessKept
  <1> DEFINE P == \A r \in Crawls : crawl[r].status = "succeeded" /\ r \notin everFailed
                                        => crawl'[r].status = "succeeded"
  <1>1. CrawlInv /\ [CrawlNext]_crawlVars => [P]_crawlVars
    <2> SUFFICES ASSUME CrawlInv, CrawlNext,
                        NEW r \in Crawls, crawl[r].status = "succeeded", r \notin everFailed
                 PROVE  crawl'[r].status = "succeeded"
      OBVIOUS
    <2>0. crawl \in [Crawls -> CrawlRow]
      BY DEF CrawlInv, RunsInv
    <2>1. CASE crawl' = crawl
      BY <2>1
    <2>2. ASSUME NEW q \in Crawls, RequestCrawl(q) PROVE crawl'[r].status = "succeeded"
      BY <2>0, <2>2 DEF RequestCrawl
    <2>3. ASSUME NEW e \in Crawlers, NEW q \in Crawls, StartCrawl(e, q) PROVE crawl'[r].status = "succeeded"
      BY <2>0, <2>3 DEF StartCrawl, CrawlRow
    <2>4. ASSUME NEW e \in Crawlers, FailRun(e), CountsAllow(e), cpc[e] \in {"walk", "write"}
          PROVE  crawl'[r].status = "succeeded"
      <3>1. crun[e] # r
        BY <2>4 DEF CountsAllow, CrawlInv, CrawlerKnows
      <3> QED BY <2>0, <2>4, <3>1 DEF FailRun
    <2>5. ASSUME NEW e \in Crawlers, CrawlSucceeds(e) PROVE crawl'[r].status = "succeeded"
      <3>1. PICK pageFailed \in BOOLEAN :
              \/ crawl' = [crawl EXCEPT ![crun[e]] =
                             [@ EXCEPT !.status = "succeeded", !.counted = pageFailed, !.closed = TRUE]]
              \/ crawl' = crawl
        BY <2>5 DEF CrawlSucceeds
      <3>2. crawl[r] \in CrawlRow
        BY <2>0
      <3>3. CASE crun[e] # r
        BY <2>0, <3>1, <3>3
      <3>4. CASE crun[e] = r
        <4>1. crawl'[r] \in {crawl[r], [crawl[r] EXCEPT !.status = "succeeded", !.counted = pageFailed, !.closed = TRUE]}
          BY <2>0, <3>1, <3>4
        <4> QED BY <3>2, <4>1 DEF CrawlRow
      <3> QED BY <3>3, <3>4
    <2> QED BY <2>1, <2>2, <2>3, <2>4, <2>5 DEF CrawlNext, SaveSite, DisconnectSite, CrawlFails, CrawlRaises,
          HandlerReads, HandlerWrites, CrawlerDies
  <1> QED BY <1>1, CrawlInvariant, PTL DEF CrawlSpec, CrawlSuccessKept

-----------------------------------------------------------------------------
(* Products, profiles and the activation.                                  *)

\* A draft, an approved profile, and what a client shows.
DraftProfile == [no : 0..MaxProfile, rev : 0..MaxRevision, complete : BOOLEAN]
Approved == (0..MaxProfile) \X (0..MaxRevision)
View == [item : Items \cup {NoItem}, no : 0..MaxProfile, rev : 0..MaxRevision]

\* The workspace's product exists, and stays what it is about once it was completed.
WorkspaceInv ==
    /\ alive \subseteq Items
    /\ creating \in [Editors -> Items \cup {NoItem}]
    /\ activation \in alive \cup {NoItem}
    /\ alive # {} => activation \in alive
    /\ completed \in BOOLEAN /\ finalized \in BOOLEAN
    /\ completed => activation # NoItem
    /\ finalized => completed /\ version[activation] > 0
    /\ website \subseteq alive /\ searching \subseteq alive /\ deferred \subseteq alive
    /\ target \in Items \cup {NoItem}

\* A draft is the newest profile of its product, every version was a profile, and a client
\* shows no profile that does not exist yet.
ProfileInv ==
    /\ profile \in [Items -> DraftProfile]
    /\ profiles \in [Items -> 0..MaxProfile]
    /\ version \in [Items -> 0..MaxProfile]
    /\ approvedOf \in [Items -> Approved] /\ approvedAs \in [Items -> Approved]
    /\ loaded \in [Editors -> View]
    /\ \A p \in Items :
          /\ profile[p].no # 0 => profile[p].no = profiles[p] /\ version[p] < profiles[p]
          /\ version[p] <= profiles[p]
    /\ \A u \in Editors : loaded[u].item # NoItem => loaded[u].no <= profiles[loaded[u].item]
    /\ ApprovedWasLoaded

ActivationInv == WorkspaceInv /\ ProfileInv

\* The invariant implies what the activation promises.
LEMMA ActivationInvSafe == ActivationInv => ActivationSafety
  <1> SUFFICES ASSUME ActivationInv PROVE ActivationSafety
    OBVIOUS
  <1>1. {completed, finalized} \subseteq BOOLEAN
    BY Zenon DEF ActivationInv, WorkspaceInv
  <1>2. ActivationTypeOK
    BY <1>1 DEF ActivationTypeOK, ActivationInv, WorkspaceInv, ProfileInv, DraftProfile, Approved, View
  <1>3. ActivationProductExists /\ ApprovedWasLoaded /\ FinalizedHasProfile
    BY DEF ActivationProductExists, FinalizedHasProfile, ActivationInv, WorkspaceInv, ProfileInv
  <1> QED BY <1>2, <1>3 DEF ActivationSafety

\* A workspace without a product satisfies the invariant.
LEMMA ActivationInitInv == ActivationInit => ActivationInv
  <1> SUFFICES ASSUME ActivationInit PROVE ActivationInv
    OBVIOUS
  <1> USE ActivationAssumption DEF ActivationInit
  <1>1. completed \in BOOLEAN /\ finalized \in BOOLEAN
    BY Zenon
  <1>2. WorkspaceInv
    BY <1>1 DEF WorkspaceInv
  <1>3. NoProfile \in DraftProfile /\ NoView \in View /\ <<0, 0>> \in Approved
    BY DEF NoProfile, DraftProfile, NoView, View, Approved
  <1>4. NoProfile.no = 0 /\ NoView.item = NoItem
    BY DEF NoProfile, NoView
  <1>5. ProfileInv
    BY <1>3, <1>4 DEF ProfileInv, ApprovedWasLoaded
  <1> QED BY <1>2, <1>5 DEF ActivationInv

\* The bound on the profiles of the workspace bounds those of each product.
LEMMA ProfilesBounded ==
  ASSUME ActivationInv, NEW p \in Items,
         Cardinality(CreatedProfiles) < MaxProfile
  PROVE  profiles[p] < MaxProfile
  <1> DEFINE S == CreatedProfiles
  <1>0. profiles \in [Items -> 0..MaxProfile] /\ MaxProfile \in Nat
    BY ActivationAssumption DEF ActivationInv, ProfileInv
  <1>1. IsFiniteSet(S) /\ Cardinality(S) \in Nat
    <2>1. S \subseteq Items \X (1..MaxProfile)
      BY DEF CreatedProfiles
    <2>2. IsFiniteSet(1..MaxProfile)
      BY <1>0, FS_Interval
    <2>3. IsFiniteSet(Items \X (1..MaxProfile))
      BY <2>2, ActivationAssumption, FS_Product
    <2>4. IsFiniteSet(S)
      BY <2>1, <2>3, FS_Subset
    <2> QED BY <2>4, FS_CardinalityType
  <1>2. SUFFICES ASSUME profiles[p] = MaxProfile PROVE Cardinality(S) >= MaxProfile
    BY <1>0, <1>1
  <1>3. {p} \X (1..MaxProfile) \subseteq S
    BY <1>0, <1>2 DEF CreatedProfiles
  <1> HIDE DEF S
  <1>4. Cardinality({p} \X (1..MaxProfile)) = MaxProfile
    <2>1. IsFiniteSet({p}) /\ Cardinality({p}) = 1
      BY FS_Singleton
    <2>2. IsFiniteSet(1..MaxProfile) /\ Cardinality(1..MaxProfile) = MaxProfile
      BY <1>0, FS_Interval
    <2> QED BY <1>0, <2>1, <2>2, FS_Product
  <1> QED BY <1>3, <1>1, <1>4, FS_Subset

\* The products, and the commands on the workspace.
LEMMA WorkspaceStepInv ==
  ASSUME ActivationInv,
         \/ \E u \in Editors, p \in Items : InsertProduct(u, p)
         \/ \E u \in Editors : CommitProduct(u) \/ CreateDeadlock(u)
         \/ \E p \in Items : SourcesChange(p) \/ SelectActivation(p)
         \/ ReadMode \/ WriteMode \/ FinalizeActivation \/ CompleteOnboarding
  PROVE  ActivationInv'
  <1> USE ActivationAssumption DEF workspaceVars, sourceStateVars, profileVars
  <1>1. UNCHANGED profileVars
    BY DEF InsertProduct, CommitProduct, CreateDeadlock, SourcesChange, SelectActivation, ReadMode, WriteMode,
       FinalizeActivation, CompleteOnboarding
  <1>2. ProfileInv'
    BY <1>1 DEF ActivationInv, ProfileInv, ApprovedWasLoaded
  <1>3. completed' \in BOOLEAN /\ finalized' \in BOOLEAN
    BY Zenon DEF ActivationInv, WorkspaceInv, InsertProduct, CommitProduct, CreateDeadlock, SourcesChange,
       SelectActivation, ReadMode, WriteMode, FinalizeActivation, CompleteOnboarding
  <1> USE DEF ActivationInv, WorkspaceInv
  <1>4. ASSUME NEW u \in Editors, NEW p \in Items, InsertProduct(u, p) PROVE WorkspaceInv'
    BY <1>4 DEF InsertProduct
  <1>5. ASSUME NEW u \in Editors, CommitProduct(u) PROVE WorkspaceInv'
    BY <1>5 DEF CommitProduct, FirstProduct
  <1>6. ASSUME NEW u \in Editors, CreateDeadlock(u) PROVE WorkspaceInv'
    BY <1>6 DEF CreateDeadlock
  <1>7. ASSUME NEW p \in Items, SourcesChange(p) PROVE WorkspaceInv'
    BY <1>7 DEF SourcesChange
  <1>8. ASSUME NEW p \in Items, SelectActivation(p) PROVE WorkspaceInv'
    BY <1>8 DEF SelectActivation, MaySelect
  <1>9. CASE ReadMode
    BY <1>2, <1>9 DEF ReadMode
  <1>10. CASE WriteMode
    BY <1>2, <1>10 DEF WriteMode
  <1>11. CASE FinalizeActivation
    BY <1>2, <1>3, <1>11 DEF FinalizeActivation, SourcesReady
  <1>12. CASE CompleteOnboarding
    BY <1>2, <1>3, <1>12 DEF CompleteOnboarding
  <1> QED BY <1>2, <1>4, <1>5, <1>6, <1>7, <1>8, <1>9, <1>10, <1>11, <1>12

\* delete_product: the activation product stays.
LEMMA DeleteInv ==
  ASSUME ActivationInv, NEW p \in Items, DeleteProduct(p)
  PROVE  ActivationInv'
  <1> USE ActivationAssumption
  <1>1. /\ p # activation
        /\ alive' = alive \ {p} /\ website' = website \ {p} /\ searching' = searching \ {p} /\ deferred' = deferred \ {p}
        /\ profile' = [profile EXCEPT ![p] = NoProfile] /\ version' = [version EXCEPT ![p] = 0]
        /\ UNCHANGED <<creating, activation, completed, finalized, target, profiles, approvedOf, approvedAs, loaded>>
    BY DEF DeleteProduct, MayDelete, workspaceVars
  <1>2. NoProfile \in DraftProfile /\ NoProfile.no = 0
    BY DEF NoProfile, DraftProfile
  <1>3. /\ profile' \in [Items -> DraftProfile] /\ profile'[p] = NoProfile
        /\ version' \in [Items -> 0..MaxProfile] /\ version'[p] = 0
        /\ \A q \in Items \ {p} : profile'[q] = profile[q] /\ version'[q] = version[q]
    BY <1>1, <1>2 DEF ActivationInv, ProfileInv
  <1>4. WorkspaceInv'
    <2>1. finalized => version'[activation] > 0
      BY <1>1, <1>3 DEF ActivationInv, WorkspaceInv
    <2> QED BY <1>1, <2>1 DEF ActivationInv, WorkspaceInv
  <1>5. ProfileInv'
    BY <1>1, <1>2, <1>3 DEF ActivationInv, ProfileInv, ApprovedWasLoaded
  <1> QED BY <1>4, <1>5 DEF ActivationInv

\* A client loads, edits and approves a draft.
LEMMA DraftStepInv ==
  ASSUME ActivationInv, NEW u \in Editors,
         \/ \E p \in Items : LoadProfile(u, p)
         \/ \E complete \in BOOLEAN : SaveDraft(u, complete)
         \/ ApproveProfileDraft(u)
  PROVE  ActivationInv'
  <1> USE ActivationAssumption
  <1>0. /\ profile \in [Items -> DraftProfile] /\ profiles \in [Items -> 0..MaxProfile]
        /\ version \in [Items -> 0..MaxProfile] /\ loaded \in [Editors -> View]
        /\ approvedOf \in [Items -> Approved] /\ approvedAs \in [Items -> Approved]
        /\ alive \subseteq Items
    BY DEF ActivationInv, ProfileInv, WorkspaceInv
  <1>1. ASSUME NEW p \in Items, LoadProfile(u, p) PROVE ActivationInv'
    <2> DEFINE v == [item |-> p, no |-> profile[p].no, rev |-> profile[p].rev]
    <2>1. /\ loaded' = [loaded EXCEPT ![u] = v]
          /\ UNCHANGED <<alive, creating, activation, completed, finalized, website, searching, deferred, target,
                         profile, profiles, version, approvedOf, approvedAs>>
      BY <1>1 DEF LoadProfile, workspaceVars, sourceStateVars
    <2>2. v \in View /\ v.item = p /\ v.no <= profiles[p]
      <3>1. profile[p].no \in 0..MaxProfile /\ profile[p].rev \in 0..MaxRevision
        BY <1>0 DEF DraftProfile
      <3>2. profile[p].no <= profiles[p]
        BY <1>0, <3>1 DEF ActivationInv, ProfileInv
      <3> QED BY <3>1, <3>2 DEF View
    <2> HIDE DEF v
    <2>3. ProfileInv'
      BY <1>0, <2>1, <2>2 DEF ActivationInv, ProfileInv, ApprovedWasLoaded
    <2>4. WorkspaceInv'
      BY <2>1 DEF ActivationInv, WorkspaceInv
    <2> QED BY <2>3, <2>4 DEF ActivationInv
  <1>2. ASSUME NEW complete \in BOOLEAN, SaveDraft(u, complete) PROVE ActivationInv'
    <2> DEFINE p == loaded[u].item
    <2>1. /\ p \in Items /\ profile[p].rev < MaxRevision
          /\ loaded' = [loaded EXCEPT ![u].no = profile'[p].no, ![u].rev = profile'[p].rev]
          /\ UNCHANGED <<alive, creating, activation, completed, finalized, website, searching, deferred, target,
                         version, approvedOf, approvedAs>>
      BY <1>0, <1>2 DEF SaveDraft, workspaceVars, sourceStateVars
    <2>2. /\ profile[p] \in DraftProfile /\ profiles[p] \in 0..MaxProfile /\ version[p] \in 0..MaxProfile
          /\ version[p] <= profiles[p]
          /\ profile[p].no # 0 => profile[p].no = profiles[p] /\ version[p] < profiles[p]
      BY <1>0, <2>1 DEF ActivationInv, ProfileInv
    <2>3. PICK d \in DraftProfile, k \in 0..MaxProfile :
            /\ profile' = [profile EXCEPT ![p] = d] /\ profiles' = [profiles EXCEPT ![p] = k]
            /\ k >= profiles[p] /\ d.no = k /\ version[p] < k
      <3>1. CASE profile[p].no = 0
        <4> DEFINE k == profiles[p] + 1
                   d == [no |-> profiles[p] + 1, rev |-> 1, complete |-> complete]
        <4>1. profiles' = [profiles EXCEPT ![p] = k] /\ profile' = [profile EXCEPT ![p] = d]
          BY <1>2, <3>1 DEF SaveDraft
        <4>2. profiles[p] < MaxProfile
          BY <1>2, <2>1, <3>1, ProfilesBounded DEF SaveDraft
        <4>3. k \in 0..MaxProfile /\ 1 \in 0..MaxRevision /\ k >= profiles[p] /\ version[p] < k
          BY <2>1, <2>2, <4>2 DEF DraftProfile
        <4>4. d \in DraftProfile /\ d.no = k
          BY <4>3 DEF DraftProfile
        <4> QED BY <4>1, <4>3, <4>4
      <3>2. CASE profile[p].no # 0
        <4> DEFINE d == [profile[p] EXCEPT !.rev = @ + 1, !.complete = complete]
        <4>1. profiles' = [profiles EXCEPT ![p] = profiles[p]] /\ profile' = [profile EXCEPT ![p] = d]
          BY <1>0, <1>2, <2>1, <3>2 DEF SaveDraft
        <4>2. profile[p].rev + 1 \in 0..MaxRevision
          BY <2>1, <2>2 DEF DraftProfile
        <4>3. d \in DraftProfile /\ d.no = profile[p].no
          BY <2>2, <4>2 DEF DraftProfile
        <4>4. profiles[p] >= profiles[p] /\ d.no = profiles[p] /\ version[p] < profiles[p]
          BY <2>2, <3>2, <4>3
        <4> HIDE DEF d
        <4> QED BY <2>2, <4>1, <4>3, <4>4
      <3> QED BY <3>1, <3>2
    <2>4. profile'[p] = d /\ profiles'[p] = k
      BY <1>0, <2>1, <2>3
    <2>5. PICK v \in View : loaded' = [loaded EXCEPT ![u] = v] /\ v.item = p /\ v.no = k
      <3> DEFINE v == [loaded[u] EXCEPT !.no = d.no, !.rev = d.rev]
      <3>1. loaded' = [loaded EXCEPT ![u] = v]
        BY <1>0, <2>1, <2>4
      <3>2. v \in View /\ v.item = p /\ v.no = k
        BY <1>0, <2>3 DEF View, DraftProfile
      <3> QED BY <3>1, <3>2
    <2> HIDE DEF p
    <2>6. ProfileInv'
      <3>1. /\ profile' \in [Items -> DraftProfile] /\ profiles' \in [Items -> 0..MaxProfile]
            /\ loaded' \in [Editors -> View] /\ loaded'[u] = v
            /\ \A q \in Items \ {p} : profile'[q] = profile[q] /\ profiles'[q] = profiles[q]
            /\ \A w \in Editors \ {u} : loaded'[w] = loaded[w]
        <4>1. p \in Items
          BY <2>1
        <4>2. /\ profile' \in [Items -> DraftProfile] /\ profiles' \in [Items -> 0..MaxProfile]
              /\ \A q \in Items \ {p} : profile'[q] = profile[q] /\ profiles'[q] = profiles[q]
          BY <1>0, <2>3, <4>1
        <4>3. loaded' \in [Editors -> View] /\ loaded'[u] = v /\ \A w \in Editors \ {u} : loaded'[w] = loaded[w]
          BY <1>0, <2>5
        <4> QED BY <4>2, <4>3
      <3>2. \A q \in Items : /\ profile'[q].no # 0 => profile'[q].no = profiles'[q] /\ version[q] < profiles'[q]
                             /\ version[q] <= profiles'[q]
        BY <2>2, <2>3, <2>4, <3>1 DEF ActivationInv, ProfileInv
      <3>3. \A w \in Editors : loaded'[w].item # NoItem => loaded'[w].no <= profiles'[loaded'[w].item]
        <4>1. \A q \in Items : profiles[q] \in Nat /\ profiles'[q] \in Nat /\ profiles[q] <= profiles'[q]
          BY <1>0, <2>3, <2>4, <3>1
        <4>2. \A w \in Editors : loaded[w].item # NoItem =>
                 loaded[w].item \in Items /\ loaded[w].no <= profiles[loaded[w].item] /\ loaded[w].no \in Nat
          BY <1>0 DEF ActivationInv, ProfileInv, View
        <4> QED BY <2>4, <2>5, <3>1, <4>1, <4>2
      <3> QED BY <1>0, <2>1, <3>1, <3>2, <3>3 DEF ActivationInv, ProfileInv, ApprovedWasLoaded
    <2>7. WorkspaceInv'
      BY <2>1 DEF ActivationInv, WorkspaceInv
    <2> QED BY <2>6, <2>7 DEF ActivationInv
  <1>3. CASE ApproveProfileDraft(u)
    <2> DEFINE p == loaded[u].item
               d == profile[p]
    <2>1. /\ p \in Items /\ d.no # 0 /\ d.rev = loaded[u].rev
          /\ version' = [version EXCEPT ![p] = version[p] + 1]
          /\ approvedOf' = [approvedOf EXCEPT ![p] = <<d.no, d.rev>>]
          /\ approvedAs' = [approvedAs EXCEPT ![p] = <<loaded[u].no, loaded[u].rev>>]
          /\ profile' = [profile EXCEPT ![p] = NoProfile]
          /\ loaded' = [loaded EXCEPT ![u].no = 0, ![u].rev = 0]
          /\ UNCHANGED <<alive, creating, activation, completed, finalized, website, searching, deferred, target,
                         profiles>>
      BY <1>0, <1>3 DEF ApproveProfileDraft, RevisionMatches, workspaceVars, sourceStateVars
    <2>2. /\ d \in DraftProfile /\ version[p] < profiles[p] /\ d.no = profiles[p]
          /\ version[p] \in 0..MaxProfile /\ profiles[p] \in 0..MaxProfile
          /\ loaded[u].no \in 0..MaxProfile /\ loaded[u].rev \in 0..MaxRevision /\ loaded[u].no <= profiles[p]
      BY <1>0, <2>1 DEF ActivationInv, ProfileInv, View
    <2>3. NoProfile \in DraftProfile /\ NoProfile.no = 0
      BY DEF NoProfile, DraftProfile
    <2>4. PICK v \in View : loaded' = [loaded EXCEPT ![u] = v] /\ v.no = 0 /\ v.item = p
      <3> DEFINE v == [loaded[u] EXCEPT !.no = 0, !.rev = 0]
      <3>1. loaded' = [loaded EXCEPT ![u] = v]
        BY <1>0, <2>1
      <3>2. 0 \in 0..MaxProfile /\ 0 \in 0..MaxRevision
        OBVIOUS
      <3>3. v \in View /\ v.item = p /\ v.no = 0
        BY <1>0, <3>2 DEF View
      <3> QED BY <3>1, <3>3
    <2>5. <<d.no, d.rev>> \in Approved /\ <<loaded[u].no, loaded[u].rev>> \in Approved /\ version[p] + 1 \in 0..MaxProfile
      BY <2>2 DEF Approved, DraftProfile
    <2>6. approvedAs'[p] = approvedOf'[p] \/ approvedAs'[p][1] < approvedOf'[p][1]
      <3>1. approvedAs'[p] = <<loaded[u].no, d.rev>> /\ approvedOf'[p] = <<profiles[p], d.rev>>
        BY <1>0, <2>1, <2>2
      <3> QED BY <2>2, <3>1
    <2> HIDE DEF p, d
    <2>7. /\ profile' \in [Items -> DraftProfile] /\ version' \in [Items -> 0..MaxProfile]
          /\ approvedOf' \in [Items -> Approved] /\ approvedAs' \in [Items -> Approved]
          /\ loaded' \in [Editors -> View] /\ loaded'[u] = v
          /\ profile'[p] = NoProfile /\ version'[p] = version[p] + 1
          /\ \A w \in Editors \ {u} : loaded'[w] = loaded[w]
          /\ \A q \in Items \ {p} : /\ profile'[q] = profile[q] /\ version'[q] = version[q]
                                    /\ approvedOf'[q] = approvedOf[q] /\ approvedAs'[q] = approvedAs[q]
      BY <1>0, <2>1, <2>3, <2>4, <2>5
    <2>8. ProfileInv'
      <3>1. ApprovedWasLoaded'
        BY <2>6, <2>7 DEF ActivationInv, ProfileInv, ApprovedWasLoaded
      <3>2. \A q \in Items : /\ profile'[q].no # 0 => profile'[q].no = profiles[q] /\ version'[q] < profiles[q]
                             /\ version'[q] <= profiles[q]
        BY <2>2, <2>3, <2>7 DEF ActivationInv, ProfileInv
      <3>3. \A w \in Editors : loaded'[w].item # NoItem => loaded'[w].no <= profiles[loaded'[w].item]
        BY <2>2, <2>4, <2>7 DEF ActivationInv, ProfileInv
      <3> QED BY <1>0, <2>1, <2>7, <3>1, <3>2, <3>3 DEF ProfileInv
    <2>9. WorkspaceInv'
      <3>1. finalized => version'[activation] > 0
        <4>1. finalized => activation \in Items /\ version[activation] > 0
          BY DEF ActivationInv, WorkspaceInv
        <4>2. \A q \in Items : version'[q] >= version[q] /\ version[q] \in Nat
          BY <1>0, <2>7
        <4> QED BY <2>7, <4>1, <4>2
      <3> QED BY <2>1, <3>1 DEF ActivationInv, WorkspaceInv
    <2> QED BY <2>8, <2>9 DEF ActivationInv
  <1> QED BY <1>1, <1>2, <1>3

\* Every command keeps the invariant.
LEMMA ActivationNextInv == ActivationInv /\ [ActivationNext]_activationVars => ActivationInv'
  <1> SUFFICES ASSUME ActivationInv, [ActivationNext]_activationVars PROVE ActivationInv'
    OBVIOUS
  <1>1. CASE UNCHANGED activationVars
    BY <1>1 DEF activationVars, ActivationInv, WorkspaceInv, ProfileInv, ApprovedWasLoaded
  <1>2. CASE ActivationNext
    BY <1>2, WorkspaceStepInv, DeleteInv, DraftStepInv DEF ActivationNext
  <1> QED BY <1>1, <1>2

\* The inductive invariant of the products, their profiles and the activation.
THEOREM ActivationInvariant == ActivationSpec => []ActivationInv
  BY ActivationInitInv, ActivationNextInv, PTL DEF ActivationSpec

\* ActivationSafety: for every set of products and editors, a workspace with products has one of them
\* to activate, an approved profile is the draft its approver loaded or a later one of its number,
\* and a finalized activation has an approved profile (set_activation_product, approve_draft).
THEOREM ActivationSafetyHolds == ActivationSpec => []ActivationSafety
  BY ActivationInvariant, ActivationInvSafe, PTL

\* OnboardedStays: once onboarding is completed the activation product stays, also when a request that
\* was already creating another product commits afterwards.
THEOREM ActivationOnboardedStays == ActivationSpec => OnboardedStays
  <1>1. ActivationInv /\ [ActivationNext]_activationVars => [completed => activation' = activation]_activationVars
    <2> SUFFICES ASSUME ActivationInv, ActivationNext, completed PROVE activation' = activation
      OBVIOUS
    <2>1. activation # NoItem
      BY DEF ActivationInv, WorkspaceInv
    <2> QED BY <2>1 DEF ActivationNext, InsertProduct, LoadProfile, CommitProduct, FirstProduct, CreateDeadlock,
          ApproveProfileDraft, SaveDraft, DeleteProduct, SourcesChange, SelectActivation, MaySelect, ReadMode,
          WriteMode, FinalizeActivation, CompleteOnboarding, workspaceVars
  <1> QED BY <1>1, ActivationInvariant, PTL DEF ActivationSpec, OnboardedStays

-----------------------------------------------------------------------------
(* A walk over a website (CrawlWalk).                                      *)

\* A set of numbers has a smallest.
LEMMA LeastNat ==
    ASSUME NEW T, T \subseteq Nat, T # {}
    PROVE  \E n \in T : \A m \in T : n <= m
  <1> DEFINE below == {U \in FiniteSubsetsOf(Nat) : \E n \in T : U = 1..n}
  <1>1. \A n \in Nat : 1..n \in FiniteSubsetsOf(Nat)
    BY FS_Interval DEF FiniteSubsetsOf
  <1>2. below # {} /\ below \subseteq FiniteSubsetsOf(Nat)
    BY <1>1
  <1>3. PICK U \in below : \A V \in below : <<V, U>> \notin StrictSubsetOrdering(Nat)
    BY <1>2, WFMin, FS_StrictSubsetOrderingWellFounded
  <1>4. PICK n \in T : U = 1..n
    BY <1>3
  <1>5. ASSUME NEW m \in T, m < n PROVE FALSE
    <2>1. 1..m \in below
      BY <1>1
    <2>2. 1..m \subseteq 1..n /\ 1..m # 1..n
      <3>1. n \in 1..n /\ n \notin 1..m
        BY <1>5
      <3> QED
        BY <1>5, <3>1
    <2>3. 1..m \in SUBSET Nat /\ 1..n \in SUBSET Nat
      OBVIOUS
    <2> QED
      BY <1>3, <1>4, <2>1, <2>2, <2>3 DEF StrictSubsetOrdering
  <1> QED
    BY <1>5

\* A family of subsets of a finite set has a smallest member.
LEMMA SmallestSubset ==
    ASSUME NEW S, IsFiniteSet(S), NEW F, F \subseteq SUBSET S, F # {}
    PROVE  \E U \in F : \A V \in F : V \subseteq U => V = U
  <1>1. F \subseteq FiniteSubsetsOf(S)
    BY FS_FiniteSubsetsOfFinite
  <1>2. PICK U \in F : \A V \in F : <<V, U>> \notin StrictSubsetOrdering(S)
    BY <1>1, WFMin, FS_StrictSubsetOrderingWellFounded
  <1> QED
    BY <1>2 DEF StrictSubsetOrdering

\* A finite set has a last member in a strict order on it.
LEMMA LastMember ==
    ASSUME NEW S, IsFiniteSet(S), S # {}, NEW R,
           \A x, y, z \in S : <<x, y>> \in R /\ <<y, z>> \in R => <<x, z>> \in R,
           \A x \in S : <<x, x>> \notin R
    PROVE  \E m \in S : \A y \in S : <<m, y>> \notin R
  <1> DEFINE above(x) == {y \in S : <<x, y>> \in R}
             F == {U \in SUBSET S : \E x \in S : U = above(x)}
  <1>1. \A x \in S : above(x) \in F
    OBVIOUS
  <1>2. F # {} /\ F \subseteq SUBSET S
    BY <1>1
  <1>3. PICK U \in F : \A V \in F : V \subseteq U => V = U
    <2> HIDE DEF F
    <2> QED
      BY <1>2, SmallestSubset
  <1>4. PICK x \in S : U = above(x)
    BY <1>3
  <1>5. ASSUME NEW y \in above(x) PROVE FALSE
    <2>1. above(y) \subseteq above(x) /\ y \in above(x) /\ y \notin above(y)
      OBVIOUS
    <2> QED
      BY <1>1, <1>3, <1>4, <2>1
  <1> QED
    BY <1>5

\* The members with fewer than k before them.
FirstOf(S, R, k) == {x \in S : Cardinality({y \in S : <<y, x>> \in R}) < k}

\* Of a finite set in a strict order that compares all its members, those with fewer than k
\* before them are k at most, and they are all if they are fewer than k.
LEMMA FirstMembers ==
    ASSUME NEW S, IsFiniteSet(S), NEW R, NEW k \in Nat,
           \A x, y, z \in S : <<x, y>> \in R /\ <<y, z>> \in R => <<x, z>> \in R,
           \A x \in S : <<x, x>> \notin R,
           \A x, y \in S : x # y => <<x, y>> \in R \/ <<y, x>> \in R
    PROVE  /\ IsFiniteSet(FirstOf(S, R, k)) /\ Cardinality(FirstOf(S, R, k)) <= k
           /\ Cardinality(FirstOf(S, R, k)) < k => FirstOf(S, R, k) = S
  <1> DEFINE T == {x \in S : Cardinality({y \in S : <<y, x>> \in R}) < k}
             before(x) == {y \in S : <<y, x>> \in R}
  <1>1. \A x \in S : IsFiniteSet(before(x)) /\ Cardinality(before(x)) \in Nat
    BY FS_Subset, FS_CardinalityType
  <1>2. T \subseteq S /\ IsFiniteSet(T) /\ Cardinality(T) \in Nat
    BY FS_Subset, FS_CardinalityType
  <1>3. Cardinality(T) <= k
    <2>1. CASE T = {}
      <3>1. Cardinality(T) = 0
        BY <1>2, <2>1, FS_EmptySet
      <3> QED
        BY <3>1
    <2>2. CASE T # {}
      <3>1. PICK m \in T : \A y \in T : <<m, y>> \notin R
        <4> HIDE DEF T
        <4> QED
          BY <1>2, <2>2, LastMember
      <3>2. T \ {m} \subseteq before(m)
        BY <1>2, <3>1
      <3>3. IsFiniteSet(T \ {m}) /\ Cardinality(T \ {m}) = Cardinality(T) - 1
        BY <1>2, FS_RemoveElement
      <3>4. Cardinality(T \ {m}) <= Cardinality(before(m))
        BY <1>1, <1>2, <3>2, FS_Subset
      <3>5. Cardinality(before(m)) < k
        BY <3>1
      <3> HIDE DEF before
      <3> QED
        BY <1>1, <1>2, <3>1, <3>3, <3>4, <3>5
    <2> QED
      BY <2>1, <2>2
  <1>4. ASSUME Cardinality(T) < k, S \ T # {} PROVE FALSE
    <2> DEFINE Q == {x \in S \X S : <<x[2], x[1]>> \in R}
    <2>1. IsFiniteSet(S \ T)
      BY FS_Subset
    <2>2. PICK m \in S \ T : \A y \in S \ T : <<m, y>> \notin Q
      <3>1. \A x, y, z \in S \ T : <<x, y>> \in Q /\ <<y, z>> \in Q => <<x, z>> \in Q
        OBVIOUS
      <3>2. \A x \in S \ T : <<x, x>> \notin Q
        OBVIOUS
      <3> HIDE DEF Q
      <3> QED
        BY <1>4, <2>1, <3>1, <3>2, LastMember
    <2>3. before(m) \subseteq T
      BY <2>2
    <2>4. Cardinality(before(m)) <= Cardinality(T)
      BY <1>2, <2>3, FS_Subset
    <2>5. ~(Cardinality(before(m)) < k)
      BY <2>2
    <2> HIDE DEF before
    <2> QED
      BY <1>1, <1>2, <1>4, <2>2, <2>4, <2>5
  <1> QED
    BY <1>2, <1>3, <1>4 DEF FirstOf

-----------------------------------------------------------------------------
(* Fetching.                                                               *)

\* g leads from a through n redirects.
PathOf(g, w, a, n) ==
    g = [k \in 0..n |-> IF k = 0 THEN a ELSE Follow(w, g[k - 1])]

\* A fetch can follow any number of redirects: the path After takes exists.
LEMMA RedirectPath ==
    ASSUME NEW w, NEW a, NEW n \in Nat
    PROVE  \E g : PathOf(g, w, a, n)
  <1> DEFINE bad == {m \in Nat : ~\E g : PathOf(g, w, a, m)}
  <1>1. ASSUME bad # {} PROVE FALSE
    <2>1. PICK m \in bad : \A i \in bad : m <= i
      BY <1>1, LeastNat
    <2>2. CASE m = 0
      <3>1. PathOf([k \in 0..0 |-> a], w, a, 0)
        BY DEF PathOf
      <3> QED
        BY <2>1, <2>2, <3>1
    <2>3. CASE m # 0
      <3>1. m - 1 \in Nat /\ m - 1 \notin bad
        <4>1. m \in Nat
          BY <2>1
        <4> HIDE DEF bad
        <4> QED
          BY <2>1, <2>3, <4>1
      <3>2. PICK g : PathOf(g, w, a, m - 1)
        BY <3>1
      <3> DEFINE h == [k \in 0..m |-> IF k = m THEN Follow(w, g[m - 1]) ELSE g[k]]
      <3>3. \A k \in 0..m : h[k] = IF k = 0 THEN a ELSE Follow(w, h[k - 1])
        BY <2>1, <2>3, <3>2 DEF PathOf
      <3>4. PathOf(h, w, a, m)
        BY <3>3 DEF PathOf
      <3> QED
        BY <2>1, <3>4
    <2> QED
      BY <2>2, <2>3
  <1> QED
    BY <1>1

\* Redirects lead from address to address.
LEMMA AfterType ==
    ASSUME NEW w \in Webs, NEW a \in Addresses, NEW n \in Nat
    PROVE  After(w, a, n) \in Addresses
  <1> DEFINE at == CHOOSE g : PathOf(g, w, a, n)
             bad == {k \in Nat : k <= n /\ at[k] \notin Addresses}
  <1>1. PathOf(at, w, a, n)
    <2>1. \E g : PathOf(g, w, a, n)
      BY RedirectPath
    <2> QED
      BY <2>1, Zenon
  <1>2. After(w, a, n) = at[n]
    BY DEF After, PathOf
  <1> HIDE DEF at
  <1>3. \A x \in Addresses : Follow(w, x) \in Addresses
    BY WalkAssumption DEF Follow, Answers
  <1>4. ASSUME bad # {} PROVE FALSE
    <2>1. PICK m \in bad : \A i \in bad : m <= i
      BY <1>4, LeastNat
    <2>2. m \in 0..n /\ at[m] \notin Addresses
      BY <2>1
    <2>3. m # 0 /\ at[m] = Follow(w, at[m - 1])
      BY <1>1, <2>2 DEF PathOf
    <2>4. m - 1 \in Nat /\ m - 1 \notin bad
      <3> HIDE DEF bad
      <3> QED
        BY <2>1, <2>2, <2>3
    <2>5. at[m - 1] \in Addresses
      BY <2>2, <2>4
    <2> QED
      BY <1>3, <2>2, <2>3, <2>5
  <1> QED
    BY <1>2, <1>4

\* What a fetch ends at is an address.
LEMMA FetchEnds ==
    ASSUME NEW w \in Webs, NEW a \in Addresses
    PROVE  /\ Fetch(w, a).final \in Addresses
           /\ Fetch(w, a).outcome \in {"blocked", "failed", "answered"}
  <1>1. After(w, a, MaxRedirects) \in Addresses
    BY AfterType, WalkAssumption
  <1> QED
    BY <1>1 DEF Fetch

-----------------------------------------------------------------------------
(* Choosing the targets.                                                   *)

\* A candidate has a first position.
LEMMA FirstPosition ==
    ASSUME candidates \in Seq(Addresses), NEW a \in Range(candidates), a # Root
    PROVE  Position(a) \in DOMAIN candidates /\ candidates[Position(a)] = a
  <1> DEFINE P(i) == candidates[i] = a /\ \A j \in 1..(i - 1) : candidates[j] # a
             found == {i \in DOMAIN candidates : candidates[i] = a}
  <1>1. DOMAIN candidates \subseteq Nat /\ \A i \in DOMAIN candidates : 1..i \subseteq DOMAIN candidates
    OBVIOUS
  <1>2. found # {} /\ found \subseteq Nat
    BY <1>1 DEF Range
  <1>3. PICK i \in found : \A j \in found : i <= j
    BY <1>2, LeastNat
  <1>4. i \in DOMAIN candidates /\ P(i)
    BY <1>1, <1>3
  <1>5. Position(a) = CHOOSE k \in DOMAIN candidates : P(k)
    BY DEF Position
  <1> HIDE DEF P
  <1>6. Position(a) \in DOMAIN candidates /\ P(Position(a))
    BY <1>4, <1>5
  <1> QED
    BY <1>6 DEF P

\* There are finitely many eligible addresses.
LEMMA EligibleFinite ==
    ASSUME candidates \in Seq(Addresses)
    PROVE  IsFiniteSet(Eligible) /\ Eligible \subseteq Addresses /\ Root \in Eligible
  <1>1. IsFiniteSet(1..Len(candidates))
    BY FS_Interval
  <1>2. candidates \in Surjection(1..Len(candidates), Range(candidates))
    BY DEF Range, Surjection
  <1>3. IsFiniteSet(Range(candidates))
    BY <1>1, <1>2, FS_Surjection
  <1>4. IsFiniteSet(Range(candidates) \cup {Root})
    BY <1>3, FS_AddElement
  <1>5. Eligible \subseteq Range(candidates) \cup {Root}
    BY DEF Eligible
  <1>6. Range(candidates) \subseteq Addresses
    BY DEF Range
  <1> QED
    BY <1>4, <1>5, <1>6, FS_Subset, WalkAssumption DEF Eligible

\* The base first, then priority and position: a strict order of all eligible addresses.
LEMMA BeforeIsOrder ==
    ASSUME candidates \in Seq(Addresses)
    PROVE  /\ \A x, y, z \in Eligible : Before(x, y) /\ Before(y, z) => Before(x, z)
           /\ \A x \in Eligible : ~Before(x, x)
           /\ \A x, y \in Eligible : x # y => Before(x, y) \/ Before(y, x)
           /\ \A x \in Eligible : ~Before(x, Root)
  <1>1. \A x \in Eligible : Priority[x] \in Nat
    BY EligibleFinite, WalkAssumption
  <1>2. \A x \in Eligible \ {Root} : Position(x) \in Nat /\ candidates[Position(x)] = x
    BY FirstPosition DEF Eligible
  <1> QED
    BY <1>1, <1>2 DEF Before

\* The targets are as many as the limit says at most, and if they are fewer, nothing that is
\* eligible is left out.
LEMMA TargetsChosen ==
    ASSUME candidates \in Seq(Addresses), NEW k \in Nat \ {0},
           NEW T, T = {a \in Eligible : Cardinality({b \in Eligible : Before(b, a)}) < k}
    PROVE  /\ IsFiniteSet(T) /\ Cardinality(T) <= k
           /\ Cardinality(T) < k => T = Eligible
           /\ Root \in T /\ T \subseteq Addresses
  <1> DEFINE R == {x \in Eligible \X Eligible : Before(x[1], x[2])}
  <1>1. \A x, y \in Eligible : <<x, y>> \in R <=> Before(x, y)
    OBVIOUS
  <1> HIDE DEF R
  <1>2. \A a \in Eligible : {b \in Eligible : <<b, a>> \in R} = {b \in Eligible : Before(b, a)}
    BY <1>1
  <1>3. T = FirstOf(Eligible, R, k)
    BY <1>2 DEF FirstOf
  <1>4. /\ \A x, y, z \in Eligible : <<x, y>> \in R /\ <<y, z>> \in R => <<x, z>> \in R
        /\ \A x \in Eligible : <<x, x>> \notin R
        /\ \A x, y \in Eligible : x # y => <<x, y>> \in R \/ <<y, x>> \in R
    BY <1>1, BeforeIsOrder
  <1>5. /\ IsFiniteSet(T) /\ Cardinality(T) <= k
        /\ Cardinality(T) < k => T = Eligible
    BY <1>3, <1>4, EligibleFinite, FirstMembers
  <1>6. Root \in T
    <2>1. {b \in Eligible : Before(b, Root)} = {}
      BY BeforeIsOrder
    <2>2. Cardinality({b \in Eligible : Before(b, Root)}) = 0
      BY <2>1, FS_EmptySet
    <2> QED
      BY <2>2, EligibleFinite
  <1> QED
    BY <1>5, <1>6, EligibleFinite

-----------------------------------------------------------------------------
(* The invariant of a walk.                                                *)

\* What the run's variables hold while it lasts.
WalkTypes ==
    /\ wpc \in {"idle", "sitemaps", "visit", "succeeded", "failed"}
    /\ wpc # "idle" => web \in Webs
    /\ limit \in PageLimits
    /\ pending \in Seq(Addresses) /\ candidates \in Seq(Addresses)
    /\ IsFiniteSet(visited)
    /\ IsFiniteSet(targets) /\ targets \subseteq Addresses
    /\ discovered \in Nat /\ fetches \in Nat /\ tally \in [ok : Nat, bad : Nat]
    /\ twice \in BOOLEAN
    /\ DOMAIN pageRow = Addresses /\ DOMAIN rowsBefore = Addresses
    /\ IsFiniteSet(DOMAIN results) /\ DOMAIN results \subseteq Addresses
    /\ \A a \in DOMAIN results : results[a].read \in Addresses

\* The fetches that were made, and those of the targets to come, stay within the limit.
FetchBudget ==
    /\ Cardinality(visited) < limit
    /\ wpc = "idle" => fetches = 0 /\ visited = {}
    /\ wpc = "sitemaps" => fetches = Cardinality(visited) + 1
    /\ wpc = "visit" => fetches + Cardinality(targets \ {Root}) <= limit
    /\ fetches <= limit

\* An address has been visited when it has a result, or the page it led to has.
HasResult(a) == a \in DOMAIN results \/ Canonical(Fetch(web, a).final) \in DOMAIN results

\* What the first page links to was found, and with room to spare everything that was found
\* and is eligible has been visited or will be.
NothingLeftOut ==
    /\ wpc \in {"sitemaps", "visit", "succeeded"} =>
          \A i \in DOMAIN Links(web, Fetch(web, Root).final) :
              Links(web, Fetch(web, Root).final)[i] \in Range(candidates)
    /\ wpc \in {"visit", "succeeded"} /\ discovered < TargetLimit =>
          \A a \in Eligible : a \in targets \/ HasResult(a)
    /\ wpc = "succeeded" => targets = {}

Succeeded == {a \in DOMAIN results : results[a].status = "succeeded"}

\* The counts are those of the targets visited so far.
CountsSoFar ==
    /\ wpc \in {"idle", "sitemaps"} =>
          /\ tally = [ok |-> 0, bad |-> 0] /\ DOMAIN results = {} /\ targets = {}
    /\ wpc \in {"visit", "succeeded"} => tally.ok + tally.bad + Cardinality(targets) = discovered
    /\ wpc # "failed" /\ ~Twins =>
          /\ tally.ok = Cardinality(Succeeded)
          /\ tally.bad = Cardinality(DOMAIN results \ Succeeded)

\* What the session holds are results; every result is that of a target that was visited, so
\* two results of one page are those of twins.
TwinsSeen ==
    /\ wpc \in {"idle", "sitemaps"} => ~twice
    /\ unsent \subseteq DOMAIN results
    /\ wpc = "visit" => targets \subseteq Chosen
    /\ wpc = "visit" => \A p \in DOMAIN results : \E a \in Chosen \ targets : Outcome(a).page = p
    /\ wpc = "visit" /\ twice => Twins

\* A page that was read is active.
ReadIsActive == \A a \in Succeeded : pageRow[a] = "active"

WalkInv ==
    /\ WalkTypes /\ FetchBudget /\ NothingLeftOut /\ CountsSoFar /\ TwinsSeen /\ ReadIsActive
    /\ MappedWasRead /\ OnlyTwinsFail

\* The properties follow from the invariant.
LEMMA WalkInvSafe == WalkInv => WalkSafety
  <1> SUFFICES ASSUME WalkInv PROVE WalkSafety
    OBVIOUS
  <1>1. FetchesWithinLimit
    BY DEF WalkInv, FetchBudget, FetchesWithinLimit
  <1>2. LinkedIsVisited
    BY DEF WalkInv, NothingLeftOut, LinkedIsVisited, Eligible, HasResult
  <1>3. CountsAreOfResults
    <2>1. wpc = "succeeded" => Cardinality(targets) = 0
      BY FS_EmptySet DEF WalkInv, NothingLeftOut
    <2> QED
      BY <2>1 DEF WalkInv, WalkTypes, CountsSoFar, CountsAreOfResults, Succeeded
  <1> QED
    BY <1>1, <1>2, <1>3 DEF WalkInv, WalkSafety

\* Before a run the invariant holds.
LEMMA WalkInitInv == WalkInit => WalkInv
  <1> SUFFICES ASSUME WalkInit PROVE WalkInv
    OBVIOUS
  <1>1. DOMAIN results = {} /\ Succeeded = {}
    BY DEF WalkInit, NoResults, Succeeded
  <1>2. WalkTypes
    <2>1. IsFiniteSet({})
      BY FS_EmptySet
    <2>2. DOMAIN pageRow = Addresses
      BY DEF WalkInit
    <2>3. tally \in [ok : Nat, bad : Nat] /\ <<>> \in Seq(Addresses)
      BY DEF WalkInit
    <2> QED
      BY <1>1, <2>1, <2>2, <2>3 DEF WalkInit, WalkTypes
  <1>3. FetchBudget
    BY FS_EmptySet, WalkAssumption DEF WalkInit, FetchBudget
  <1>4. CountsSoFar
    BY <1>1, FS_EmptySet DEF WalkInit, CountsSoFar
  <1> QED
    BY <1>1, <1>2, <1>3, <1>4 DEF WalkInit, WalkInv, NothingLeftOut, ReadIsActive, MappedWasRead,
       TwinsSeen, OnlyTwinsFail

\* What an answer holds: a page its address and links, a sitemap its locations.
LEMMA AnswerParts ==
    ASSUME NEW w \in Webs, NEW a \in Addresses
    PROVE  /\ Links(w, a) \in Seq(Addresses)
           /\ w[a].kind = "page" => w[a].canonical \in Addresses /\ w[a].score \in Nat
           /\ w[a].kind \in {"sitemap", "index"} => w[a].locs \in Seq(Addresses)
  <1>1. w[a] \in Answers
    BY WalkAssumption
  <1>2. CASE w[a] \in [kind : {"page"}, code : Nat, canonical : Addresses, links : Seq(Addresses),
                       score : Nat, coverage : Nat]
    BY <1>2 DEF Links
  <1>3. CASE w[a] \in [kind : {"redirect"}, to : Addresses]
    BY <1>3 DEF Links
  <1>4. CASE w[a] \in [kind : {"sitemap", "index"}, locs : Seq(Addresses)]
    BY <1>4 DEF Links
  <1>5. CASE w[a] \in [kind : {"down"}]
    BY <1>5 DEF Links
  <1> QED
    BY <1>1, <1>2, <1>3, <1>4, <1>5 DEF Answers

\* What was found stays found when more is appended.
LEMMA RangeGrows ==
    ASSUME NEW S, NEW s \in Seq(S), NEW t \in Seq(S)
    PROVE  Range(s) \subseteq Range(s \o t)
  BY DEF Range

\* The first page: its links are candidates, or the run ends.
LEMMA StartWalkInv == ASSUME WalkInv, StartWalk PROVE WalkInv'
  <1> PICK w \in Webs, d \in Disallows :
          /\ web' = w /\ disallowed' = d
          /\ FirstPageFails(w, d) \/ FirstPageOpens(w, d)
          /\ fetches' = IF Root \in d THEN 0 ELSE 1
    BY DEF StartWalk
  <1>1. /\ wpc = "idle"
        /\ UNCHANGED <<limit, visited, targets, discovered, tally, unsent, twice, rowsBefore, mapping>>
    BY DEF StartWalk, visitVars
  <1>2. limit \in Nat \ {0}
    BY WalkAssumption DEF WalkInv, WalkTypes
  <1>3. Fetch(w, Root).final \in Addresses
    BY FetchEnds, WalkAssumption
  <1>4. Links(w, Fetch(w, Root).final) \in Seq(Addresses)
    BY <1>3, AnswerParts
  <1>5. visited = {} /\ Cardinality(visited) = 0 /\ fetches' \in Nat
    BY <1>1, FS_EmptySet DEF WalkInv, FetchBudget
  <1>6. /\ tally = [ok |-> 0, bad |-> 0] /\ targets = {} /\ DOMAIN results = {}
        /\ WalkTypes /\ MappedWasRead /\ unsent = {} /\ ~twice
    BY <1>1 DEF WalkInv, CountsSoFar, TwinsSeen
  <1>7. CASE FirstPageFails(w, d)
    <2>1. /\ wpc' = "failed" /\ UNCHANGED <<pending, candidates>>
          /\ DOMAIN pageRow' = DOMAIN pageRow
          /\ DOMAIN results' = {Root} /\ results'[Root].status # "succeeded"
          /\ results'[Root].read = Root
      BY <1>7 DEF FirstPageFails
    <2>2. IsFiniteSet({Root})
      BY FS_Singleton
    <2>3. WalkTypes'
      BY <1>1, <1>5, <1>6, <2>1, <2>2, WalkAssumption DEF WalkTypes
    <2>4. FetchBudget'
      BY <1>1, <1>2, <1>5, <2>1 DEF FetchBudget
    <2> QED
      BY <1>1, <1>6, <2>1, <2>3, <2>4 DEF WalkInv, NothingLeftOut, CountsSoFar, ReadIsActive, Succeeded,
         MappedWasRead, TwinsSeen, OnlyTwinsFail
  <1>8. CASE FirstPageOpens(w, d)
    <2>1. /\ wpc' = "sitemaps" /\ UNCHANGED pageRow
          /\ Root \notin d
          /\ candidates' = Links(w, Fetch(w, Root).final) \o Known
          /\ pending' = Configured
          /\ DOMAIN results' = {}
      BY <1>8 DEF FirstPageOpens, NoResults
    <2>2. WalkTypes'
      <3>1. IsFiniteSet({})
        BY FS_EmptySet
      <3>2. candidates' \in Seq(Addresses) /\ pending' \in Seq(Addresses)
        BY <1>4, <2>1, WalkAssumption
      <3> QED
        BY <1>1, <1>5, <1>6, <2>1, <3>1, <3>2 DEF WalkTypes
    <2>3. FetchBudget'
      BY <1>1, <1>2, <1>5, <2>1 DEF FetchBudget
    <2>4. NothingLeftOut'
      <3>1. \A i \in DOMAIN Links(w, Fetch(w, Root).final) :
                Links(w, Fetch(w, Root).final)[i] \in Range(candidates')
        <4> DEFINE links == Links(w, Fetch(w, Root).final)
        <4>1. Range(links) \subseteq Range(candidates')
          <5> HIDE DEF links
          <5> QED
            BY <1>4, <2>1, WalkAssumption, RangeGrows DEF links
        <4>2. \A i \in DOMAIN links : links[i] \in Range(links)
          BY DEF Range
        <4> QED
          BY <4>1, <4>2
      <3> QED
        BY <2>1, <3>1 DEF NothingLeftOut
    <2>5. Succeeded' = {} /\ Cardinality({}) = 0
      BY <2>1, FS_EmptySet DEF Succeeded
    <2>6. CountsSoFar'
      BY <1>1, <1>6, <2>1, <2>5 DEF CountsSoFar
    <2> QED
      BY <1>1, <1>6, <2>1, <2>2, <2>3, <2>4, <2>5, <2>6 DEF WalkInv, ReadIsActive, MappedWasRead,
         TwinsSeen, OnlyTwinsFail
  <1> QED
    BY <1>7, <1>8

\* A sitemap that is read takes one fetch of those the limit leaves besides the first page.
LEMMA ReadSitemapInv == ASSUME WalkInv, ReadSitemap PROVE WalkInv'
  <1> DEFINE s == Head(pending)
             f == Fetch(web, s)
             read == Unread(s)
             answer == IF read /\ f.outcome = "answered" THEN web[f.final].kind ELSE "none"
  <1>1. /\ wpc = "sitemaps" /\ pending # <<>> /\ Cardinality(visited) < limit - 1
        /\ UNCHANGED <<wpc, web, disallowed, limit, targets, discovered, tally, unsent, twice, results,
                       pageRow, rowsBefore, mapping>>
        /\ visited' = IF read THEN visited \cup {s} ELSE visited
        /\ fetches' = IF read THEN fetches + 1 ELSE fetches
        /\ pending' = Tail(pending) \o (IF answer = "index" THEN web[f.final].locs ELSE <<>>)
        /\ candidates' = candidates \o (IF answer = "sitemap" THEN web[f.final].locs ELSE <<>>)
    BY DEF ReadSitemap, siteWalkVars, visitVars, MaxFetches
  <1>2. s \in Addresses /\ Tail(pending) \in Seq(Addresses) /\ web \in Webs
    <2>1. pending \in Seq(Addresses) /\ web \in Webs
      BY <1>1 DEF WalkInv, WalkTypes
    <2> QED
      BY <1>1, <2>1
  <1>3. f.final \in Addresses
    BY <1>2, FetchEnds
  <1>4. pending' \in Seq(Addresses)
    <2> HIDE DEF f, s, read
    <2> QED
      BY <1>1, <1>2, <1>3, AnswerParts
  <1>5. candidates \in Seq(Addresses) /\ candidates' \in Seq(Addresses)
    <2>1. candidates \in Seq(Addresses)
      BY DEF WalkInv, WalkTypes
    <2> HIDE DEF f, s, read
    <2> QED
      BY <1>1, <1>2, <1>3, <2>1, AnswerParts
  <1>6. Range(candidates) \subseteq Range(candidates')
    <2>1. (IF answer = "sitemap" THEN web[f.final].locs ELSE <<>>) \in Seq(Addresses)
      <3> HIDE DEF f, s, read
      <3> QED
        BY <1>2, <1>3, AnswerParts
    <2> HIDE DEF f, answer
    <2> QED
      BY <1>1, <1>5, <2>1, RangeGrows
  <1>7. /\ IsFiniteSet(visited') /\ Cardinality(visited) \in Nat
        /\ read => Cardinality(visited') = Cardinality(visited) + 1
    BY <1>1, FS_AddElement, FS_CardinalityType DEF WalkInv, WalkTypes, Unread
  <1> HIDE DEF s, f, read, answer
  <1>8. limit \in Nat
    BY WalkAssumption DEF WalkInv, WalkTypes
  <1>9. WalkTypes'
    BY <1>1, <1>4, <1>5, <1>7 DEF WalkInv, WalkTypes
  <1>10. FetchBudget'
    BY <1>1, <1>7, <1>8 DEF WalkInv, FetchBudget
  <1>11. NothingLeftOut'
    BY <1>1, <1>6 DEF WalkInv, NothingLeftOut
  <1>12. ReadIsActive' /\ MappedWasRead' /\ TwinsSeen' /\ OnlyTwinsFail'
    BY <1>1 DEF WalkInv, ReadIsActive, Succeeded, MappedWasRead, TwinsSeen, OnlyTwinsFail
  <1>13. CountsSoFar'
    <2>1. tally = [ok |-> 0, bad |-> 0] /\ DOMAIN results = {} /\ Cardinality({}) = 0
      BY <1>1, FS_EmptySet DEF WalkInv, CountsSoFar
    <2>2. Succeeded' = {}
      BY <1>1, <2>1 DEF Succeeded
    <2> QED
      BY <1>1, <2>1, <2>2 DEF WalkInv, CountsSoFar
  <1> QED
    BY <1>9, <1>10, <1>11, <1>12, <1>13 DEF WalkInv

\* The targets fit in what is left of the limit, the first page not counted twice.
LEMMA SelectTargetsInv == ASSUME WalkInv, SelectTargets PROVE WalkInv'
  <1>1. /\ wpc = "sitemaps" /\ wpc' = "visit"
        /\ targets' = {a \in Eligible : Cardinality({b \in Eligible : Before(b, a)}) < TargetLimit}
        /\ discovered' = Cardinality(targets')
        /\ UNCHANGED <<web, disallowed, limit, pending, visited, candidates, tally, unsent, twice, fetches,
                       results, pageRow, rowsBefore, mapping>>
    BY DEF SelectTargets, Chosen, siteWalkVars, findVars
  <1>2. limit \in Nat /\ Cardinality(visited) \in Nat /\ Cardinality(visited) < limit
    BY WalkAssumption, FS_CardinalityType DEF WalkInv, WalkTypes, FetchBudget
  <1>3. TargetLimit = limit - Cardinality(visited) /\ TargetLimit \in Nat \ {0}
    BY <1>2 DEF TargetLimit
  <1>4. candidates \in Seq(Addresses)
    BY DEF WalkInv, WalkTypes
  <1>5. /\ IsFiniteSet(targets') /\ Cardinality(targets') <= TargetLimit
        /\ Cardinality(targets') < TargetLimit => targets' = Eligible
        /\ Root \in targets' /\ targets' \subseteq Addresses
    BY <1>1, <1>3, <1>4, TargetsChosen
  <1>6. Cardinality(targets') \in Nat /\ Cardinality(targets' \ {Root}) = Cardinality(targets') - 1
    BY <1>5, FS_CardinalityType, FS_RemoveElement
  <1>7. WalkTypes'
    BY <1>1, <1>5, <1>6 DEF WalkInv, WalkTypes
  <1>8. FetchBudget'
    BY <1>1, <1>2, <1>3, <1>5, <1>6 DEF WalkInv, FetchBudget
  <1>9. NothingLeftOut'
    <2>1. TargetLimit' = TargetLimit /\ Eligible' = Eligible
      BY <1>1 DEF TargetLimit, Eligible
    <2> QED
      BY <1>1, <1>5, <2>1 DEF WalkInv, NothingLeftOut
  <1>10. CountsSoFar'
    <2>1. tally = [ok |-> 0, bad |-> 0] /\ DOMAIN results = {} /\ Cardinality({}) = 0
      BY <1>1, FS_EmptySet DEF WalkInv, CountsSoFar
    <2>2. Succeeded' = {}
      BY <1>1, <2>1 DEF Succeeded
    <2> QED
      BY <1>1, <1>6, <2>1, <2>2 DEF CountsSoFar
  <1>11. ReadIsActive' /\ MappedWasRead' /\ OnlyTwinsFail'
    BY <1>1 DEF WalkInv, ReadIsActive, Succeeded, MappedWasRead, OnlyTwinsFail
  <1>12. TwinsSeen'
    <2>1. Chosen' = Chosen /\ targets' = Chosen
      BY <1>1 DEF Chosen, Eligible, TargetLimit, Before, Position
    <2> QED
      BY <1>1, <2>1 DEF WalkInv, CountsSoFar, TwinsSeen
  <1> QED
    BY <1>7, <1>8, <1>9, <1>10, <1>11, <1>12 DEF WalkInv

\* A page that was read is active and has succeeded, under the address it says is its own;
\* anything else is recorded under the target.
LEMMA OutcomeParts ==
    ASSUME web \in Webs, NEW t \in Addresses
    PROVE  /\ Outcome(t).page \in Addresses /\ Outcome(t).read \in Addresses
           /\ Outcome(t).page \in {t, Canonical(Fetch(web, t).final)}
           /\ Outcome(t).status = "succeeded" => Outcome(t).row = "active"
  <1> DEFINE f == Fetch(web, t)
  <1>1. f.final \in Addresses /\ f.outcome \in {"blocked", "failed", "answered"}
    BY FetchEnds
  <1>2. Canonical(f.final) \in Addresses
    BY <1>1, AnswerParts DEF Canonical
  <1> HIDE DEF f
  <1>3. Outcome(t) =
           IF t \in disallowed THEN [page |-> t, row |-> "blocked", status |-> "blocked", read |-> t]
           ELSE IF f.outcome # "answered"
             THEN [page |-> t, row |-> f.outcome, status |-> f.outcome, read |-> t]
           ELSE IF ~SameSite(f.final)
             THEN [page |-> t, row |-> "blocked", status |-> "blocked", read |-> t]
           ELSE IF Code(f.final) >= 400
             THEN [page |-> t, row |-> IF Code(f.final) = 404 THEN "missing" ELSE "failed",
                   status |-> "failed", read |-> f.final]
           ELSE [page |-> Canonical(f.final), row |-> "active", status |-> "succeeded", read |-> f.final]
    BY DEF Outcome, f
  <1> QED
    BY <1>1, <1>2, <1>3 DEF f

\* What the targets lead to does not change while they are visited.
LEMMA TargetsFixed ==
    ASSUME UNCHANGED <<web, disallowed, limit, visited, candidates>>
    PROVE  /\ TargetLimit' = TargetLimit /\ Eligible' = Eligible /\ Chosen' = Chosen
           /\ \A a : Outcome(a)' = Outcome(a)
           /\ \A a : Canonical(Fetch(web, a).final)' = Canonical(Fetch(web, a).final)
           /\ Twins' <=> Twins
  <1>1. TargetLimit' = TargetLimit /\ Eligible' = Eligible
    BY DEF TargetLimit, Eligible
  <1>2. \A a, b : Before(a, b)' <=> Before(a, b)
    BY DEF Before, Position
  <1>3. Chosen' = Chosen
    BY <1>1, <1>2 DEF Chosen
  <1>4. \A a : Outcome(a)' = Outcome(a)
    BY DEF Outcome, Canonical, Code
  <1>5. \A a : Canonical(Fetch(web, a).final)' = Canonical(Fetch(web, a).final)
    BY DEF Canonical
  <1>6. Twins' <=> Twins
    BY <1>3, <1>4 DEF Twins
  <1> QED
    BY <1>1, <1>3, <1>4, <1>5, <1>6

\* A flush the unique key refuses: the rows are as the run found them, and there are twins.
LEMMA RolledBackInv ==
    ASSUME WalkInv, wpc = "visit", twice, RolledBack,
           fetches' \in Nat, fetches' <= limit,
           IsFiniteSet(targets'), targets' \subseteq Addresses,
           UNCHANGED <<web, disallowed, limit, pending, visited, candidates, discovered, tally, rowsBefore,
                       mapping>>
    PROVE  WalkInv'
  <1>1. /\ pageRow' = rowsBefore /\ DOMAIN results' = {} /\ unsent' = {} /\ twice' = FALSE
        /\ wpc' = "failed" /\ Succeeded' = {}
    BY DEF RolledBack, NoResults, Succeeded
  <1>2. Twins'
    BY TargetsFixed DEF WalkInv, TwinsSeen
  <1>3. WalkTypes'
    BY <1>1, FS_EmptySet DEF WalkInv, WalkTypes
  <1>4. FetchBudget'
    BY <1>1 DEF WalkInv, FetchBudget
  <1> QED
    BY <1>1, <1>2, <1>3, <1>4 DEF WalkInv, NothingLeftOut, CountsSoFar, TwinsSeen, ReadIsActive,
       MappedWasRead, OnlyTwinsFail

\* A target takes one of the fetches set aside for it.
LEMMA VisitFetches ==
    ASSUME WalkInv, wpc = "visit", NEW t \in targets, targets' = targets \ {t}, limit' = limit,
           fetches' = IF t = Root \/ t \in disallowed THEN fetches ELSE fetches + 1
    PROVE  /\ fetches' \in Nat /\ fetches' <= limit
           /\ fetches' + Cardinality(targets' \ {Root}) <= limit
           /\ IsFiniteSet(targets') /\ targets' \subseteq Addresses
           /\ Cardinality(targets) \in Nat /\ Cardinality(targets') = Cardinality(targets) - 1
  <1>1. IsFiniteSet(targets) /\ targets \subseteq Addresses
    BY DEF WalkInv, WalkTypes
  <1>2. /\ IsFiniteSet(targets') /\ targets' \subseteq Addresses
        /\ Cardinality(targets) \in Nat /\ Cardinality(targets') = Cardinality(targets) - 1
    BY <1>1, FS_RemoveElement, FS_CardinalityType
  <1>3. IsFiniteSet(targets \ {Root}) /\ Cardinality(targets \ {Root}) \in Nat
    BY <1>1, FS_Subset, FS_CardinalityType
  <1>4. Cardinality(targets' \ {Root}) \in Nat
    BY <1>2, FS_Subset, FS_CardinalityType
  <1>5. limit \in Nat /\ fetches \in Nat /\ fetches + Cardinality(targets \ {Root}) <= limit
    BY WalkAssumption DEF WalkInv, WalkTypes, FetchBudget
  <1>6. CASE t = Root
    <2>1. targets' \ {Root} = targets \ {Root}
      BY <1>6
    <2>2. fetches' = fetches
      BY <1>6
    <2>3. fetches <= limit
      BY <1>3, <1>5
    <2> QED
      BY <1>2, <1>5, <2>1, <2>2, <2>3
  <1>7. CASE t # Root
    <2>1. targets' \ {Root} = (targets \ {Root}) \ {t} /\ t \in targets \ {Root}
      BY <1>7
    <2>2. Cardinality(targets' \ {Root}) = Cardinality(targets \ {Root}) - 1
      BY <1>3, <2>1, FS_RemoveElement
    <2> QED
      BY <1>2, <1>3, <1>4, <1>5, <2>2
  <1> QED
    BY <1>6, <1>7

\* A target is counted once and leaves its result, unless the flush before it is refused.
LEMMA VisitTargetInv ==
    ASSUME WalkInv, NEW t \in targets, VisitTarget(t)
    PROVE  WalkInv'
  <1> DEFINE page == Outcome(t).page
             ended == Outcome(t).status
             rowStatus == Outcome(t).row
             read == Outcome(t).read
             held == IF NewPage(page) THEN {} ELSE unsent
  <1>1. /\ wpc = "visit" /\ targets' = targets \ {t}
        /\ UNCHANGED <<web, disallowed, limit, pending, visited, candidates, discovered, rowsBefore, mapping>>
        /\ fetches' = IF t = Root \/ t \in disallowed THEN fetches ELSE fetches + 1
    BY DEF VisitTarget, siteWalkVars, findVars
  <1>2. WalkTypes /\ web \in Webs /\ t \in Addresses
    BY <1>1 DEF WalkInv, WalkTypes
  <1>3. /\ fetches' \in Nat /\ fetches' <= limit
        /\ fetches' + Cardinality(targets' \ {Root}) <= limit
        /\ IsFiniteSet(targets') /\ targets' \subseteq Addresses
        /\ Cardinality(targets) \in Nat /\ Cardinality(targets') = Cardinality(targets) - 1
    BY <1>1, VisitFetches
  <1>4. /\ page \in Addresses /\ read \in Addresses
        /\ page \in {t, Canonical(Fetch(web, t).final)}
        /\ ended = "succeeded" => rowStatus = "active"
    BY <1>2, OutcomeParts
  <1>5. CASE twice /\ NewPage(page)
    BY <1>1, <1>3, <1>5, RolledBackInv DEF VisitTarget
  <1>6. CASE ~(twice /\ NewPage(page))
    <2>1. /\ pageRow' = [pageRow EXCEPT ![page] = rowStatus]
          /\ results' = [a \in DOMAIN results \cup {page} |->
                          IF a = page THEN [status |-> ended, read |-> read] ELSE results[a]]
          /\ unsent' = IF page \in DOMAIN results THEN held ELSE held \cup {page}
          /\ twice' = (twice \/ page \in held)
          /\ tally' = CountTarget(t, ended = "succeeded") /\ wpc' = wpc
      BY <1>6 DEF VisitTarget, Record
    <2>2. held \subseteq unsent
      OBVIOUS
    <2> HIDE DEF page, ended, rowStatus, read, held
    <2>3. /\ DOMAIN results' = DOMAIN results \cup {page}
          /\ results'[page].status = ended /\ results'[page].read = read
          /\ \A a \in DOMAIN results \ {page} : results'[a] = results[a]
      BY <2>1
    <2>4. /\ DOMAIN pageRow' = DOMAIN pageRow
          /\ pageRow'[page] = rowStatus
          /\ \A a \in Addresses \ {page} : pageRow'[a] = pageRow[a]
      BY <1>2, <1>4, <2>1 DEF WalkTypes
    <2>5. tally \in [ok : Nat, bad : Nat] /\ tally' \in [ok : Nat, bad : Nat]
      BY <1>2, <2>1 DEF WalkTypes, CountTarget
    <2>6. /\ ended = "succeeded" => tally'.ok = tally.ok + 1 /\ tally'.bad = tally.bad
          /\ ended # "succeeded" => tally'.ok = tally.ok /\ tally'.bad = tally.bad + 1
      BY <2>1, <2>5 DEF CountTarget
    <2>7. WalkTypes'
      <3>1. twice' \in BOOLEAN
        BY <2>1
      <3>2. IsFiniteSet(DOMAIN results')
        <4>1. IsFiniteSet(DOMAIN results)
          BY <1>2 DEF WalkTypes
        <4>2. IsFiniteSet(DOMAIN results \cup {page})
          BY <4>1, FS_AddElement
        <4> QED
          BY <2>3, <4>2
      <3>3. DOMAIN results' \subseteq Addresses /\ \A a \in DOMAIN results' : results'[a].read \in Addresses
        BY <1>2, <1>4, <2>3 DEF WalkTypes
      <3> QED
        BY <1>1, <1>2, <1>3, <2>1, <2>4, <2>5, <3>1, <3>2, <3>3 DEF WalkTypes
    <2>8. FetchBudget'
      BY <1>1, <1>3, <2>1 DEF WalkInv, FetchBudget
    <2>9. NothingLeftOut'
      <3>1. \A a : HasResult(a) \/ a = t => HasResult(a)'
        BY <1>1, <1>4, <2>3, TargetsFixed DEF HasResult
      <3> QED
        BY <1>1, <2>1, <3>1, TargetsFixed DEF WalkInv, NothingLeftOut
    <2>10. Chosen' = Chosen /\ (Twins' <=> Twins) /\ \A a : Outcome(a)' = Outcome(a)
      BY <1>1, TargetsFixed
    <2>11. /\ targets \subseteq Chosen
           /\ \A p \in DOMAIN results : \E a \in Chosen \ targets : Outcome(a).page = p
           /\ unsent \subseteq DOMAIN results
           /\ twice => Twins
      BY <1>1 DEF WalkInv, TwinsSeen
    <2>12. page \in DOMAIN results => Twins
      <3> SUFFICES ASSUME page \in DOMAIN results PROVE Twins
        OBVIOUS
      <3>1. PICK a \in Chosen \ targets : Outcome(a).page = page
        BY <2>11
      <3> QED
        BY <2>11, <3>1 DEF Twins, page
    <2>13. CountsSoFar'
      <3>1. tally'.ok + tally'.bad + Cardinality(targets') = discovered'
        BY <1>1, <1>3, <2>5, <2>6 DEF WalkInv, CountsSoFar
      <3>2. ASSUME ~Twins PROVE /\ tally'.ok = Cardinality(Succeeded')
                                /\ tally'.bad = Cardinality(DOMAIN results' \ Succeeded')
        <4>1. page \notin DOMAIN results
          BY <2>12, <3>2
        <4>2. /\ tally.ok = Cardinality(Succeeded) /\ tally.bad = Cardinality(DOMAIN results \ Succeeded)
              /\ IsFiniteSet(Succeeded) /\ IsFiniteSet(DOMAIN results \ Succeeded)
          BY <1>1, <1>2, <3>2, FS_Subset DEF WalkInv, WalkTypes, CountsSoFar, Succeeded
        <4>3. CASE ended = "succeeded"
          <5>1. /\ Succeeded' = Succeeded \cup {page} /\ page \notin Succeeded
                /\ DOMAIN results' \ Succeeded' = DOMAIN results \ Succeeded
            BY <2>3, <4>1, <4>3 DEF Succeeded
          <5>2. Cardinality(Succeeded') = Cardinality(Succeeded) + 1
            BY <4>2, <5>1, FS_AddElement
          <5> QED
            BY <2>6, <4>2, <4>3, <5>1, <5>2
        <4>4. CASE ended # "succeeded"
          <5>1. /\ Succeeded' = Succeeded
                /\ DOMAIN results' \ Succeeded' = (DOMAIN results \ Succeeded) \cup {page}
                /\ page \notin DOMAIN results \ Succeeded
            BY <2>3, <4>1, <4>4 DEF Succeeded
          <5> QED
            BY <2>6, <4>2, <4>4, <5>1, FS_AddElement
        <4> QED
          BY <4>3, <4>4
      <3> QED
        BY <1>1, <2>1, <2>10, <3>1, <3>2 DEF CountsSoFar
    <2>14. TwinsSeen'
      <3>1. unsent' \subseteq DOMAIN results'
        BY <2>1, <2>2, <2>3, <2>11
      <3>2. \A p \in DOMAIN results' : \E a \in Chosen \ targets' : Outcome(a).page = p
        BY <1>1, <2>3, <2>11 DEF page
      <3>3. twice' => Twins
        BY <2>1, <2>2, <2>11, <2>12
      <3> QED
        BY <1>1, <2>1, <2>10, <2>11, <3>1, <3>2, <3>3 DEF TwinsSeen
    <2>15. ReadIsActive'
      <3>1. \A a \in Succeeded' \ {page} : a \in Succeeded /\ a \in Addresses
        BY <1>2, <2>3 DEF Succeeded, WalkTypes
      <3>2. page \in Succeeded' => rowStatus = "active"
        BY <1>4, <2>3 DEF Succeeded
      <3> QED
        BY <2>4, <3>1, <3>2 DEF WalkInv, ReadIsActive
    <2>16. MappedWasRead' /\ OnlyTwinsFail'
      BY <1>1, <2>1 DEF MappedWasRead, OnlyTwinsFail
    <2> QED
      BY <2>7, <2>8, <2>9, <2>13, <2>14, <2>15, <2>16 DEF WalkInv
  <1> QED
    BY <1>5, <1>6

\* Among the pages that match the capability one is best: the highest score, then the first
\* address.
LEMMA BestPage ==
    ASSUME WalkInv, wpc = "visit", MappedPages # {}
    PROVE  \E a \in MappedPages : \A b \in MappedPages :
              Fit(a) > Fit(b) \/ (Fit(a) = Fit(b) /\ a <= b)
  <1> DEFINE R == {x \in MappedPages \X MappedPages :
                      Fit(x[2]) > Fit(x[1]) \/ (Fit(x[2]) = Fit(x[1]) /\ x[2] < x[1])}
  <1>1. web \in Webs /\ IsFiniteSet(MappedPages) /\ MappedPages \subseteq Nat
    BY FS_Subset, WalkAssumption DEF WalkInv, WalkTypes, MappedPages
  <1>2. \A a \in MappedPages : Fit(a) \in Nat
    BY <1>1, AnswerParts DEF WalkInv, WalkTypes, MappedPages, Fit, Score
  <1>3. \A x, y \in MappedPages :
            <<x, y>> \in R <=> Fit(y) > Fit(x) \/ (Fit(y) = Fit(x) /\ y < x)
    OBVIOUS
  <1> HIDE DEF R
  <1>4. /\ \A x, y, z \in MappedPages : <<x, y>> \in R /\ <<y, z>> \in R => <<x, z>> \in R
        /\ \A x \in MappedPages : <<x, x>> \notin R
    BY <1>1, <1>2, <1>3
  <1>5. PICK m \in MappedPages : \A y \in MappedPages : <<m, y>> \notin R
    BY <1>1, <1>4, LastMember
  <1>6. ASSUME NEW b \in MappedPages
        PROVE  Fit(m) > Fit(b) \/ (Fit(m) = Fit(b) /\ m <= b)
    <2>1. Fit(m) \in Nat /\ Fit(b) \in Nat /\ m \in Nat /\ b \in Nat
      BY <1>1, <1>2
    <2>2. ~(Fit(b) > Fit(m) \/ (Fit(b) = Fit(m) /\ b < m))
      BY <1>3, <1>5
    <2> QED
      BY <2>1, <2>2
  <1> QED
    BY <1>6

\* The capability is mapped to a page with a succeeded result.
LEMMA FinishWalkInv == ASSUME WalkInv, FinishWalk PROVE WalkInv'
  <1>1. /\ wpc = "visit" /\ targets = {} /\ wpc' = "succeeded"
        /\ UNCHANGED <<web, disallowed, limit, pending, visited, candidates, targets, discovered,
                       tally, unsent, twice, fetches, results, pageRow, rowsBefore>>
    BY DEF FinishWalk, siteWalkVars, findVars, visitVars
  <1>2. WalkTypes' /\ FetchBudget'
    BY <1>1 DEF WalkInv, WalkTypes, FetchBudget
  <1>3. NothingLeftOut'
    <2>1. \A a : HasResult(a)' = HasResult(a)
      BY <1>1 DEF HasResult, Canonical
    <2> QED
      BY <1>1, <2>1, TargetsFixed DEF WalkInv, NothingLeftOut
  <1>4. Succeeded' = Succeeded /\ (Twins' <=> Twins)
    BY <1>1, TargetsFixed DEF Succeeded
  <1>5. CountsSoFar' /\ ReadIsActive' /\ TwinsSeen' /\ OnlyTwinsFail'
    BY <1>1, <1>4 DEF WalkInv, CountsSoFar, ReadIsActive, TwinsSeen, OnlyTwinsFail
  <1>6. MappedWasRead'
    <2>1. CASE MappedPages = {}
      BY <2>1 DEF FinishWalk, MappedWasRead
    <2>2. CASE MappedPages # {}
      <3> DEFINE best == CHOOSE a \in MappedPages : \A b \in MappedPages :
                             Fit(a) > Fit(b) \/ (Fit(a) = Fit(b) /\ a <= b)
      <3>1. best \in MappedPages
        BY <1>1, <2>2, BestPage
      <3>2. mapping'.page = best
        BY <2>2 DEF FinishWalk
      <3> HIDE DEF best
      <3>3. best \in DOMAIN results /\ results[best].status = "succeeded" /\ best \in Succeeded
        BY <3>1 DEF MappedPages, Succeeded
      <3> QED
        BY <1>1, <3>2, <3>3 DEF WalkInv, ReadIsActive, MappedWasRead
    <2> QED
      BY <2>1, <2>2
  <1> QED
    BY <1>2, <1>3, <1>5, <1>6 DEF WalkInv

\* Every step of a walk keeps the invariant.
LEMMA WalkNextInv == ASSUME WalkInv, [WalkNext]_walkVars PROVE WalkInv'
  <1>1. CASE UNCHANGED walkVars
    <2>1. UNCHANGED <<web, disallowed, limit, visited, candidates>>
      BY <1>1 DEF walkVars
    <2>2. \A a : HasResult(a)' = HasResult(a)
      BY <1>1 DEF HasResult, Canonical, walkVars
    <2>3. Succeeded' = Succeeded
      BY <1>1 DEF Succeeded, walkVars
    <2>4. WalkTypes' /\ FetchBudget' /\ ReadIsActive' /\ MappedWasRead'
      BY <1>1, <2>3 DEF WalkInv, WalkTypes, FetchBudget, ReadIsActive, MappedWasRead, walkVars
    <2>5. NothingLeftOut'
      BY <1>1, <2>1, <2>2, TargetsFixed DEF WalkInv, NothingLeftOut, walkVars
    <2>6. CountsSoFar' /\ TwinsSeen' /\ OnlyTwinsFail'
      BY <1>1, <2>1, <2>3, TargetsFixed DEF WalkInv, CountsSoFar, TwinsSeen, OnlyTwinsFail, walkVars
    <2> QED
      BY <2>4, <2>5, <2>6 DEF WalkInv
  <1>2. CASE LastFlushFails
    <2>1. /\ wpc = "visit" /\ twice /\ RolledBack
          /\ UNCHANGED <<web, disallowed, limit, pending, visited, candidates, targets, discovered, tally,
                         fetches, rowsBefore, mapping>>
      BY <1>2 DEF LastFlushFails, siteWalkVars, findVars
    <2>2. fetches \in Nat /\ fetches <= limit /\ IsFiniteSet(targets) /\ targets \subseteq Addresses
      BY DEF WalkInv, WalkTypes, FetchBudget
    <2> QED
      BY <2>1, <2>2, RolledBackInv
  <1> QED
    BY <1>1, <1>2, StartWalkInv, ReadSitemapInv, SelectTargetsInv, VisitTargetInv, FinishWalkInv
       DEF WalkNext

\* The invariant of a walk holds throughout, whatever the website answers and however its
\* pages, redirects and sitemaps refer to one another (WebsiteCrawlService._process).
THEOREM WalkInvariant == WalkSpec => []WalkInv
  BY WalkInitInv, WalkNextInv, PTL DEF WalkSpec

\* A run of any page limit over any website: it stays within its fetches, leaves out nothing it
\* has room for, counts what it recorded, fails after its first page only over two targets that are
\* one page, and maps only what it read (WebsiteCrawlService._process, select_crawl_urls, HTTPXWebsiteFetchProvider.fetch).
THEOREM WalkSafetyHolds == WalkSpec => []WalkSafety
  BY WalkInvariant, WalkInvSafe, PTL

=============================================================================
