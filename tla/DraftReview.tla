----------------------------- MODULE DraftReview -----------------------------
(***************************************************************************)
(* One X draft: the review commands, the regeneration of an angle and the   *)
(* two ways to publish it (app/modules/drafts/services/review.py and        *)
(* regeneration.py), with its publication attempts and X itself.            *)
(*                                                                         *)
(* Every command locks the draft's row.  The commands that publish give the *)
(* lock up by committing the attempt before they ask X - except a repeated  *)
(* publish_draft, which finds its attempt, commits nothing and keeps the    *)
(* lock.  The LLM ledger uses sessions of its own, so a regeneration keeps  *)
(* the lock to its end and is one step.                                     *)
(*                                                                         *)
(* A content is identified with where it comes from: the event or asset the *)
(* draft was made from, an edit, or a generation run.  A post is identified *)
(* with the idempotency key it was created under: X creates at most one     *)
(* post per key (external; HttpXPublisher sends the key as a header).       *)
(***************************************************************************)
EXTENDS Naturals, FiniteSets

CONSTANTS
    Requests,    \* concurrent publication requests
    Commands,    \* idempotency keys of approve-and-publish commands
    DraftKey,    \* the key of publish_draft, "x:draft:{draft_id}"
    Runs,        \* generation runs of angle regenerations
    Edits,       \* contents users type
    Source,      \* the content the draft is created with
    None,        \* no post, no key, no lock holder
    MaxCrashes,  \* bound: requests that die
    MaxAsked     \* bound: calls of X per key

ASSUME DraftAssumption ==
    /\ DraftKey \notin Commands
    /\ None \notin Commands \cup {DraftKey} \cup Requests \cup Edits \cup Runs \cup {Source}
    /\ MaxCrashes \in Nat
    /\ MaxAsked \in Nat

Keys == Commands \cup {DraftKey}
Contents == Edits \cup Runs \cup {Source}

VARIABLES
    kind,      \* "event" (EventToDraftService) or "asset" (project_x_asset_to_draft)
    status,    \* drafts.status; "none" without a row
    content,   \* drafts.content
    approved,  \* drafts.approved_at is set
    tweet,     \* drafts.tweet_id
    run,       \* drafts.generation_run_id
    runs,      \* generation runs of the draft's event, with their candidates
    attempt,   \* publication_attempts.status per command_id; "none" without a row
    posts,     \* X: the content posted under a key
    asked,     \* how often X was asked under a key
    seen,      \* history: contents the draft had while it was approved
    pc,        \* what a request does next
    key,       \* the key of a request
    text,      \* the content a request has read
    lock,      \* the request that holds the row's lock between two steps
    crashes

draftVars == <<kind, status, content, approved, tweet, run, runs>>
xVars == <<posts, asked>>
callVars == <<pc, key, text, lock>>
vars == <<kind, status, content, approved, tweet, run, runs, attempt, posts, asked,
          seen, pc, key, text, lock, crashes>>

Kind == {"event", "asset"}
Status == {"none", "pending", "approved", "rejected", "posted"}
Attempt == {"none", "pending", "completed", "failed", "unknown_outcome"}
PC == {"idle", "insert", "connect", "ask", "posted", "unknown", "failed"}
Open == {"pending", "approved"}

Init ==
    /\ kind \in Kind
    /\ status = "none"
    /\ content = Source
    /\ approved = FALSE
    /\ tweet = None
    /\ run = None
    /\ runs = {}
    /\ attempt = [k \in Keys |-> "none"]
    /\ posts = [k \in Keys |-> None]
    /\ asked = [k \in Keys |-> 0]
    /\ seen = {}
    /\ pc = [r \in Requests |-> "idle"]
    /\ key = [r \in Requests |-> None]
    /\ text = [r \in Requests |-> None]
    /\ lock = None
    /\ crashes = 0

\* What the draft's approved contents are after a step.
Remember(s, c) == seen' = IF s = "approved" THEN seen \cup {c} ELSE seen

-----------------------------------------------------------------------------
(* Creation.                                                               *)

\* EventToDraftService: a pending draft of an event.
CreateFromEvent ==
    /\ kind = "event"
    /\ status = "none"
    /\ status' = "pending"
    /\ UNCHANGED <<kind, content, approved, tweet, run, runs, attempt, xVars, seen,
                   callVars, crashes>>

\* project_x_asset_to_draft: an approved revision becomes an approved draft.
ProjectXAsset ==
    /\ kind = "asset"
    /\ status = "none"
    /\ status' = "approved"
    /\ approved' = TRUE
    /\ Remember("approved", content)
    /\ UNCHANGED <<kind, content, tweet, run, runs, attempt, xVars, callVars, crashes>>

-----------------------------------------------------------------------------
(* Review commands, one transaction each.                                  *)

\* Mutant: a posted draft can be edited.
EditPosted(c) ==
    /\ lock = None
    /\ status \in Open \cup {"posted"}
    /\ content' = c
    /\ Remember(status, c)
    /\ UNCHANGED <<kind, status, approved, tweet, run, runs, attempt, xVars, callVars, crashes>>

\* edit_draft_content: an approved draft stays approved.
EditDraftContent(c) ==
    /\ lock = None
    /\ status \in Open
    /\ content # c
    /\ content' = c
    /\ Remember(status, c)
    /\ UNCHANGED <<kind, status, approved, tweet, run, runs, attempt, xVars, callVars, crashes>>

ApproveDraft ==
    /\ lock = None
    /\ status = "pending"
    /\ status' = "approved"
    /\ approved' = TRUE
    /\ Remember("approved", content)
    /\ UNCHANGED <<kind, content, tweet, run, runs, attempt, xVars, callVars, crashes>>

\* reject_draft also takes the approval back.
RejectDraft ==
    /\ lock = None
    /\ status \in Open
    /\ status' = "rejected"
    /\ approved' = FALSE
    /\ UNCHANGED <<kind, content, tweet, run, runs, attempt, xVars, seen, callVars, crashes>>

\* select_draft_candidate: only drafts of an event have candidates.
SelectDraftCandidate(g) ==
    /\ lock = None
    /\ status \in Open
    /\ kind = "event"
    /\ g \in runs
    /\ content # g
    /\ content' = g
    /\ Remember(status, g)
    /\ UNCHANGED <<kind, status, approved, tweet, run, runs, attempt, xVars, callVars, crashes>>

\* regenerate_draft_angle looks only at drafts of an event that are still open.
Regenerable ==
    /\ lock = None
    /\ status \in Open
    /\ kind = "event"

\* TweetGenerationService.run: a run of the same key is reused, or one is generated
\* and saved with its ranked candidates.
GenerateRun(g) == runs' = runs \cup {g}

\* A draft that already has the run is left alone; otherwise the approval has to be
\* given again.  A generation that fails rolls the transaction back.
RegenerateDraftAngle(g) ==
    /\ Regenerable
    /\ run # g
    /\ GenerateRun(g)
    /\ content' = g
    /\ run' = g
    /\ status' = "pending"
    /\ approved' = FALSE
    /\ UNCHANGED <<kind, tweet, attempt, xVars, seen, callVars, crashes>>

-----------------------------------------------------------------------------
(* publish_draft, first transaction.                                       *)

Holding(r) == lock \in {None, r}

EndCall(r) ==
    /\ pc' = [pc EXCEPT ![r] = "idle"]
    /\ key' = [key EXCEPT ![r] = None]
    /\ text' = [text EXCEPT ![r] = None]
    /\ lock' = IF lock = r THEN None ELSE lock

\* Mutant: the draft's status is not looked at.
PublishableUnchecked ==
    status # "none" /\ attempt[DraftKey] # "unknown_outcome"

\* ensure_publishable, and no call after an unknown outcome.
Publishable ==
    /\ status = "approved"
    /\ approved
    /\ attempt[DraftKey] # "unknown_outcome"

PublishDraft(r) ==
    /\ pc[r] = "idle"
    /\ lock = None
    /\ Publishable
    /\ pc' = [pc EXCEPT ![r] = "connect"]
    /\ key' = [key EXCEPT ![r] = DraftKey]
    /\ text' = [text EXCEPT ![r] = content]
    /\ IF attempt[DraftKey] = "none"
         THEN attempt' = [attempt EXCEPT ![DraftKey] = "pending"] /\ lock' = lock
         ELSE attempt' = attempt /\ lock' = r
    /\ UNCHANGED <<draftVars, xVars, seen, crashes>>

-----------------------------------------------------------------------------
(* approve_and_publish_draft_revision, up to the call of X.                *)

\* A key that has an attempt is answered from it; a new key goes on to lock.
LookUpCommand(r, k) ==
    /\ pc[r] = "idle"
    /\ status # "none"
    /\ attempt[k] = "none"
    /\ pc' = [pc EXCEPT ![r] = "insert"]
    /\ key' = [key EXCEPT ![r] = k]
    /\ UNCHANGED <<draftVars, attempt, xVars, seen, text, lock, crashes>>

\* The draft is still the exact asset revision, and can be approved.
MatchesAsset ==
    /\ kind = "asset"
    /\ content = Source
    /\ status \in Open

\* Mutant: whoever comes second for a key takes the attempt over.
InsertAttemptTwice(r) ==
    /\ pc[r] = "insert"
    /\ lock = None
    /\ MatchesAsset
    /\ status' = "approved"
    /\ approved' = TRUE
    /\ Remember("approved", content)
    /\ attempt' = [attempt EXCEPT ![key[r]] = "pending"]
    /\ text' = [text EXCEPT ![r] = content]
    /\ pc' = [pc EXCEPT ![r] = "connect"]
    /\ UNCHANGED <<kind, content, tweet, run, runs, xVars, key, lock, crashes>>

\* The draft is approved if it was pending, and the attempt is inserted; the
\* unique command_id refuses the second of two requests with one key.
InsertAttempt(r) ==
    /\ pc[r] = "insert"
    /\ lock = None
    /\ MatchesAsset
    /\ attempt[key[r]] = "none"
    /\ status' = "approved"
    /\ approved' = TRUE
    /\ Remember("approved", content)
    /\ attempt' = [attempt EXCEPT ![key[r]] = "pending"]
    /\ text' = [text EXCEPT ![r] = content]
    /\ pc' = [pc EXCEPT ![r] = "connect"]
    /\ UNCHANGED <<kind, content, tweet, run, runs, xVars, key, lock, crashes>>

\* draft_revision_conflict, draft_already_published, draft_approve_invalid_status
\* or the unique key: the transaction is rolled back.
InsertRefused(r) ==
    /\ pc[r] = "insert"
    /\ lock = None
    /\ ~MatchesAsset \/ attempt[key[r]] # "none"
    /\ EndCall(r)
    /\ UNCHANGED <<draftVars, attempt, xVars, seen, crashes>>

-----------------------------------------------------------------------------
(* Both commands: the connection, X, and the last transaction.             *)

ConnectionFound(r) ==
    /\ pc[r] = "connect"
    /\ pc' = [pc EXCEPT ![r] = "ask"]
    /\ UNCHANGED <<draftVars, attempt, xVars, seen, key, text, lock, crashes>>

\* No usable connection: publish_draft only raises, the command's attempt fails.
ConnectionUnusable(r) ==
    /\ pc[r] = "connect"
    /\ attempt' = IF key[r] = DraftKey THEN attempt ELSE [attempt EXCEPT ![key[r]] = "failed"]
    /\ EndCall(r)
    /\ UNCHANGED <<draftVars, xVars, seen, crashes>>

\* X creates a post unless the key has one (external).
XCreates(k, c) == posts' = [posts EXCEPT ![k] = IF @ = None THEN c ELSE @]

\* HttpXPublisher.publish: a receipt; a timeout, 429 or 5xx with or without a
\* post; a refusal, or an answer without an id although X has posted.
AskX(r) ==
    /\ pc[r] = "ask"
    /\ asked[key[r]] < MaxAsked
    /\ asked' = [asked EXCEPT ![key[r]] = @ + 1]
    /\ \/ /\ XCreates(key[r], text[r])
          /\ pc' = [pc EXCEPT ![r] = "posted"]
       \/ /\ XCreates(key[r], text[r]) \/ posts' = posts
          /\ \E outcome \in {"unknown", "failed"} : pc' = [pc EXCEPT ![r] = outcome]
    /\ UNCHANGED <<draftVars, attempt, seen, key, text, lock, crashes>>

\* PublisherTransientError and PublisherPermanentError: the attempt is written
\* whatever it says by now.
RecordFailure(r) ==
    /\ pc[r] \in {"unknown", "failed"}
    /\ attempt' = [attempt EXCEPT
         ![key[r]] = IF pc[r] = "unknown" THEN "unknown_outcome" ELSE "failed"]
    /\ EndCall(r)
    /\ UNCHANGED <<draftVars, xVars, seen, crashes>>

\* Mutant: the attempt is completed without the draft.
RecordPostLoosely(r) ==
    /\ pc[r] = "posted"
    /\ Holding(r)
    /\ IF approved
         THEN status' = "posted" /\ tweet' = key[r]
         ELSE UNCHANGED <<status, tweet>>
    /\ attempt' = [attempt EXCEPT ![key[r]] = "completed"]
    /\ EndCall(r)
    /\ UNCHANGED <<kind, content, approved, run, runs, xVars, seen, crashes>>

\* Mutant: the receipt is not stored on the draft.
RecordPostNoTweet(r) ==
    /\ pc[r] = "posted"
    /\ Holding(r)
    /\ approved
    /\ status' = "posted"
    /\ attempt' = [attempt EXCEPT ![key[r]] = "completed"]
    /\ EndCall(r)
    /\ UNCHANGED <<kind, content, approved, tweet, run, runs, xVars, seen, crashes>>

\* The draft, its events and the attempt in one transaction.
RecordPost(r) ==
    /\ pc[r] = "posted"
    /\ Holding(r)
    /\ approved
    /\ status' = "posted"
    /\ tweet' = key[r]
    /\ attempt' = [attempt EXCEPT ![key[r]] = "completed"]
    /\ EndCall(r)
    /\ UNCHANGED <<kind, content, approved, run, runs, xVars, seen, crashes>>

\* The approval was taken back meanwhile: the check drafts_approval_required
\* refuses the update, and the attempt stays as it is.
RecordPostRefused(r) ==
    /\ pc[r] = "posted"
    /\ Holding(r)
    /\ ~approved
    /\ EndCall(r)
    /\ UNCHANGED <<draftVars, attempt, xVars, seen, crashes>>

\* The process dies; the database rolls back and frees the lock.
Crash(r) ==
    /\ pc[r] # "idle"
    /\ crashes < MaxCrashes
    /\ crashes' = crashes + 1
    /\ EndCall(r)
    /\ UNCHANGED <<draftVars, attempt, xVars, seen>>

-----------------------------------------------------------------------------
Review ==
    \/ \E c \in Edits : EditDraftContent(c)
    \/ ApproveDraft
    \/ RejectDraft
    \/ \E g \in Runs : SelectDraftCandidate(g) \/ RegenerateDraftAngle(g)

Publish(r) ==
    \/ PublishDraft(r)
    \/ \E k \in Commands : LookUpCommand(r, k)
    \/ InsertAttempt(r) \/ InsertRefused(r)
    \/ ConnectionFound(r) \/ ConnectionUnusable(r)
    \/ AskX(r)
    \/ RecordFailure(r) \/ RecordPost(r) \/ RecordPostRefused(r)

Next ==
    \/ CreateFromEvent
    \/ ProjectXAsset
    \/ Review
    \/ \E r \in Requests : Publish(r) \/ Crash(r)

Spec == Init /\ [][Next]_vars

-----------------------------------------------------------------------------
\* The draft, its attempts, X and every request have their types.
TypeOK ==
    /\ kind \in Kind
    /\ status \in Status
    /\ content \in Contents
    /\ approved \in BOOLEAN
    /\ tweet \in Keys \cup {None}
    /\ run \in Runs \cup {None}
    /\ runs \in SUBSET Runs
    /\ attempt \in [Keys -> Attempt]
    /\ posts \in [Keys -> Contents \cup {None}]
    /\ asked \in [Keys -> 0..MaxAsked]
    /\ seen \in SUBSET Contents
    /\ pc \in [Requests -> PC]
    /\ key \in [Requests -> Keys \cup {None}]
    /\ text \in [Requests -> Contents \cup {None}]
    /\ lock \in Requests \cup {None}
    /\ crashes \in 0..MaxCrashes

\* An approve-and-publish command asks X at most once, however often and however
\* concurrently it is sent and wherever a request dies: the attempt is committed
\* before X is asked and only its inserter goes on.
AskedOncePerCommand ==
    \A k \in Commands : asked[k] <= 1

\* What X shows was the draft's content at a moment when the draft was approved,
\* although edits, rejections and regenerations go on while X is asked.
OnlyApprovedIsPosted ==
    \A k \in Keys : posts[k] # None => posts[k] \in seen

\* A command that reports success has its post, with the asset's own text, and the
\* draft says "posted" from then on.
CompletedIsPosted ==
    \A k \in Commands :
        attempt[k] = "completed" => status = "posted" /\ posts[k] = Source

\* A posted draft has a post that exists and the approval it was made under.
PostedHasReceipt ==
    status = "posted" => tweet # None /\ posts[tweet] # None /\ approved

\* Publication under deaths, late answers and edits meanwhile: the provider is asked once per
\* command, only with approved content, a completed asset was posted, and what the draft says
\* was posted has its receipt (approve_and_publish_draft_revision, publish_draft).
DraftSafety ==
    /\ TypeOK
    /\ AskedOncePerCommand
    /\ OnlyApprovedIsPosted
    /\ CompletedIsPosted
    /\ PostedHasReceipt

\* Nothing undoes a publication: a posted draft keeps its status and its content
\* (the commands raise once it is posted; late requests write "posted" again).
PostedIsFinal ==
    [][status = "posted" => status' = "posted" /\ content' = content]_vars

\* One draft is posted once: "This exact draft revision was already published by
\* another command." (review.py:504).
PostedOnce ==
    Cardinality({k \in Keys : posts[k] # None}) <= 1

=============================================================================
