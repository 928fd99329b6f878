--------------------------- MODULE BrowserSession ---------------------------
(***************************************************************************)
(* The refresh sessions of one account (app/modules/identity): password     *)
(* login, rotation of the refresh token, logout, change of the session's    *)
(* workspace and deletion of the account.                                   *)
(*                                                                         *)
(* A refresh reads its session without a lock, and rotate_refresh_session   *)
(* reads it again FOR UPDATE in the same database session: the row is       *)
(* locked, but the object keeps the attributes of the first read            *)
(* (expire_on_commit and populate_existing are off).  Sessions that replace *)
(* one another are a family.  A token that was replaced or revoked and is   *)
(* presented again is a replay; the branch of rotate_refresh_session that   *)
(* revokes the family on a replay is never reached, since the route refuses *)
(* such a token first and the second read repeats what the first one saw.   *)
(***************************************************************************)
EXTENDS Naturals, FiniteSets

CONSTANTS
    Browsers,     \* concurrent requests
    Workspaces,   \* workspaces the user is a member of
    Home,         \* the first one (get_first_active_membership)
    MaxSession,   \* bound: rows of auth_sessions
    MaxExpired    \* bound: rows that may expire, the oldest ones (all have the same lifetime)

ASSUME SessionAssumption ==
    /\ Home \in Workspaces
    /\ {MaxSession, MaxExpired} \subseteq Nat

Sessions == 1..MaxSession

VARIABLES
    account,    \* "active" or "deleted"
    made,       \* rows of auth_sessions
    revoked,    \* rows with revoked_at
    expired,    \* rows whose expires_at has passed
    family,     \* family_id of a row, the number of its first row
    space,      \* current_workspace_id of a row
    bpc,        \* what a request does next
    bsess,      \* the session a request is about, 0 without one
    bspace,     \* the workspace it has read
    doomed,     \* rows a deletion has found and locks until its commit
    rowLock,    \* sessions whose row a rotation has locked
    loggedOut,  \* history: families that were logged out
    chosen,     \* history: the workspace last chosen in a family
    mixed,      \* history: families with a commit during another request on them
    rushed      \* history: a login or refresh ran while the account was deleted

sessionRows == <<made, revoked, expired, family, space>>
historyVars == <<loggedOut, chosen, mixed, rushed>>
sessionVars == <<account, made, revoked, expired, family, space, bpc, bsess, bspace, doomed,
                 rowLock, loggedOut, chosen, mixed, rushed>>

BrowserPC == {"idle", "login", "rotate", "rotating", "replayed", "logout", "delete", "deleting"}

SessionInit ==
    /\ account = "active"
    /\ made = {}
    /\ revoked = {}
    /\ expired = {}
    /\ family = [s \in Sessions |-> 0]
    /\ space = [s \in Sessions |-> Home]
    /\ bpc = [r \in Browsers |-> "idle"]
    /\ bsess = [r \in Browsers |-> 0]
    /\ bspace = [r \in Browsers |-> Home]
    /\ doomed = [r \in Browsers |-> {}]
    /\ rowLock = {}
    /\ loggedOut = {}
    /\ chosen = [f \in Sessions |-> Home]
    /\ mixed = {}
    /\ rushed = FALSE

\* refresh_session_is_active, and the conditions of get_bound_session.
Live(s) == s \in made \ (revoked \cup expired)

\* Rows nobody has locked.
Free(s) == s \notin rowLock /\ \A r \in Browsers : bpc[r] = "deleting" => s \notin doomed[r]

\* Some other request is in the middle of something on the family.
Crossing(r, f) ==
    \E q \in Browsers \ {r} : bsess[q] # 0 /\ bpc[q] \in {"rotate", "rotating", "logout"} /\ family[bsess[q]] = f

Mixed(r, f) == mixed' = IF Crossing(r, f) THEN mixed \cup {f} ELSE mixed

Deleting == \E q \in Browsers : bpc[q] \in {"delete", "deleting"}

BrowserIdle(r) ==
    /\ bpc' = [bpc EXCEPT ![r] = "idle"]
    /\ bsess' = [bsess EXCEPT ![r] = 0]
    /\ bspace' = [bspace EXCEPT ![r] = Home]

\* A refresh that ends although its token had been replaced or revoked.
Replayed(r) ==
    /\ bpc' = [bpc EXCEPT ![r] = "replayed"]
    /\ bspace' = [bspace EXCEPT ![r] = Home]
    /\ UNCHANGED bsess

BeginRequest(r, s, what) ==
    /\ bpc[r] = "idle"
    /\ bpc' = [bpc EXCEPT ![r] = what]
    /\ bsess' = [bsess EXCEPT ![r] = s]
    /\ bspace' = [bspace EXCEPT ![r] = IF what = "rotate" THEN space[s] ELSE Home]
    /\ UNCHANGED <<account, sessionRows, doomed, rowLock, historyVars>>

\* create_refresh_session_record: a new row, of a new family unless one is given.
NewSession(f, w) ==
    LET s == Cardinality(made) + 1
    IN  /\ s \in Sessions
        /\ made' = made \cup {s}
        /\ family' = [family EXCEPT ![s] = IF f = 0 THEN s ELSE f]
        /\ space' = [space EXCEPT ![s] = w]

-----------------------------------------------------------------------------
(* login_with_password                                                     *)

LoginCheck(r) ==
    /\ account = "active"
    /\ BeginRequest(r, 0, "login")

LoginCommit(r) ==
    /\ bpc[r] = "login"
    /\ NewSession(0, Home)
    /\ rushed' = (rushed \/ Deleting \/ account = "deleted")
    /\ BrowserIdle(r)
    /\ UNCHANGED <<account, revoked, expired, doomed, rowLock, loggedOut, chosen, mixed>>

-----------------------------------------------------------------------------
(* POST /refresh                                                           *)

\* get_refresh_session: no lock; origin and CSRF token are checked.
RefreshRead(r, s) ==
    /\ Live(s)
    /\ BeginRequest(r, s, "rotate")

\* A token of a row that is revoked already: the route answers that it is invalid.
RefreshReplay(r, s) ==
    /\ s \in revoked
    /\ BeginRequest(r, s, "replayed")

\* rotate_refresh_session: the row is locked, expiry and user are looked at; whether
\* the session was revoked is answered by the first read.
RotateLock(r) ==
    /\ bpc[r] = "rotate"
    /\ Free(bsess[r])
    /\ bsess[r] \notin expired
    /\ account = "active"
    /\ rowLock' = rowLock \cup {bsess[r]}
    /\ bpc' = [bpc EXCEPT ![r] = "rotating"]
    /\ UNCHANGED <<account, sessionRows, bsess, bspace, doomed, historyVars>>

RotateRefused(r) ==
    /\ bpc[r] = "rotate"
    /\ Free(bsess[r])
    /\ bsess[r] \in expired \/ account = "deleted"
    /\ BrowserIdle(r)
    /\ UNCHANGED <<account, sessionRows, doomed, rowLock, historyVars>>

\* Mutant: the replacement starts in the user's first workspace.
ReplacementSpaceHome(r) == Home

\* The replacement keeps the workspace of the session as it was first read.
ReplacementSpace(r) == bspace[r]

\* Mutant: the replaced session is not revoked.
RotateCommitKeeps(r) ==
    /\ bpc[r] = "rotating"
    /\ NewSession(family[bsess[r]], ReplacementSpace(r))
    /\ rowLock' = rowLock \ {bsess[r]}
    /\ Mixed(r, family[bsess[r]])
    /\ rushed' = (rushed \/ Deleting \/ account = "deleted")
    /\ BrowserIdle(r)
    /\ UNCHANGED <<account, revoked, expired, doomed, loggedOut, chosen>>

\* The replacement is inserted and the old session revoked in one commit, also when another
\* request revoked it after the first read: a replay that is taken for a refresh.
RotateCommit(r) ==
    /\ bpc[r] = "rotating"
    /\ NewSession(family[bsess[r]], ReplacementSpace(r))
    /\ revoked' = revoked \cup {bsess[r]}
    /\ rowLock' = rowLock \ {bsess[r]}
    /\ Mixed(r, family[bsess[r]])
    /\ rushed' = (rushed \/ Deleting \/ account = "deleted")
    /\ IF bsess[r] \in revoked THEN Replayed(r) ELSE BrowserIdle(r)
    /\ UNCHANGED <<account, expired, doomed, loggedOut, chosen>>

\* The answer to a replay has reached the browser.
ReplayAnswered(r) ==
    /\ bpc[r] = "replayed"
    /\ BrowserIdle(r)
    /\ UNCHANGED <<account, sessionRows, doomed, rowLock, historyVars>>

-----------------------------------------------------------------------------
(* POST /logout and PATCH /session/workspace                               *)

LogoutRead(r, s) ==
    /\ Live(s)
    /\ BeginRequest(r, s, "logout")

\* Mutant: the cookies are cleared, the row stays.
LogoutCommitCookies(r) ==
    /\ bpc[r] = "logout"
    /\ loggedOut' = loggedOut \cup {family[bsess[r]]}
    /\ Mixed(r, family[bsess[r]])
    /\ BrowserIdle(r)
    /\ UNCHANGED <<account, sessionRows, doomed, rowLock, chosen, rushed>>

\* revoke_refresh_session or revoke_auth_session: an update that waits for the row.
LogoutCommit(r) ==
    /\ bpc[r] = "logout"
    /\ Free(bsess[r])
    /\ revoked' = revoked \cup {bsess[r]}
    /\ loggedOut' = loggedOut \cup {family[bsess[r]]}
    /\ Mixed(r, family[bsess[r]])
    /\ BrowserIdle(r)
    /\ UNCHANGED <<account, made, expired, family, space, doomed, rowLock, chosen, rushed>>

\* switch_session_workspace: one conditional update.
SwitchWorkspace(r, s, w) ==
    /\ bpc[r] = "idle"
    /\ Live(s) /\ account = "active"
    /\ Free(s)
    /\ space[s] # w
    /\ space' = [space EXCEPT ![s] = w]
    /\ chosen' = [chosen EXCEPT ![family[s]] = w]
    /\ Mixed(r, family[s])
    /\ UNCHANGED <<account, made, revoked, expired, family, bpc, bsess, bspace, doomed, rowLock,
                   loggedOut, rushed>>

-----------------------------------------------------------------------------
(* DELETE /account: delete_user_account                                    *)

\* The session is checked; the first update finds the rows that are not revoked.
DeleteStart(r, s) ==
    /\ bpc[r] = "idle"
    /\ Live(s) /\ account = "active"
    /\ bpc' = [bpc EXCEPT ![r] = "delete"]
    /\ bsess' = [bsess EXCEPT ![r] = s]
    /\ doomed' = [doomed EXCEPT ![r] = made \ revoked]
    /\ rushed' = (rushed \/ \E q \in Browsers : bpc[q] \in {"login", "rotate", "rotating"})
    /\ UNCHANGED <<account, sessionRows, bspace, rowLock, loggedOut, chosen, mixed>>

\* Mutant: nothing is revoked.
DoomedNone(r) == {}

\* It waits for locked rows and passes over those that were revoked meanwhile.
Doomed(r) == doomed[r] \ revoked

DeleteRevoke(r) ==
    /\ bpc[r] = "delete"
    /\ \A s \in doomed[r] : Free(s)
    /\ doomed' = [doomed EXCEPT ![r] = Doomed(r)]
    /\ bpc' = [bpc EXCEPT ![r] = "deleting"]
    /\ UNCHANGED <<account, sessionRows, bsess, bspace, rowLock, historyVars>>

\* Identities and credentials are retired, the user deactivated; one commit.
DeleteCommit(r) ==
    /\ bpc[r] = "deleting"
    /\ account' = "deleted"
    /\ revoked' = revoked \cup doomed[r]
    /\ doomed' = [doomed EXCEPT ![r] = {}]
    /\ rushed' = (rushed \/ \E q \in Browsers : bpc[q] \in {"login", "rotate", "rotating"})
    /\ BrowserIdle(r)
    /\ UNCHANGED <<made, expired, family, space, rowLock, loggedOut, chosen, mixed>>

-----------------------------------------------------------------------------
\* The lifetime of a refresh token ends.
ExpireSession(s) ==
    /\ Live(s)
    /\ s \leq MaxExpired
    /\ expired' = expired \cup {s}
    /\ UNCHANGED <<account, made, revoked, family, space, bpc, bsess, bspace, doomed, rowLock,
                   historyVars>>

\* A request dies; its transaction is rolled back and its locks are gone.
BrowserDies(r) ==
    /\ bpc[r] \notin {"idle", "replayed"}
    /\ rowLock' = IF bpc[r] = "rotating" THEN rowLock \ {bsess[r]} ELSE rowLock
    /\ doomed' = [doomed EXCEPT ![r] = {}]
    /\ BrowserIdle(r)
    /\ UNCHANGED <<account, sessionRows, historyVars>>

SessionNext ==
    \/ \E r \in Browsers :
        \/ LoginCheck(r) \/ LoginCommit(r)
        \/ RotateLock(r) \/ RotateRefused(r) \/ RotateCommit(r) \/ ReplayAnswered(r)
        \/ LogoutCommit(r) \/ DeleteRevoke(r) \/ DeleteCommit(r) \/ BrowserDies(r)
    \/ \E r \in Browsers, s \in Sessions :
        \/ RefreshRead(r, s) \/ RefreshReplay(r, s)
        \/ LogoutRead(r, s) \/ DeleteStart(r, s)
    \/ \E r \in Browsers, s \in Sessions, w \in Workspaces : SwitchWorkspace(r, s, w)
    \/ \E s \in Sessions : ExpireSession(s)

SessionSpec == SessionInit /\ [][SessionNext]_sessionVars

-----------------------------------------------------------------------------
\* The rows, the requests and their history have their types, and only rows that exist
\* are revoked, expired, locked or logged out.
SessionTypeOK ==
    /\ account \in {"active", "deleted"}
    /\ made \subseteq Sessions
    /\ revoked \subseteq made /\ expired \subseteq made /\ rowLock \subseteq made
    /\ family \in [Sessions -> 0..MaxSession]
    /\ space \in [Sessions -> Workspaces]
    /\ bpc \in [Browsers -> BrowserPC]
    /\ bsess \in [Browsers -> 0..MaxSession]
    /\ bspace \in [Browsers -> Workspaces]
    /\ doomed \in [Browsers -> SUBSET made]
    /\ loggedOut \subseteq made /\ mixed \subseteq Sessions
    /\ chosen \in [Sessions -> Workspaces]
    /\ rushed \in BOOLEAN

\* A login has one live session, whose token each refresh replaces - unless a commit
\* on the family fell between the two reads of a refresh, which then goes by the first
\* (ReplayRevokesFamily is about these).
OneLivePerFamily ==
    \A s, t \in Sessions :
        Live(s) /\ Live(t) /\ family[s] = family[t] /\ s # t => family[s] \in mixed

\* After a logout no session of the login is live, however many refreshes came before
\* it, unless one of them was under way when the logout was committed.
LoggedOutStaysOut ==
    \A s \in Sessions : Live(s) /\ family[s] \in loggedOut => family[s] \in mixed

\* The workspace chosen last is the workspace of the live session, also after its
\* token was replaced, unless a refresh was under way when it was chosen.
SwitchIsKept ==
    \A s \in Sessions : Live(s) /\ family[s] \notin mixed => space[s] = chosen[family[s]]

\* A deleted account has no live session, unless a login or refresh was under way
\* when it was deleted (the update that revokes finds only the rows of its start).
DeletedHasNoSession ==
    account = "deleted" /\ ~rushed => \A s \in Sessions : ~Live(s)

\* Whatever refreshes, logouts, workspace switches and deletions came before: a login has one live
\* session, who logged out stays out, the workspace chosen last is kept, and a deleted user has
\* no session - except where the parts name a refresh that was under way meanwhile (the session routes of browser_router).
SessionSafety ==
    /\ SessionTypeOK
    /\ OneLivePerFamily
    /\ LoggedOutStaysOut
    /\ SwitchIsKept
    /\ DeletedHasNoSession

\* "Rotation is session-family aware; replay marks the family compromised and revokes it."
\* (README.md:190-191): when a token that was replaced or revoked has been presented and the
\* refresh has answered, no session of its family is live.  The refresh route does not see to it.
ReplayRevokesFamily ==
    \A r \in Browsers, s \in Sessions :
        bpc[r] = "replayed" /\ Live(s) => family[s] # family[bsess[r]]

=============================================================================
