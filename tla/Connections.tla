---------------------------- MODULE Connections ----------------------------
(***************************************************************************)
(* The connections of one workspace to X and to the GitHub App, and its     *)
(* repositories (app/modules/integrations/services): save_x_connection,     *)
(* disconnect, attach_github_installation, sync_github_repositories,        *)
(* update_repository_tracking, and the completion of the onboarding by      *)
(* complete_onboarding and by finalize_activation_and_start.                *)
(*                                                                         *)
(* save_x_connection reads its row without a lock.  The ORM writes only the *)
(* attributes it has changed: a row that was active when it was read keeps  *)
(* whatever status somebody has given it since, but gets the credentials.   *)
(***************************************************************************)
EXTENDS Naturals, FiniteSets

CONSTANTS
    Accounts,        \* X accounts
    Installations,   \* installations of the GitHub App
    Admins,          \* concurrent requests of the workspace's administrators
    NoAccount,       \* nothing
    MaxTracked,      \* bound: tracking_generation
    MaxSaves         \* bound: X connections that are saved

ASSUME ConnectionAssumption ==
    /\ NoAccount \notin Accounts \cup Installations \cup Admins
    /\ {MaxTracked, MaxSaves} \subseteq Nat

VARIABLES
    xrow,        \* integration_connections of X by account: status and credentials
    saves,       \* connections saved
    overlapped,  \* history: the rows changed between a read and a save
    apc,         \* what an administrator's request does next
    afor,        \* the account or installation it is about
    aread,       \* the status it has read
    agen,        \* the generation it has read
    repoLock,    \* the request that holds the repository's row
    installs,    \* rows of provider github_app, by the installation of their key
    installed,   \* the installation each of them names now
    gitCrossed,  \* history: two attachments looked before either inserted
    repoRow,     \* the repository is known
    tracked,     \* repos.is_tracked
    generation,  \* repos.tracking_generation
    enabledEvents, \* product events repository_monitoring_enabled, by generation
    enablings,   \* history: commits that made the repository tracked
    assigned,    \* the repository belongs to a product with an approved profile
    onboarded,   \* workspaces.onboarding_completed
    generations, \* onboarding generations that were triggered
    unheard,     \* completions whose trigger raised or was not reached
    activated    \* history: finalize_activation_and_start completed the onboarding

xConnVars == <<xrow, saves, overlapped>>
adminVars == <<apc, afor, aread, agen, repoLock>>
gitVars == <<installs, installed, gitCrossed>>
repoVars == <<repoRow, tracked, generation, enabledEvents, enablings, assigned>>
onboardVars == <<onboarded, generations, unheard, activated>>
connectionVars == <<xrow, saves, overlapped, apc, afor, aread, agen, repoLock, installs, installed, gitCrossed,
                    repoRow, tracked, generation, enabledEvents, enablings, assigned, onboarded,
                    generations, unheard, activated>>

\* "active" and "revoked" (with deleted_at) are the statuses X connections take.
XRow == [status : {"none", "active", "revoked"}, secret : BOOLEAN]
NoRow == [status |-> "none", secret |-> FALSE]

ConnectionInit ==
    /\ xrow = [a \in Accounts |-> NoRow]
    /\ saves = 0
    /\ overlapped = FALSE
    /\ apc = [d \in Admins |-> "idle"]
    /\ afor = [d \in Admins |-> NoAccount]
    /\ aread = [d \in Admins |-> "none"]
    /\ agen = [d \in Admins |-> 0]
    /\ repoLock = NoAccount
    /\ installs = {}
    /\ installed = [i \in Installations |-> NoAccount]
    /\ gitCrossed = FALSE
    /\ repoRow = FALSE
    /\ tracked = FALSE
    /\ generation = 0
    /\ enabledEvents = {}
    /\ enablings = 0
    /\ assigned = FALSE
    /\ onboarded = FALSE
    /\ generations = 0
    /\ unheard = 0
    /\ activated = FALSE

AdminIdle(d) ==
    /\ apc' = [apc EXCEPT ![d] = "idle"]
    /\ afor' = [afor EXCEPT ![d] = NoAccount]
    /\ aread' = [aread EXCEPT ![d] = "none"]
    /\ agen' = [agen EXCEPT ![d] = 0]
    /\ repoLock' = IF repoLock = d THEN NoAccount ELSE repoLock

\* Another request is between its read and its save.
Saving(d) == \E e \in Admins \ {d} : apc[e] = "save"

-----------------------------------------------------------------------------
(* X                                                                       *)

\* The callback has exchanged its code; save_x_connection looks for the account's row.
SaveXRead(d, a) ==
    /\ apc[d] = "idle"
    /\ saves < MaxSaves
    /\ saves' = saves + 1
    /\ apc' = [apc EXCEPT ![d] = "save"]
    /\ afor' = [afor EXCEPT ![d] = a]
    /\ aread' = [aread EXCEPT ![d] = xrow[a].status]
    /\ UNCHANGED <<agen, repoLock, xrow, overlapped, gitVars, repoVars, onboardVars>>

\* The row a connection without credentials is left with.
Revoked(row) == IF row.status = "active" THEN [status |-> "revoked", secret |-> FALSE] ELSE row

\* Mutant: connections to other accounts stay.
OthersKept(a) == [b \in Accounts |-> xrow[b]]

\* The update that revokes the workspace's other accounts.
OthersRevoked(a) == [b \in Accounts |-> IF b = a THEN xrow[b] ELSE Revoked(xrow[b])]

\* Attributes that were read as they are to be are not written.
Saved(row, read) ==
    [status |-> IF read = "active" THEN row.status ELSE "active", secret |-> TRUE]

\* Other accounts are revoked, the account's row is inserted or written; one commit.
\* A second insert of one account is refused by the unique key.
SaveXCommit(d) ==
    /\ apc[d] = "save"
    /\ IF aread[d] = "none" /\ xrow[afor[d]].status # "none"
         THEN xrow' = xrow
         ELSE xrow' = [OthersRevoked(afor[d]) EXCEPT ![afor[d]] = Saved(@, aread[d])]
    /\ overlapped' = (overlapped \/ Saving(d))
    /\ AdminIdle(d)
    /\ UNCHANGED <<saves, gitVars, repoVars, onboardVars>>

\* Mutant: the credentials are not erased.
RevokedKeepsSecret(row) == [row EXCEPT !.status = IF @ = "none" THEN "none" ELSE "revoked"]

\* revoke_local_credentials
Disconnected(row) == Revoked(row)

\* disconnect_x_integration: every connection that is not deleted.
DisconnectX(d) ==
    /\ apc[d] = "idle"
    /\ \E a \in Accounts : xrow[a].status = "active"
    /\ xrow' = [a \in Accounts |-> Disconnected(xrow[a])]
    /\ overlapped' = (overlapped \/ Saving(d))
    /\ UNCHANGED <<saves, adminVars, gitVars, repoVars, onboardVars>>

-----------------------------------------------------------------------------
(* GitHub App and repositories                                             *)

\* attach_github_installation looks for the workspace's row without a lock.
AttachRead(d, i) ==
    /\ apc[d] = "idle"
    /\ apc' = [apc EXCEPT ![d] = "attach"]
    /\ afor' = [afor EXCEPT ![d] = i]
    /\ aread' = [aread EXCEPT ![d] = IF installs = {} THEN "none" ELSE "active"]
    /\ gitCrossed' = (gitCrossed \/ \E e \in Admins : apc[e] = "attach")
    /\ UNCHANGED <<agen, repoLock, xConnVars, installs, installed, repoVars, onboardVars>>

\* Mutant: a row is inserted for every attachment.
InsertsAlways(d) == afor[d] \notin installs

InsertsInstallation(d) == aread[d] = "none" /\ afor[d] \notin installs

\* A row is inserted, under a key of its installation, or the first one is rewritten;
\* a key that exists raises.
AttachCommit(d) ==
    /\ apc[d] = "attach"
    /\ \/ /\ InsertsInstallation(d)
          /\ installs' = installs \cup {afor[d]}
          /\ installed' = [installed EXCEPT ![afor[d]] = afor[d]]
       \/ /\ ~InsertsInstallation(d) /\ aread[d] = "active"
          /\ \E i \in installs : installed' = [installed EXCEPT ![i] = afor[d]]
          /\ installs' = installs
       \/ /\ aread[d] = "none" /\ afor[d] \in installs
          /\ UNCHANGED <<installs, installed>>
    /\ AdminIdle(d)
    /\ UNCHANGED <<xConnVars, gitCrossed, repoVars, onboardVars>>

\* sync_github_repositories: a new repository is not tracked, one that is known stays as it is.
SyncRepositories ==
    /\ installs # {} /\ ~repoRow
    /\ repoRow' = TRUE
    /\ UNCHANGED <<xConnVars, adminVars, gitVars, tracked, generation, enabledEvents, enablings,
                   assigned, onboardVars>>

\* Mutant: the repository is read without a lock.
TrackReadUnlocked(d, on) ==
    /\ apc[d] = "idle"
    /\ repoRow
    /\ apc' = [apc EXCEPT ![d] = IF on THEN "track" ELSE "untrack"]
    /\ aread' = [aread EXCEPT ![d] = IF tracked THEN "active" ELSE "none"]
    /\ agen' = [agen EXCEPT ![d] = generation]
    /\ UNCHANGED <<afor, repoLock, xConnVars, gitVars, repoVars, onboardVars>>

\* update_repository_tracking reads the repository FOR UPDATE.
TrackRead(d, on) ==
    /\ apc[d] = "idle"
    /\ repoRow
    /\ repoLock = NoAccount
    /\ repoLock' = d
    /\ apc' = [apc EXCEPT ![d] = IF on THEN "track" ELSE "untrack"]
    /\ aread' = [aread EXCEPT ![d] = IF tracked THEN "active" ELSE "none"]
    /\ agen' = [agen EXCEPT ![d] = generation]
    /\ UNCHANGED <<afor, xConnVars, gitVars, repoVars, onboardVars>>

\* From untracked to tracked is a new generation, whose event is written with it.
TrackCommit(d) ==
    /\ apc[d] \in {"track", "untrack"}
    /\ LET on == apc[d] = "track"
           enabling == on /\ aread[d] = "none"
       IN  /\ enabling => agen[d] < MaxTracked
           /\ tracked' = on
           /\ generation' = IF enabling THEN agen[d] + 1 ELSE agen[d]
           /\ enabledEvents' = IF enabling THEN enabledEvents \cup {agen[d] + 1} ELSE enabledEvents
           /\ enablings' = IF ~tracked /\ on THEN enablings + 1 ELSE enablings
    /\ AdminIdle(d)
    /\ UNCHANGED <<xConnVars, gitVars, repoRow, assigned, onboardVars>>

\* The repository is put into or taken out of a product with an approved profile.
AssignRepository(on) ==
    /\ repoRow /\ assigned # on
    /\ assigned' = on
    /\ UNCHANGED <<xConnVars, adminVars, gitVars, repoRow, tracked, generation, enabledEvents,
                   enablings, onboardVars>>

-----------------------------------------------------------------------------
(* The two writers of workspaces.onboarding_completed.                     *)

\* get_onboarding_status
OnboardingReady == installs # {} /\ repoRow /\ tracked /\ assigned

CompleteRead(d) ==
    /\ apc[d] = "idle"
    /\ OnboardingReady
    /\ apc' = [apc EXCEPT ![d] = "complete"]
    /\ UNCHANGED <<xConnVars, afor, aread, agen, repoLock, gitVars, repoVars, onboardVars>>

\* Mutant: completing again counts as completing.
NewlyCompletedAlways == TRUE

\* The update only finds a workspace that is not completed.
NewlyCompleted == ~onboarded

CompleteCommit(d) ==
    /\ apc[d] = "complete"
    /\ onboarded' = TRUE
    /\ unheard' = IF NewlyCompleted THEN unheard + 1 ELSE unheard
    /\ IF NewlyCompleted
         THEN apc' = [apc EXCEPT ![d] = "trigger"] /\ UNCHANGED <<afor, aread, agen, repoLock>>
         ELSE AdminIdle(d)
    /\ UNCHANGED <<xConnVars, gitVars, repoVars, generations, activated>>

\* The trigger is best effort: what it raises is logged and nothing tries again.
TriggerGeneration(d) ==
    /\ apc[d] = "trigger"
    /\ \/ generations' = generations + 1 /\ unheard' = unheard - 1
       \/ UNCHANGED <<generations, unheard>>
    /\ AdminIdle(d)
    /\ UNCHANGED <<xConnVars, gitVars, repoVars, onboarded, activated>>

\* finalize_activation_and_start sets the same flag, under the workspace's lock; what it
\* asks for is RunReadiness's, and it triggers no generation.  To set it again changes nothing.
ActivationOnboards ==
    /\ ~onboarded
    /\ onboarded' = TRUE
    /\ activated' = TRUE
    /\ UNCHANGED <<xConnVars, adminVars, gitVars, repoVars, generations, unheard>>

AdminDies(d) ==
    /\ apc[d] # "idle"
    /\ AdminIdle(d)
    /\ UNCHANGED <<xConnVars, gitVars, repoVars, onboardVars>>

ConnectionNext ==
    \/ \E d \in Admins :
        \/ SaveXCommit(d) \/ DisconnectX(d) \/ AttachCommit(d) \/ TrackCommit(d)
        \/ CompleteRead(d) \/ CompleteCommit(d) \/ TriggerGeneration(d) \/ AdminDies(d)
    \/ \E d \in Admins, a \in Accounts : SaveXRead(d, a)
    \/ \E d \in Admins, i \in Installations : AttachRead(d, i)
    \/ \E d \in Admins, on \in BOOLEAN : TrackRead(d, on)
    \/ \E on \in BOOLEAN : AssignRepository(on)
    \/ SyncRepositories \/ ActivationOnboards

ConnectionSpec == ConnectionInit /\ [][ConnectionNext]_connectionVars

-----------------------------------------------------------------------------
\* The rows and the requests have their types.
ConnectionTypeOK ==
    /\ xrow \in [Accounts -> XRow]
    /\ saves \in 0..MaxSaves
    /\ {overlapped, gitCrossed, repoRow, tracked, assigned, onboarded, activated} \subseteq BOOLEAN
    /\ apc \in [Admins -> {"idle", "save", "attach", "track", "untrack", "complete", "trigger"}]
    /\ afor \in [Admins -> Accounts \cup Installations \cup {NoAccount}]
    /\ aread \in [Admins -> {"none", "active", "revoked"}]
    /\ agen \in [Admins -> 0..MaxTracked]
    /\ repoLock \in Admins \cup {NoAccount}
    /\ installs \subseteq Installations
    /\ installed \in [Installations -> Installations \cup {NoAccount}]
    /\ generation \in 0..MaxTracked
    /\ enabledEvents \subseteq 1..generation
    /\ {enablings, generations, unheard} \subseteq Nat

\* A workspace posts as one X account: saving a connection revokes the others, unless
\* two callbacks overlapped, neither of which sees the other's row.
OneXAccount ==
    Cardinality({a \in Accounts : xrow[a].status = "active"}) > 1 => overlapped

\* Only an active connection holds credentials, however often it is revoked and saved
\* again; a save that overlaps a revocation may leave them on a revoked row.
SecretIffActive ==
    ~overlapped => \A a \in Accounts : xrow[a].secret <=> xrow[a].status = "active"

\* A workspace has one GitHub connection, whatever installations it is moved to, unless
\* two attachments looked for it before either inserted it.
OneInstallation == Cardinality(installs) > 1 => gitCrossed

\* Each time a repository becomes tracked is a generation of its own with its own event,
\* also when two requests switch the tracking at the same time.
EventPerGeneration == enabledEvents = 1..generation /\ enablings = generation

\* However many requests complete the onboarding, generation is triggered at most once.
\* It is only missing when the trigger raised, when the request died before it, or when
\* finalize_activation_and_start came first: then no later completion triggers it either.
GenerationTriggeredOnce ==
    /\ generations + unheard = IF onboarded /\ ~activated THEN 1 ELSE 0
    /\ activated => onboarded

\* Callbacks, disconnects and administrators that overlap: but for the crossings its parts
\* name, one active X account, which alone has its secret, one GitHub
\* connection, one event of every tracking generation, and one first generation of an onboarding that
\* complete_onboarding completed (x_connection_callback, attach_github_installation,
\* update_repository_tracking, complete_onboarding, finalize_activation_and_start).
ConnectionSafety ==
    /\ ConnectionTypeOK
    /\ OneXAccount
    /\ SecretIffActive
    /\ OneInstallation
    /\ EventPerGeneration
    /\ GenerationTriggeredOnce

=============================================================================
