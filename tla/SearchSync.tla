----------------------------- MODULE SearchSync -----------------------------
(***************************************************************************)
(* Search metrics of one product (app/modules/search_intelligence): the     *)
(* connection to the provider, the selected sources, and the sync runs that *)
(* store a source's metrics day by day.                                     *)
(*                                                                         *)
(* A source has at most one run that is pending or running (a unique index, *)
(* and the lock request_search_sync takes on the source), so the module     *)
(* keeps the latest run of each source and the keys that were used.  A      *)
(* worker owns its run through a lease of which every persisted day is a    *)
(* renewal.  Days are numbers; the window lengths are parameters.           *)
(***************************************************************************)
EXTENDS Naturals, FiniteSets

CONSTANTS
    Syncers,      \* executions of SearchSyncService.process
    NoSyncer,     \* no lease
    MaxSource,    \* bound: sources followed; the product may also switch to others
    InitialDays,  \* INITIAL_DAYS
    OverlapDays,  \* CORRECTION_OVERLAP_DAYS
    MaxDays,      \* MAX_SYNC_DAYS
    Lag,          \* finalization_lag_days of the provider
    FirstDay,     \* the day the product is connected
    FinalDay,     \* bound: the clock, from FirstDay on
    MaxGrants,    \* bound: authorizations and token refreshes
    SyncTries,    \* executions Inngest starts for a run (1 + retries)
    MaxHands,     \* bound: syncs requested by hand
    MaxUpsets     \* bound: deaths, lost leases, provider errors, rejections and disconnections

ASSUME SearchAssumption ==
    /\ NoSyncer \notin Syncers
    /\ {MaxSource, InitialDays, OverlapDays, MaxDays, Lag, FirstDay, FinalDay, MaxGrants,
        SyncTries, MaxHands, MaxUpsets} \subseteq Nat
    /\ InitialDays > 0 /\ OverlapDays > 0
    /\ FirstDay >= Lag + InitialDays /\ InitialDays <= MaxDays
    /\ FirstDay <= FinalDay

Sources == 1..MaxSource

VARIABLES
    clock,       \* today in the reporting time zone
    conn,        \* status of the connection
    grantNo,     \* number of the credentials it has: every authorization and refresh writes new ones
    rejected,    \* credentials the provider has rejected
    late,        \* history: credentials were replaced while a sync was using them
    src,         \* search_sources.status
    chosenOn,    \* selected_at
    latest,      \* latest_successful_data_date, 0 without one
    stored,      \* days whose metrics are stored
    job,         \* the latest search_sync_run of a source
    usedKeys,    \* idempotency keys of a source's runs
    hands,       \* syncs requested by hand
    switched,    \* history: sources another one has taken the place of
    announced,   \* sources whose event search_property_selected is stored
    upsets,      \* disturbances so far
    selecting,   \* the source whose selection is between its two commits, 0 without one
    ypc,         \* what an execution does next
    yrun,        \* the source and the key of its run
    yday,        \* the day it fetches
    ygrant       \* the credentials it uses

connVars == <<conn, grantNo, rejected, late>>
sourceVars == <<src, chosenOn, switched, announced, selecting>>
syncerVars == <<ypc, yrun, yday, ygrant>>
searchVars == <<clock, conn, grantNo, rejected, late, src, chosenOn, latest, stored, job, usedKeys,
                hands, upsets, switched, announced, selecting, ypc, yrun, yday, ygrant>>

\* Keys are initial:{source}, scheduled:{source}:{cutoff}, and what a user sends.
NoKey == <<"none", 0>>
SyncKeys == ({"initial"} \X {0}) \cup ({"scheduled"} \X (0..FinalDay)) \cup ({"manual"} \X (1..MaxHands))
RunState == {"none", "pending", "running", "succeeded", "failed", "cancelled"}
NoJob == [status |-> "none", key |-> NoKey, from |-> 0, to |-> 0, progress |-> 0,
          owner |-> NoSyncer, leased |-> FALSE, tries |-> 0]
NoYRun == [source |-> 0, key |-> NoKey]

SearchInit ==
    /\ clock = FirstDay
    /\ conn = "none"
    /\ grantNo = 0
    /\ rejected = {}
    /\ late = FALSE
    /\ src = [s \in Sources |-> "none"]
    /\ chosenOn = [s \in Sources |-> 0]
    /\ latest = [s \in Sources |-> 0]
    /\ stored = [s \in Sources |-> {}]
    /\ job = [s \in Sources |-> NoJob]
    /\ usedKeys = [s \in Sources |-> {}]
    /\ hands = 0
    /\ upsets = 0
    /\ switched = {}
    /\ announced = {}
    /\ selecting = 0
    /\ ypc = [y \in Syncers |-> "idle"]
    /\ yrun = [y \in Syncers |-> NoYRun]
    /\ yday = [y \in Syncers |-> 0]
    /\ ygrant = [y \in Syncers |-> 0]

Active(s) == job[s].status \in {"pending", "running"}
Upset == upsets < MaxUpsets /\ upsets' = upsets + 1

\* Mutant: runs of a source that is disconnected go on.
CancelledNone(S) == job

\* cancel_active_runs
Cancelled(S) ==
    [s \in Sources |->
        IF s \in S /\ Active(s)
          THEN [job[s] EXCEPT !.status = "cancelled", !.owner = NoSyncer, !.leased = FALSE]
          ELSE job[s]]

DisconnectedIn(S) == [s \in Sources |-> IF s \in S THEN "disconnected" ELSE src[s]]
ActiveSources == {s \in Sources : src[s] = "active"}

-----------------------------------------------------------------------------
(* The connection.                                                         *)

\* Some execution of Y has taken the credentials and goes on with them.
UsedBy(Y) == \E y \in Y : ypc[y] \in {"fetch", "expire"}

\* The connection gets other credentials; executions of Y may use the former ones.
Replaces(Y) ==
    /\ grantNo < MaxGrants
    /\ grantNo' = grantNo + 1
    /\ late' = (late \/ UsedBy(Y))

\* save_connection_and_properties after a callback; another account takes the
\* sources of the former one with it.
SaveSearchConnection(sameAccount) ==
    /\ Replaces(Syncers)
    /\ conn' = "active"
    /\ IF sameAccount \/ conn = "none" THEN UNCHANGED <<src, job>>
       ELSE src' = DisconnectedIn(ActiveSources) /\ job' = Cancelled(ActiveSources)
    /\ UNCHANGED <<upsets, clock, rejected, chosenOn, latest, stored, usedKeys, hands, switched, announced,
                   selecting, syncerVars>>

\* refresh_properties: the provider rejects the refresh token.
RefreshRejected ==
    /\ Upset
    /\ conn = "active"
    /\ conn' = "expired"
    /\ rejected' = rejected \cup {grantNo}
    /\ UNCHANGED <<clock, grantNo, late, sourceVars, latest, stored, job, usedKeys, hands, syncerVars>>

\* refresh_properties: the token was near its end, and the provider issues another.  (One
\* that is still good is written again as it is.)
RefreshSucceeds ==
    /\ conn = "active"
    /\ Replaces(Syncers)
    /\ UNCHANGED <<upsets, clock, conn, rejected, sourceVars, latest, stored, job, usedKeys, hands, syncerVars>>

\* revoke_workspace_provider
RevokeProvider ==
    /\ Upset
    /\ conn \in {"active", "expired"}
    /\ conn' = "revoked"
    /\ src' = DisconnectedIn(ActiveSources)
    /\ job' = Cancelled(ActiveSources)
    /\ UNCHANGED <<clock, grantNo, rejected, late, chosenOn, latest, stored, usedKeys, hands,
                   switched, announced, selecting, syncerVars>>

-----------------------------------------------------------------------------
(* Selection of a property.                                                *)

NewJob(key, from, to) == [NoJob EXCEPT !.status = "pending", !.key = key, !.from = from, !.to = to]

\* select_property up to the commit inside request_search_sync: a source that is
\* replaced is disconnected, but its run is not cancelled.
SelectProperty(s) ==
    /\ conn \in {"active", "expired"}
    /\ selecting = 0
    /\ src[s] = "none" /\ \A t \in 1..(s - 1) : src[t] # "none"
    /\ src' = [DisconnectedIn(ActiveSources) EXCEPT ![s] = "active"]
    /\ switched' = switched \cup ActiveSources
    /\ chosenOn' = [chosenOn EXCEPT ![s] = clock]
    /\ job' = [job EXCEPT ![s] = NewJob(<<"initial", 0>>, clock - Lag - InitialDays + 1, clock - Lag)]
    /\ usedKeys' = [usedKeys EXCEPT ![s] = @ \cup {<<"initial", 0>>}]
    /\ selecting' = s
    /\ UNCHANGED <<upsets, clock, connVars, latest, stored, hands, announced, syncerVars>>

\* The same for a property outside Sources.
SelectElsewhere ==
    /\ Upset
    /\ conn \in {"active", "expired"}
    /\ selecting = 0
    /\ ActiveSources # {}
    /\ src' = DisconnectedIn(ActiveSources)
    /\ switched' = switched \cup ActiveSources
    /\ UNCHANGED <<clock, connVars, chosenOn, latest, stored, job, usedKeys, hands, announced,
                   selecting, syncerVars>>

\* The event is written and committed after that.
WriteSelectedEvent ==
    /\ selecting # 0
    /\ announced' = announced \cup {selecting}
    /\ selecting' = 0
    /\ UNCHANGED <<upsets, clock, connVars, src, chosenOn, latest, stored, job, usedKeys, hands, switched,
                   syncerVars>>

SelectionDies ==
    /\ Upset
    /\ selecting # 0
    /\ selecting' = 0
    /\ UNCHANGED <<clock, connVars, src, chosenOn, latest, stored, job, usedKeys, hands, switched,
                   announced, syncerVars>>

\* disconnect_product_source
DisconnectSource(s) ==
    /\ Upset
    /\ src[s] = "active"
    /\ src' = DisconnectedIn({s})
    /\ job' = Cancelled({s})
    /\ UNCHANGED <<clock, connVars, chosenOn, latest, stored, usedKeys, hands, switched, announced,
                   selecting, syncerVars>>

-----------------------------------------------------------------------------
(* request_search_sync for manual and scheduled runs.                      *)

Cutoff == clock - Lag

\* Mutant: a run starts with the last day that is final.
WindowStartCutoff(s) == Cutoff

\* search_sync_window
WindowStart(s) ==
    IF latest[s] = 0 \/ latest[s] + 1 - OverlapDays <= chosenOn[s] THEN chosenOn[s]
    ELSE latest[s] + 1 - OverlapDays

\* An empty window or an active run is a conflict, a long window a bad request.
RequestSync(s, key) ==
    /\ src[s] = "active"
    /\ WindowStart(s) <= Cutoff
    /\ Cutoff - WindowStart(s) + 1 <= MaxDays
    /\ key \notin usedKeys[s]
    /\ ~Active(s)
    /\ job' = [job EXCEPT ![s] = NewJob(key, WindowStart(s), Cutoff)]
    /\ usedKeys' = [usedKeys EXCEPT ![s] = @ \cup {key}]

RequestManualSync(s) ==
    /\ hands < MaxHands
    /\ hands' = hands + 1
    /\ RequestSync(s, <<"manual", hands + 1>>)
    /\ UNCHANGED <<upsets, clock, connVars, sourceVars, latest, stored, syncerVars>>

\* SearchSyncScheduler.schedule, for one source.
ScheduleSync(s) ==
    /\ conn = "active"
    /\ RequestSync(s, <<"scheduled", Cutoff>>)
    /\ UNCHANGED <<upsets, clock, connVars, sourceVars, latest, stored, hands, syncerVars>>

-----------------------------------------------------------------------------
(* SearchSyncService.process                                               *)

RunOf(y) == yrun[y].source
IsMine(y) ==
    /\ job[RunOf(y)].key = yrun[y].key
    /\ job[RunOf(y)].owner = y

SyncerIdle(y) ==
    /\ ypc' = [ypc EXCEPT ![y] = "idle"]
    /\ yrun' = [yrun EXCEPT ![y] = NoYRun]
    /\ yday' = [yday EXCEPT ![y] = 0]
    /\ ygrant' = [ygrant EXCEPT ![y] = 0]

Claimed(j, y) == [j EXCEPT !.status = "running", !.owner = y, !.leased = TRUE, !.tries = @ + 1]

\* _claim: a lease that is live makes the execution fail, to be tried again.
ClaimSync(y, s) ==
    /\ ypc[y] = "idle"
    /\ Active(s)
    /\ job[s].tries < SyncTries
    /\ IF job[s].leased
         THEN job' = [job EXCEPT ![s].tries = @ + 1] /\ UNCHANGED <<ypc, yrun>>
         ELSE /\ job' = [job EXCEPT ![s] = Claimed(@, y)]
              /\ ypc' = [ypc EXCEPT ![y] = "load"]
              /\ yrun' = [yrun EXCEPT ![y] = [source |-> s, key |-> job[s].key]]
    /\ UNCHANGED <<upsets, clock, connVars, sourceVars, latest, stored, usedKeys, hands, yday, ygrant>>

\* The day after the run's progress.
ResumeDay(j) == IF j.progress = 0 THEN j.from ELSE j.progress + 1

\* load_processing_context and _usable_grant: source, connection and progress are
\* read once; a token near its end is refreshed, which may be rejected.
LoadContext(y) ==
    /\ ypc[y] = "load"
    /\ yday' = [yday EXCEPT ![y] = ResumeDay(job[RunOf(y)])]
    /\ ygrant' = [ygrant EXCEPT ![y] = grantNo]
    /\ \/ /\ src[RunOf(y)] = "active" /\ conn = "active"
          /\ \/ ypc' = [ypc EXCEPT ![y] = "fetch"] /\ UNCHANGED <<rejected, upsets>>
             \/ /\ grantNo < MaxGrants
                /\ ypc' = [ypc EXCEPT ![y] = "renew"] /\ UNCHANGED <<rejected, upsets>>
             \/ ypc' = [ypc EXCEPT ![y] = "expire"] /\ rejected' = rejected \cup {grantNo} /\ Upset
       \/ /\ ~(src[RunOf(y)] = "active" /\ conn = "active")
          /\ ypc' = [ypc EXCEPT ![y] = "fail"] /\ UNCHANGED <<rejected, upsets>>
    /\ UNCHANGED <<clock, conn, grantNo, late, sourceVars, latest, stored, job, usedKeys, hands, yrun>>

\* The rest of _usable_grant: the new token is written over whatever credentials an
\* active connection has by then, those of a later authorization too.
RenewGrant(y) ==
    /\ ypc[y] = "renew"
    /\ IF conn = "active"
         THEN /\ Replaces(Syncers \ {y})
              /\ ygrant' = [ygrant EXCEPT ![y] = grantNo + 1]
              /\ ypc' = [ypc EXCEPT ![y] = "fetch"]
         ELSE ypc' = [ypc EXCEPT ![y] = "fail"] /\ UNCHANGED <<grantNo, late, ygrant>>
    /\ UNCHANGED <<upsets, clock, conn, rejected, sourceVars, latest, stored, job, usedKeys, hands, yrun, yday>>

\* Mutant: the last day is not part of the window.
NoDayLeftEarly(y) == yday[y] >= job[RunOf(y)].to

NoDayLeft(y) == yday[y] > job[RunOf(y)].to

\* The run is locked, running, and leased by this execution.
MayPersist(y) == IsMine(y) /\ job[RunOf(y)].status = "running"

\* _fetch, _fetch_query_pages and _persist_day: rows arrive; metrics, progress, lease
\* and the source's latest day in one commit.  Without the lease it raises, and the run
\* is left alone.  (The fetch itself reads nothing that others write.)
PersistDay(y) ==
    /\ ypc[y] = "fetch"
    /\ ~NoDayLeft(y)
    /\ LET s == RunOf(y) IN
       IF MayPersist(y)
         THEN /\ stored' = [stored EXCEPT ![s] = @ \cup {yday[y]}]
              /\ latest' = [latest EXCEPT ![s] = yday[y]]
              /\ job' = [job EXCEPT ![s].progress = yday[y], ![s].leased = TRUE]
              /\ yday' = [yday EXCEPT ![y] = @ + 1]
              /\ ypc' = [ypc EXCEPT ![y] = IF yday[y] < job[s].to THEN "fetch" ELSE "succeed"]
              /\ UNCHANGED <<yrun, ygrant>>
         ELSE SyncerIdle(y) /\ UNCHANGED <<stored, latest, job>>
    /\ UNCHANGED <<upsets, clock, connVars, sourceVars, usedKeys, hands>>

\* Nothing is left to fetch: an earlier execution stored the last day.
NothingLeft(y) ==
    /\ ypc[y] = "fetch"
    /\ NoDayLeft(y)
    /\ ypc' = [ypc EXCEPT ![y] = "succeed"]
    /\ UNCHANGED <<upsets, clock, connVars, sourceVars, latest, stored, job, usedKeys, hands, yrun, yday, ygrant>>

\* _succeed writes only as owner.
Succeed(y) ==
    /\ ypc[y] = "succeed"
    /\ LET s == RunOf(y) IN
       IF IsMine(y)
         THEN /\ job' = [job EXCEPT ![s].status = "succeeded", ![s].owner = NoSyncer, ![s].leased = FALSE]
              /\ latest' = [latest EXCEPT ![s] = job[s].to]
         ELSE UNCHANGED <<job, latest>>
    /\ SyncerIdle(y)
    /\ UNCHANGED <<upsets, clock, connVars, sourceVars, stored, usedKeys, hands>>

\* The run is given back.
Released(j) == [j EXCEPT !.status = "pending", !.owner = NoSyncer, !.leased = FALSE]

Failed(j) == [j EXCEPT !.status = "failed", !.owner = NoSyncer, !.leased = FALSE]

\* Mutant: every failure is taken for a rejection of the credentials.
ExpiresAlways(outcome) == TRUE

ExpiresConnection(outcome) == outcome = "expire"

\* _release, _fail and _authorization_failed: only the owner writes; a rejection makes
\* the connection expired, whoever has authorized it since.
EndRun(y, outcome) ==
    /\ LET s == RunOf(y) IN
       IF IsMine(y)
         THEN /\ job' = [job EXCEPT ![s] = IF outcome = "release" THEN Released(@) ELSE Failed(@)]
              /\ conn' = IF ExpiresConnection(outcome) THEN "expired" ELSE conn
         ELSE UNCHANGED <<job, conn>>
    /\ SyncerIdle(y)
    /\ UNCHANGED <<clock, grantNo, late, sourceVars, latest, stored, usedKeys, hands>>

\* The context was unusable, or the refresh rejected.
FailAtLoad(y) ==
    /\ ypc[y] \in {"fail", "expire"}
    /\ EndRun(y, ypc[y])
    /\ UNCHANGED <<rejected, upsets>>

\* A day's fetch meets a transient error, garbage, or a rejection.
FailAtFetch(y) ==
    /\ ypc[y] = "fetch"
    /\ ~NoDayLeft(y)
    /\ Upset
    /\ \E outcome \in {"release", "fail", "expire"} :
        /\ EndRun(y, outcome)
        /\ rejected' = IF outcome = "expire" THEN rejected \cup {ygrant[y]} ELSE rejected

SyncerDies(y) ==
    /\ Upset
    /\ ypc[y] # "idle"
    /\ SyncerIdle(y)
    /\ UNCHANGED <<clock, connVars, sourceVars, latest, stored, job, usedKeys, hands>>

SyncLeaseExpires(s) ==
    /\ Upset
    /\ job[s].leased
    /\ job' = [job EXCEPT ![s].leased = FALSE]
    /\ UNCHANGED <<clock, connVars, sourceVars, latest, stored, usedKeys, hands, syncerVars>>

NextClock ==
    /\ clock < FinalDay
    /\ clock' = clock + 1
    /\ UNCHANGED <<upsets, connVars, sourceVars, latest, stored, job, usedKeys, hands, syncerVars>>

-----------------------------------------------------------------------------
SyncerStep(y) ==
    \/ LoadContext(y) \/ RenewGrant(y) \/ PersistDay(y) \/ NothingLeft(y) \/ Succeed(y)
    \/ FailAtLoad(y) \/ FailAtFetch(y)

SearchNext ==
    \/ \E same \in BOOLEAN : SaveSearchConnection(same)
    \/ RefreshRejected \/ RefreshSucceeds \/ RevokeProvider \/ SelectElsewhere \/ WriteSelectedEvent \/ SelectionDies \/ NextClock
    \/ \E s \in Sources :
        \/ SelectProperty(s) \/ DisconnectSource(s) \/ RequestManualSync(s) \/ ScheduleSync(s)
        \/ SyncLeaseExpires(s)
    \/ \E y \in Syncers : SyncerStep(y) \/ SyncerDies(y)
    \/ \E y \in Syncers, s \in Sources : ClaimSync(y, s)

SearchSpec == SearchInit /\ [][SearchNext]_searchVars

-----------------------------------------------------------------------------
\* The rows and the executions have their types, and a running run has an owner.
SearchTypeOK ==
    /\ clock \in FirstDay..FinalDay
    /\ conn \in {"none", "active", "expired", "revoked"}
    /\ grantNo \in 0..MaxGrants /\ rejected \subseteq 1..grantNo
    /\ late \in BOOLEAN
    /\ src \in [Sources -> {"none", "active", "disconnected"}]
    /\ {chosenOn, latest} \subseteq [Sources -> 0..FinalDay]
    /\ stored \in [Sources -> SUBSET (1..FinalDay)]
    /\ \A s \in Sources :
          /\ job[s].status \in RunState
          /\ job[s].key \in SyncKeys \cup {NoKey}
          /\ job[s].owner # NoSyncer <=> job[s].status = "running"
          /\ job[s].tries <= SyncTries
    /\ usedKeys \in [Sources -> SUBSET SyncKeys]
    /\ hands \in 0..MaxHands /\ upsets \in 0..MaxUpsets
    /\ switched \subseteq Sources /\ announced \subseteq Sources
    /\ selecting \in 0..MaxSource
    /\ yday \in [Syncers -> 0..(FinalDay + 1)]
    /\ ygrant \in [Syncers -> 0..MaxGrants]

\* Every day from the selection of a source to its latest day is stored: runs that fail
\* halfway, are taken over or are requested in between leave no hole that the next
\* window would not cover.
NoGapSinceSelected ==
    \A s \in Sources : latest[s] # 0 => chosenOn[s]..latest[s] \subseteq stored[s]

\* A run that says it succeeded has stored every day of its window, whichever
\* executions worked on it.
SucceededIsStored ==
    \A s \in Sources : job[s].status = "succeeded" => job[s].from..job[s].to \subseteq stored[s]

\* Once a source is disconnected nothing more is stored for it, also by a worker that is
\* under way - except for a source whose place another one took, whose run goes on.
DisconnectedStoresNothing ==
    [][\A s \in Sources :
         src[s] = "disconnected" /\ s \notin switched => stored'[s] = stored[s]]_searchVars

\* A connection is only expired when the provider rejected credentials of it, and those
\* it has now, unless an authorization or a refresh replaced them while a sync was using
\* the former ones: _authorization_failed does not ask which credentials were rejected.
ExpiredWasRejected ==
    conn = "expired" => rejected # {} /\ (~late => grantNo \in rejected)

\* Syncs that are late, fail, are cancelled or lose their lease leave no hole since the
\* selection, one that succeeded stored its window, and only a rejection expires a connection:
\* of the credentials it has, if they were not replaced under a sync (SearchSyncService, search_sync_window).
SyncSafety ==
    /\ SearchTypeOK
    /\ NoGapSinceSelected
    /\ SucceededIsStored
    /\ ExpiredWasRejected

\* "search_property_selected: atomic with source selection and initial-sync creation"
\* (docs/private-beta-instrumentation.md:23).
\* Not guaranteed: the event is written by a later transaction, which a dying request
\* never reaches (README, "What the code does not guarantee").
SelectionRecorded ==
    \A s \in Sources : src[s] # "none" => s \in announced

=============================================================================
