---------------------------- MODULE SearchReading ----------------------------
(***************************************************************************)
(* What the product says about its search data, and what detection makes of *)
(* it.  The search page reads the stored metrics in search_read_service.py  *)
(* (baseline, queries, pages, health, readiness); the snapshot of a         *)
(* detection run reads them again in _assemble_search                       *)
(* (opportunity_snapshot_service.py), with its own windows, sums and page   *)
(* matches, and hands them to the detectors of the module Detectors.        *)
(*                                                                         *)
(* The sync is that of SearchSync without its leases: one run at a time     *)
(* stores its days in order.  A day's site total is the sum of its rows.    *)
(* The position of a row is counted in units of 1 / PositionUnit, and an    *)
(* average position is the fraction of the weighted sum and the impressions.*)
(***************************************************************************)
EXTENDS Detectors

CONSTANTS
    RowSets,         \* what the provider can return for a day
    PositionUnit,    \* units in a position (the column has six decimals)
    PageMatch,       \* match_status of a search page
    ReadPeriod,      \* days of a period (28)
    Correction,      \* CORRECTION_OVERLAP_DAYS
    FinalLag,        \* finalization_lag_days
    StaleAfter,      \* STALE_AFTER_DAYS
    MaxReadDays,     \* MAX_READ_DAYS
    OpensOn,         \* the first day
    ClosesOn,        \* bound: the last day
    MaxFeeds,        \* bound: selections of a property
    MaxFeedRuns      \* bound: sync runs of a source

ASSUME ReadingAssumption ==
    /\ {ReadPeriod, Correction, FinalLag, StaleAfter, MaxReadDays, OpensOn, ClosesOn,
        MaxFeeds, MaxFeedRuns} \subseteq Nat
    /\ ReadPeriod > 0 /\ Correction > 0
    /\ OpensOn >= FinalLag + 2 * ReadPeriod /\ ClosesOn >= OpensOn
    /\ PositionUnit \in Nat \ {0}
    /\ \A rows \in RowSets :
          /\ IsFiniteSet(rows)
          /\ \A r \in rows : {r.clicks, r.impressions, r.position} \subseteq Nat

VARIABLES
    day,             \* today in the reporting time zone
    link,            \* status of the connection
    feed,            \* status of the latest search source, "none" without one
    feedOn,          \* the day it was selected
    feeds,           \* sources so far
    through,         \* latest_successful_data_date, 0 without one
    feedRuns,        \* its sync runs, oldest first
    siteDays,        \* days with a site_total row
    rowsOn           \* the query_page rows of a day

feedVars == <<feed, feedOn, feeds>>
storeVars == <<through, siteDays, rowsOn>>
readingVars == <<day, link, feedVars, feedRuns, storeVars>>

Days == 1..ClosesOn

ReadingInit ==
    /\ day = OpensOn
    /\ link = "active"
    /\ feed = "none" /\ feedOn = 0 /\ feeds = 0
    /\ through = 0
    /\ feedRuns = <<>>
    /\ siteDays = {}
    /\ rowsOn = [d \in Days |-> {}]

-----------------------------------------------------------------------------
(* The sync.                                                               *)

NewFeedRun(from, to) ==
    [from |-> from, to |-> to, next |-> from, status |-> "running",
     truncated |-> FALSE, received |-> FALSE]

LastRun == feedRuns[Len(feedRuns)]
FeedSyncing == feedRuns # <<>> /\ LastRun.status = "running"
ExpectedDate == day - FinalLag

\* select_property: a new source, with its initial run.
SelectFeed ==
    /\ feeds < MaxFeeds
    /\ link \in {"active", "expired"}
    /\ feed' = "active" /\ feedOn' = day /\ feeds' = feeds + 1
    /\ feedRuns' = <<NewFeedRun(ExpectedDate - 2 * ReadPeriod + 1, ExpectedDate)>>
    /\ through' = 0
    /\ siteDays' = {}
    /\ rowsOn' = [d \in Days |-> {}]
    /\ UNCHANGED <<day, link>>

\* search_sync_window of a scheduled or manual run
SyncFrom ==
    IF through = 0 \/ through + 1 - Correction <= feedOn THEN feedOn
    ELSE through + 1 - Correction

RequestFeedSync ==
    /\ feed = "active"
    /\ ~FeedSyncing
    /\ SyncFrom <= ExpectedDate
    /\ Len(feedRuns) < MaxFeedRuns
    /\ feedRuns' = Append(feedRuns, NewFeedRun(SyncFrom, ExpectedDate))
    /\ UNCHANGED <<day, link, feedVars, storeVars>>

EndFeedRun(outcome) == feedRuns' = [feedRuns EXCEPT ![Len(feedRuns)].status = outcome]

\* What a run records of a day; the last day ends it.
DayStored(run, rows, cut) ==
    [from |-> run.from, to |-> run.to, next |-> run.next + 1,
     status |-> IF run.next = run.to THEN "succeeded" ELSE run.status,
     truncated |-> IF cut THEN TRUE ELSE run.truncated,
     received |-> IF rows = {} THEN run.received ELSE TRUE]

\* _persist_day replaces the rows of the day.
StoreFeedDay(rows, cut) ==
    /\ FeedSyncing
    /\ link = "active"
    /\ siteDays' = siteDays \cup {LastRun.next}
    /\ rowsOn' = [rowsOn EXCEPT ![LastRun.next] = rows]
    /\ through' = LastRun.next
    /\ feedRuns' = [feedRuns EXCEPT ![Len(feedRuns)] = DayStored(@, rows, cut)]
    /\ UNCHANGED <<day, link, feedVars>>

\* _fail and _authorization_failed
FailFeedSync(rejected) ==
    /\ FeedSyncing
    /\ EndFeedRun("failed")
    /\ link' = IF rejected THEN "expired" ELSE link
    /\ UNCHANGED <<day, feedVars, storeVars>>

Relink ==
    /\ link = "expired"
    /\ link' = "active"
    /\ UNCHANGED <<day, feedVars, feedRuns, storeVars>>

\* disconnect_product_source
DropFeed ==
    /\ feed = "active"
    /\ feed' = "disconnected"
    /\ IF FeedSyncing THEN EndFeedRun("cancelled") ELSE UNCHANGED feedRuns
    /\ UNCHANGED <<day, link, feedOn, feeds, storeVars>>

DayPasses ==
    /\ day < ClosesOn
    /\ day' = day + 1
    /\ UNCHANGED <<link, feedVars, feedRuns, storeVars>>

ReadingNext ==
    \/ SelectFeed \/ RequestFeedSync \/ Relink \/ DropFeed \/ DayPasses
    \/ \E rows \in RowSets, cut \in BOOLEAN : StoreFeedDay(rows, cut)
    \/ \E rejected \in BOOLEAN : FailFeedSync(rejected)

ReadingSpec == ReadingInit /\ [][ReadingNext]_readingVars

-----------------------------------------------------------------------------
(* The search page.                                                        *)

Facts(W) == UNION {{<<d, r>> : r \in rowsOn[d]} : d \in W}

\* The sum of a function's values.
SumOver(g) ==
    LET sum[S \in SUBSET DOMAIN g] ==
            IF S = {} THEN 0
            ELSE LET x == CHOOSE x \in S : TRUE IN g[x] + sum[S \ {x}]
    IN  sum[DOMAIN g]

Clicks(F) == SumOver([f \in F |-> f[2].clicks])
Impressions(F) == SumOver([f \in F |-> f[2].impressions])
Weight(F) == SumOver([f \in F |-> f[2].position * f[2].impressions])

\* The average position of the rows F; 0 stands for none.
AveragePosition(F) == <<Weight(F), PositionUnit * Impressions(F)>>
NoPosition == <<0, 1>>

Queries == UNION {{r.query : r \in rows} : rows \in RowSets}
OfQuery(q, F) == {f \in F : f[2].query = q}
OfPage(p, F) == {f \in F : f[2].page = p}

\* aggregate_search_metrics: rows without impressions do not count for the average; the
\* provider gives every row a position.
AggregateSearchMetrics(F) ==
    LET positioned == {f \in F : f[2].impressions > 0}
    IN [clicks |-> Clicks(F), impressions |-> Impressions(F),
        position |-> IF positioned = {} THEN NoPosition ELSE AveragePosition(positioned)]

\* calculate_complete_periods
CurrentPeriod(cutoff) == (cutoff - ReadPeriod + 1)..cutoff
PriorPeriod(cutoff) == (cutoff - 2 * ReadPeriod + 1)..(cutoff - ReadPeriod)
BothPeriods(cutoff) == CurrentPeriod(cutoff) \cup PriorPeriod(cutoff)

\* read_baseline refuses a cutoff of an incomplete day or one that is too old ...
CutoffTooOld(cutoff) == cutoff < ExpectedDate - (MaxReadDays - 1)
CutoffValid(cutoff) == cutoff <= ExpectedDate /\ ~CutoffTooOld(cutoff)

\* ... and, by metric_date_bounds, one that is asked for outside the stored data.
CutoffStored(cutoff) ==
    /\ \E d \in siteDays : d <= cutoff - 2 * ReadPeriod + 1
    /\ \E d \in siteDays : cutoff <= d

\* read_baseline
BaselineStatus(cutoff) ==
    IF feed # "active" \/ siteDays \cap BothPeriods(cutoff) = {} THEN "pending"
    ELSE IF ~(BothPeriods(cutoff) \subseteq siteDays) THEN "partial"
    ELSE IF Impressions(Facts(BothPeriods(cutoff))) = 0 THEN "no_data"
    ELSE "ready"

\* Mutant: the thresholds of the views are exclusive.
ClassifyQueryBaselineStrict(now, old, confident) ==
    LET enough == now.impressions + old.impressions > 100
    IN {v \in {"growing", "declining", "striking", "low_ctr", "new", "without_page"} :
        \/ v = "growing" /\ enough /\ now.clicks > old.clicks
        \/ v = "declining" /\ enough /\ now.clicks < old.clicks
        \/ v = "striking" /\ now.impressions > 100 /\ Within(5, now.position, 19)
        \/ /\ v = "low_ctr" /\ now.impressions > 100 /\ Within(0, now.position, 9)
           /\ now.clicks * 100 < now.impressions * 2
        \/ v = "new" /\ old.impressions = 0 /\ now.impressions > 20
        \/ v = "without_page" /\ now.impressions > 20 /\ ~confident}

\* classify_query_baseline
ClassifyQueryBaseline(now, old, confident) ==
    LET enough == now.impressions + old.impressions >= 100
    IN {v \in {"growing", "declining", "striking", "low_ctr", "new", "without_page"} :
        \/ v = "growing" /\ enough /\ now.clicks > old.clicks
        \/ v = "declining" /\ enough /\ now.clicks < old.clicks
        \/ v = "striking" /\ now.impressions >= 100 /\ Within(4, now.position, 20)
        \/ /\ v = "low_ctr" /\ now.impressions >= 100 /\ Within(0, now.position, 10)
           /\ now.clicks * 100 < now.impressions * 2
        \/ v = "new" /\ old.impressions = 0 /\ now.impressions >= 20
        \/ v = "without_page" /\ now.impressions >= 20 /\ ~confident}

\* The page of a query is looked for in the current period only.
ConfidentPage(q, cutoff) ==
    \E f \in OfQuery(q, Facts(CurrentPeriod(cutoff))) : PageMatch[f[2].page] = "matched"

\* The views of read_baseline that list a query, before they are cut to ten items.
Views(q, cutoff) ==
    ClassifyQueryBaseline(AggregateSearchMetrics(OfQuery(q, Facts(CurrentPeriod(cutoff)))),
                          AggregateSearchMetrics(OfQuery(q, Facts(PriorPeriod(cutoff)))),
                          ConfidentPage(q, cutoff))

\* read_queries and read_pages over a period
MatchedPages(q, W) == {f[2].page : f \in {g \in OfQuery(q, Facts(W)) : PageMatch[g[2].page] = "matched"}}
QueryItems(W) ==
    {[query |-> q, metrics |-> AggregateSearchMetrics(OfQuery(q, Facts(W))),
      matched |-> Cardinality(MatchedPages(q, W))] :
     q \in {f[2].query : f \in Facts(W)}}
PageItems(W) ==
    {[page |-> p, metrics |-> AggregateSearchMetrics(OfPage(p, Facts(W)))] :
     p \in {f[2].page : f \in Facts(W)}}

\* Mutant: the outcome of the last run is not looked at.
HealthStateLenient ==
    IF link # "active" THEN "error"
    ELSE IF feed # "active" THEN "awaiting_property"
    ELSE IF FeedSyncing THEN "syncing"
    ELSE IF through = 0 THEN "no_data"
    ELSE IF ExpectedDate - through > StaleAfter THEN "stale"
    ELSE "healthy"

SucceededRuns == {n \in DOMAIN feedRuns : feedRuns[n].status = "succeeded"}
NewestSucceeded == feedRuns[CHOOSE n \in SucceededRuns : \A m \in SucceededRuns : m <= n]

\* read_health and search_health_state
HealthState ==
    IF link # "active" THEN "error"
    ELSE IF feed # "active" THEN "awaiting_property"
    ELSE IF FeedSyncing THEN "syncing"
    ELSE IF LastRun.status = "failed" THEN "error"
    ELSE IF SucceededRuns # {} /\ ~NewestSucceeded.received THEN "no_data"
    ELSE IF through = 0 THEN "no_data"
    ELSE IF ExpectedDate - through > StaleAfter THEN "stale"
    ELSE "healthy"

\* read_readiness
BaselineUsable == HealthState \in {"healthy", "stale"}

-----------------------------------------------------------------------------
(* The snapshot of a detection run.                                        *)

\* get_search_authority: a complete run that alone covers the window.
Authorities(from, to) ==
    {n \in SucceededRuns :
        /\ link = "active" /\ feed = "active"
        /\ ~feedRuns[n].truncated
        /\ feedRuns[n].from <= from /\ feedRuns[n].to >= to}

\* _assemble_search returns None without one.
SnapshotPresent ==
    /\ through # 0
    /\ Authorities(through - 2 * ReadPeriod + 1, through) # {}

SnapshotWindow == (through - 2 * ReadPeriod + 1)..through
SnapshotCurrent == {d \in SnapshotWindow : d >= through - ReadPeriod + 1}
SnapshotPrior == SnapshotWindow \ SnapshotCurrent

\* list_search_facts: a truncated run that touches the window.
SnapshotTruncated ==
    \E n \in SucceededRuns :
        /\ feedRuns[n].truncated
        /\ feedRuns[n].from <= through
        /\ feedRuns[n].to >= through - 2 * ReadPeriod + 1

\* Mutant: the average is taken over the rows, not over the impressions.
SnapshotMetricPlain(F) ==
    [clicks |-> Clicks(F), impressions |-> Impressions(F),
     position |-> IF F = {} THEN NoPosition
                  ELSE <<SumOver([f \in F |-> f[2].position]), PositionUnit * Cardinality(F)>>]

\* _metric
SnapshotMetric(F) ==
    [clicks |-> Clicks(F), impressions |-> Impressions(F),
     position |-> IF Impressions(F) = 0 THEN NoPosition ELSE AveragePosition(F)]

\* Mutant: the first of several matched pages is taken.
SnapshotMatchFirst(q) == IF MatchedPages(q, SnapshotWindow) = {} THEN "unmatched" ELSE "matched"

SnapshotMatch(q) ==
    LET n == Cardinality(MatchedPages(q, SnapshotWindow))
    IN IF n = 1 THEN "matched" ELSE IF n > 1 THEN "ambiguous" ELSE "unmatched"

QuerySnapshot(q) ==
    LET now == SnapshotMetric(OfQuery(q, Facts(SnapshotCurrent)))
        old == SnapshotMetric(OfQuery(q, Facts(SnapshotPrior)))
    IN [id |-> q, impressions |-> now.impressions, clicks |-> now.clicks,
        position |-> now.position, priorImpressions |-> old.impressions,
        priorClicks |-> old.clicks, match |-> SnapshotMatch(q),
        relevance |-> 100, branded |-> FALSE, words |-> {}]

\* The detection input, for a product whose profile and website are in order.
AssembledInput ==
    [profileApproved |-> TRUE, completeness |-> 100,
     search |-> IF SnapshotPresent THEN "present" ELSE "missing",
     missingDates |-> ~(SnapshotWindow \subseteq siteDays),
     truncated |-> SnapshotTruncated,
     website |-> "present", crawlComplete |-> TRUE, crawlAge |-> 1,
     crawlProfileCurrent |-> TRUE, pageCrawled |-> TRUE, pageIndexable |-> TRUE,
     queries |-> {QuerySnapshot(q) : q \in {f[2].query : f \in Facts(SnapshotWindow)}}]

-----------------------------------------------------------------------------
\* A search snapshot the detectors may use tells the story of the baseline page for the
\* same cutoff: the page accepts the cutoff, has no date missing, and counts the same
\* clicks, impressions and positions for every query in both periods, although the two
\* services choose the windows and sum up the rows each on its own.  The one difference:
\* the snapshot has no limit of age, while the page refuses a cutoff of more than
\* MAX_READ_DAYS (search_cutoff_invalid).
SnapshotIsBaseline ==
    SnapshotPresent /\ SearchUsable(AssembledInput) =>
        /\ CutoffValid(through) \/ CutoffTooOld(through)
        /\ CutoffStored(through)
        /\ BaselineStatus(through) \in {"ready", "no_data"}
        /\ \A q \in Queries :
             /\ SnapshotMetric(OfQuery(q, Facts(SnapshotCurrent)))
                  = AggregateSearchMetrics(OfQuery(q, Facts(CurrentPeriod(through))))
             /\ SnapshotMetric(OfQuery(q, Facts(SnapshotPrior)))
                  = AggregateSearchMetrics(OfQuery(q, Facts(PriorPeriod(through))))

\* What a detector finds in the snapshot is what the baseline page shows: a query found
\* for its click rate, its rank, its lost clicks or its missing page is listed in the view
\* of that name, although detectors and views have thresholds of their own (unless the page
\* refuses the cutoff as too old).
DetectedIsViewed ==
    LET Found(E) == {e.subject[2] : e \in E}
        input == AssembledInput
    IN SnapshotPresent /\ CutoffValid(through) =>
        /\ \A q \in Found(HighImpressionsLowCtr(input)) : "low_ctr" \in Views(q, through)
        /\ \A q \in Found(RankingWithinReach(input)) : "striking" \in Views(q, through)
        /\ \A q \in Found(DemandWithoutContent(input)) : "without_page" \in Views(q, through)
        /\ \A q \in Found(SearchDecline(input)) :
             ClicksDeclined(QuerySnapshot(q)) => "declining" \in Views(q, through)

\* The lists of queries and of pages over the window of a snapshot count every row once,
\* and a query leads to a page for detection exactly when the list shows one matched page.
ReadsAgree ==
    LET W == SnapshotWindow
        Total(items) == SumOver([i \in items |-> i.metrics.impressions])
    IN SnapshotPresent =>
        /\ Total(QueryItems(W)) = Total(PageItems(W))
        /\ \A i \in QueryItems(W) :
             /\ SnapshotMatch(i.query) = "matched" <=> i.matched = 1
             /\ SnapshotMatch(i.query) = "unmatched" <=> i.matched = 0

\* Search data that readiness calls usable was stored by a sync that came to its end, of a
\* source and a connection that are still active.
UsableWasSynced ==
    BaselineUsable => link = "active" /\ feed = "active" /\ LastRun.status = "succeeded"

\* The three readers of the search rows agree: the snapshot of a detection holds the baseline
\* the API reports, what a detector finds is shown in the view of that name, the lists count
\* every row once, and data called usable was synced (search_read_service, _assemble_search).
ReadingSafety ==
    /\ SnapshotIsBaseline
    /\ DetectedIsViewed
    /\ ReadsAgree
    /\ UsableWasSynced

\* Readiness has no reduction "search_dependent_recommendations_unavailable" when the
\* baseline is usable (search_read_service.py:634-639), and the snapshot is to find its
\* run again for the stored cutoff: "Re-select because reporting lag can make the
\* persisted cutoff earlier than as_of." (opportunity_snapshot_service.py:146).  So a
\* usable baseline whose syncs all succeeded, none of them cut short, is part of the
\* snapshot of a detection run.
UsableIsDetected ==
    BaselineUsable /\ (\A n \in DOMAIN feedRuns : n \in SucceededRuns /\ ~feedRuns[n].truncated)
        => SnapshotPresent
=============================================================================
