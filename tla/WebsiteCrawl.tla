---------------------------- MODULE WebsiteCrawl ----------------------------
(***************************************************************************)
(* The crawls of a product's website (app/modules/products): the source, its *)
(* crawl runs, and the executions of WebsiteCrawlService.process, which have *)
(* no lease and no fence.  What keeps overlapping executions apart are the  *)
(* table's constraints: the unique index on active runs, the check of the   *)
(* lifecycle (a succeeded run has no error code) and the check of the page  *)
(* counts.  An execution writes only the columns it has changed since it    *)
(* loaded the row, so the module keeps which of them it saw.                *)
(***************************************************************************)
EXTENDS Naturals, FiniteSets

CONSTANTS
    Crawlers,    \* executions of WebsiteCrawlService.process
    MaxCrawl,    \* bound: crawls that are requested
    CrawlTries   \* executions Inngest starts for a run (1 + retries)

ASSUME CrawlAssumption == {MaxCrawl, CrawlTries} \subseteq Nat /\ MaxCrawl > 0

Crawls == 1..MaxCrawl

VARIABLES
    site,         \* website_sources.status, "none" before the row exists
    crawledOnce,  \* last_successful_crawl_at is set
    crawlEvent,   \* the run website_initial_crawl_completed names, 0 without the event
    crawl,        \* the crawl runs
    firstDone,    \* history: the run that was the first to succeed, 0 without one
    everFailed,   \* history: runs a failure was written to
    cpc,          \* what an execution does next
    crun,         \* its run
    sawNone,      \* it loaded a source without a successful crawl
    sawCounted    \* it loaded a run with a failure in its counts

siteVars == <<site, crawledOnce, crawlEvent, firstDone>>
crawlerVars == <<cpc, crun, sawNone, sawCounted>>
crawlVars == <<site, crawledOnce, crawlEvent, crawl, firstDone, everFailed, cpc, crun, sawNone, sawCounted>>

\* coded: error_code is set; counted: pages_failed holds a failure of the whole run;
\* closed: an execution has returned, so that Inngest starts no other.
NoCrawl == [status |-> "none", coded |-> FALSE, counted |-> FALSE, tries |-> 0, closed |-> FALSE]

CrawlInit ==
    /\ site = "none"
    /\ crawledOnce = FALSE
    /\ crawlEvent = 0
    /\ crawl = [r \in Crawls |-> NoCrawl]
    /\ firstDone = 0
    /\ everFailed = {}
    /\ cpc = [e \in Crawlers |-> "idle"]
    /\ crun = [e \in Crawlers |-> 0]
    /\ sawNone = [e \in Crawlers |-> FALSE]
    /\ sawCounted = [e \in Crawlers |-> FALSE]

ActiveCrawls == {r \in Crawls : crawl[r].status \in {"pending", "running"}}

\* Mutant: the index on active runs is missing.
NoOtherActiveAny(r) == TRUE

\* uq_website_crawl_runs_active_source
NoOtherActive(r) == ActiveCrawls \subseteq {r}

-----------------------------------------------------------------------------
(* The source and its requests, which lock the source.                     *)

\* save_source
SaveSite ==
    /\ site # "active"
    /\ site' = "active"
    /\ UNCHANGED <<crawledOnce, crawlEvent, firstDone, crawl, everFailed, crawlerVars>>

\* disconnect_source; runs under way are left alone.
DisconnectSite ==
    /\ site = "active"
    /\ site' = "disconnected"
    /\ UNCHANGED <<crawledOnce, crawlEvent, firstDone, crawl, everFailed, crawlerVars>>

\* request_crawl with a new key; another active run makes it a conflict.
RequestCrawl(r) ==
    /\ site = "active"
    /\ crawl[r].status = "none" /\ \A q \in 1..(r - 1) : crawl[q].status # "none"
    /\ NoOtherActive(r)
    /\ crawl' = [crawl EXCEPT ![r].status = "pending"]
    /\ UNCHANGED <<siteVars, everFailed, crawlerVars>>

-----------------------------------------------------------------------------
(* WebsiteCrawlService.process                                             *)

CrawlerIdle(e) ==
    /\ cpc' = [cpc EXCEPT ![e] = "idle"]
    /\ crun' = [crun EXCEPT ![e] = 0]
    /\ sawNone' = [sawNone EXCEPT ![e] = FALSE]
    /\ sawCounted' = [sawCounted EXCEPT ![e] = FALSE]

Raises(e) == cpc' = [cpc EXCEPT ![e] = "handle"]

\* Inngest has another try and _process loads run and source: a succeeded run is
\* answered, a failed one runs again unless another run is active by now.
StartCrawl(e, r) ==
    /\ cpc[e] = "idle"
    /\ crawl[r].status # "none" /\ ~crawl[r].closed /\ crawl[r].tries < CrawlTries
    /\ \/ /\ crawl[r].status = "succeeded"
          /\ crawl' = [crawl EXCEPT ![r].tries = @ + 1, ![r].closed = TRUE]
          /\ UNCHANGED crawlerVars
       \/ /\ crawl[r].status # "succeeded"
          /\ crun' = [crun EXCEPT ![e] = r]
          /\ \/ /\ NoOtherActive(r)
                /\ crawl' = [crawl EXCEPT ![r].status = "running", ![r].coded = FALSE,
                                          ![r].tries = @ + 1]
                /\ cpc' = [cpc EXCEPT ![e] = "walk"]
                /\ sawNone' = [sawNone EXCEPT ![e] = ~crawledOnce]
                /\ sawCounted' = [sawCounted EXCEPT ![e] = crawl[r].counted]
             \/ /\ ~NoOtherActive(r)
                /\ crawl' = [crawl EXCEPT ![r].tries = @ + 1]
                /\ Raises(e)
                /\ UNCHANGED <<sawNone, sawCounted>>
    /\ UNCHANGED <<siteVars, everFailed>>

\* Mutant: the counts are not constrained.
CountsAllowAny(e) == TRUE

\* crawl_counts_valid: the counts of a failure do not fit a succeeded run, unless they
\* were there when the execution loaded the run and are not written again.
CountsAllow(e) == crawl[crun[e]].status # "succeeded" \/ sawCounted[e]

\* A failure that the execution itself writes ends the run; the handler's is tried again.
FailedCrawl(c, closes) ==
    [c EXCEPT !.status = "failed", !.coded = TRUE, !.counted = TRUE, !.closed = @ \/ closes]

\* _fail_run
FailRun(e) ==
    /\ crawl' = [crawl EXCEPT ![crun[e]] = FailedCrawl(@, cpc[e] = "walk")]
    /\ everFailed' = everFailed \cup {crun[e]}
    /\ UNCHANGED siteVars

\* The first page is blocked, unreachable, an error or on another site.
CrawlFails(e) ==
    /\ cpc[e] = "walk"
    /\ \/ CountsAllow(e) /\ FailRun(e) /\ CrawlerIdle(e)
       \/ /\ ~CountsAllow(e)
          /\ Raises(e)
          /\ UNCHANGED <<siteVars, crawl, everFailed, crun, sawNone, sawCounted>>

\* The commit of a success meets the checks of lifecycle and counts: a failure that was
\* written since the run was loaded refuses it, unless pages that failed are written too.
MaySucceed(e, pageFailed) ==
    LET c == crawl[crun[e]]
    IN  ~c.coded /\ (c.counted /\ ~sawCounted[e] => pageFailed)

\* Mutant: an event that is stored is written over.
EventFitsAny(e) == TRUE

\* write_product_event: the key is the source's; another run's event is a conflict.
EventFits(e) == sawNone[e] => crawlEvent \in {0, crun[e]}

\* The pages are stored, the capabilities mapped, and all is committed at once.
CrawlSucceeds(e) ==
    /\ cpc[e] = "walk"
    /\ \E pageFailed \in BOOLEAN :
        \/ /\ MaySucceed(e, pageFailed) /\ EventFits(e)
           /\ crawl' = [crawl EXCEPT ![crun[e]] =
                           [@ EXCEPT !.status = "succeeded", !.counted = pageFailed, !.closed = TRUE]]
           /\ crawledOnce' = TRUE
           /\ crawlEvent' = IF sawNone[e] THEN crun[e] ELSE crawlEvent
           /\ firstDone' = IF firstDone = 0 THEN crun[e] ELSE firstDone
           /\ CrawlerIdle(e)
           /\ UNCHANGED <<site, everFailed>>
        \/ /\ ~(MaySucceed(e, pageFailed) /\ EventFits(e))
           /\ Raises(e)
           /\ UNCHANGED <<siteVars, crawl, everFailed, crun, sawNone, sawCounted>>

\* A page that another execution inserted, garbage, the database.
CrawlRaises(e) ==
    /\ cpc[e] = "walk"
    /\ Raises(e)
    /\ UNCHANGED <<siteVars, crawl, everFailed, crun, sawNone, sawCounted>>

\* The handler leaves a run alone that it reads as succeeded.
Spared(e) == crawl[crun[e]].status = "succeeded"

HandlerReads(e) ==
    /\ cpc[e] = "handle"
    /\ \/ Spared(e) /\ CrawlerIdle(e)
       \/ /\ ~Spared(e)
          /\ cpc' = [cpc EXCEPT ![e] = "write"]
          /\ sawCounted' = [sawCounted EXCEPT ![e] = crawl[crun[e]].counted]
          /\ UNCHANGED <<crun, sawNone>>
    /\ UNCHANGED <<siteVars, crawl, everFailed>>

\* It writes without a lock, then raises for Inngest to try again.
HandlerWrites(e) ==
    /\ cpc[e] = "write"
    /\ \/ CountsAllow(e) /\ FailRun(e)
       \/ ~CountsAllow(e) /\ UNCHANGED <<siteVars, crawl, everFailed>>
    /\ CrawlerIdle(e)

CrawlerDies(e) ==
    /\ cpc[e] # "idle"
    /\ CrawlerIdle(e)
    /\ UNCHANGED <<siteVars, crawl, everFailed>>

CrawlNext ==
    \/ SaveSite \/ DisconnectSite
    \/ \E r \in Crawls : RequestCrawl(r)
    \/ \E e \in Crawlers, r \in Crawls : StartCrawl(e, r)
    \/ \E e \in Crawlers :
        \/ CrawlFails(e) \/ CrawlSucceeds(e) \/ CrawlRaises(e) \/ HandlerReads(e)
        \/ HandlerWrites(e) \/ CrawlerDies(e)

CrawlSpec == CrawlInit /\ [][CrawlNext]_crawlVars

-----------------------------------------------------------------------------
\* The source, its runs and the executions have their types.
CrawlTypeOK ==
    /\ site \in {"none", "active", "disconnected"}
    /\ crawledOnce \in BOOLEAN
    /\ {crawlEvent, firstDone} \subseteq 0..MaxCrawl
    /\ crawl \in [Crawls -> [status : {"none", "pending", "running", "succeeded", "failed"},
                             coded : BOOLEAN, counted : BOOLEAN, tries : 0..CrawlTries,
                             closed : BOOLEAN]]
    /\ everFailed \subseteq Crawls
    /\ cpc \in [Crawlers -> {"idle", "walk", "handle", "write"}]
    /\ crun \in [Crawlers -> 0..MaxCrawl]
    /\ {sawNone, sawCounted} \subseteq [Crawlers -> BOOLEAN]

\* A source is crawled by one run at a time, also when a failed run is tried again while
\* a new one is requested.
OneActiveCrawl == Cardinality(ActiveCrawls) <= 1

\* The event names the crawl that was the first to succeed, exists as soon as the source
\* says it was crawled, and stays what it is: executions that loaded the source before
\* that success neither write it again nor replace it.
InitialCrawlRecorded ==
    /\ crawlEvent = firstDone
    /\ crawledOnce <=> crawlEvent # 0

\* A source has one active crawl, and the first success of its crawls writes the one event about
\* it, although executions overlap without a lease (WebsiteCrawlService).
CrawlSafety ==
    /\ CrawlTypeOK
    /\ OneActiveCrawl
    /\ InitialCrawlRecorded

\* A crawl that succeeded is not turned into a failure by an execution that overlaps it
\* and ends later, although that one writes blindly - unless the run had failed before:
\* then the counts of the first failure are already there and the check lets it pass.
CrawlSuccessKept ==
    [][\A r \in Crawls : crawl[r].status = "succeeded" /\ r \notin everFailed
          => crawl'[r].status = "succeeded"]_crawlVars

\* "references the initial successful run" (docs/private-beta-instrumentation.md:20).
\* Not guaranteed: a later execution of the same run turns it into a failure (README,
\* "What the code does not guarantee").
EventNamesSuccess == crawlEvent # 0 => crawl[crawlEvent].status = "succeeded"

=============================================================================
