------------------------------ MODULE CrawlWalk ------------------------------
(***************************************************************************)
(* What one execution of WebsiteCrawlService._process does between loading  *)
(* a run and committing its outcome: robots.txt, the first page, the        *)
(* sitemaps, the choice of targets, their pages and results, and the map of *)
(* the product's capability to a page.  Earlier runs have left page rows or *)
(* none; how executions of one run meet is WebsiteCrawl's.                  *)
(*                                                                         *)
(* An address stands for a normalized URL and is a number, in the order of  *)
(* the URLs.  A web says what every address answers:                        *)
(*   [kind |-> "page", code, canonical, links, score, coverage]             *)
(*   [kind |-> "redirect", to], [kind |-> "sitemap", locs],                 *)
(*   [kind |-> "index", locs], and [kind |-> "down"] for an answer that is  *)
(*   refused or fails.  score and coverage (in percent) are those of        *)
(*   score_page_relevance for the product's capability.                     *)
(***************************************************************************)
EXTENDS Integers, FiniteSets, SequencesExt

CONSTANTS
    Addresses,     \* numbers
    Root,          \* normalized_base_url
    Host,          \* address -> "own", "www" (the same site, another host) or "foreign"
    Crawlable,     \* addresses whose path _is_crawlable_path accepts
    Priority,      \* address -> _priority
    Configured,    \* sitemap_urls, or the two default places
    Known,         \* blog_url and documentation_url
    Webs,          \* what the website may look like when a run starts
    Disallows,     \* sets of addresses robots.txt may disallow
    PageLimits,    \* page_limit a run may be requested with
    MaxRedirects   \* MAX_REDIRECTS

\* What an address may answer.
Answers ==
    [kind : {"page"}, code : Nat, canonical : Addresses, links : Seq(Addresses), score : Nat,
     coverage : Nat]
    \cup [kind : {"redirect"}, to : Addresses]
    \cup [kind : {"sitemap", "index"}, locs : Seq(Addresses)]
    \cup [kind : {"down"}]

ASSUME WalkAssumption ==
    /\ Addresses \subseteq Nat /\ Root \in Addresses
    /\ Host[Root] = "own" /\ Root \in Crawlable
    /\ Priority \in [Addresses -> Nat]
    /\ Configured \in Seq(Addresses) /\ Known \in Seq(Addresses)
    /\ Webs \subseteq [Addresses -> Answers]
    /\ PageLimits \subseteq Nat \ {0} /\ MaxRedirects \in Nat

VARIABLES
    wpc,         \* what the execution does next
    web,         \* the website while the run lasts, <<>> before
    disallowed,  \* what its robots.txt disallows
    limit,       \* page_limit
    pending,     \* sitemaps to read
    visited,     \* sitemaps that were fetched
    candidates,  \* addresses found, in the order of discovery
    targets,     \* addresses still to visit, in the order of Before
    discovered,  \* pages_discovered (what a failed run reports is WebsiteCrawl's)
    tally,       \* pages_succeeded and pages_failed
    fetches,     \* fetches of the run besides robots.txt
    results,     \* website_crawl_results of the run: page -> status and where it was read
    unsent,      \* pages whose new result the session holds: it does not flush before a query
    twice,       \* it holds two new results of one page, which the unique key will refuse
    pageRow,     \* website_pages: status per canonical address, "none" without a row
    rowsBefore,  \* website_pages as the run found them
    mapping      \* website_capability_mappings of the run

siteWalkVars == <<web, disallowed, limit>>
findVars == <<pending, visited, candidates>>
visitVars == <<targets, discovered, tally, unsent, twice>>
walkVars == <<wpc, web, disallowed, limit, pending, visited, candidates, targets, discovered, tally,
              fetches, results, unsent, twice, pageRow, rowsBefore, mapping>>

NoMapping == [status |-> "none", page |-> Root]
NoResults == [a \in {} |-> [status |-> "failed", read |-> a]]

WalkInit ==
    /\ wpc = "idle"
    /\ web = <<>> /\ disallowed = {}
    /\ limit \in PageLimits
    /\ pending = <<>> /\ visited = {} /\ candidates = <<>>
    /\ targets = {} /\ discovered = 0 /\ tally = [ok |-> 0, bad |-> 0] /\ fetches = 0
    /\ results = NoResults /\ unsent = {} /\ twice = FALSE
    /\ \E earlier \in {"none", "active"} : pageRow = [a \in Addresses |-> earlier]
    /\ rowsBefore = pageRow
    /\ mapping = NoMapping

-----------------------------------------------------------------------------
(* HTTPXWebsiteFetchProvider.fetch                                         *)

\* Where the answer of an address leads.
Follow(w, a) == IF w[a].kind = "redirect" THEN w[a].to ELSE a

\* Where a fetch is after n redirects.
After(w, a, n) ==
    LET at[k \in 0..n] == IF k = 0 THEN a ELSE Follow(w, at[k - 1])
    IN  at[n]

\* At most MAX_REDIRECTS redirects are followed; one more is blocked.
Fetch(w, a) ==
    LET end == After(w, a, MaxRedirects)
    IN  CASE w[end].kind = "redirect" -> [outcome |-> "blocked", final |-> end]
          [] w[end].kind = "down" -> [outcome |-> "failed", final |-> end]
          [] OTHER -> [outcome |-> "answered", final |-> end]

SameSite(a) == Host[a] # "foreign"

\* What recording a target's outcome says of it; an answer that is no page has no
\* error code, no links and its own address.
Code(a) == IF web[a].kind = "page" THEN web[a].code ELSE 200
Canonical(a) == IF web[a].kind = "page" THEN web[a].canonical ELSE a
Links(w, a) == IF w[a].kind = "page" THEN w[a].links ELSE <<>>
Score(a) == IF web[a].kind = "page" THEN web[a].score ELSE 0
Coverage(a) == IF web[a].kind = "page" THEN web[a].coverage ELSE 0

-----------------------------------------------------------------------------
(* The run starts: robots.txt and the first page.                          *)

\* _persist_failure and _persist_http_failure of the first page, then _fail_run.
FirstPageFails(w, d) ==
    LET f == Fetch(w, Root)
        status == IF Root \in d \/ f.outcome = "blocked" THEN "blocked"
                  ELSE IF f.outcome = "failed" THEN "failed"
                  ELSE IF w[f.final].kind = "page" /\ w[f.final].code = 404 THEN "missing"
                  ELSE IF w[f.final].kind = "page" /\ w[f.final].code >= 400 THEN "failed"
                  ELSE "blocked"
    IN  /\ \/ Root \in d
           \/ f.outcome # "answered"
           \/ w[f.final].kind = "page" /\ w[f.final].code >= 400
           \/ ~SameSite(f.final)
        /\ pageRow' = [pageRow EXCEPT ![Root] = status]
        /\ results' = [a \in {Root} |->
                        [status |-> IF status = "missing" THEN "failed" ELSE status, read |-> Root]]
        /\ wpc' = "failed"
        /\ UNCHANGED <<pending, candidates>>

FirstPageOpens(w, d) ==
    LET f == Fetch(w, Root)
    IN  /\ Root \notin d
        /\ f.outcome = "answered"
        /\ w[f.final].kind = "page" => w[f.final].code < 400
        /\ SameSite(f.final)
        /\ candidates' = Links(w, f.final) \o Known
        /\ pending' = Configured
        /\ results' = NoResults
        /\ wpc' = "sitemaps"
        /\ UNCHANGED pageRow

\* The website and its robots.txt are whatever they are by now.
StartWalk ==
    /\ wpc = "idle"
    /\ \E w \in Webs, d \in Disallows :
        /\ web' = w /\ disallowed' = d
        /\ FirstPageFails(w, d) \/ FirstPageOpens(w, d)
        /\ fetches' = IF Root \in d THEN 0 ELSE 1
    /\ UNCHANGED <<limit, visited, visitVars, rowsBefore, mapping>>

-----------------------------------------------------------------------------
(* _discover_sitemaps                                                      *)

\* Mutant: a sitemap is read whenever it is named.
UnreadAny(s) == Host[s] = "own"

\* A sitemap of the base's own host that was not fetched yet.
Unread(s) == s \notin visited /\ Host[s] = "own"

MaxFetches == limit - 1

\* One turn of the loop; an index adds sitemaps, a sitemap adds candidates.
ReadSitemap ==
    /\ wpc = "sitemaps"
    /\ pending # <<>> /\ Cardinality(visited) < MaxFetches
    /\ LET s == Head(pending)
           f == Fetch(web, s)
           read == Unread(s)
           answer == IF read /\ f.outcome = "answered" THEN web[f.final].kind ELSE "none"
       IN  /\ visited' = IF read THEN visited \cup {s} ELSE visited
           /\ fetches' = IF read THEN fetches + 1 ELSE fetches
           /\ pending' = Tail(pending) \o (IF answer = "index" THEN web[f.final].locs ELSE <<>>)
           /\ candidates' = candidates \o (IF answer = "sitemap" THEN web[f.final].locs ELSE <<>>)
    /\ UNCHANGED <<wpc, siteWalkVars, visitVars, results, pageRow, rowsBefore, mapping>>

-----------------------------------------------------------------------------
(* select_crawl_urls                                                       *)

\* The first position of an address among the candidates; the base precedes all.
Position(a) ==
    IF a = Root THEN 0
    ELSE CHOOSE i \in DOMAIN candidates :
            candidates[i] = a /\ \A j \in 1..(i - 1) : candidates[j] # a

\* Mutant: the first address that was found is passed over.
EligibleTail ==
    {Root} \cup {a \in {candidates[i] : i \in 2..Len(candidates)} :
                    Host[a] = "own" /\ a \in Crawlable}

Eligible == {Root} \cup {a \in Range(candidates) : Host[a] = "own" /\ a \in Crawlable}

\* The base, then by priority and discovery.
Before(a, b) ==
    IF a = Root \/ b = Root THEN a = Root /\ b # Root
    ELSE \/ Priority[a] < Priority[b]
         \/ Priority[a] = Priority[b] /\ Position(a) < Position(b)

\* max(1, page_limit - attempted)
TargetLimit == IF limit > Cardinality(visited) THEN limit - Cardinality(visited) ELSE 1

\* ordered[:limit]
Chosen == {a \in Eligible : Cardinality({b \in Eligible : Before(b, a)}) < TargetLimit}

SelectTargets ==
    /\ wpc = "sitemaps"
    /\ pending = <<>> \/ Cardinality(visited) >= MaxFetches
    /\ targets' = Chosen
    /\ discovered' = Cardinality(targets')
    /\ wpc' = "visit"
    /\ UNCHANGED <<siteWalkVars, findVars, tally, unsent, twice, fetches, results, pageRow, rowsBefore,
                   mapping>>

-----------------------------------------------------------------------------
(* The targets                                                             *)

\* What visiting a target finds, and for which page: one that is read is stored under its
\* canonical address, anything else under the target's.
Outcome(t) ==
    LET f == Fetch(web, t)
        Unreadable(status) == [page |-> t, row |-> status, status |-> status, read |-> t]
    IN  IF t \in disallowed THEN Unreadable("blocked")
        ELSE IF f.outcome # "answered" THEN Unreadable(f.outcome)
        ELSE IF ~SameSite(f.final) THEN Unreadable("blocked")
        ELSE IF Code(f.final) >= 400
          THEN [page |-> t, row |-> IF Code(f.final) = 404 THEN "missing" ELSE "failed",
                status |-> "failed", read |-> f.final]
        ELSE [page |-> Canonical(f.final), row |-> "active", status |-> "succeeded", read |-> f.final]

NewPage(page) == pageRow[page] = "none"

\* _page and _result_record: the row of a new page is sent at once, with all the session
\* holds; a result is found if it was sent, and made if not.
Record(o) ==
    LET held == IF NewPage(o.page) THEN {} ELSE unsent
    IN  /\ pageRow' = [pageRow EXCEPT ![o.page] = o.row]
        /\ results' = [a \in DOMAIN results \cup {o.page} |->
                        IF a = o.page THEN [status |-> o.status, read |-> o.read] ELSE results[a]]
        /\ unsent' = IF o.page \in DOMAIN results THEN held ELSE held \cup {o.page}
        /\ twice' = (twice \/ o.page \in held)

\* Mutant: the pages keep what the walk wrote about them.
RolledBackKeepsPages ==
    /\ results' = NoResults /\ UNCHANGED pageRow
    /\ unsent' = {} /\ twice' = FALSE
    /\ wpc' = "failed"

\* The flush raises: nothing of the walk is stored, and process fails the run.
RolledBack ==
    /\ pageRow' = rowsBefore /\ results' = NoResults
    /\ unsent' = {} /\ twice' = FALSE
    /\ wpc' = "failed"

\* Mutant: a target robots.txt disallows is left out of the counts.
CountTargetAllowed(t, good) ==
    IF good THEN [tally EXCEPT !.ok = @ + 1]
    ELSE IF t \in disallowed THEN tally ELSE [tally EXCEPT !.bad = @ + 1]

CountTarget(t, good) ==
    IF good THEN [tally EXCEPT !.ok = @ + 1] ELSE [tally EXCEPT !.bad = @ + 1]

\* The base page is not fetched again.
VisitTarget(t) ==
    /\ wpc = "visit"
    /\ \A u \in targets \ {t} : Before(t, u)
    /\ IF twice /\ NewPage(Outcome(t).page)
         THEN RolledBack /\ UNCHANGED tally
         ELSE /\ Record(Outcome(t))
              /\ tally' = CountTarget(t, Outcome(t).status = "succeeded")
              /\ UNCHANGED wpc
    /\ fetches' = IF t = Root \/ t \in disallowed THEN fetches ELSE fetches + 1
    /\ targets' = targets \ {t}
    /\ UNCHANGED <<siteWalkVars, findVars, discovered, rowsBefore, mapping>>

\* The pages whose content matches the capability at all; what a page says is what was
\* read for it.
Fit(a) == Score(results[a].read)

\* Mutant: pages that failed in this run count with what they said before.
MappedPagesAll == {a \in DOMAIN results : Fit(a) > 0}

MappedPages == {a \in DOMAIN results : results[a].status = "succeeded" /\ Fit(a) > 0}

\* The last flush, and _map_capabilities: the page with the highest score, then the first address; it
\* represents the capability from a score of 0.2 and three fifths of its terms.
FinishWalk ==
    /\ wpc = "visit" /\ targets = {} /\ ~twice
    /\ mapping' = IF MappedPages = {} THEN [status |-> "missing", page |-> Root]
                  ELSE LET best == CHOOSE a \in MappedPages : \A b \in MappedPages :
                                       Fit(a) > Fit(b) \/ (Fit(a) = Fit(b) /\ a <= b)
                       IN  [status |-> IF Fit(best) >= 20 /\ Coverage(results[best].read) >= 60
                                       THEN "represented" ELSE "partial",
                            page |-> best]
    /\ wpc' = "succeeded"
    /\ UNCHANGED <<siteWalkVars, findVars, visitVars, fetches, results, pageRow, rowsBefore>>

LastFlushFails ==
    /\ wpc = "visit" /\ targets = {} /\ twice
    /\ RolledBack
    /\ UNCHANGED <<siteWalkVars, findVars, targets, discovered, tally, fetches, rowsBefore, mapping>>

WalkNext ==
    \/ StartWalk \/ ReadSitemap \/ SelectTargets \/ FinishWalk \/ LastFlushFails
    \/ \E t \in targets : VisitTarget(t)

WalkSpec == WalkInit /\ [][WalkNext]_walkVars

-----------------------------------------------------------------------------
\* A run fetches at most page_limit addresses besides robots.txt, whatever indexes
\* name one another and however many sitemaps and links the website has.
FetchesWithinLimit == fetches <= limit

\* When the limit leaves room, every page of the base's host the first page links to is
\* visited - unless the first page answers on the site's other host (with or without
\* "www."), whose links select_crawl_urls then takes for foreign ones.
LinkedIsVisited ==
    LET first == Fetch(web, Root).final
    IN  (wpc = "succeeded" /\ discovered < TargetLimit /\ Host[first] = "own") =>
            \A i \in DOMAIN Links(web, first) :
                LET a == Links(web, first)[i]
                IN  (a \in Crawlable /\ Host[a] = "own") =>
                        \/ a \in DOMAIN results
                        \/ \E b \in DOMAIN results : b = Canonical(Fetch(web, a).final)

\* Two targets of the run are one page.
Twins == \E a, b \in Chosen : a # b /\ Outcome(a).page = Outcome(b).page

\* The counts a succeeded run reports are those of its results, page by page, unless two
\* targets were one page, whose result was sent in between: then the later outcome stands
\* for both.
CountsAreOfResults ==
    wpc = "succeeded" =>
        /\ tally.ok + tally.bad = discovered
        /\ LET good == {a \in DOMAIN results : results[a].status = "succeeded"}
           IN  ~Twins => /\ tally.ok = Cardinality(good)
                         /\ tally.bad = Cardinality(DOMAIN results \ good)

\* A run whose first page opened only fails, with nothing of it stored, when two of its
\* targets are one page: whatever else the targets answer becomes a result.
OnlyTwinsFail ==
    (wpc = "failed" /\ DOMAIN results = {}) => Twins /\ pageRow = rowsBefore

\* The page a capability is mapped to was read by this very run and is active.
MappedWasRead ==
    (wpc = "succeeded" /\ mapping.status # "missing") =>
        /\ mapping.page \in DOMAIN results /\ results[mapping.page].status = "succeeded"
        /\ pageRow[mapping.page] = "active"

\* Within one crawl: the fetches stay within the run's limit whatever the sitemaps name, linked
\* pages are visited if there is room and the site answers on its own host, the counts are those
\* of the results unless two targets were one page, only such twins make it fail after its first
\* page, and a mapped page was read (WebsiteCrawlService._process).
WalkSafety ==
    /\ FetchesWithinLimit
    /\ LinkedIsVisited
    /\ CountsAreOfResults
    /\ OnlyTwinsFail
    /\ MappedWasRead

=============================================================================
