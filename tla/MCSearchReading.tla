--------------------------- MODULE MCSearchReading ---------------------------
(***************************************************************************)
(* Inputs for Detectors and SearchReading: snapshots around every threshold *)
(* of the detection policies, and rows of search results a provider could   *)
(* return for a day.                                                        *)
(***************************************************************************)
EXTENDS SearchReading

\* The figures of a query: an average position, and this and the prior period's counts.
Metric(i, c, p, pi, pc) ==
    [impressions |-> i, clicks |-> c, position |-> <<p, 1>>, priorImpressions |-> pi, priorClicks |-> pc]

\* Below, at and above the impressions, click rates, positions and declines that matter.
Figures ==
    {Metric(40, 0, 5, 40, 0), Metric(60, 0, 5, 60, 0), Metric(100, 0, 5, 100, 0),
     Metric(100, 1, 5, 100, 1), Metric(200, 4, 12, 200, 4), Metric(200, 10, 2, 200, 20),
     Metric(40, 0, 25, 200, 10), Metric(200, 0, 5, 400, 20)}

Query(id, m, match, relevance, branded, words) ==
    [id |-> id, impressions |-> m.impressions, clicks |-> m.clicks, position |-> m.position,
     priorImpressions |-> m.priorImpressions, priorClicks |-> m.priorClicks, match |-> match,
     relevance |-> relevance, branded |-> branded, words |-> words]

Item(type, family, subject, status, age, reason) ==
    [type |-> type, family |-> family, subject |-> subject, status |-> status, age |-> age,
     reason |-> reason]

NoPage ==
    [impressions |-> 0, match |-> "unmatched", defects |-> 0, metadataOnly |-> FALSE, words |-> {}]

NoShippedEvent ==
    [age |-> 60, generate |-> FALSE, worthiness |-> 0, coverage |-> 0, relevance |-> 0,
     mappings |-> {}, words |-> {}]

\* A snapshot with every source present and nothing to find.
Base ==
    [profileApproved |-> TRUE, completeness |-> 100, search |-> "present", missingDates |-> FALSE,
     truncated |-> FALSE, website |-> "present", crawlComplete |-> TRUE, crawlAge |-> 1,
     crawlProfileCurrent |-> TRUE, pageCrawled |-> TRUE, pageIndexable |-> TRUE, queries |-> {},
     page |-> NoPage, event |-> NoShippedEvent, history |-> {}]

Histories ==
    {{},
     {Item("search_decline", "content_refresh_investigation", <<"query", 1>>, "planned", 3, "none")},
     {Item("high_impressions_low_ctr", "seo_snippet_update", <<"query", 2>>, "dismissed", 28, "not_now")},
     {Item("ranking_within_reach", "existing_page_optimization", <<"query", 2>>, "completed", 55, "none")},
     {Item("ranking_within_reach", "existing_page_optimization", <<"query", 2>>, "completed", 56, "none"),
      Item("ranking_within_reach", "existing_page_optimization", <<"query", 2>>, "planned", 3, "none")}}

\* Two queries that may be near duplicates, with what was found before.
TwoQueries ==
    {[Base EXCEPT !.queries = {Query(1, m, x, 20, FALSE, {"a"}), Query(2, n, y, g[1], g[2], w)},
                  !.history = h] :
        m \in Figures, n \in Figures, x \in {"matched", "unmatched", "ambiguous"},
        y \in {"matched", "unmatched", "ambiguous"},
        g \in {<<0, FALSE>>, <<20, FALSE>>, <<100, TRUE>>}, w \in {{"b"}, {"b", "c"}}, h \in Histories}

\* A query, the page and a shipped event, with a crawl that may be old or partial.
PageEvent ==
    {[Base EXCEPT
        !.page = [impressions |-> i, match |-> x, defects |-> d, metadataOnly |-> d = 1, words |-> {"u"}],
        !.event = [age |-> a, generate |-> TRUE, worthiness |-> 70, coverage |-> c, relevance |-> 20,
                   mappings |-> ms, words |-> {"e"}],
        !.queries = {Query(1, m, "matched", 100, FALSE, {"a"})},
        !.truncated = t, !.crawlAge = ca, !.pageIndexable = pi] :
        i \in {40, 60}, x \in {"matched", "unmatched"}, d \in 0..2, a \in {1, 5, 29},
        c \in {50, 60, 100}, ms \in SUBSET {"missing", "partial", "complete"},
        m \in {Metric(100, 1, 5, 100, 1), Metric(200, 0, 5, 400, 20)}, t \in BOOLEAN,
        ca \in {1, 8}, pi \in BOOLEAN}

\* A source or the profile is missing.
Broken ==
    {[Base EXCEPT !.queries = {Query(1, Metric(200, 0, 5, 400, 20), "matched", 100, FALSE, {"a"})},
                  !.profileApproved = a, !.completeness = c, !.search = s, !.website = w] :
        a \in BOOLEAN, c \in {99, 100}, s \in {"present", "missing"}, w \in {"present", "missing"}}

MCSnapshots == {TwoQueries, PageEvent, Broken}

Row(q, p, c, i, pos) ==
    [query |-> q, page |-> p, clicks |-> c, impressions |-> i, position |-> pos]

\* Positions in halves.
MCRowSets ==
    {{},
     {Row(1, 1, 0, 60, 20)},
     {Row(1, 1, 8, 20, 8), Row(1, 3, 0, 60, 16), Row(2, 3, 0, 25, 24)},
     {Row(1, 1, 1, 20, 8), Row(1, 2, 1, 20, 11)}}

\* Pages 1 and 2 have a crawled page, page 3 has several.
MCPageMatch == <<"matched", "matched", "ambiguous">>

\* SearchReading alone: the detectors are given nothing.
MCNoSnapshots == {{Base}}
ReadingOnlySpec ==
    ReadingInit /\ DetectorInit /\ [][ReadingNext /\ UNCHANGED detectorVars]_<<readingVars, detectorVars>>

=============================================================================
