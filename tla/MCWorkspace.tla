---------------------------- MODULE MCWorkspace -----------------------------
(***************************************************************************)
(* What the members of a workspace do through the API, and the jobs they    *)
(* start: drafts, connections, the search property, the website and the     *)
(* products.  A behaviour follows one of them (part); each has tables of    *)
(* its own.                                                                 *)
(***************************************************************************)
EXTENDS DraftReview, Connections, SearchSync, WebsiteCrawl, CrawlWalk, ProductActivation, TLC

VARIABLE part

\* The requests and jobs of a part are interchangeable, and so are the things they
\* name; because the parts never meet, they share their model values.
Symmetry ==
    Permutations(Requests \cup Admins \cup Syncers \cup Crawlers \cup Editors)
        \cup Permutations(Commands \cup Accounts \cup Items)
        \cup Permutations(Runs \cup Installations)

mcVars == <<part, vars, connectionVars, searchVars, crawlVars, walkVars, activationVars>>

-----------------------------------------------------------------------------
(* A small web: 1 the base, 2 to 4 pages, 5 and 6 sitemaps, 7 the site's    *)
(* other host and 8 another site.                                          *)

Page(code, canonical, links, score, coverage) ==
    [kind |-> "page", code |-> code, canonical |-> canonical, links |-> links,
     score |-> score, coverage |-> coverage]
RedirectTo(a) == [kind |-> "redirect", to |-> a]
Down == [kind |-> "down"]
Sitemap(locs) == [kind |-> "sitemap", locs |-> locs]
SitemapIndex(locs) == [kind |-> "index", locs |-> locs]

MCHost == [a \in 1..8 |-> IF a = 7 THEN "www" ELSE IF a = 8 THEN "foreign" ELSE "own"]
MCPriority == [a \in 1..8 |-> IF a = 3 THEN 1 ELSE 10]
MCConfigured == <<5, 6>>
MCKnown == <<4>>

MCWebs ==
    {<<a, b, c, Page(200, 4, <<>>, 0, 0), e, f, Page(200, 7, <<2, 7>>, 40, 40),
       Page(200, 8, <<>>, 0, 0)>> :
        a \in {Page(200, 1, <<2, 8, 3>>, 25, 50), Page(200, 2, <<2, 3>>, 10, 100),
               Page(404, 1, <<>>, 0, 0), RedirectTo(7), RedirectTo(8), RedirectTo(1), Down},
        b \in {Page(200, 2, <<>>, 30, 60), Page(500, 2, <<>>, 30, 60), Page(200, 3, <<>>, 0, 0),
               RedirectTo(3)},
        c \in {Page(200, 3, <<>>, 25, 100), Page(404, 3, <<>>, 0, 0), RedirectTo(2)},
        e \in {SitemapIndex(<<5, 6>>), SitemapIndex(<<6, 6, 5>>), Sitemap(<<4, 2>>), Down},
        f \in {Sitemap(<<3, 4>>), SitemapIndex(<<5>>), Page(200, 6, <<>>, 0, 0)}}

-----------------------------------------------------------------------------

\* A draft comes from an event or from an asset, a run has some page limit; the other
\* parts rest on one of them.
MCInit ==
    /\ part \in {"drafts", "connections", "search", "website", "walk", "products"}
    /\ Init /\ ConnectionInit /\ SearchInit /\ CrawlInit /\ WalkInit /\ ActivationInit
    /\ part # "drafts" => kind = "event"
    /\ part # "walk" => limit = 1 /\ pageRow[Root] = "none"

MCNext ==
    /\ UNCHANGED part
    /\ \/ /\ part = "drafts" /\ Next
          /\ UNCHANGED <<connectionVars, searchVars, crawlVars, walkVars, activationVars>>
       \/ /\ part = "connections" /\ ConnectionNext
          /\ UNCHANGED <<vars, searchVars, crawlVars, walkVars, activationVars>>
       \/ /\ part = "search" /\ SearchNext
          /\ UNCHANGED <<vars, connectionVars, crawlVars, walkVars, activationVars>>
       \/ /\ part = "website" /\ CrawlNext
          /\ UNCHANGED <<vars, connectionVars, searchVars, walkVars, activationVars>>
       \/ /\ part = "walk" /\ WalkNext
          /\ UNCHANGED <<vars, connectionVars, searchVars, crawlVars, activationVars>>
       \/ /\ part = "products" /\ ActivationNext
          /\ UNCHANGED <<vars, connectionVars, searchVars, crawlVars, walkVars>>

MCSpec == MCInit /\ [][MCNext]_mcVars

=============================================================================
