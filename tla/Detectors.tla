------------------------------ MODULE Detectors ------------------------------
(***************************************************************************)
(* The pure part of opportunity detection: evaluate_detection_input         *)
(* (app/modules/operator/services/opportunity_detection_service.py) with    *)
(* the six detectors (app/modules/operator/detectors) and the policies they *)
(* call (app/modules/operator/policies).                                    *)
(*                                                                         *)
(* One behaviour evaluates one snapshot: some queries, the one page every    *)
(* matched query leads to, one shipping event, the state of both sources    *)
(* and the history of the product's opportunities.  An                      *)
(* evaluation without a candidate (stopped, rejected) passes through the    *)
(* pipeline unchanged and is left out.  Scores are whole numbers: the       *)
(* snapshots are chosen so that every score the code computes is one,       *)
(* except the fit, which is kept doubled.  Ages are in days before as_of,   *)
(* shares in hundredths, and a fingerprint is the record it is the hash of. *)
(***************************************************************************)
EXTENDS Integers, FiniteSets, SequencesExt

CONSTANTS
    Snapshots        \* the detection inputs to evaluate, in families

\* The queries of a snapshot are finitely many and have fingerprints of their own; figures and
\* ages are numbers.
ASSUME DetectorAssumption ==
    \A family \in Snapshots : \A s \in family :
        /\ IsFiniteSet(s.queries)
        /\ \A q \in s.queries :
              /\ {q.id, q.impressions, q.clicks, q.priorImpressions, q.priorClicks, q.relevance}
                     \subseteq Nat
              /\ q.position \in Nat \X (Nat \ {0})
        /\ \A q, r \in s.queries : q.id = r.id => q = r
        /\ \A i \in s.history : i.age \in Int

VARIABLES
    given,           \* DetectionInput
    stage,           \* "gather", "rank", "near" or "done"
    rest,            \* evaluations the loop of the stage has still to come to
    owners,          \* the evaluations it lets stand for their group so far
    passed,          \* its result so far
    results          \* the evaluations with a candidate, {} before the end

loopVars == <<rest, owners, passed>>
detectorVars == <<given, stage, loopVars, results>>

Types == {"high_impressions_low_ctr", "ranking_within_reach", "search_decline",
          "shipped_but_not_marketed", "search_demand_without_dedicated_content",
          "existing_page_needs_improvement"}

\* The order of the types' values, the second sort key of rank_and_collapse.
Alphabetical == [t \in Types |->
    CASE t = "existing_page_needs_improvement" -> 1
      [] t = "high_impressions_low_ctr" -> 2
      [] t = "ranking_within_reach" -> 3
      [] t = "search_decline" -> 4
      [] t = "search_demand_without_dedicated_content" -> 5
      [] t = "shipped_but_not_marketed" -> 6]

PRECEDENCE == [t \in Types |->
    CASE t = "high_impressions_low_ctr" -> 0
      [] t = "existing_page_needs_improvement" -> 1
      [] t = "ranking_within_reach" -> 2
      [] t = "search_decline" -> 3
      [] t = "shipped_but_not_marketed" -> 4
      [] t = "search_demand_without_dedicated_content" -> 5]

EFFORT(family) ==
    CASE family = "seo_snippet_update" -> 20
      [] family \in {"existing_page_optimization", "content_refresh_investigation"} -> 50
      [] family = "product_update" -> 35
      [] family = "dedicated_content_creation" -> 75
      [] family = "page_quality_fix" -> 45

\* The words a detector puts in front of the subject in a candidate's title.
TitleWords == [t \in Types |->
    CASE t = "high_impressions_low_ctr" -> {"improve", "the", "search", "snippet", "for"}
      [] t = "ranking_within_reach" -> {"improve", "ranking", "for"}
      [] t = "search_decline" -> {"investigate", "search", "decline", "for"}
      [] t = "shipped_but_not_marketed" -> {"market"}
      [] t = "search_demand_without_dedicated_content" ->
            {"create", "dedicated", "content", "for"}
      [] t = "existing_page_needs_improvement" -> {"fix", "page", "quality", "issues", "on"}]

AtMost(bound, x) == IF x > bound THEN bound ELSE x
AtLeast(bound, x) == IF x < bound THEN bound ELSE x

-----------------------------------------------------------------------------
(* quality_reasons: what stops a detector.                                 *)

ProfileUsable(s) == s.profileApproved /\ s.completeness = 100

\* Two adjacent periods of 28 days, with facts for every day.
DatesComplete(s) == ~s.missingDates

SearchUsable(s) == s.search = "present" /\ DatesComplete(s) /\ ~s.truncated

WebsiteUsable(s) ==
    /\ s.website = "present"
    /\ s.crawlComplete
    /\ s.crawlAge \in 0..7
    /\ s.crawlProfileCurrent

-----------------------------------------------------------------------------
(* score_opportunity, search_scores, shipping_scores and candidate.        *)

\* priority, rounded half up.  Twice the fit is given; the novelty is n / d.
Priority(sc, n, d) ==
    LET x == sc.impact * sc.confidence * sc.fit2 * (100 + sc.urgency) * n
        y == (100 + sc.effort) * 20000 * d
    IN AtMost(100, (x \div y) + IF 2 * (x % y) >= y THEN 1 ELSE 0)

\* Mutant: the sample starts below the gate.
SearchScoresLow(impressions, family, relevance2, signal) ==
    [impact |-> AtMost(100, 45 + impressions \div 20 + signal),
     confidence |-> AtMost(100, 50 + impressions \div 10),
     fit2 |-> AtMost(200, 110 + (45 * relevance2) \div 100),
     urgency |-> AtMost(100, 40 + signal),
     effort |-> EFFORT(family)]

\* relevance2 is twice the relevance in hundredths.
SearchScores(impressions, family, relevance2, signal) ==
    [impact |-> AtMost(100, 45 + impressions \div 20 + signal),
     confidence |-> AtMost(100, 60 + impressions \div 10),
     fit2 |-> AtMost(200, 110 + (45 * relevance2) \div 100),
     urgency |-> AtMost(100, 40 + signal),
     effort |-> EFFORT(family)]

ShippingScores(worthiness, coverage, family) ==
    [impact |-> AtMost(100, (worthiness * 7) \div 10 + (coverage * 30) \div 100),
     confidence |-> AtMost(100, 65 + (coverage * 30) \div 100),
     fit2 |-> AtMost(200, 120 + (coverage * 80) \div 100),
     urgency |-> 75,
     effort |-> EFFORT(family)]

\* score_gate
Gated(sc) == sc.confidence < 60 \/ sc.fit2 < 100

\* An accepted evaluation, or none when the gate refuses the scores.
Candidate(type, family, subject, words, sc) ==
    IF Gated(sc) THEN {}
    ELSE {[type |-> type, family |-> family, subject |-> subject,
           title |-> TitleWords[type] \cup words, scores |-> sc,
           priority |-> Priority(sc, 1, 1), outcome |-> "accepted"]}

Superseded(e) == [e EXCEPT !.outcome = "superseded_in_run"]

-----------------------------------------------------------------------------
(* The detectors.                                                          *)

\* An average position is a fraction.
Within(low, p, high) == low * p[2] <= p[1] /\ p[1] <= high * p[2]

\* int(impressions * .02) - clicks
Shortfall(q) == (q.impressions * 2) \div 100 - q.clicks
LowCtr(q) == q.clicks * 100 < q.impressions * 2

HighImpressionsLowCtr(s) ==
    IF ~(ProfileUsable(s) /\ SearchUsable(s)) THEN {}
    ELSE UNION {Candidate("high_impressions_low_ctr", "seo_snippet_update",
                          <<"query", q.id>>, q.words,
                          SearchScores(q.impressions, "seo_snippet_update", 2 * q.relevance,
                                       AtMost(30, Shortfall(q) * 4))) :
                q \in {r \in s.queries : /\ r.impressions >= 100
                                         /\ Within(1, r.position, 10)
                                         /\ LowCtr(r)
                                         /\ Shortfall(r) >= 2
                                         /\ r.match = "matched"}}

\* 25 less the position, in whole numbers like the other scores
RankingSignal(p) == AtLeast(0, (25 * p[2] - p[1]) \div p[2])

\* A query that falls short of the expected clicks belongs to the detector above.
OwnedByLowCtr(q) == Within(0, q.position, 10) /\ LowCtr(q) /\ Shortfall(q) >= 2

RankingWithinReach(s) ==
    IF ~(ProfileUsable(s) /\ SearchUsable(s) /\ WebsiteUsable(s)) THEN {}
    ELSE UNION {Candidate("ranking_within_reach", "existing_page_optimization",
                          <<"query", q.id>>, q.words,
                          SearchScores(q.impressions, "existing_page_optimization",
                                       2 * q.relevance, RankingSignal(q.position))) :
                q \in {r \in s.queries : /\ r.impressions >= 100
                                         /\ Within(4, r.position, 20)
                                         /\ ~OwnedByLowCtr(r)
                                         /\ r.match = "matched"
                                         /\ s.pageCrawled
                                         /\ s.pageIndexable}}

ClicksDeclined(q) ==
    /\ q.priorClicks >= 10
    /\ q.priorClicks - q.clicks >= 3
    /\ q.clicks * 100 <= q.priorClicks * 70
    /\ q.impressions + q.priorImpressions >= 100
ImpressionsDeclined(q) ==
    /\ q.priorImpressions >= 200
    /\ q.impressions <= (q.priorImpressions * 60) \div 100
    /\ q.priorImpressions - q.impressions >= 100

ClickLoss(q) == q.priorClicks - q.clicks
ImpressionLoss(q) == q.priorImpressions - q.impressions
LosesMore(q, r) ==
    \/ ClickLoss(q) > ClickLoss(r)
    \/ ClickLoss(q) = ClickLoss(r) /\ ImpressionLoss(q) > ImpressionLoss(r)
    \/ /\ ClickLoss(q) = ClickLoss(r)
       /\ ImpressionLoss(q) = ImpressionLoss(r)
       /\ q.id > r.id

\* Queries that lead to one page are one group; the largest loss represents it.
SameGroup(q, r) == q = r \/ (q.match = "matched" /\ r.match = "matched")

SearchDecline(s) ==
    LET qualifying == {q \in s.queries : ClicksDeclined(q) \/ ImpressionsDeclined(q)}
        Beaten(q) == \E r \in qualifying : SameGroup(q, r) /\ LosesMore(r, q)
        Evaluate(q) ==
            Candidate("search_decline", "content_refresh_investigation", <<"query", q.id>>,
                      q.words,
                      SearchScores(q.impressions, "content_refresh_investigation",
                                   2 * q.relevance,
                                   AtMost(35, (AtLeast(0, ClickLoss(q)) * 3
                                               + AtLeast(0, ImpressionLoss(q))) \div 10)))
    IN IF ~(ProfileUsable(s) /\ SearchUsable(s)) THEN {}
       ELSE UNION {{IF Beaten(q) THEN Superseded(e) ELSE e : e \in Evaluate(q)} : q \in qualifying}

DemandWithoutContent(s) ==
    IF ~(ProfileUsable(s) /\ SearchUsable(s) /\ WebsiteUsable(s)) THEN {}
    ELSE UNION {Candidate("search_demand_without_dedicated_content",
                          "dedicated_content_creation", <<"query", q.id>>, q.words,
                          SearchScores(q.impressions, "dedicated_content_creation",
                                       2 * q.relevance, AtMost(30, q.impressions \div 20))) :
                q \in {r \in s.queries : /\ r.impressions >= 50
                                         /\ r.relevance >= 20
                                         /\ ~r.branded
                                         /\ r.match = "unmatched"}}

\* defects counts the missing title, description and single h1, an explicit
\* noindex, a foreign canonical URL and a page that leads to no conversion page.
ExistingPageNeedsImprovement(s) ==
    IF \/ ~(ProfileUsable(s) /\ SearchUsable(s) /\ WebsiteUsable(s))
       \/ s.page.impressions < 50 \/ s.page.match # "matched"
       \/ ~s.pageCrawled \/ s.page.defects = 0 THEN {}
    ELSE LET sc == SearchScores(s.page.impressions, "page_quality_fix", 100, s.page.defects * 8)
         IN Candidate("existing_page_needs_improvement", "page_quality_fix", <<"page", 1>>,
                      s.page.words,
                      IF s.page.metadataOnly THEN [sc EXCEPT !.effort = 20] ELSE sc)

\* shipping_signal_reasons
SignalUsable(e) ==
    /\ e.age \in 0..28
    /\ e.generate
    /\ e.worthiness >= 66
    /\ e.coverage >= 60
    /\ e.relevance >= 20

\* The weakest mapping of the capability decides.
MappingStatus(e) ==
    CASE e.mappings = {} \/ "missing" \in e.mappings -> "missing"
      [] "missing" \notin e.mappings /\ "partial" \in e.mappings -> "partial"
      [] OTHER -> "complete"

ShippedButNotMarketed(s) ==
    LET e == s.event
        family == IF MappingStatus(e) = "missing" THEN "product_update"
                  ELSE "existing_page_optimization"
    IN IF \/ ~(ProfileUsable(s) /\ WebsiteUsable(s))
          \/ ~SignalUsable(e) \/ s.crawlAge >= e.age \/ MappingStatus(e) = "complete" THEN {}
       ELSE Candidate("shipped_but_not_marketed", family, <<"shipping_event", 1>>, e.words,
                      ShippingScores(e.worthiness, e.coverage, family))

Gathered(s) ==
    HighImpressionsLowCtr(s) \cup RankingWithinReach(s) \cup SearchDecline(s)
        \cup ShippedButNotMarketed(s) \cup DemandWithoutContent(s)
        \cup ExistingPageNeedsImprovement(s)

-----------------------------------------------------------------------------
(* rank_and_collapse: one accepted evaluation per subject.                 *)

\* The fingerprints that order what is left are hashes: any order.
Ranks(a, b) ==
    \/ a.priority > b.priority
    \/ a.priority = b.priority /\ Alphabetical[a.type] <= Alphabetical[b.type]

\* Mutant: the first evaluation of a subject is never replaced.
PrefersFirst(e, owner) == FALSE

Prefers(e, owner) == PRECEDENCE[e.type] < PRECEDENCE[owner.type]

Pass(e) == passed' = passed \cup {e} /\ UNCHANGED owners
PassAsOwner(e) == passed' = passed \cup {e} /\ owners' = owners \cup {e}

\* Mutant: the evaluation that replaces the owner is not added to the result.
ReplaceDropsWinner(owner, e) ==
    /\ passed' = (passed \ {owner}) \cup {Superseded(owner)}
    /\ owners' = (owners \ {owner}) \cup {e}

Replace(owner, e) ==
    /\ passed' = (passed \ {owner}) \cup {e, Superseded(owner)}
    /\ owners' = (owners \ {owner}) \cup {e}

\* One turn of the loop of rank_and_collapse.
RankEvaluation(e) ==
    /\ stage = "rank" /\ \A f \in rest : Ranks(e, f)
    /\ rest' = rest \ {e}
    /\ LET rivals == {o \in owners : o.subject = e.subject}
       IN  \/ e.outcome # "accepted" /\ Pass(e)
           \/ e.outcome = "accepted" /\ rivals = {} /\ PassAsOwner(e)
           \/ /\ e.outcome = "accepted"
              /\ \E owner \in rivals :
                    IF Prefers(e, owner) THEN Replace(owner, e) ELSE Pass(Superseded(e))
    /\ UNCHANGED <<given, stage, results>>

-----------------------------------------------------------------------------
(* collapse_near_duplicates: one accepted evaluation per cluster of titles. *)

\* token_jaccard >= .60
SimilarTitles(a, b) ==
    Cardinality(a \cap b) * 100 >= Cardinality(a \cup b) * 60

NearDuplicate(a, b) ==
    /\ a.type = b.type
    /\ a.family = b.family
    /\ SimilarTitles(a.title, b.title)

\* _collapse_same_identity finds nothing: a subject has one accepted evaluation by now.
StartNear ==
    /\ stage = "rank" /\ rest = {}
    /\ stage' = "near" /\ rest' = passed /\ owners' = {} /\ passed' = {}
    /\ UNCHANGED <<given, results>>

\* One turn of the loop of collapse_near_duplicates.
CollapseEvaluation(e) ==
    /\ stage = "near" /\ \A f \in rest : e.priority >= f.priority
    /\ rest' = rest \ {e}
    /\ LET duplicate == \E w \in owners : NearDuplicate(w, e)
       IN  \/ e.outcome # "accepted" /\ Pass(e)
           \/ e.outcome = "accepted" /\ duplicate /\ Pass(Superseded(e))
           \/ e.outcome = "accepted" /\ ~duplicate /\ PassAsOwner(e)
    /\ UNCHANGED <<given, stage, results>>

-----------------------------------------------------------------------------
(* cooldown_decision and novelty_for_history.                              *)

COMPLETED_DAYS(type) ==
    CASE type = "search_decline" -> 28
      [] type = "shipped_but_not_marketed" -> 84
      [] type = "search_demand_without_dedicated_content" -> 90
      [] OTHER -> 56

DISMISSAL_DAYS(reason) ==
    CASE reason \in {"not_relevant", "duplicate"} -> 90
      [] reason = "already_done" -> 180
      [] reason = "not_now" -> 28
      [] OTHER -> 56

CooldownDays(item, type) ==
    IF item.status = "completed" THEN COMPLETED_DAYS(type) ELSE DISMISSAL_DAYS(item.reason)

\* Mutant: an opportunity that is planned no longer blocks its identity.
BlockedByOpenOnly(item, type) ==
    CASE item.status = "open" -> "suppressed_duplicate"
      [] /\ item.status \in {"completed", "dismissed"}
         /\ item.age < CooldownDays(item, type) -> "suppressed_cooldown"
      [] OTHER -> "accepted"

\* What becomes of a candidate with this item in its history.
BlockedBy(item, type) ==
    CASE item.status \in {"open", "planned"} -> "suppressed_duplicate"
      [] /\ item.status \in {"completed", "dismissed"}
         /\ item.age < CooldownDays(item, type) -> "suppressed_cooldown"
      [] OTHER -> "accepted"

\* The lowest novelty an item leaves, as a fraction.
NoveltyOf(items) ==
    LET lasting == {i \in items : i.status # "superseded"}
    IN  CASE lasting = {} -> <<1, 1>>
          [] lasting # {} /\ \A i \in lasting : i.age < 90 -> <<7, 10>>
          [] OTHER -> <<1, 2>>

SameIdentity(i, e) == i.type = e.type /\ i.subject = e.subject /\ i.family = e.family

\* What the history makes of an accepted evaluation; the oldest item that blocks it says why.
WithHistory(s, e) ==
    LET items == {i \in s.history : SameIdentity(i, e)}
        blocking == {i \in items : BlockedBy(i, e.type) # "accepted"}
        repeated == \E i \in blocking : /\ BlockedBy(i, e.type) = "suppressed_duplicate"
                                        /\ \A j \in blocking : j.age <= i.age
    IN  IF e.outcome # "accepted" THEN e
        ELSE IF blocking # {}
        THEN [e EXCEPT !.outcome = IF repeated THEN "suppressed_duplicate" ELSE "suppressed_cooldown",
                       !.priority = 0]
        ELSE [e EXCEPT !.priority = Priority(e.scores, NoveltyOf(items)[1], NoveltyOf(items)[2])]

-----------------------------------------------------------------------------
(* evaluate_detection_input                                                *)

DetectorInit ==
    /\ \E family \in Snapshots : given \in family
    /\ stage = "gather"
    /\ rest = {} /\ owners = {} /\ passed = {}
    /\ results = {}

Gather ==
    /\ stage = "gather"
    /\ stage' = "rank" /\ rest' = Gathered(given)
    /\ UNCHANGED <<given, owners, passed, results>>

FinishEvaluation ==
    /\ stage = "near" /\ rest = {}
    /\ stage' = "done"
    /\ results' = {WithHistory(given, e) : e \in passed}
    /\ UNCHANGED <<given, loopVars>>

DetectorNext ==
    \/ Gather \/ StartNear \/ FinishEvaluation
    \/ \E e \in rest : RankEvaluation(e) \/ CollapseEvaluation(e)

DetectorSpec == DetectorInit /\ [][DetectorNext]_detectorVars

-----------------------------------------------------------------------------
Accepted == {e \in results : e.outcome = "accepted"}
Kept == {e \in results : e.outcome # "superseded_in_run"}

\* Whatever the detectors find, a run accepts one opportunity per subject, the
\* one of the type that precedes among those the snapshot supports, unless that
\* one yields to a similar title or to its history; and no two accepted ones of
\* a kind have similar titles.
OneOpportunityPerSubject ==
    /\ \A a, b \in Accepted : a # b =>
           /\ a.subject # b.subject
           /\ (a.type = b.type /\ a.family = b.family) => ~SimilarTitles(a.title, b.title)
    /\ \A a \in Accepted : \A b \in results :
           b.subject = a.subject => PRECEDENCE[a.type] <= PRECEDENCE[b.type]

\* The reasons for which the code sets one evaluation aside for another.
Outdoes(b, a) ==
    \/ b.subject = a.subject /\ PRECEDENCE[b.type] < PRECEDENCE[a.type]
    \/ /\ b.type = a.type /\ b.family = a.family
       /\ SimilarTitles(a.title, b.title)
    \/ b.type = "search_decline" /\ a.type = "search_decline"

\* An evaluation is set aside only for another that answers for it: following
\* the reasons leads, in at most three steps, to one that was accepted or that
\* only its own history holds back.  Nothing is lost between the collapses.
SupersededIsOutdone ==
    \A a \in results \ Kept :
        \/ \E b \in Kept : Outdoes(b, a)
        \/ \E b \in results, c \in Kept : Outdoes(b, a) /\ Outdoes(c, b)
        \/ \E b, c \in results, d \in Kept :
               Outdoes(b, a) /\ Outdoes(c, b) /\ Outdoes(d, c)

\* An identity that is open or planned, or that was dismissed or completed less
\* than its cooldown ago, is never recommended again by a run.
HistoryKeepsAway ==
    \A e \in Accepted : \A i \in given.history :
        SameIdentity(i, e) =>
            /\ i.status \notin {"open", "planned"}
            /\ i.status = "dismissed" => i.age >= DISMISSAL_DAYS(i.reason)
            /\ i.status = "completed" => i.age >= COMPLETED_DAYS(i.type)

\* A query in decline always yields an evaluation of the decline detector, and
\* never more than one: no score the policies compute falls below the
\* confidence and the fit the gate asks for, whatever the volume.
DeclineIsEvaluated ==
    (stage = "done" /\ ProfileUsable(given) /\ SearchUsable(given)) =>
        \A q \in given.queries :
            (ClicksDeclined(q) \/ ImpressionsDeclined(q)) =>
                Cardinality({e \in results : e.subject = <<"query", q.id>>
                                                    /\ e.type = "search_decline"}) = 1

\* What one detection accepts: one opportunity of a subject, every one set aside
\* answered for by one accepted or held back by its own history, nothing that history keeps away, and no decline lost at a
\* threshold (the detectors, collapse_near_duplicates, cooldown_decision).
DetectorSafety ==
    /\ OneOpportunityPerSubject
    /\ SupersededIsOutdone
    /\ HistoryKeepsAway
    /\ DeclineIsEvaluated

=============================================================================
