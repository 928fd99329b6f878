---------------------------- MODULE RunReadiness ----------------------------
(***************************************************************************)
(* What the user is shown about starting a weekly run, and what happens     *)
(* when the user does as shown.  Four surfaces judge the same rows, each    *)
(* with code of its own: the activation wizard (_projection, products/api/  *)
(* activation_router.py), the operator's readiness and the Today page       *)
(* (operator/api/weekly_growth_router.py), the product list                 *)
(* (list_product_operator_summaries) and the profile page                   *)
(* (product_profile_readiness).  The handlers judge them once more.         *)
(*                                                                         *)
(* The rows of one product are modelled; the workspace may have selected    *)
(* it, another product or none for its activation.  The races of the        *)
(* commands are in WeeklySchedule and ProductActivation: here every command *)
(* is one step.                                                            *)
(***************************************************************************)
EXTENDS Integers, FiniteSets

CONSTANTS
    ProviderAvailable    \* google_search_enabled

ASSUME ProviderAssumption == ProviderAvailable \in BOOLEAN

VARIABLES
    selected,        \* Workspace.activation_product_id: "none", "mine", "other"
    onboarded,       \* Workspace.onboarding_completed
    profile,         \* "none", a draft ("partial", "complete") or "approved", also beside a new draft
    site,            \* WebsiteSource.status, "none" without a row
    crawled,         \* last_successful_crawl_at is set
    crawling,        \* a crawl is pending or running
    search,          \* the active search source: "none", "selected", "synced"
    mode,            \* Product.search_mode
    tracked,         \* the product has a tracked repository
    evidence,        \* Product.repository_evidence_mode
    enabled,         \* weekly_growth_operator_enabled
    manual,          \* operator_manual_enabled
    latest,          \* the latest weekly run: "none", "active", "ended"
    thisWeek,        \* the latest run is of the current period
    report,          \* a plan of the product is ready
    detecting        \* an opportunity detection run of the product is pending or running

sourceVars == <<profile, site, crawled, crawling, search, tracked>>
settingVars == <<mode, evidence, enabled, manual>>
runStateVars == <<latest, thisWeek, report, detecting>>
readinessVars == <<selected, onboarded, sourceVars, settingVars, runStateVars>>

ReadinessInit ==
    /\ selected = "none"
    /\ onboarded = FALSE
    /\ profile = "none"
    /\ site = "none" /\ crawled = FALSE /\ crawling = FALSE
    /\ search = "none" /\ mode = "required"
    /\ tracked = FALSE /\ evidence = "deferred"
    /\ enabled = FALSE /\ manual = TRUE
    /\ latest = "none" /\ thisWeek = FALSE /\ report = FALSE
    /\ detecting = FALSE

\* get_product_profile_state returns an approved profile.
Approved == profile = "approved"

-----------------------------------------------------------------------------
(* read_activation_state: without an activation product every part of the   *)
(* state is absent.  Another product's state is that of a product in use.   *)

Absent == [product |-> "none", profile |-> FALSE, site |-> "none", crawled |-> FALSE,
           search |-> "none", mode |-> "required", enabled |-> FALSE, manual |-> FALSE,
           tracked |-> FALSE, active |-> FALSE, report |-> FALSE]

Elsewhere == [product |-> "other", profile |-> TRUE, site |-> "active", crawled |-> TRUE,
              search |-> "synced", mode |-> "connected", enabled |-> TRUE, manual |-> TRUE,
              tracked |-> TRUE, active |-> FALSE, report |-> TRUE]

ActivationState ==
    CASE selected = "none" -> Absent
      [] selected = "other" -> Elsewhere
      [] selected = "mine" ->
            [product |-> "mine", profile |-> Approved, site |-> site, crawled |-> crawled,
             search |-> search, mode |-> mode, enabled |-> enabled, manual |-> manual,
             tracked |-> tracked, active |-> latest = "active", report |-> report]

WebsiteReady(s) == s.site = "active" /\ s.crawled
SearchConnected(s) == s.search = "synced"
SearchReady(s) == s.product # "none" /\ (SearchConnected(s) \/ s.mode = "deferred_reduced")

\* The blockers, in the order of the list.
SourceBlockers(s) ==
    IF s.product = "none" THEN {"product"}
    ELSE {b \in {"profile", "website", "search"} :
              \/ b = "profile" /\ ~s.profile
              \/ b = "website" /\ ~WebsiteReady(s)
              \/ b = "search" /\ ~SearchReady(s)}

RunBlockers(s) ==
    SourceBlockers(s) \cup (IF s.product = "none" \/ s.enabled THEN {} ELSE {"operator_disabled"})
        \cup (IF s.product = "none" \/ s.manual THEN {} ELSE {"manual_disabled"})

-----------------------------------------------------------------------------
(* The surfaces.                                                           *)

\* get_operator_readiness of the modelled product.
ReadinessBlockers(s) == IF s.product # "mine" THEN {"mismatch"} ELSE RunBlockers(s)

\* Mutant: a run under way does not count.
ManualRunAvailableAlways(s) == ReadinessBlockers(s) = {}

ManualRunAvailable(s) == ReadinessBlockers(s) = {} /\ ~s.active

WebsiteStatus(s) ==
    IF WebsiteReady(s) THEN "healthy" ELSE IF s.site = "none" THEN "not_connected" ELSE "stale"
SearchStatus(s) ==
    IF SearchConnected(s) THEN "healthy"
    ELSE IF mode = "deferred_reduced" THEN "reduced" ELSE "not_connected"

ReadinessEvidence(s) ==
    IF evidence = "deferred" THEN "website_search"
    ELSE IF SearchConnected(s) THEN "website_search_github" ELSE "website_github"

\* get_today
ManualRunState(s) ==
    IF s.active THEN "active" ELSE IF ManualRunAvailable(s) THEN "available" ELSE "blocked"
TodayWebsite(s) ==
    IF WebsiteReady(s) THEN "healthy" ELSE IF s.site = "none" THEN "not_connected" ELSE "stale"
TodaySearch(s) ==
    IF SearchConnected(s) THEN "healthy"
    ELSE IF mode = "deferred_reduced" THEN "reduced" ELSE "not_connected"

\* list_product_operator_summaries, for the activation product.
SummaryBlockers(s) == IF s.product = "mine" THEN RunBlockers(s) ELSE {"mismatch"}

\* Mutant: the list tells a reduced product from a connected one by its mode alone.
SummarySearchByMode(s) ==
    IF s.mode = "deferred_reduced" THEN "reduced"
    ELSE IF SearchConnected(s) THEN "healthy" ELSE "not_connected"

SummarySearch(s) ==
    IF SearchConnected(s) THEN "healthy"
    ELSE IF ~SearchReady(s) THEN "not_connected" ELSE "reduced"

\* Mutant: deferring is offered only where connecting is not.
SearchCommandsEither(s) ==
    (CASE WebsiteReady(s) -> {}
       [] ~WebsiteReady(s) /\ s.site = "none" -> {"connect_website"}
       [] OTHER -> {"crawl_website"})
    \cup (IF SearchReady(s) THEN {}
          ELSE IF ProviderAvailable THEN {"connect_search"} ELSE {"defer_search"})

\* _projection: the commands of the stages.
SearchCommands(s) ==
    (CASE WebsiteReady(s) -> {}
       [] ~WebsiteReady(s) /\ s.site = "none" -> {"connect_website"}
       [] OTHER -> {"crawl_website"})
    \cup (IF SearchReady(s) THEN {}
          ELSE {"defer_search"} \cup IF ProviderAvailable THEN {"connect_search"} ELSE {})

\* Mutant: a run that ended counts as the first report.
FirstRunCommandsEnded(s) ==
    CASE s.report \/ latest = "ended" -> {"view_report"}
      [] ~s.report /\ latest = "active" -> {"view_run"}
      [] ~s.report /\ latest = "none" /\ SourceBlockers(s) # {} -> {}
      [] OTHER -> {"finalize_and_start"}

FirstRunCommands(s) ==
    CASE s.report -> {"view_report"}
      [] ~s.report /\ s.active -> {"view_run"}
      [] ~s.report /\ ~s.active /\ SourceBlockers(s) # {} -> {}
      [] OTHER -> {"finalize_and_start"}

WizardCommands(s) ==
    (IF s.product = "none" THEN {"select_product"} ELSE {})
    \cup (IF s.profile THEN {} ELSE {"approve_profile"})
    \cup SearchCommands(s) \cup FirstRunCommands(s)

\* The stage the wizard shows as complete.
SearchStageComplete(s) == WebsiteReady(s) /\ SearchReady(s) /\ s.product # "none"

WizardEvidence(s) ==
    CASE evidence = "deferred" -> "website_search"
      [] evidence = "connected" /\ SearchConnected(s) -> "website_search_github"
      [] OTHER -> "website_github"

\* The recommendation classes the wizard promises: the search classes, and
\* the one for shipped work.
AvailableClasses(s) ==
    (IF WebsiteReady(s) /\ SearchConnected(s) THEN {"search"} ELSE {})
    \cup (IF s.tracked THEN {"shipped"} ELSE {})

\* product_profile_readiness: the manual_run_available of the profile page, which looks
\* neither at the sources nor at the runs nor at the activation.
ProfilePageAvailable == Approved /\ enabled /\ manual

-----------------------------------------------------------------------------
(* The handlers' own conditions.                                           *)

\* request_crawl
CrawlAccepted == site = "active" /\ ~crawling

\* approve_draft: there is a draft, and it is complete.  (The revision is the one shown; forms that
\* are out of date are ProductActivation's.)
ApproveAccepted == profile = "complete"

\* require_operator_run_ready
RunReady ==
    /\ enabled /\ manual
    /\ ActivationState.product = "mine"
    /\ RunBlockers(ActivationState) = {}

\* request_manual_weekly_run with create_weekly_run, for a new key.
ManualRunStarts == RunReady /\ latest # "active" /\ ~thisWeek

\* request_operator_run, for a new key: require_manual_run_ready without the product's settings,
\* and no other detection run under way, a weekly run's own included.
DetectionAccepted == Approved /\ ~detecting

\* finalize_activation_and_start returns a run: the active one, that of the
\* current period, or a new one.
FinalizeAccepted == selected = "mine" /\ SourceBlockers(ActivationState) = {}
RunAfterFinalize == IF latest = "active" \/ thisWeek THEN latest ELSE "active"

-----------------------------------------------------------------------------
(* The commands, and what the workflows report back.                       *)

SelectProduct(p) ==
    /\ ~onboarded \/ selected = p
    /\ selected' = p
    /\ UNCHANGED <<onboarded, sourceVars, settingVars, runStateVars>>

\* save_draft; a new draft beside an approved profile changes nothing here.
SaveDraft ==
    /\ ~Approved
    /\ profile' \in {"partial", "complete"}
    /\ UNCHANGED <<selected, onboarded, site, crawled, crawling, search, tracked,
                   settingVars, runStateVars>>

ApproveProfile ==
    /\ ApproveAccepted
    /\ profile' = "approved"
    /\ UNCHANGED <<selected, onboarded, site, crawled, crawling, search, tracked,
                   settingVars, runStateVars>>

\* save_source keeps the crawl date of the row it reconnects.
SaveWebsite ==
    /\ site' = "active"
    /\ UNCHANGED <<selected, onboarded, profile, crawled, crawling, search, tracked,
                   settingVars, runStateVars>>

DisconnectWebsite ==
    /\ site = "active"
    /\ site' = "disconnected"
    /\ UNCHANGED <<selected, onboarded, profile, crawled, crawling, search, tracked,
                   settingVars, runStateVars>>

RequestWebsiteCrawl ==
    /\ CrawlAccepted
    /\ crawling' = TRUE
    /\ UNCHANGED <<selected, onboarded, profile, site, crawled, search, tracked,
                   settingVars, runStateVars>>

FinishWebsiteCrawl ==
    /\ crawling
    /\ crawling' = FALSE
    /\ crawled' \in {crawled, TRUE}
    /\ UNCHANGED <<selected, onboarded, profile, site, search, tracked,
                   settingVars, runStateVars>>

\* select_property, the first day a sync stores (_persist_day), and a disconnection.
SearchChanges ==
    /\ \/ search' = "selected"
       \/ search = "selected" /\ search' = "synced"
       \/ search # "none" /\ search' = "none"
    /\ UNCHANGED <<selected, onboarded, profile, site, crawled, crawling, tracked,
                   settingVars, runStateVars>>

\* _succeed decides the mode, whatever the user has chosen meanwhile; the run may be that of a
\* source whose place another one has taken.
SearchSyncSucceeds ==
    /\ search # "none"
    /\ mode' = "connected"
    /\ UNCHANGED <<selected, onboarded, sourceVars, evidence, enabled, manual, runStateVars>>

TrackingChanges ==
    /\ tracked' = ~tracked
    /\ UNCHANGED <<selected, onboarded, profile, site, crawled, crawling, search,
                   settingVars, runStateVars>>

\* set_search_mode
ChooseMode(m) ==
    /\ selected = "mine"
    /\ m = "connected" => SearchConnected(ActivationState)
    /\ mode' = m
    /\ UNCHANGED <<selected, onboarded, sourceVars, evidence, enabled, manual, runStateVars>>

\* set_repository_evidence_mode
ChooseEvidence(e) ==
    /\ selected = "mine"
    /\ e = "connected" => tracked
    /\ evidence' = e
    /\ UNCHANGED <<selected, onboarded, sourceVars, mode, enabled, manual, runStateVars>>

\* patch_operator_config
PatchConfig ==
    /\ enabled' \in BOOLEAN
    /\ manual' \in BOOLEAN
    /\ UNCHANGED <<selected, onboarded, sourceVars, mode, evidence, runStateVars>>

\* request_manual_weekly_run; the insertion of a second run of the period is refused.
RequestManualRun ==
    /\ ManualRunStarts
    /\ latest' = "active" /\ thisWeek' = TRUE
    /\ UNCHANGED <<selected, onboarded, sourceVars, settingVars, report, detecting>>

FinalizeRequest ==
    /\ FinalizeAccepted
    /\ onboarded' = TRUE
    /\ enabled' = TRUE /\ manual' = TRUE
    /\ latest' = RunAfterFinalize
    /\ thisWeek' = (thisWeek \/ latest # "active")
    /\ UNCHANGED <<selected, sourceVars, mode, evidence, report, detecting>>

\* The run ends, with a report or without.
RunEnds ==
    /\ latest = "active"
    /\ latest' = "ended"
    /\ report' \in {report, TRUE}
    /\ UNCHANGED <<selected, onboarded, sourceVars, settingVars, thisWeek, detecting>>

WeekPasses ==
    /\ thisWeek
    /\ thisWeek' = FALSE
    /\ UNCHANGED <<selected, onboarded, sourceVars, settingVars, latest, report, detecting>>

\* request_operator_run, or the detection of a weekly run, which looks for no other.
DetectionStarts ==
    /\ DetectionAccepted \/ latest = "active"
    /\ detecting' = TRUE
    /\ UNCHANGED <<selected, onboarded, sourceVars, settingVars, latest, thisWeek, report>>

DetectionEnds ==
    /\ detecting
    /\ detecting' = FALSE
    /\ UNCHANGED <<selected, onboarded, sourceVars, settingVars, latest, thisWeek, report>>

ReadinessNext ==
    \/ \E p \in {"mine", "other"} : SelectProduct(p)
    \/ SaveDraft \/ ApproveProfile
    \/ SaveWebsite \/ DisconnectWebsite \/ RequestWebsiteCrawl \/ FinishWebsiteCrawl
    \/ SearchChanges \/ SearchSyncSucceeds \/ TrackingChanges
    \/ \E m \in {"connected", "deferred_reduced"} : ChooseMode(m)
    \/ \E e \in {"connected", "deferred"} : ChooseEvidence(e)
    \/ PatchConfig
    \/ RequestManualRun \/ FinalizeRequest \/ RunEnds \/ WeekPasses
    \/ DetectionStarts \/ DetectionEnds

ReadinessSpec == ReadinessInit /\ [][ReadinessNext]_readinessVars

-----------------------------------------------------------------------------
\* A run that is offered starts: when the readiness offers a manual run, or the
\* wizard the first one, the handler accepts and a run is under way afterwards,
\* unless the period has had its run.  Then the manual request meets the unique
\* index and the wizard's command answers with the run that has ended: a first
\* run that failed cannot be repeated before the next week.  What the profile page
\* calls available is a detection run, which another one under way refuses.
OfferedRunStarts ==
    LET s == ActivationState IN
    /\ ManualRunAvailable(s) => ManualRunStarts \/ thisWeek
    /\ (selected = "mine" /\ "finalize_and_start" \in FirstRunCommands(s)) =>
           FinalizeAccepted /\ (RunAfterFinalize = "active" \/ thisWeek)
    /\ ProfilePageAvailable => DetectionAccepted \/ detecting

\* A run that the handlers would accept is offered somewhere: nothing keeps a
\* product from its run without the user being told what is missing.
RunnableIsOffered ==
    LET s == ActivationState IN
    /\ ManualRunStarts => ManualRunAvailable(s) /\ ProfilePageAvailable
    /\ (FinalizeAccepted /\ latest # "active" /\ ~report) =>
           "finalize_and_start" \in WizardCommands(s)

\* While a source keeps the first run from starting, the wizard offers a command
\* for each of the missing parts that its handler accepts; only a crawl that is
\* under way has to be waited for, and a disconnected website has to be saved
\* again, although the wizard offers the crawl that request_crawl refuses.  The
\* approval it offers is refused until there is a complete draft.
BlockedHasAWayOut ==
    LET s == ActivationState IN
    selected = "mine" =>
        /\ "profile" \in SourceBlockers(s) => "approve_profile" \in WizardCommands(s)
        /\ "website" \in SourceBlockers(s) =>
               \/ "connect_website" \in WizardCommands(s)
               \/ "crawl_website" \in WizardCommands(s) /\ CrawlAccepted
               \/ crawling \/ site = "disconnected"
        /\ "search" \in SourceBlockers(s) => "defer_search" \in WizardCommands(s)

\* The surfaces agree about the activation product: on whether a run may start,
\* on the health of the website and of the search source, and the wizard's search
\* stage is complete exactly when neither source is listed as a blocker.  The profile
\* page agrees about what it looks at; it also calls a run available that a source, a
\* run under way or the selection of another product keeps from starting.
SurfacesAgree ==
    LET s == ActivationState IN
    selected = "mine" =>
        /\ SummaryBlockers(s) = ReadinessBlockers(s)
        /\ ManualRunState(s) = "available" <=> (SummaryBlockers(s) = {} /\ latest # "active")
        /\ TodayWebsite(s) = WebsiteStatus(s)
        /\ SummarySearch(s) = SearchStatus(s) /\ TodaySearch(s) = SearchStatus(s)
        /\ WizardEvidence(s) = ReadinessEvidence(s)
        /\ SearchStageComplete(s) <=> SourceBlockers(s) \cap {"website", "search"} = {}
        /\ ProfilePageAvailable <=>
               ReadinessBlockers(s) \cap {"profile", "operator_disabled", "manual_disabled"} = {}
        /\ "search" \in AvailableClasses(s) <=>
               WebsiteStatus(s) = "healthy" /\ SearchStatus(s) = "healthy"

\* Readiness is computed in several places: a run that is offered starts (unless
\* its period has had one), one that would start
\* is offered, a blocked user has a command that leads on, and the pages say the same
\* (_projection of activation_router, request_manual_weekly_run).
ReadinessSafety ==
    /\ OfferedRunStarts
    /\ RunnableIsOffered
    /\ BlockedHasAWayOut
    /\ SurfacesAgree

=============================================================================
