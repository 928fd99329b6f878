# Formal model of the Shiptawk backend

This directory specifies the parts of the Shiptawk backend that are hard to test: rows of PostgreSQL
tables that several workers, users and redelivered events change at the same time, and the policies
that judge the same rows in more than one place. A module models one such row (or the few rows that
one workflow owns) with all the code that writes it. TLC checks small instances; TLAPS proves the
safety properties of every module for every size.

The application is a FastAPI service (`app/`). Three things run concurrently: HTTP requests, Inngest
functions (delivered at least once, retried when they raise, several at a time) and cron-triggered
Inngest functions. They share nothing but the database, which runs at READ COMMITTED. Sessions are
created with `autoflush=False` and `expire_on_commit=False`, and the ORM writes only the columns
whose value differs from the one it loaded. All models follow from this: code under one row lock is
one step; a plain read followed by a write is two; a write changes only the columns that differ from
what was read.

## 1. Inventory

| Component | State it keeps | Operations | Interacts with | What is hard | Module |
|---|---|---|---|---|---|
| Transactional outbox (`db/outbox.py`, `workflows/outbox.py`) | `outbox_events`: status, attempts, available_at, lease | enqueue, claim a batch, publish, mark published, release for retry | every producer enqueues in its own transaction; Inngest receives | leases that run out, workers that write late, crash after publish | `Outbox` |
| Opportunity detection (`workflows/opportunity_detection.py`, `operator/services/opportunity_*`) | `operator_runs` (detection), snapshots, evaluations | claim, assemble input, renew, persist, stop, give back | requested by users or as the weekly run's child | lease lost while detecting, data changing between attempts | `OpportunityDetection`, `DetectionRun` |
| Detectors and policies (`operator/detectors`, `operator/policies`) | none (pure) | six detectors, scores, gates, ranking, near duplicates, cooldown | called by detection | rules applied one after the other, boundaries of scores | `Detectors` |
| Detection requests and feedback (`operator_run_service.py`, `opportunity_feedback_service.py`) | runs, opportunities, feedback, cooldowns | request, accept, give feedback, dismiss | detection, weekly run | history read before the lock that is to protect it | `OpportunityLedger` |
| Plan action (`weekly_growth_service.py`, `operator_ai_service.py`, `weekly_growth_router.py`) | action, decision, asset revisions, review, approval, receipts | decide, prepare, review, link, approve, start, complete, dismiss, revise, reject; offered commands | users and the weekly workflow write the same rows | unlocked reads, status written past the transition matrix, repeated commands | `PlanAction`, `PlanActionOffers`, `ActionCommands` |
| Measurement (`measurement_service.py`) | measurement windows | schedule, collect | plan action | one key for the measurements of several actions | `ActionCommands` |
| Weekly coordinator (`workflows/weekly_operator.py`) | `operator_runs` (weekly), `stage_summary`, recommendations, plan | detect, select, recommend, plan, prepare, finalise, fail | detection (child run), AI service, outbox (ready event) | no lease: stages interleave; JSON column written back whole | `WeeklyOperator` |
| Weekly schedule, manual request (`weekly_operator.py`, `weekly_growth_service.py`, `activation_service.py`) | weekly runs of all products | hourly pass, request, first run | outbox | look then insert, waits on unique keys, one product's conflict ends the pass | `WeeklySchedule` |
| Readiness (`activation_router.py`, `weekly_growth_router.py`, `product_router.py`) | none of its own | the projections of four pages, offered commands, the handlers behind them | profile, website, search, runs | several copies of one judgement | `RunReadiness` |
| GitHub ingress (`services/github_webhook.py`, `workflows/publisher.py`, `workflows/github.py`) | raw event, consumers, normalised event, draft | ingest, enqueue, publish, claim, normalise, generate, complete, fail | GitHub, Inngest, draft generation | redelivery, publish that fails after it was accepted, crash after commit | `GitHubConsumer` |
| LLM execution ledger (`llm/services/llm_execution_service.py`) | `llm_executions`, attempts | create or replay, reopen, lease, attempt, heartbeat, complete, fail | every AI call of the product | callers sharing a key, lease lost while the provider is asked | `LLMExecution` |
| Draft review and publication (`drafts/services/review.py`, `regeneration.py`) | draft, candidates, publication attempts | edit, select, approve, reject, regenerate, publish, approve-and-publish | X, users, prepared assets | the lock ends before X is asked; unknown outcomes | `DraftReview` |
| Weekly e-mail (`weekly_delivery_service.py`, `services/email/smtp.py`) | deliveries | deliver | the ready event comes through the outbox and Inngest; SMTP | crash between send and commit, two executions, repeated events, misreported outcomes | `WeeklyDelivery`, `Smtp`; `PlanAnnouncement` composes it with `Outbox` |
| Achievement digests (`workflows/digests.py`) | digests | deliver | SMTP | jobs that die around the send | `DigestDelivery`, `Smtp` |
| Sessions (`identity/services/sessions.py`, `browser_router.py`) | refresh sessions | log in, refresh, log out, switch workspace, delete account | browser | locked second read that returns the first, replayed tokens | `BrowserSession` |
| Registration and sign-in (`password_auth.py`, `browser_oauth.py`) | users, credentials, codes, OAuth transactions | register, verify, resend, call back, delete | mail, OAuth providers | mail before commit, concurrent guesses, first sign-ins that overlap | `SignIn` |
| Integrations (`integrations/services`) | connections, repositories, onboarding | save X, disconnect, attach GitHub, sync and track repositories, complete onboarding | X, GitHub, generation; the activation also completes onboarding | unlocked read before an upsert, trigger after commit, two writers of one flag | `Connections` |
| Search intelligence: sync (`search_sync_service.py`, `search_connection_service.py`) | connection, sources, sync runs, daily metrics | authorise, refresh the token, select, disconnect, request, claim, store a day, finish | Google | lease renewed per day, replaced sources and credentials, windows | `SearchSync` |
| Search intelligence: reading (`search_read_service.py`, `opportunity_snapshot_service.py`) | none of its own | baseline, lists, health, readiness; the snapshot of a detection run | sync, detection | two services that sum the same rows | `SearchReading` |
| Website intelligence (`website_crawl_service.py`, `website_intelligence_service.py`) | source, crawl runs, pages, results, capability map | connect, request, crawl, fail, retry | the website, activation | no lease, no fence; budget shared by sitemaps and pages; results the session has not sent yet | `WebsiteCrawl`, `CrawlWalk` |
| Products, profile, activation (`product_service.py`, `product_profile_service.py`, `activation_service.py`) | products, profile versions, activation product | create, delete, save draft, approve, select, finalise, complete | sources, weekly run | revisions that return, share lock before exclusive lock | `ProductActivation` |
| Draft generation (`generation_service.py`) | generation runs, candidates | generate | LLM ledger | decides over free text | one step of `GitHubConsumer` and `DraftReview` |
| Evidence, notifications, workspaces, analytics | single rows | one command per row | | | not modelled (section 8) |
| Rate limiter, cache, jobs, HTTP layer, schemas, configuration, migrations, contracts | counters; nothing beyond a request | | | | not modelled (section 8) |

What makes the components correct, in words: an outbox event is neither lost nor reported wrongly; a
detection run yields one result that can be reproduced from its snapshot; a user is not shown the
same opportunity twice nor one that was dismissed; a weekly plan is ready only when everything in it
is, and is announced exactly then; a product has one run per week, and the run that is offered is the
run that starts; nothing is started or posted that is not approved in its latest form; a command
takes effect once; a webhook yields one draft per consumer; what counts as sent, posted, synced or
crawled was; a session ends when the user ends it; onboarding is not undone.

## 2. Modules and how they correspond to the code

`PROJECT.json` ("map") gives the source lines of every definition. Conventions: a variable is a
column (or an in-memory variable of a running call), a `pc`-like variable says which transaction a
call executes next, an action is one transaction or one external call together with everything the
code does up to the next one. Clocks are reduced to the comparison the code makes ("live" or
"expired", due or not) or to a small number of days. A crash ends a call between two transactions.
Operators that carry the comment "Mutant:" are faulty variants, used only to show that the
properties would notice.

* `Outbox`: `claim_outbox_events` (FOR UPDATE SKIP LOCKED) is atomic, and which other rows are locked
  at that moment is arbitrary (`MaybeLocked`). `_publishing_event` reads and the ORM writes later
  (`MarkRead`/`MarkPublished`, `ReleaseRead`/`ReleaseForRetry`).
* `DetectionRun`: three states, what a requester of a run relies on.
* `OpportunityDetection`: one run, several workers. An input is the pair (as_of, version of the
  product's data); its SHA-256 fingerprint is injective. `Persist` is the fenced transaction of
  `persist_detection`.
* `Detectors`: `evaluate_detection_input`. One behaviour evaluates one snapshot: the detectors and
  their scores are operators (`Gather`), a turn of the loop of `rank_and_collapse` or of
  `collapse_near_duplicates` is a step (`RankEvaluation`, `CollapseEvaluation`), and history is
  applied at the end (`FinishEvaluation`). Where the code orders by fingerprints, which are hashes,
  the model takes any order. The snapshots sit on both sides of every threshold they can reach.
* `SearchReading`: rows that successive syncs store, read by both services; it uses the detectors'
  guards to state that what is detected is what the page shows. The code sums positions as decimals;
  here a row's position is a number of units (`PositionUnit` of them make one position) and an
  average is the exact fraction of the weighted sum and the impressions, compared with a threshold
  by multiplying out. What the services divide themselves rounds at the 28th digit, which no
  threshold tells apart.
* `OpportunityLedger`: several runs of one product and one identity.
* `WeeklyOperator`: one weekly run. The child run is used through `DetectionRun`
  (`ChildIsDetectionRun`), and `OpportunityDetection` implements `DetectionRun`
  (`ImplementsDetectionRun`): the two modules meet in that abstract specification.
* `WeeklySchedule`: several products and one week; a transaction keeps the rows it has inserted to
  itself until it commits, and an insert of a key that another open transaction holds waits for it.
  That PostgreSQL ends one of the transactions that wait in a circle is one of the ways in which a
  transaction dies (`TxnDies`). A run that is over is "ended" (failed or stopped) or "completed";
  `_process` takes up any run without a ready plan again, whatever its status (`RetryRun`).
  When a product is ready is `RunReadiness`'s question; here sources and settings may come and go
  between any two steps, so a pass finds a product ready or leaves it out (`LeaveOut`) at each look.
* `RunReadiness`: the rows one product's readiness depends on, each in every combination the commands
  can reach, with the projections and the handlers as operators over them. A profile is absent, a
  draft that lacks something, a complete draft or approved; a detection run may be under way beside
  or within a weekly run; a sync that succeeds sets the search mode.
* `PlanAction`: one action; users' commands and the workflow's preparation interleave, and the
  `Changed` columns reproduce the ORM's partial updates. `PlanActionOffers` adds what the API shows
  of these states, and `ActionCommands` the receipts and measurements of two actions. A receipt
  belongs to the row a command names: for an edit the row of one revision, each of which is a new row.
* `GitHubConsumer`: one delivery, its consumers, requests that publish and executions that process.
* `LLMExecution`: one ledger row and the callers that share its key.
* `DraftReview`: one draft. X honours the idempotency key (external), so a post is named by its key;
  answers may be lost and requests may die before and after them.
* `Smtp`: what `SmtpEmailService.send` says against what the server did; `WeeklyDelivery` and
  `DigestDelivery` use it.
* `WeeklyDelivery`: executions of `WeeklyGrowthEmailWorkflow.deliver` for the plans of one product.
  The event of a plan arrives after the plan is ready and may arrive again (`EventArrives`): Inngest
  remembers event ids and idempotency keys for a day, the outbox may repeat a publication later. An
  execution that raises or dies leaves its event owed. The row keeps the ORM's habit: a status equal
  to the one that was loaded (`held`) is not written. The settings of product and user switch e-mails
  off and on at any time; what an execution finds suppressed is dropped for good (`dropped`).
* `PlanAnnouncement`: `Outbox`, with one row per plan, and `WeeklyDelivery` together. The coordinator's
  last transaction makes the plan ready and enqueues its event in one step (`Announce`); a publication
  that Inngest accepts for the first time reaches the e-mail workflow, a later one may (`Publish`);
  every other step belongs to one of the two and leaves the other alone.
* `BrowserSession`: `rotate_refresh_session` locks the row but, since `populate_existing` is off,
  goes by the attributes of the unlocked read before it; the model keeps both. A token that was
  replaced may be presented again (`RefreshReplay`).
* `SignIn`: one address and one identity; advisory locks cover look and insert.
* `Connections`, `SearchSync`, `ProductActivation`: one workspace each, several requests. In
  `SearchSync` credentials have numbers (`grantNo`): an authorization or a refreshed token, also one
  that a sync writes (`RenewGrant`), is a new number, and an execution keeps the one it took.
* `WebsiteCrawl`: executions of crawl runs as the rows see them. `CrawlWalk`: one execution from the
  inside, over a web of eight addresses; the targets still to visit are a set in the code's order.
  The session sends nothing by itself: `unsent` holds the results that a query does not find yet, a
  new page's flush or the last one sends them, and two results of one page (`twice`) make it raise,
  which takes the walk back (`RolledBack`).

Where two actors overlap in a way the code does not prevent, the properties say so: a history
variable records the overlap (`crossed` runs, an execution "under way"), and the property claims the
rest. Such an exception is part of the statement, not of the model: the overlapping steps are all
explored.

## 3. Runs

A run may hold several parts. Parts share no tables, so a behaviour follows one of them (variable
`part` of the MC module) and the others rest; the parts share model values, which makes one symmetry
set do for all. The number of states is the sum over the parts, not a product.

| Run | Parts and instance | States | Shows |
|---|---|---|---|
| `outbox_delivery` | outbox (2 events, 2 workers, 2 attempts, 1 crash); weekly e-mail (2 executions, 2 plans, 3 tries, 1 death); digest (2 jobs, 4 starts) | 875 thousand | lease/status pair, published only if sent, failed only if exhausted; what counts as delivered was accepted, once unless disturbed; every event settles |
| `announcement` | 1 worker, 1 attempt, 2 tries, 1 crash, 1 death; either one plan and 2 executions, or 2 plans, one execution at a time and one crash or death in all | 650 thousand | nothing is sent about a plan that was not announced, an accepted event is not lost among executions, every announced plan is settled, suppressed or given up |
| `detection_safety` | one run (3 workers, 3 instants, 3 data versions); detectors (chosen snapshots); reading (6 days, periods of 2); ledger (2 requested runs, 1 child, 2 callers) | 908 thousand | one reproducible detection that implements `DetectionRun`; one opportunity per subject; detected is viewed; duplicates only from crossed runs; dismissed stays away |
| `plan_action_safety` | one action (2 users, 2 passes, 2 revisions) with its offers; commands (2 clients, 2 actions, 2 keys, 2 edits) | 2.2 million | approvals cover the latest revision; offered is accepted; a command takes effect once per resource; completed is measured, when due |
| `plan_action_terminal` | 2 users, 1 pass | violation | completed and dismissed actions are reopened |
| `weekly_safety` | one run (2 opportunities, 2 executions); schedule (2 products, 2 transactions, 3 ways to start); readiness (every state of the sources); LLM calls (3 callers, 2 requests, 2 models, 3 attempts) | 2.0 million | ready plans are prepared, announced, frozen; one run per period, no product left behind but those a pass found not ready; offered runs start; one accounted output, free attempt numbers, settled rows final |
| `request_safety` | consumers (2 consumers, 2 requests, 2 executions, 1 crash); sessions (2 browsers, 2 workspaces, 3 sessions); sign-in (3 visitors, 2 flows, 5 guesses, 2 mails) | 2.1 million | one draft, nothing processed unhandled, fan-out fixed; one live session per family unless requests crossed, none after logout or deletion; one account, bounded guesses, one use per transaction |
| `github_published` | 1 consumer, 1 request, 1 crash, fair | violation | an enqueued consumer is never published |
| `session_replay` | 2 browsers, 1 workspace, 3 sessions | violation | a replayed token leaves its family alive |
| `workspace_safety` | draft (2 requests, 2 keys, 1 edit, 2 generations, 1 crash); connections (2 accounts, 2 installations); sync (days 2 to 4, 2 workers); crawls (2 runs, 3 tries); walk (webs of 8 addresses, 3 limits); products (2 products, 2 editors) | 1.3 million | only approved content is posted, single rows stay single, a successful sync stored its window, a crawl stays within its budget and reports what it did, onboarding stays |
| `draft_posted` | 2 requests, 2 keys | violation | one draft is posted twice |
| `search_detected` | reading part alone | violation | usable search data that detection does not use |

Why the bounds are enough to be interesting. Every hazard of `PROJECT.json` needs at most two actors
that overlap plus one that comes afterwards: two workers and re-use of a worker after it ended give
that, and three are used where a lease can be lost twice (detection, LLM) or where two overlap on a
row a third deletes (sign-in). Two revisions give a stale and a latest one; two attempts give a retry
and an exhaustion; five guesses are what a challenge of the code allows. Search
windows are scaled down with their proportions kept (a period of 2 days, a lag, an overlap), so that
the initial window, an incremental one and a gap between them fit into the days; the detectors'
thresholds are the code's own. The webs of the walk contain a redirect to the other host, to a
foreign site and to itself, two addresses with one canonical page, indexes that name one another and
sitemaps that are pages. Counters that are named `Max...` only cut behaviours off;
`AttemptCap` saturates a counter of which only "at least max_attempts" is read. Runs whose rows
really come to rest (a settled row with no further traffic) disable the deadlock check.

The announcement run holds two instances because one cannot hold both: overlap needs two executions
and one plan, supersession two plans. The crossing of outbox workers is left to `outbox_delivery`; the
invariant is proved for all sizes.

Symmetry is used for workers, users, callers and interchangeable rows in the runs that check safety
and action properties; `outbox_delivery` and `announcement`, which check liveness, use none.

Each module states its invariants one by one and gathers them, with its type invariant, in one
conjunction that the runs check and TLAPS proves:

| Invariant | Module | Its parts |
|---|---|---|
| `OutboxSafety` | `Outbox` | `LeaseMatchesStatus`, `PublishedWasSent`, `FailedOnlyExhausted` |
| `MailSafety`, `DigestSafety` | `WeeklyDelivery`, `DigestDelivery` | `DeliveredWasAccepted`, `MailedOnceUndisturbed`; `DigestSentOnce`, `SentDigestWasAccepted` |
| `AnnouncementSafety` | `PlanAnnouncement` | `OnlyAnnounced`, `AnnouncedIsKept` |
| `DetectionSafety` | `OpportunityDetection` | `LeaseIffRunning`, `DetectedOnce`, `Reproducible` |
| `DetectorSafety` | `Detectors` | `OneOpportunityPerSubject`, `SupersededIsOutdone`, `HistoryKeepsAway`, `DeclineIsEvaluated` |
| `ReadingSafety` | `SearchReading` | `SnapshotIsBaseline`, `DetectedIsViewed`, `ReadsAgree`, `UsableWasSynced` |
| `LedgerSafety` | `OpportunityLedger` | `OneRequestedActive`, `AnsweredWithOwnBody`, `DuplicateNeedsCrossedRuns` |
| `ApprovalSafety` | `PlanAction` | `ApprovalCoversLatest`, `ReadyIsApproved`, `MeasuredOnce` |
| `OfferSafety` | `PlanActionOffers` | `OfferedIsAccepted`, `ApprovableIsOffered`, `ListedIsPrepared` |
| `CommandSafety` | `ActionCommands` | `CommandTakesEffectOnce`, `CompletedIsMeasured`, `MeasuredWhenDue` |
| `PlanSafety` | `WeeklyOperator` | `ReadyPlanPrepared`, `ReportMatchesRecommendations`, `CompletedHasReadyPlan`, `ReadyAnnounced` |
| `ScheduleSafety` | `WeeklySchedule` | `OneRunPerPeriod`, `TwoActiveExplained` |
| `ReadinessSafety` | `RunReadiness` | `OfferedRunStarts`, `RunnableIsOffered`, `BlockedHasAWayOut`, `SurfacesAgree` |
| `ConsumerSafety` | `GitHubConsumer` | `DraftOnce`, `ProcessedWasHandled` |
| `ExecutionSafety` | `LLMExecution` | `LeaseIffRunning`, `OneOutput`, `OutputIsAccounted`, `AttemptNumberIsFree` |
| `SessionSafety` | `BrowserSession` | `OneLivePerFamily`, `LoggedOutStaysOut`, `SwitchIsKept`, `DeletedHasNoSession` |
| `SignInSafety` | `SignIn` | `OneCredential`, `RegisteredWasMailed`, `BoundedGuesses`, `TransactionUsedOnce`, `OneOwner`, `NoSessionOfDeleted` |
| `DraftSafety` | `DraftReview` | `AskedOncePerCommand`, `OnlyApprovedIsPosted`, `CompletedIsPosted`, `PostedHasReceipt` |
| `ConnectionSafety` | `Connections` | `OneXAccount`, `SecretIffActive`, `OneInstallation`, `EventPerGeneration`, `GenerationTriggeredOnce` |
| `SyncSafety` | `SearchSync` | `NoGapSinceSelected`, `SucceededIsStored`, `ExpiredWasRejected` |
| `CrawlSafety`, `WalkSafety` | `WebsiteCrawl`, `CrawlWalk` | `OneActiveCrawl`, `InitialCrawlRecorded`; `FetchesWithinLimit`, `LinkedIsVisited`, `CountsAreOfResults`, `OnlyTwinsFail`, `MappedWasRead` |
| `ActivationSafety` | `ProductActivation` | `ActivationProductExists`, `ApprovedWasLoaded`, `FinalizedHasProfile` |

Checked on their own are the action properties
(`TerminalIsFinal`, `DismissedStaysAway`, `ReadyIsFrozen`,
`PassCoversEveryProduct`, `ConsumersAreFixed`, `SettledIsFinal`, `PostedIsFinal`,
`DisconnectedStoresNothing`, `CrawlSuccessKept`, `OnboardedStays`), the two refinements
(`ImplementsDetectionRun`, `ChildIsDetectionRun`) and the two liveness properties
(`EventuallySettled`, `AnnouncedIsDelivered`). Every part has a mutant of the code's definitions that breaks
it, listed under "mutants" with the invariant it is a part of.

### Fairness

`Outbox!FairSpec` assumes weak fairness of the clock (`BecomeDue`, `LeaseExpires`), of `Claim` (the
cron of `workflows/runtime.py:339-349` starts `deliver` every minute) and of the steps of a running
call (`Deliver`). Publications may fail for ever (the attempts run out and the event fails), crashes
are bounded in number but nothing requires them, and enqueues are never required. The e-mail part is
fair in the steps of an execution and in Inngest's next try of an event that is not handled, whose
number is bounded; it is not fair in any outcome of the mail server. `AnnouncementSpec` has the fairness
of both (`OutboxFairness`, `DeliveryFairness`) and none of its own. `GitHubConsumer!FairSpec` is
more generous than anything the code can rely on (GitHub redelivers for ever, a publication that is
tried for ever succeeds): the property still fails, so the counterexample does not depend on missing
fairness.

## 4. Disagreements between the code and its own statements

Five violation runs, each described under "findings" with the line that makes the statement:

1. Plan action: `reject_asset_use_case` and the workflow's link step write the status past
   `transition_action`.
2. GitHub: a crash between committing "enqueued" and publishing loses the event for good.
3. Drafts: two publication commands with different keys both pass the check for earlier attempts.
4. Search: a detection run asks for one sync run that covers its whole period; after the first
   incremental sync there is none, and the snapshot goes without search data that readiness calls
   usable.
5. Sessions: "replay marks the family compromised and revokes it" (`README.md:190-191`), but the
   refresh route refuses an inactive token before `rotate_refresh_session` is reached, and the check
   there goes by the first read: a replayed token is refused and its family lives on, and two
   refreshes that overlap both succeed.

What still holds in spite of them is what the passing runs check: a reopened action is never started
without approval and never measured twice; a consumer processed twice has one draft; what is posted
twice was approved both times; a snapshot that has search data agrees with the page; a family has two
live sessions only where two requests on it crossed.

## 5. What the code does not guarantee

TLC also refutes these; the definitions are kept in their modules, outside the runs, since the code
only implies what they state or since a shorter statement covers the case. To see a counterexample,
add the name to a configuration of the module.

* `Outbox!SettledIsFinal`: "outbox event is not currently publishing" is evaluated on an unlocked
  read; a worker that outlived its lease takes a published event back. It is then sent again, never
  lost.
* `PlanAction!DismissedKeepsDecision`: "Dismissed actions cannot change recommendation decision."
  (`weekly_growth_service.py:533`) is checked on an unlocked read.
* `WeeklyOperator!SelectionOnce`: the failure handler writes back a stale `stage_summary`, so that
  "retries replay the exact IDs" fails. Plan and recommendations still agree.
* `WeeklySchedule!OneActiveRun`: "Another weekly growth run is already active for this product."
  (`weekly_growth_service.py:292`) follows an unlocked look, and a run that failed or stopped is taken up again without one;
  `TwoActiveExplained` says when it fails.
* `GitHubConsumer!ProcessedIsFinal`: the failure write of `publish_pending_consumers` has no
  condition and overwrites "processed".
* `SearchSync!SelectionRecorded`: `search_property_selected` is written after the commit it is said
  to be atomic with (`docs/private-beta-instrumentation.md:23`); the same holds for the trigger of
  the first generation when onboarding completes (`GenerationTriggeredOnce` allows it to be missing
  only then).
* `WebsiteCrawl!EventNamesSuccess`: the run the event about the first crawl names can be turned into
  a failure by another execution of it, when it had failed before.

Smaller observations, each visible as an exception in a property or as a refusing handler:

* An approval is offered that the service refuses (`OfferedIsAccepted`,
  `weekly_growth_router.py:303-304, 1112-1116`): of an edited revision, which never gets a risk review
  (`weekly_growth_service.py:719-728`); of one the review blocked; of one that was rejected or whose
  action a repeated pass reset after the approval; on the asset's page also of a dismissed action. A
  rejection is offered of an asset the review blocked, which has no request to reject. Before the plan
  is ready there may be nothing to approve or reject at all. An edit of the latest revision is always
  accepted.
* An asset without content (`no_asset`) has no page: its kind is not one of `AssetKind`.
* An edit's receipt names the row of a revision: the same key sent for revision 1 and again for
  revision 2 takes effect twice (`CommandTakesEffectOnce` speaks of one resource,
  `weekly_growth_service.py:947-955`).
* No follow-up measures anything: an action stores its metric under `name`
  (`weekly_growth_service.py:136`), the measurement reads `metric` (`measurement_service.py:24, 84`),
  and so it ends "unavailable".
* The page refuses a cutoff of more than `MAX_READ_DAYS` ago (`search_read_service.py:172-173`), the
  snapshot of a detection run has no such limit (`SnapshotIsBaseline`, `CutoffTooOld`).
* A workspace whose onboarding `finalize_activation_and_start` completed (`activation_service.py:493`)
  never gets its first generation: `complete_onboarding` triggers it only when it sets the flag itself
  (`GenerationTriggeredOnce`, `activated`).
* A sync writes its refreshed token over whatever credentials an active connection has by then
  (`search_sync_service.py:395-402`), also over those of a later authorization of another account;
  and a 401 for a token taken earlier expires a connection whose present credentials nobody has
  rejected (`ExpiredWasRejected`, `late`).
* Two crawl targets that are one page fail the whole run, since the session does not see the result it
  has not sent (`website_crawl_service.py:448`) and the unique key refuses the second - unless the row
  of a new page was sent in between: then the result is found, and the later outcome stands for both
  (`OnlyTwinsFail`, `CountsAreOfResults`).
* A weekly run that stopped or failed is set to running by the next delivery of its event, whatever
  else is active by then (`RetryRun`, `weekly_operator.py:166-172`).
* A sync that succeeds sets the search mode to "connected", also after the user has deferred search
  (`SearchSyncSucceeds`, `search_sync_service.py:656-658`).
* The profile page calls a manual run available (`product_profile_service.py:144`) without a look at
  sources, runs or the selected product (`SurfacesAgree`).
* A measurement is keyed by the command's key within the workspace: completing two actions under one
  key gives the second the first one's measurement (`CompletedIsMeasured`).
* The initial sync window ends at the cutoff, later ones start at the selection or after: the
  days between are never stored (`NoGapSinceSelected` speaks of the days since the selection;
  `UsableWasSynced` and the baseline's missing dates show that the gap is not taken for data).
* A website that answers on its other host ("www.") has none of its links visited, since they are of
  another host than the base (`LinkedIsVisited`, `website_crawl_policy.py:78`).
* A capability is judged "partial" by the coverage of the page with the best score, although another
  page with a lower score may cover it.
* A website that was disconnected and saved again keeps its earlier crawl date, and the wizard offers
  a crawl that `request_crawl` refuses while it is disconnected (`BlockedHasAWayOut`).
* A first run that failed cannot be repeated before the next week: the period's key is taken
  (`OfferedRunStarts`).
* Two first products created at once wait for each other's share of the workspace row; the database
  ends one of them (`CreateDeadlock` of `ProductActivation`).
* A draft of a profile that was approved and begun anew can reach the revision number another editor
  still has in his form, who then approves what he has not seen (`ApprovedWasLoaded`).
* A bad answer to QUIT after the message was accepted is reported as a known failure, and the message
  is sent again (`Misreported` of `Smtp`).
* One product with an active run takes the whole schedule pass back, for all products
  (`PassCoversEveryProduct`, `weekly_operator.py:69`).
* A refresh that overlaps a logout, a deletion or a change of the workspace goes by what it read
  before (`LoggedOutStaysOut`, `DeletedHasNoSession`, `SwitchIsKept`).

## 6. Proofs

Eight modules hold theorems. tlapm checks every leaf; nothing is assumed but the named `ASSUME`s of
the modules, which TLC evaluates in the runs: "none" values are not among the values they stand in
for, bounds are natural numbers, the first day of a sync is not after its last (`SearchAssumption`),
a workspace's products are finitely many (`ActivationAssumption`), the runs of a schedule
are of its products (`ScheduleAssumption`), Inngest tries at least once (`DeliveryAssumption`), the
outbox's rows are the plans' events (`AnnouncementAssumption`, of the composition only), a site has finitely many addresses
that answer with pages, sitemaps or redirects (`WalkAssumption`), a snapshot has finitely many
queries with identifiers of their own and figures that are numbers (`DetectorAssumption`), and the
provider returns finitely many rows for a day, with natural numbers for clicks, impressions and
position (`ReadingAssumption`; a row without a position does not come from the provider's client).
Sets of actors, rows and keys may have any size. The conjunctions of section 3 and the action
properties are theorems of the specification of their part (`Spec`, `DeliverySpec`, `SearchSpec`,
...), which the MC modules interleave.

Every proof has the same shape: an inductive invariant (`...Inv`), one lemma per action or group of
actions that it is kept, the invariant as a theorem, and the properties from it. What differs is what
has to be added to the properties to make them inductive. It is nearly always the same kind of fact:
what a call that has left a transaction may still rely on when it comes to the next one.

| Module | Proves | What is added, and why |
|---|---|---|
| `OutboxProofs` | `OutboxSafety` | `WorkerKnows`: a worker carries a fact across transactions; what it is about to mark was sent, and the attempts it read have only grown. |
| | `MailSafety` | `MailsAreTried`, `UndisturbedKnows`: messages are counted against the tries that can still send one; undisturbed, one execution at a time may send and what it holds of the plan is still true. `MailerKnows` says that an execution about to send has found or made its row open, so that a settled outcome is always a change the ORM writes. |
| | `AnnouncementSafety`; the composition implements `FairSpec` and `DeliverySpec` | The refinements come first and bring the invariants of both parts with them; the outbox needs the e-mails' types for it (the next plan has a row). `ActedOnWasAnnounced`: what a worker publishes or finishes was enqueued, and an execution runs for an accepted event. That an accepted event is kept then rests on `MailerKnows`: whoever takes it off the list has written a settled row, and whoever later writes "failed" over it puts it back. |
| | `DigestSafety` | `OneSender`, `UnsentKnows`: the claim is a conditional update, so one job at a time sends, and what nobody sent has left no copy. |
| `OpportunityDetectionProofs` | `DetectionSafety`, `TerminalIsFinal`, `ImplementsDetectionRun` | `OwnerKnows`, `InsertedWithEvaluations`: a worker that still owns the run works with the run's as_of. |
| | `LedgerSafety`, `DismissedStaysAway` | `CallerHolds`, `UncrossedKnows`, `ClearKnows`: a request about to insert holds the product's row; unless runs crossed, one run at a time stands between its read of the history and its write. |
| | `DetectorSafety` | `RankInv`, `NearInv`: at every turn of a loop, each evaluation set aside is answered for by one that stands or is still to come, through at most two others; what is left of a subject is the one whose type precedes. No step of it uses the order of the turns. That a decline is never lost rests on `SearchScoresPass` (no score falls below the gate) and on `LastMember` (of finitely many queries of a group one loses most). |
| | `ReadingSafety` | `RunsInRange`: runs stay within the days there are, and stored rows are what the provider returned; with it the windows of the two services are the same days. The rest is about sums over any finite set of rows: a sum does not depend on the order (`SumsAgree`), rows that count nothing do not matter (`SumIgnoresZero`, which is why the weighted positions of the two services agree), and groups by query or by page add up to the whole (`SumByKey`). |
| `PlanActionProofs` | `ApprovalSafety` | `Spent`: the workflow writes columns it loaded without a lock, and yet readiness implies approval, because an approval can succeed only once per action: an edited revision has no risk review and cannot be approved (`weekly_growth_service.py:719-728`). Whoever makes edited revisions approvable has to revisit this proof. |
| | `OfferSafety` | `Prepared`: nothing takes away what `finalize_plan` relied on. |
| | `CommandSafety` | `AppliedHasReceipt`, `ReceiptsHold`, `RepeatsHold`: a key that took effect has its receipt, and content is never taken from an asset. |
| `WeeklyOperatorProofs` | `PlanSafety`, `ReadyIsFrozen`, `ChildIsDetectionRun` | `ExecutionKnows`: what an execution has collected over several transactions stays true. The refinement needs types only. |
| | `ScheduleSafety`, `PassCoversEveryProduct` | `RowsDoNotClash`, `CrossingIsExcused`, `PassHasNotSkipped`: the statements about committed rows, extended to rows that are inserted and not committed, and to looks that have found nothing. |
| | `ReadinessSafety` | types only; the argument is `BlockersOfMine`: the lists that two routers build are empty exactly when the same rows are there. |
| `LLMExecutionProofs` | `ExecutionSafety`, `SettledIsFinal` | `NumbersCounted`, `NumbersDistinct`, `SuccessRecorded`, `RequestOfRow`: every number in use was counted and is held once, and a call about to complete has its success recorded. |
| `GitHubConsumerProofs` | `ConsumerSafety`, `ConsumersAreFixed` | `RequestKnows`, `ExecutionKnows`: what is being published or processed has a row, and who is about to complete a consumer has handled its event. |
| `IdentityProofs` | `SessionSafety` | `RefreshKnows`: a refresh goes by its first, unlocked read; in a family that nobody else touched meanwhile it is still true. |
| | `SignInSafety` | `AddressHolder`, `IdentityHolder`: who holds the advisory lock finds what was looked at unchanged. |
| `WorkspaceProofs` | `DraftSafety`, `PostedIsFinal` | `RequestHolds`, `OneRequestPerCommand`, `NotYetAsked`: of a command's attempt there is one request, and X was not asked before it. |
| | `ConnectionSafety` | `XInv`, `GitInv`, `RepoInv`, `OnboardInv`: unless saves or attachments crossed, what was read before the write is still so; tracking is switched under the repository's lock. |
| | `SyncSafety`, `DisconnectedStoresNothing` | `ProgressIsStored`, `OwnerKnows`, `GrantKnows`, `DisconnectedIsDone`: all days before the one a run goes on with are stored, and its owner fetches that day; unless credentials were replaced under an execution, the one it holds is the connection's. |
| | `CrawlSafety`, `CrawlSuccessKept` | `RunsInv`, `CrawlerKnows`: one run is active, and an execution that saw a crawled source or a failed run is right about it. |
| | `WalkSafety` | `FetchBudget`, `NothingLeftOut`, `CountsSoFar`, `ReadIsActive`: fetches made and targets still to visit stay within the limit together; what was found and fits is a target or was visited; the counters are those of the results so far; a result is held twice only if two targets are one page. |
| | `ActivationSafety`, `OnboardedStays` | `WorkspaceInv`, `ProfileInv`: a draft is the newest profile of its product, and no form shows one that does not exist yet. |

Facts about finite sets (a redirect chain of at most the allowed length, the first addresses of an
order, the largest loss of a group, what a sum is) are proved without induction over operators: the
counterexamples to the fact are a set, which has a smallest member (`LeastNat`, `SmallestSubset`),
and the smallest is refuted.

Proving changed the models where they could not be reasoned about: the loops of the detection
policies are steps instead of folds over sorted sequences; the targets of a walk are a set from
which the next one is taken in the code's order; several items of a history may have one identity;
average positions are fractions, where the model had a quotient in whole numbers. Smaller ones: a
sum is a recursive function over the subsets of its domain, so that it can be reasoned about; the
type of a sync's next day (`yday`) includes the day after the last, where a run that is done stands;
`SearchAssumption` says that the first day is not after the last; the bound on profiles is counted
over `CreatedProfiles`, products and numbers together. Composing the e-mails
with the outbox showed that an event was taken to arrive with its plan, e-mails to be switched off only
once, and an execution that raised to leave another's success as the last word on the event.

## 7. What is only model-checked

Liveness: `EventuallySettled`, `AnnouncedIsDelivered` and the fairness counterexample of
`github_published` are outside the prover. That the composition implements the fair specifications of
its parts is proved, so that what TLC finds of `EventuallySettled` on an instance of the outbox holds of
the composition on that instance.

## 8. Not modelled, and why

* Draft candidates (`generation_service.py`, `drafts/policies`): which candidate passes depends on
  free text, claims and similarity scores. Generation is a step that yields some content or raises.
* Collecting the events of a digest and rendering it: one insert under a unique key, and text.
* The comparison of the two windows of a measurement: no action reaches it (section 5). The learning
  record of a measured outcome: written once in the transaction of the measurement,
  read only for prompts.
* Evidence, notification preferences, workspace access, product events: commands on a single row,
  made under its lock or a unique key and committed once.
* Rate limiter, cache, jobs: an atomic increment with an expiry; no module enqueues a job.
* `runs_service`, `planning_service`, `approvals_service`, `execution_service`,
  `opportunities_service` and `operator/migration.py`: superseded by the weekly growth services,
  reached only from tests, or run once by hand.
* HTTP layer, schemas, configuration, logging, migrations, contracts: I/O and declarations. Database
  constraints the models rely on are mapped from the ORM models.
* Within modelled components: prompts and the text of assets; signatures, hashing and encryption;
  authorisation (`require_role` is a guard without state); logs; cost estimation; HTML extraction.
* Two behaviours have no property because nothing promises the opposite: a weekly run whose
  `detectionRunId` was lost fails on every retry (the unique key of the child,
  `weekly_operator.py:178`), and a run Inngest has given up on blocks later requests
  (`operator_run_service.py:74`).

## 9. What could follow

* The ready event as an abstract specification of its own (announced, accepted, settled), which
  `PlanAnnouncement` would implement; the same for the other events of the outbox, whose consumers
  (`OpportunityDetection`, `ActionCommands`) now take their start for granted.
* The learning record, if prompts ever stop being its only reader.
