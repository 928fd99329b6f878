--------------------------- MODULE WeeklyOperator ---------------------------
(***************************************************************************)
(* One weekly growth run: WeeklyOperatorWorkflow.process                    *)
(* (app/workflows/weekly_operator.py) with the selection, the plan and the  *)
(* finalization of weekly_growth_service.py and generate_recommendation of  *)
(* OperatorAIService.                                                       *)
(*                                                                         *)
(* Inngest delivers the run at least once and retries a delivery that       *)
(* raised, so two executions may overlap.  Nothing is leased: an execution  *)
(* commits after every stage and the next stage reads what is there, so the *)
(* stages of two executions interleave, and so do the users' decisions.     *)
(*                                                                         *)
(* stage_summary is one JSON column.  Whoever writes it writes back all of  *)
(* it as it was loaded, plus its own entry (select_current_run_             *)
(* opportunities, the failure handler): those are two steps each.           *)
(*                                                                         *)
(* What other modules model in detail is one step here: the child detection *)
(* run (OpportunityDetection) settles once as completed or stopped, and     *)
(* process_accepted_recommendation (PlanAction) prepares an action.         *)
(***************************************************************************)
EXTENDS Naturals, FiniteSets

CONSTANTS
    Opportunities,  \* accepted by the detection run; numbers, the best first
    Limit,          \* limit of select_current_run_opportunities
    Workers         \* overlapping executions of process for the run

ASSUME WeeklyOperatorAssumption ==
    /\ Opportunities \subseteq Nat
    /\ IsFiniteSet(Opportunities)
    /\ Limit \in Nat

VARIABLES
    runStatus,    \* run.status
    summary,      \* run.stage_summary: has it detectionRunId and selectedOpportunityIds
    detection,    \* the child detection run
    open,         \* opportunities with status "open"
    rec,          \* kind of the recommendation stored for an opportunity
    decision,     \* the users' latest decision on a recommendation
    plan,         \* plan.status
    planActions,  \* opportunities that became actions of the plan
    planNoRec,    \* noRecommendations of the plan's snapshot
    prepared,     \* actions whose processing has been committed
    readyEvent,   \* operator/weekly-growth.ready is in the outbox
    pc,           \* what an execution does next
    sel,          \* local: opportunities
    recs,         \* local: recommendations (by opportunity)
    acc,          \* local: those that were accepted when they were loaded
    todo,         \* local: what the loop at hand has left
    seen          \* local: status and stage_summary as loaded

runVars == <<runStatus, summary>>
dataVars == <<open, rec, decision>>
planVars == <<plan, planActions, planNoRec>>
localVars == <<sel, recs, acc, todo>>
vars == <<runStatus, summary, detection, open, rec, decision, plan, planActions, planNoRec,
          prepared, readyEvent, pc, sel, recs, acc, todo, seen>>

RunStatus == {"pending", "running", "completed", "stopped", "failed"}
Summary == [child : BOOLEAN, selected : BOOLEAN, selection : SUBSET Opportunities]
EmptySummary == [child |-> FALSE, selected |-> FALSE, selection |-> {}]
Seen == [status : RunStatus, summary : Summary]
NothingSeen == [status |-> "pending", summary |-> EmptySummary]
PC == {"idle", "detect", "stop", "select", "selectWrite", "generate", "plan", "prepare",
       "finalize", "failRead", "failWrite"}

\* The run was committed with its outbox event (create_weekly_run).
Init ==
    /\ runStatus = "pending"
    /\ summary = EmptySummary
    /\ detection = "none"
    /\ open = Opportunities
    /\ rec = [o \in Opportunities |-> "none"]
    /\ decision = [o \in Opportunities |-> "none"]
    /\ plan = "none"
    /\ planActions = {}
    /\ planNoRec = {}
    /\ prepared = {}
    /\ readyEvent = FALSE
    /\ pc = [w \in Workers |-> "idle"]
    /\ sel = [w \in Workers |-> {}]
    /\ recs = [w \in Workers |-> {}]
    /\ acc = [w \in Workers |-> {}]
    /\ todo = [w \in Workers |-> {}]
    /\ seen = [w \in Workers |-> NothingSeen]

Goto(w, label) == pc' = [pc EXCEPT ![w] = label]

\* An execution ends and its local state with it.
Leave(w) ==
    /\ Goto(w, "idle")
    /\ sel' = [sel EXCEPT ![w] = {}]
    /\ recs' = [recs EXCEPT ![w] = {}]
    /\ acc' = [acc EXCEPT ![w] = {}]
    /\ todo' = [todo EXCEPT ![w] = {}]
    /\ seen' = [seen EXCEPT ![w] = NothingSeen]

\* The first of the remaining items, in priority order.
First(S, o) == o \in S /\ \A p \in S : o <= p

-----------------------------------------------------------------------------
(* Users: decisions on recommendations, and opportunities that are closed.  *)

Accept(o) ==
    /\ rec[o] = "recommendation"
    /\ decision[o] = "none"
    /\ decision' = [decision EXCEPT ![o] = "accepted"]
    /\ UNCHANGED <<runVars, detection, open, rec, planVars, prepared, readyEvent, pc, localVars,
                   seen>>

\* decide_recommendation refuses to turn an acceptance round; dismissing the
\* action (transition_canonical_action) does it all the same.
Dismiss(o) ==
    /\ rec[o] = "recommendation"
    /\ \/ decision[o] = "none"
       \/ decision[o] = "accepted" /\ o \in planActions
    /\ decision' = [decision EXCEPT ![o] = "dismissed"]
    /\ UNCHANGED <<runVars, detection, open, rec, planVars, prepared, readyEvent, pc, localVars,
                   seen>>

CloseOpportunity(o) ==
    /\ detection = "completed"
    /\ o \in open
    /\ open' = open \ {o}
    /\ UNCHANGED <<runVars, detection, rec, decision, planVars, prepared, readyEvent, pc,
                   localVars, seen>>

-----------------------------------------------------------------------------
(* _process                                                                *)

\* The run is locked; with a ready plan there is nothing to do.  The child's key
\* is unique, so a child that stage_summary has lost cannot be created again.
Begin(w) ==
    /\ pc[w] = "idle"
    /\ plan # "ready"
    /\ \/ /\ summary.child \/ detection = "none"
          /\ runStatus' = "running"
          /\ summary' = [summary EXCEPT !.child = TRUE]
          /\ detection' = IF summary.child THEN detection ELSE "open"
          /\ Goto(w, "detect")
       \/ /\ ~summary.child
          /\ detection # "none"
          /\ Goto(w, "failRead")
          /\ UNCHANGED <<runVars, detection>>
    /\ UNCHANGED <<dataVars, planVars, prepared, readyEvent, localVars, seen>>

\* Mutant: every delivery has the child detect again.
DetectAgain(w) ==
    /\ pc[w] = "detect"
    /\ detection' \in {"completed", "stopped"}
    /\ Goto(w, IF detection' = "completed" THEN "select" ELSE "stop")
    /\ UNCHANGED <<runVars, dataVars, planVars, prepared, readyEvent, localVars, seen>>

\* detection.process returns with the child's final status.
Detect(w) ==
    /\ pc[w] = "detect"
    /\ \/ detection = "open" /\ detection' \in {"completed", "stopped"}
       \/ detection # "open" /\ UNCHANGED detection
    /\ Goto(w, IF detection' = "completed" THEN "select" ELSE "stop")
    /\ UNCHANGED <<runVars, dataVars, planVars, prepared, readyEvent, localVars, seen>>

StopRun(w) ==
    /\ pc[w] = "stop"
    /\ runStatus' = "stopped"
    /\ Leave(w)
    /\ UNCHANGED <<summary, detection, dataVars, planVars, prepared, readyEvent>>

\* ORDER BY priority LIMIT limit
Top(S) == {o \in S : Cardinality({p \in S : p < o}) < Limit}

\* select_current_run_opportunities: a persisted selection is replayed.
Select(w) ==
    /\ pc[w] = "select"
    /\ \/ /\ summary.selected
          /\ sel' = [sel EXCEPT ![w] = summary.selection]
          /\ todo' = [todo EXCEPT ![w] = summary.selection]
          /\ Goto(w, IF summary.selection = {} THEN "plan" ELSE "generate")
       \/ /\ ~summary.selected
          /\ sel' = [sel EXCEPT ![w] = Top(open)]
          /\ todo' = [todo EXCEPT ![w] = Top(open)]
          /\ Goto(w, "selectWrite")
    /\ UNCHANGED <<runVars, detection, dataVars, planVars, prepared, readyEvent, recs, acc, seen>>

SelectWrite(w) ==
    /\ pc[w] = "selectWrite"
    /\ summary' = [child |-> TRUE, selected |-> TRUE, selection |-> sel[w]]
    /\ Goto(w, IF sel[w] = {} THEN "plan" ELSE "generate")
    /\ UNCHANGED <<runStatus, detection, dataVars, planVars, prepared, readyEvent, localVars,
                   seen>>

\* What generate_recommendation returns: the stored row, with the acceptance it
\* had when it was loaded.
Collect(w, o) ==
    /\ recs' = [recs EXCEPT ![w] = IF rec'[o] = "recommendation" THEN @ \cup {o} ELSE @]
    /\ acc' = [acc EXCEPT ![w] = IF decision[o] = "accepted" THEN @ \cup {o} ELSE @]
    /\ todo' = [todo EXCEPT ![w] = @ \ {o}]
    /\ Goto(w, IF todo[w] = {o} THEN "plan" ELSE "generate")
    /\ UNCHANGED <<runVars, detection, open, decision, planVars, prepared, readyEvent, sel, seen>>

\* Mutant: the stored recommendation is not looked for.
GenerateAnew(w, o) ==
    /\ pc[w] = "generate"
    /\ First(todo[w], o)
    /\ \E kind \in {"recommendation", "no_recommendation"} : rec' = [rec EXCEPT ![o] = kind]
    /\ Collect(w, o)

\* generate_recommendation: the first row stands, whatever the model answers to
\* an execution that comes second.
Generate(w, o) ==
    /\ pc[w] = "generate"
    /\ First(todo[w], o)
    /\ \/ /\ rec[o] = "none"
          /\ \E kind \in {"recommendation", "no_recommendation"} :
                 rec' = [rec EXCEPT ![o] = kind]
       \/ /\ rec[o] # "none"
          /\ UNCHANGED rec
    /\ Collect(w, o)

\* create_canonical_plan unless the run has a plan; then its actions are read.
CreatePlan(w) ==
    /\ pc[w] = "plan"
    /\ \/ /\ plan = "none"
          /\ plan' = "preparing"
          /\ planActions' = recs[w]
       \/ /\ plan # "none"
          /\ UNCHANGED <<plan, planActions>>
    /\ todo' = [todo EXCEPT ![w] = planActions']
    /\ Goto(w, IF planActions' = {} THEN "finalize" ELSE "prepare")
    /\ UNCHANGED <<runVars, detection, dataVars, planNoRec, prepared, readyEvent, sel, recs, acc,
                   seen>>

\* Mutant: an action that was not accepted is passed over.
PrepareAcceptedOnly(w, o) ==
    /\ pc[w] = "prepare"
    /\ First(todo[w], o)
    /\ prepared' = IF o \in recs[w] \cap acc[w] THEN prepared \cup {o} ELSE prepared
    /\ todo' = [todo EXCEPT ![w] = @ \ {o}]
    /\ Goto(w, IF todo[w] = {o} THEN "finalize" ELSE "prepare")
    /\ UNCHANGED <<runVars, detection, dataVars, planVars, readyEvent, sel, recs, acc, seen>>

\* by_recommendation[...] raises for an action this execution did not generate,
\* and process_accepted_recommendation for one that was not accepted.
Prepare(w, o) ==
    /\ pc[w] = "prepare"
    /\ First(todo[w], o)
    /\ \/ /\ o \in recs[w] \cap acc[w]
          /\ prepared' = prepared \cup {o}
          /\ todo' = [todo EXCEPT ![w] = @ \ {o}]
          /\ Goto(w, IF todo[w] = {o} THEN "finalize" ELSE "prepare")
       \/ /\ o \notin recs[w] \cap acc[w]
          /\ Goto(w, "failRead")
          /\ UNCHANGED <<prepared, todo>>
    /\ UNCHANGED <<runVars, detection, dataVars, planVars, readyEvent, sel, recs, acc, seen>>

\* Mutant: finalize_plan writes the snapshot again.
FinalizePlanAgain(w) ==
    /\ plan' = "ready"
    /\ planNoRec' = sel[w] \ recs[w]

\* finalize_plan, under the plan's lock: a ready plan is returned as it is.
FinalizePlan(w) ==
    \/ /\ plan # "ready"
       /\ plan' = "ready"
       /\ planNoRec' = sel[w] \ recs[w]
    \/ /\ plan = "ready"
       /\ UNCHANGED <<plan, planNoRec>>

\* Mutant: a report without actions is not announced.
AnnounceActionsOnly(w) == readyEvent' = (readyEvent \/ planActions # {})

\* enqueue_outbox_event, keyed by the plan's revision.
Announce(w) == readyEvent' = TRUE

\* Mutant: the run is completed and the plan left to another transaction.
FinalizeRunFirst(w) ==
    /\ pc[w] = "finalize"
    /\ runStatus' = "completed"
    /\ Leave(w)
    /\ UNCHANGED <<summary, detection, dataVars, planVars, prepared, readyEvent>>

\* The last transaction: plan, run and event together.
Finalize(w) ==
    /\ pc[w] = "finalize"
    /\ FinalizePlan(w)
    /\ Announce(w)
    /\ runStatus' = "completed"
    /\ Leave(w)
    /\ UNCHANGED <<summary, detection, dataVars, planActions, prepared>>

-----------------------------------------------------------------------------
(* process: the failure handler, which reads the run without a lock.       *)

\* Any exception of _process.  From "idle": its first transaction failed.
Raise(w) ==
    /\ pc[w] \notin {"failRead", "failWrite"}
    /\ pc[w] = "idle" => plan # "ready"
    /\ Goto(w, "failRead")
    /\ UNCHANGED <<runVars, detection, dataVars, planVars, prepared, readyEvent, localVars, seen>>

FailRead(w) ==
    /\ pc[w] = "failRead"
    /\ \/ /\ runStatus \in {"completed", "stopped"}
          /\ Leave(w)
       \/ /\ runStatus \notin {"completed", "stopped"}
          /\ seen' = [seen EXCEPT ![w] = [status |-> runStatus, summary |-> summary]]
          /\ Goto(w, "failWrite")
          /\ UNCHANGED localVars
    /\ UNCHANGED <<runVars, detection, dataVars, planVars, prepared, readyEvent>>

FailureStatus == "failed"

\* Columns are written when they differ from what was loaded; a run that had
\* failed before may hold the same failure entry already.
FailWrite(w) ==
    /\ pc[w] = "failWrite"
    /\ runStatus' = IF seen[w].status = "failed" THEN runStatus ELSE FailureStatus
    /\ \/ summary' = seen[w].summary
       \/ seen[w].status = "failed" /\ UNCHANGED summary
    /\ Leave(w)
    /\ UNCHANGED <<detection, dataVars, planVars, prepared, readyEvent>>

\* The process dies.
Crash(w) ==
    /\ pc[w] # "idle"
    /\ Leave(w)
    /\ UNCHANGED <<runVars, detection, dataVars, planVars, prepared, readyEvent>>

-----------------------------------------------------------------------------
Process(w) ==
    \/ Begin(w)
    \/ Detect(w)
    \/ StopRun(w)
    \/ Select(w)
    \/ SelectWrite(w)
    \/ \E o \in Opportunities : Generate(w, o) \/ Prepare(w, o)
    \/ CreatePlan(w)
    \/ Finalize(w)
    \/ Raise(w)
    \/ FailRead(w)
    \/ FailWrite(w)
    \/ Crash(w)

Next ==
    \/ \E w \in Workers : Process(w)
    \/ \E o \in Opportunities : Accept(o) \/ Dismiss(o) \/ CloseOpportunity(o)

Spec == Init /\ [][Next]_vars

-----------------------------------------------------------------------------
\* Every column and every execution's local state has its type.
TypeOK ==
    /\ runStatus \in RunStatus
    /\ summary \in Summary
    /\ detection \in {"none", "open", "completed", "stopped"}
    /\ open \in SUBSET Opportunities
    /\ rec \in [Opportunities -> {"none", "recommendation", "no_recommendation"}]
    /\ decision \in [Opportunities -> {"none", "accepted", "dismissed"}]
    /\ plan \in {"none", "preparing", "ready"}
    /\ planActions \in SUBSET Opportunities
    /\ planNoRec \in SUBSET Opportunities
    /\ prepared \in SUBSET Opportunities
    /\ readyEvent \in BOOLEAN
    /\ pc \in [Workers -> PC]
    /\ sel \in [Workers -> SUBSET Opportunities]
    /\ recs \in [Workers -> SUBSET Opportunities]
    /\ acc \in [Workers -> SUBSET Opportunities]
    /\ todo \in [Workers -> SUBSET Opportunities]
    /\ seen \in [Workers -> Seen]

\* A plan is ready only when every one of its actions has been prepared, also
\* when the execution that finalizes it is not the one that created it.
ReadyPlanPrepared ==
    plan = "ready" => planActions \subseteq prepared

\* The report tells actions from no-recommendations by what is stored, although
\* overlapping executions ask the language model more than once and may select
\* different opportunities.
ReportMatchesRecommendations ==
    /\ \A o \in planActions : rec[o] = "recommendation"
    /\ \A o \in planNoRec : rec[o] = "no_recommendation"

\* A completed run has its ready plan: finalize_plan and the run's status are
\* one transaction, and no other execution takes the plan back.
CompletedHasReadyPlan ==
    runStatus = "completed" => plan = "ready"

\* operator/weekly-growth.ready is enqueued exactly for a plan that is ready:
\* no report stays without its e-mail and no e-mail goes out early.
ReadyAnnounced ==
    readyEvent <=> plan = "ready"

\* Overlapping executions of one weekly run, deaths and the failure handler included: a ready
\* plan has every action prepared, its actions are those of the stored recommendations, a
\* completed run has a ready plan, and the ready event is enqueued exactly with it
\* (WeeklyOperatorWorkflow.process).
PlanSafety ==
    /\ TypeOK
    /\ ReadyPlanPrepared
    /\ ReportMatchesRecommendations
    /\ CompletedHasReadyPlan
    /\ ReadyAnnounced

\* A ready plan is frozen: its actions and its snapshot never change again,
\* however many executions reach the finalization.
ReadyIsFrozen ==
    [][(plan = "ready") => UNCHANGED planVars]_vars

\* "Persist Phase 4 priority selection once; retries replay the exact IDs."
\* (docstring of select_current_run_opportunities)
\* Not guaranteed: the failure handler of another execution writes back a summary
\* without it (README, "What the code does not guarantee").
SelectionOnce ==
    [][summary.selected => summary'.selected /\ summary'.selection = summary.selection]_vars

\* The child run as DetectionRun describes it; one not yet created is open.
Child == INSTANCE DetectionRun WITH state <- IF detection = "none" THEN "open" ELSE detection

\* All executions of the workflow share one child detection run and use it as
\* DetectionRun allows, so what OpportunityDetection implements is enough.
ChildIsDetectionRun == Child!Spec

=============================================================================
