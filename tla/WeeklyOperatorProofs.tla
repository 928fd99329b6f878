------------------------- MODULE WeeklyOperatorProofs -------------------------
(***************************************************************************)
(* Safety of a weekly run for any number of opportunities and overlapping   *)
(* executions, of the schedule that creates runs, and of the readiness that *)
(* lets a user start one.                                                   *)
(*                                                                          *)
(* Run: what a ready plan promises (ReadyPlanPrepared,                      *)
(* ReportMatchesRecommendations) rests on what the execution that finalizes *)
(* it has collected over several transactions.  ExecutionKnows says that its*)
(* collection stays true whatever the other executions and the users do in  *)
(* between: stored recommendations never change their kind, a plan never    *)
(* changes its actions, and nothing that was prepared becomes unprepared.   *)
(*                                                                          *)
(* Schedule: a row counts from its insertion, not from its commit, and a run*)
(* from the look that found no other.  The unique index keeps uncommitted   *)
(* rows apart too (RowsDoNotClash), and two runs of a product on the way    *)
(* together have an excuse before either is committed (CrossingIsExcused).  *)
(* A pass has still to visit a due product or has seen to it                *)
(* (PassHasNotSkipped).  Of those that wait for one another's rows, the last*)
(* in line can go on, or the line is a circle, which the database breaks    *)
(* (StuckIsBlocked, LastInLine).                                            *)
(*                                                                          *)
(* Readiness: the lists of blockers that two routers build are brought down *)
(* to what is missing (BlockersOfMine), and then compared.                  *)
(***************************************************************************)
EXTENDS WeeklyOperator, WeeklySchedule, RunReadiness, FiniteSetTheorems, TLAPS

ExecutionKnows ==
    \A w \in Workers :
        /\ \A o \in recs[w] : rec[o] = "recommendation"
        /\ pc[w] = "selectWrite" => todo[w] = sel[w]
        /\ pc[w] = "generate" =>
             \A o \in sel[w] \ (todo[w] \cup recs[w]) : rec[o] = "no_recommendation"
        /\ pc[w] \in {"plan", "prepare", "finalize"} =>
             \A o \in sel[w] \ recs[w] : rec[o] = "no_recommendation"
        /\ pc[w] \in {"prepare", "finalize"} => plan # "none"
        /\ pc[w] = "prepare" => planActions \ todo[w] \subseteq prepared
        /\ pc[w] = "finalize" => planActions \subseteq prepared

Inv ==
    /\ TypeOK
    /\ ExecutionKnows
    /\ ReadyPlanPrepared
    /\ ReportMatchesRecommendations
    /\ CompletedHasReadyPlan
    /\ ReadyAnnounced

-----------------------------------------------------------------------------
\* A run that was just requested satisfies the invariant.
LEMMA InitInv == Init => Inv
  <1> SUFFICES ASSUME Init PROVE Inv
    OBVIOUS
  <1> USE DEF Init
  <1>1. EmptySummary \in Summary /\ NothingSeen \in Seen
    BY DEF EmptySummary, Summary, NothingSeen, Seen, RunStatus
  <1>2. TypeOK
    BY <1>1 DEF TypeOK, RunStatus, PC
  <1>3. QED
    BY <1>2 DEF Inv, ExecutionKnows, ReadyPlanPrepared, ReportMatchesRecommendations,
                CompletedHasReadyPlan, ReadyAnnounced

\* Users decide on recommendations and close opportunities; neither is part of
\* what an execution relies on.
LEMMA UserInv ==
    ASSUME Inv, NEW o \in Opportunities, Accept(o) \/ Dismiss(o) \/ CloseOpportunity(o)
    PROVE  Inv'
  BY DEF Accept, Dismiss, CloseOpportunity, Inv, TypeOK, ExecutionKnows, ReadyPlanPrepared,
         ReportMatchesRecommendations, CompletedHasReadyPlan, ReadyAnnounced, runVars, planVars,
         localVars

\* The end of an execution forgets its collection.
LEMMA LeaveInv ==
    ASSUME Inv, NEW w \in Workers, Leave(w), rec' = rec, planActions' = planActions,
           prepared' = prepared, plan # "none" => plan' # "none"
    PROVE  ExecutionKnows' /\ pc' \in [Workers -> PC] /\ seen' \in [Workers -> Seen]
           /\ sel' \in [Workers -> SUBSET Opportunities]
           /\ recs' \in [Workers -> SUBSET Opportunities]
           /\ acc' \in [Workers -> SUBSET Opportunities]
           /\ todo' \in [Workers -> SUBSET Opportunities]
  <1> USE DEF Inv, Leave, Goto, TypeOK
  <1>1. NothingSeen \in Seen
    BY DEF EmptySummary, Summary, NothingSeen, Seen, RunStatus
  <1>2. ExecutionKnows'
    BY DEF ExecutionKnows
  <1>3. QED
    BY <1>1, <1>2 DEF PC

\* The stages up to the selection.
LEMMA SelectInv ==
    ASSUME Inv, NEW w \in Workers, Begin(w) \/ Detect(w) \/ Select(w) \/ SelectWrite(w)
    PROVE  Inv'
  <1> USE DEF Inv, TypeOK, ExecutionKnows, ReadyPlanPrepared, ReportMatchesRecommendations,
              CompletedHasReadyPlan, ReadyAnnounced, Goto, RunStatus, Summary, PC, runVars,
              dataVars, planVars, localVars
  <1>1. CASE Begin(w)
    <2>1. /\ summary' \in Summary
          /\ runStatus' \in {runStatus, "running"}
          /\ detection' \in {detection, "open"}
      BY <1>1 DEF Begin
    <2>2. pc' \in [Workers -> PC] /\ \A v \in Workers : pc'[v] # pc[v] => pc'[v] \in {"detect", "failRead"}
      BY <1>1 DEF Begin
    <2>3. QED
      BY <1>1, <2>1, <2>2 DEF Begin
  <1>2. CASE Detect(w)
    BY <1>2 DEF Detect
  <1>3. CASE Select(w)
    <2>1. Top(open) \in SUBSET Opportunities
      BY DEF Top
    <2>2. QED
      BY <1>3, <2>1 DEF Select
  <1>4. CASE SelectWrite(w)
    BY <1>4 DEF SelectWrite
  <1>5. QED
    BY <1>1, <1>2, <1>3, <1>4

\* generate_recommendation adds rows and changes none.
LEMMA GenerateInv ==
    ASSUME Inv, NEW w \in Workers, NEW o \in Opportunities, Generate(w, o)
    PROVE  Inv'
  <1> USE DEF Inv, Generate, Collect, First, Goto
  <1>1. /\ rec' \in [Opportunities -> {"none", "recommendation", "no_recommendation"}]
        /\ \A p \in Opportunities : rec[p] # "none" => rec'[p] = rec[p]
        /\ rec'[o] # "none"
    BY DEF TypeOK
  <1>2. TypeOK'
    BY <1>1 DEF TypeOK, PC, runVars, planVars
  <1>3. ExecutionKnows'
    BY <1>1 DEF TypeOK, ExecutionKnows, planVars
  <1>4. QED
    BY <1>1, <1>2, <1>3 DEF TypeOK, ReadyPlanPrepared, ReportMatchesRecommendations,
       CompletedHasReadyPlan, ReadyAnnounced, planVars, runVars

\* The plan gets its actions once, and preparing them only adds.
LEMMA PlanInv ==
    ASSUME Inv, NEW w \in Workers,
           CreatePlan(w) \/ \E o \in Opportunities : Prepare(w, o)
    PROVE  Inv'
  <1> USE DEF Inv, TypeOK, ExecutionKnows, ReadyPlanPrepared, ReportMatchesRecommendations,
              CompletedHasReadyPlan, ReadyAnnounced, Goto, PC, runVars, dataVars, planVars
  <1>1. CASE CreatePlan(w)
    BY <1>1 DEF CreatePlan
  <1>2. ASSUME NEW o \in Opportunities, Prepare(w, o) PROVE Inv'
    BY <1>2 DEF Prepare, First
  <1>3. QED
    BY <1>1, <1>2

\* The last transaction of an execution.
LEMMA FinalizeInv ==
    ASSUME Inv, NEW w \in Workers, Finalize(w)
    PROVE  Inv'
  <1> USE DEF Inv, Finalize, FinalizePlan, Announce
  <1>1. ExecutionKnows' /\ TypeOK'
    BY LeaveInv DEF TypeOK, RunStatus, dataVars
  <1>2. planActions \subseteq prepared
    BY DEF ExecutionKnows
  <1>3. \A o \in sel[w] \ recs[w] : rec[o] = "no_recommendation"
    BY DEF ExecutionKnows
  <1>4. ReportMatchesRecommendations'
    BY <1>3 DEF ReportMatchesRecommendations, dataVars
  <1>5. QED
    BY <1>1, <1>2, <1>4 DEF ReadyPlanPrepared, CompletedHasReadyPlan, ReadyAnnounced

\* Stopping, failing and dying: only the run's own columns change.
LEMMA EndInv ==
    ASSUME Inv, NEW w \in Workers,
           StopRun(w) \/ Raise(w) \/ FailRead(w) \/ FailWrite(w) \/ Crash(w)
    PROVE  Inv'
  <1> USE DEF Inv, ReadyPlanPrepared, ReportMatchesRecommendations, CompletedHasReadyPlan,
              ReadyAnnounced, runVars, dataVars, planVars
  <1>1. CASE StopRun(w)
    BY <1>1, LeaveInv DEF StopRun, TypeOK, RunStatus
  <1>2. CASE Raise(w)
    BY <1>2 DEF Raise, Goto, TypeOK, PC, ExecutionKnows, localVars
  <1>3. CASE FailRead(w)
    <2>1. CASE Leave(w)
      BY <1>3, <2>1, LeaveInv DEF FailRead, TypeOK
    <2>2. CASE ~Leave(w)
      <3>1. /\ seen' = [seen EXCEPT ![w] = [status |-> runStatus, summary |-> summary]]
            /\ pc' = [pc EXCEPT ![w] = "failWrite"]
            /\ UNCHANGED <<localVars, runVars, detection, dataVars, planVars, prepared, readyEvent>>
        BY <1>3, <2>2 DEF FailRead, Goto
      <3>2. seen' \in [Workers -> Seen]
        BY <3>1 DEF TypeOK, Seen
      <3>3. QED
        BY <3>1, <3>2 DEF TypeOK, PC, ExecutionKnows, localVars
    <2>3. QED
      BY <2>1, <2>2
  <1>4. CASE FailWrite(w)
    <2>1. seen[w].status \in RunStatus /\ seen[w].summary \in Summary
      BY DEF TypeOK, Seen
    <2>2. runStatus' \in {runStatus, "failed"} /\ summary' \in Summary
      BY <1>4, <2>1 DEF FailWrite, FailureStatus, TypeOK
    <2>3. QED
      BY <1>4, <2>2, LeaveInv DEF FailWrite, TypeOK, RunStatus
  <1>5. CASE Crash(w)
    BY <1>5, LeaveInv DEF Crash, TypeOK
  <1>6. QED
    BY <1>1, <1>2, <1>3, <1>4, <1>5

-----------------------------------------------------------------------------
\* The inductive invariant of a weekly run.
THEOREM WeeklyInvariant == Spec => []Inv
  <1>1. ASSUME Inv, [Next]_vars PROVE Inv'
    <2>1. CASE UNCHANGED vars
      BY <1>1, <2>1 DEF vars, Inv, TypeOK, ExecutionKnows, ReadyPlanPrepared,
         ReportMatchesRecommendations, CompletedHasReadyPlan, ReadyAnnounced
    <2>2. ASSUME NEW w \in Workers, Process(w) PROVE Inv'
      BY <1>1, <2>2, SelectInv, GenerateInv, PlanInv, FinalizeInv, EndInv DEF Process
    <2>3. CASE \E o \in Opportunities : Accept(o) \/ Dismiss(o) \/ CloseOpportunity(o)
      BY <1>1, <2>3, UserInv
    <2>4. QED
      BY <1>1, <2>1, <2>2, <2>3 DEF Next
  <1>2. QED
    BY <1>1, InitInv, PTL DEF Spec

\* Every column and every local value keeps its type.
THEOREM WeeklyTypeOK == Spec => []TypeOK
  BY WeeklyInvariant, PTL DEF Inv

\* A ready plan has all its actions prepared.
THEOREM WeeklyReadyPlanPrepared == Spec => []ReadyPlanPrepared
  BY WeeklyInvariant, PTL DEF Inv

\* The report agrees with the stored recommendations.
THEOREM WeeklyReportMatchesRecommendations == Spec => []ReportMatchesRecommendations
  BY WeeklyInvariant, PTL DEF Inv

\* A completed run has a ready plan.
THEOREM WeeklyCompletedHasReadyPlan == Spec => []CompletedHasReadyPlan
  BY WeeklyInvariant, PTL DEF Inv

\* Exactly a ready plan is announced.
THEOREM WeeklyReadyAnnounced == Spec => []ReadyAnnounced
  BY WeeklyInvariant, PTL DEF Inv

\* No step changes a plan that is ready.
THEOREM WeeklyReadyIsFrozen == Spec => ReadyIsFrozen
  <1>1. [Next]_vars => [(plan = "ready") => UNCHANGED planVars]_vars
    <2> SUFFICES ASSUME Next, plan = "ready" PROVE UNCHANGED planVars
      OBVIOUS
    <2>1. ASSUME NEW w \in Workers, Process(w) PROVE UNCHANGED planVars
      BY <2>1 DEF Process, Begin, Detect, StopRun, Select, SelectWrite, Generate, Collect, Prepare,
         CreatePlan, Finalize, FinalizePlan, Raise, FailRead, FailWrite, Crash, planVars
    <2>2. ASSUME NEW o \in Opportunities, Accept(o) \/ Dismiss(o) \/ CloseOpportunity(o)
          PROVE  UNCHANGED planVars
      BY <2>2 DEF Accept, Dismiss, CloseOpportunity
    <2>3. QED
      BY <2>1, <2>2 DEF Next
  <1>2. QED
    BY <1>1, PTL DEF Spec, ReadyIsFrozen

\* PlanSafety: a ready plan is prepared, announced and true to the recommendations,
\* and a completed run has one, for every set of executions and opportunities.
THEOREM WeeklyPlanSafety == Spec => []PlanSafety
  BY WeeklyTypeOK, WeeklyReadyPlanPrepared, WeeklyReportMatchesRecommendations,
     WeeklyCompletedHasReadyPlan, WeeklyReadyAnnounced, PTL
  DEF PlanSafety

-----------------------------------------------------------------------------
\* ChildIsDetectionRun: whatever the executions of the workflow do, the child run they
\* share is created once and settles once, as DetectionRun allows (WeeklyGrowthCoordinator
\* _process), for every number of executions.
THEOREM WeeklyChildIsDetectionRun == Spec => ChildIsDetectionRun
  <1> DEFINE child == IF detection = "none" THEN "open" ELSE detection
  <1>1. Init => Child!Init
    BY DEF Init, Child!Init
  <1>2. TypeOK /\ [Next]_vars => [Child!Next]_child
    <2> SUFFICES ASSUME TypeOK, [Next]_vars
                 PROVE  [Child!Next]_child
      OBVIOUS
    <2>1. CASE \E w \in Workers : Begin(w)
      <3> PICK w \in Workers : Begin(w)
        BY <2>1
      <3>1. UNCHANGED detection \/ (detection = "none" /\ detection' = "open")
        BY DEF Begin
      <3> QED
        BY <3>1
    <2>2. CASE \E w \in Workers : Detect(w)
      <3>1. UNCHANGED detection \/ (detection = "open" /\ detection' \in {"completed", "stopped"})
        BY <2>2 DEF Detect
      <3> QED
        BY <3>1 DEF Child!Next, Child!Settle
    <2>3. CASE UNCHANGED detection
      BY <2>3
    <2>4. Next => (\E w \in Workers : Begin(w)) \/ (\E w \in Workers : Detect(w)) \/ UNCHANGED detection
      BY DEF Next, Process, Accept, Dismiss, CloseOpportunity, StopRun, Select, SelectWrite, Generate,
             Collect, Prepare, CreatePlan, Finalize, Raise, FailRead, FailWrite, Crash
    <2> QED
      BY <2>1, <2>2, <2>3, <2>4 DEF vars
  <1> QED
    BY <1>1, <1>2, WeeklyTypeOK, PTL DEF Spec, ChildIsDetectionRun, Child!Spec

-----------------------------------------------------------------------------
\* The insert that a transaction is about to do is among those it has left, and a
\* transaction holds at most one run of a product.
HoldsOnePerProduct ==
    \A t \in Txns :
        /\ wanted[t] # NoRun => wanted[t] \in remaining[t]
        /\ \A r, q \in remaining[t] \cup staged[t] : q[1] = r[1] => q = r

\* The run has a row, committed or not.
HasRow(r) == status[r] # "none" \/ \E t \in Txns : r \in staged[t]

\* The unique index holds across committed and uncommitted rows.
RowsDoNotClash ==
    \A r, q \in WeeklyRuns :
        r # q /\ q[1] = r[1] /\ HasRow(r) /\ HasRow(q) => Period(q) # Period(r)

\* The run is active, or a transaction that has looked is about to make it so.
MayBeActive(r) ==
    \/ status[r] = "active"
    \/ \E t \in Txns : r \in staged[t] \/ wanted[t] = r

\* Two runs of a product are on the way together only with an excuse.
CrossingIsExcused ==
    \A r, q \in WeeklyRuns :
        r # q /\ q[1] = r[1] /\ MayBeActive(r) /\ MayBeActive(q) => r[1] \in excused

\* A pass has still to visit a due product, or has seen to it.
PassHasNotSkipped ==
    \A t \in Txns : \A p \in Products \ left[t] :
        work[t] = "pass" =>
            \/ <<p, Scheduled>> \in remaining[t] \cup staged[t]
            \/ status[<<p, Scheduled>>] # "none"

ScheduleInv ==
    /\ ScheduleTypeOK
    /\ HoldsOnePerProduct
    /\ RowsDoNotClash
    /\ CrossingIsExcused
    /\ PassHasNotSkipped

\* A run is of a product of the schedule, and the sign for no run is none of them.
LEMMA WeeklyRunFacts ==
    /\ NoRun \notin WeeklyRuns
    /\ \A r \in WeeklyRuns : r[1] \in Products
    /\ \A p \in Products : <<p, Scheduled>> \in WeeklyRuns
  BY ScheduleAssumption DEF WeeklyRuns

\* A week without any run satisfies the invariant.
LEMMA ScheduleInitInv == ScheduleInit => ScheduleInv
  <1> SUFFICES ASSUME ScheduleInit PROVE ScheduleInv
    OBVIOUS
  <1> USE WeeklyRunFacts DEF ScheduleInit
  <1>1. ScheduleTypeOK
    BY DEF ScheduleTypeOK, WeekStatus
  <1>2. HoldsOnePerProduct /\ PassHasNotSkipped
    BY DEF HoldsOnePerProduct, PassHasNotSkipped
  <1>3. RowsDoNotClash /\ CrossingIsExcused
    BY DEF RowsDoNotClash, HasRow, CrossingIsExcused, MayBeActive
  <1>4. QED
    BY <1>1, <1>2, <1>3 DEF ScheduleInv

\* A transaction that only begins to work, or goes on to the next product, changes
\* nothing that others see.
LEMMA StartInv ==
    ASSUME ScheduleInv, NEW t \in Txns,
           StartPass(t) \/ \E r \in ByHand \cup ByActivation : StartRequest(t, r)
    PROVE  ScheduleInv'
  <1>1. work[t] = "idle" /\ UNCHANGED <<calendar, status, wanted, staged, left, excused>>
    BY DEF StartPass, StartRequest
  <1> DEFINE Starts(visits, w) ==
            /\ work' = [work EXCEPT ![t] = w]
            /\ remaining' = [remaining EXCEPT ![t] = visits]
            /\ \A r, q \in visits : q[1] = r[1] => q = r
            /\ w = "pass" => visits = {<<p, Scheduled>> : p \in Products}
  <1>2. PICK visits \in SUBSET WeeklyRuns, w \in {"pass", "manual", "activation"} : Starts(visits, w)
    <2>1. CASE StartPass(t)
      <3>1. {<<p, Scheduled>> : p \in Products} \in SUBSET WeeklyRuns
        BY WeeklyRunFacts
      <3>2. \A r, q \in {<<p, Scheduled>> : p \in Products} : q[1] = r[1] => q = r
        OBVIOUS
      <3>3. Starts({<<p, Scheduled>> : p \in Products}, "pass")
        BY <2>1, <3>2 DEF StartPass
      <3>4. QED
        BY <3>1, <3>3
    <2>2. ASSUME NEW r \in ByHand \cup ByActivation, StartRequest(t, r)
          PROVE  \E visits \in SUBSET WeeklyRuns, w \in {"pass", "manual", "activation"} :
                     Starts(visits, w)
      <3>1. Trigger(r) \in {"manual", "activation"}
        BY ScheduleAssumption DEF Trigger
      <3>2. {r} \in SUBSET WeeklyRuns
        BY DEF WeeklyRuns
      <3>3. Starts({r}, Trigger(r))
        BY <2>2, <3>1 DEF StartRequest
      <3>4. QED
        BY <3>1, <3>2, <3>3
    <2>3. QED
      BY <2>1, <2>2
  <1>3. wanted[t] = NoRun /\ remaining[t] = {} /\ staged[t] = {}
    BY <1>1 DEF ScheduleInv, ScheduleTypeOK
  <1>4. ScheduleTypeOK'
    BY <1>1, <1>2 DEF ScheduleInv, ScheduleTypeOK
  <1>5. HoldsOnePerProduct'
    BY <1>1, <1>2, <1>3 DEF ScheduleInv, ScheduleTypeOK, HoldsOnePerProduct
  <1>6. RowsDoNotClash' /\ CrossingIsExcused'
    BY <1>1 DEF ScheduleInv, RowsDoNotClash, HasRow, CrossingIsExcused, MayBeActive, Period
  <1>7. PassHasNotSkipped'
    <2> SUFFICES ASSUME NEW u \in Txns, NEW p \in Products \ left'[u], work'[u] = "pass"
                 PROVE  \/ <<p, Scheduled>> \in remaining'[u] \cup staged'[u]
                        \/ status'[<<p, Scheduled>>] # "none"
      BY <1>1 DEF PassHasNotSkipped
    <2>1. p \in Products
      BY DEF ScheduleInv, ScheduleTypeOK
    <2>2. CASE u = t
      BY <1>1, <1>2, <2>1, <2>2 DEF ScheduleInv, ScheduleTypeOK
    <2>3. CASE u # t
      <3>1. work[u] = "pass" /\ remaining'[u] = remaining[u]
        BY <1>2, <2>3 DEF ScheduleInv, ScheduleTypeOK
      <3>2. QED
        BY <1>1, <3>1 DEF ScheduleInv, PassHasNotSkipped
    <2>4. QED
      BY <2>2, <2>3
  <1>8. QED
    BY <1>4, <1>5, <1>6, <1>7 DEF ScheduleInv

\* A pass drops a product only if it is not ready, which it records, or has its run; nothing that
\* others see changes.
LEMMA SkipInv ==
    ASSUME ScheduleInv, NEW t \in Txns, NEW r \in WeeklyRuns, LeaveOut(t, r) \/ Skip(t, r)
    PROVE  ScheduleInv'
  <1>1. /\ wanted[t] = NoRun /\ work[t] # "idle" /\ r[1] \in Products
        /\ remaining' = [remaining EXCEPT ![t] = @ \ {r}]
        /\ left' = left \/ left' = [left EXCEPT ![t] = @ \cup {r[1]}]
        /\ UNCHANGED <<calendar, status, work, wanted, staged, excused>>
    BY WeeklyRunFacts DEF LeaveOut, Skip, MaySkip, ComesTo
  <1>2. ScheduleTypeOK'
    BY <1>1 DEF ScheduleInv, ScheduleTypeOK
  <1>3. HoldsOnePerProduct'
    BY <1>1 DEF ScheduleInv, ScheduleTypeOK, HoldsOnePerProduct
  <1>4. RowsDoNotClash' /\ CrossingIsExcused'
    BY <1>1 DEF ScheduleInv, RowsDoNotClash, HasRow, CrossingIsExcused, MayBeActive, Period
  <1>5. PassHasNotSkipped'
    <2> SUFFICES ASSUME NEW u \in Txns, NEW p \in Products \ left'[u], work[u] = "pass"
                 PROVE  \/ <<p, Scheduled>> \in remaining'[u] \cup staged[u]
                        \/ status[<<p, Scheduled>>] # "none"
      BY <1>1 DEF PassHasNotSkipped
    <2>1. \/ <<p, Scheduled>> \in remaining[u] \cup staged[u]
          \/ status[<<p, Scheduled>>] # "none"
      <3>1. p \notin left[u]
        BY <1>1 DEF ScheduleInv, ScheduleTypeOK
      <3>2. QED
        BY <3>1 DEF ScheduleInv, PassHasNotSkipped
    <2>2. CASE u = t /\ <<p, Scheduled>> = r
      <3>1. r[1] = p
        BY <2>2
      <3>2. ~LeaveOut(t, r)
        BY <2>2, <3>1 DEF LeaveOut, ScheduleInv, ScheduleTypeOK
      <3>3. Exists(t, r)
        BY <2>2, <3>2 DEF Skip, MaySkip, Reuses
      <3>4. QED
        BY <2>2, <3>3 DEF Exists
    <2>3. CASE ~(u = t /\ <<p, Scheduled>> = r)
      BY <1>1, <2>1, <2>3 DEF ScheduleInv, ScheduleTypeOK
    <2>4. QED
      BY <2>2, <2>3
  <1>6. QED
    BY <1>2, <1>3, <1>4, <1>5 DEF ScheduleInv

\* The look of create_weekly_run: it sees no active run, so any other run of the product that is on
\* its way belongs to another transaction, and the crossing is on record.
LEMMA LookInv ==
    ASSUME ScheduleInv, NEW t \in Txns, NEW r \in WeeklyRuns, Look(t, r)
    PROVE  ScheduleInv'
  <1>1. /\ wanted[t] = NoRun /\ work[t] # "idle"
        /\ r \in remaining[t]
        /\ ~HasActive(t, r[1])
        /\ wanted' = [wanted EXCEPT ![t] = r]
        /\ excused' = IF LookedAt(t, r[1]) THEN excused \cup {r[1]} ELSE excused
        /\ UNCHANGED <<calendar, status, work, remaining, staged, left>>
    BY DEF Look, MayLook, ComesTo
  <1>2. ScheduleTypeOK'
    BY <1>1, WeeklyRunFacts DEF ScheduleInv, ScheduleTypeOK
  <1>3. HoldsOnePerProduct' /\ PassHasNotSkipped'
    BY <1>1 DEF ScheduleInv, ScheduleTypeOK, HoldsOnePerProduct, PassHasNotSkipped
  <1>4. RowsDoNotClash'
    BY <1>1 DEF ScheduleInv, RowsDoNotClash, HasRow, Period
  <1>5. \A q \in WeeklyRuns : MayBeActive(q)' => MayBeActive(q) \/ q = r
    BY <1>1 DEF MayBeActive, ScheduleInv, ScheduleTypeOK
  <1>6. ASSUME NEW q \in WeeklyRuns, q # r, q[1] = r[1], MayBeActive(q)
        PROVE  r[1] \in excused'
    <2>1. status[q] # "active" /\ q \notin staged[t]
      BY <1>1, <1>6 DEF HasActive
    <2>2. PICK u \in Txns : q \in staged[u] \/ wanted[u] = q
      BY <1>6, <2>1 DEF MayBeActive
    <2>3. u # t
      BY <1>1, <2>1, <2>2, WeeklyRunFacts
    <2>4. LookedAt(t, r[1])
      BY <1>6, <2>2, <2>3, WeeklyRunFacts DEF LookedAt
    <2>5. QED
      BY <1>1, <2>4
  <1>7. CrossingIsExcused'
    <2> SUFFICES ASSUME NEW x \in WeeklyRuns, NEW y \in WeeklyRuns, x # y, y[1] = x[1],
                        MayBeActive(x)', MayBeActive(y)'
                 PROVE  x[1] \in excused'
      BY DEF CrossingIsExcused
    <2>1. (MayBeActive(x) \/ x = r) /\ (MayBeActive(y) \/ y = r)
      BY <1>5
    <2>2. CASE x = r
      BY <1>6, <2>1, <2>2
    <2>3. CASE y = r
      BY <1>6, <2>1, <2>3
    <2>4. CASE x # r /\ y # r
      BY <1>1, <2>1, <2>4 DEF ScheduleInv, CrossingIsExcused
    <2>5. QED
      BY <2>2, <2>3, <2>4
  <1>8. QED
    BY <1>2, <1>3, <1>4, <1>7 DEF ScheduleInv

\* The insert: the unique indexes compare the row with all others, committed or not, except with the
\* rows of its own transaction, and that one has no other run of the product.
LEMMA InsertInv ==
    ASSUME ScheduleInv, NEW t \in Txns, Insert(t)
    PROVE  ScheduleInv'
  <1> DEFINE r == wanted[t]
  <1>1. /\ r # NoRun
        /\ \A u \in Txns : ~Blocked(t, u)
        /\ \A q \in WeeklyRuns : status[q] # "none" => ~Clash(r, q)
        /\ staged' = [staged EXCEPT ![t] = @ \cup {r}]
        /\ remaining' = [remaining EXCEPT ![t] = @ \ {r}]
        /\ wanted' = [wanted EXCEPT ![t] = NoRun]
        /\ UNCHANGED <<calendar, status, work, left, excused>>
    BY DEF Insert, MayInsert, Refused
  <1>2. r \in WeeklyRuns /\ r \in remaining[t] /\ work[t] # "idle"
    BY <1>1 DEF ScheduleInv, ScheduleTypeOK, HoldsOnePerProduct
  <1>3. ScheduleTypeOK'
    BY <1>1, <1>2 DEF ScheduleInv, ScheduleTypeOK
  <1>4. HoldsOnePerProduct'
    <2>1. \A u \in Txns : wanted'[u] # NoRun => wanted'[u] \in remaining'[u]
      BY <1>1 DEF ScheduleInv, ScheduleTypeOK, HoldsOnePerProduct
    <2>2. \A u \in Txns : remaining'[u] \cup staged'[u] \subseteq remaining[u] \cup staged[u]
      BY <1>1, <1>2 DEF ScheduleInv, ScheduleTypeOK
    <2>3. QED
      BY <2>1, <2>2 DEF ScheduleInv, HoldsOnePerProduct
  <1>5. \A q \in WeeklyRuns : HasRow(q)' => HasRow(q) \/ q = r
    BY <1>1 DEF HasRow, ScheduleInv, ScheduleTypeOK
  <1>6. ASSUME NEW q \in WeeklyRuns, q # r, q[1] = r[1], HasRow(q)
        PROVE  Period(q) # Period(r)
    <2>1. CASE status[q] # "none"
      BY <1>1, <1>6, <2>1 DEF Clash
    <2>2. ASSUME NEW u \in Txns, q \in staged[u] PROVE Period(q) # Period(r)
      <3>1. u # t
        BY <1>2, <1>6, <2>2 DEF ScheduleInv, HoldsOnePerProduct
      <3>2. ~Clash(r, q)
        BY <1>1, <2>2, <3>1 DEF Blocked
      <3>3. QED
        BY <1>6, <3>2 DEF Clash
    <2>3. QED
      BY <1>6, <2>1, <2>2 DEF HasRow
  <1>7. RowsDoNotClash'
    <2> SUFFICES ASSUME NEW x \in WeeklyRuns, NEW y \in WeeklyRuns, x # y, y[1] = x[1],
                        HasRow(x)', HasRow(y)'
                 PROVE  Period(y)' # Period(x)'
      BY DEF RowsDoNotClash
    <2>1. (HasRow(x) \/ x = r) /\ (HasRow(y) \/ y = r)
      BY <1>5
    <2>2. Period(y)' = Period(y) /\ Period(x)' = Period(x)
      BY <1>1 DEF Period
    <2>3. CASE x = r
      BY <1>6, <2>1, <2>2, <2>3
    <2>4. CASE y = r
      BY <1>6, <2>1, <2>2, <2>4
    <2>5. CASE x # r /\ y # r
      BY <2>1, <2>2, <2>5 DEF ScheduleInv, RowsDoNotClash
    <2>6. QED
      BY <2>3, <2>4, <2>5
  <1>8. CrossingIsExcused'
    <2>1. \A q \in WeeklyRuns : MayBeActive(q)' => MayBeActive(q)
      BY <1>1, WeeklyRunFacts DEF MayBeActive, ScheduleInv, ScheduleTypeOK
    <2>2. QED
      BY <1>1, <2>1 DEF ScheduleInv, CrossingIsExcused
  <1>9. PassHasNotSkipped'
    <2>1. \A u \in Txns : remaining[u] \cup staged[u] \subseteq remaining'[u] \cup staged'[u]
      BY <1>1 DEF ScheduleInv, ScheduleTypeOK
    <2>2. QED
      BY <1>1, <2>1 DEF ScheduleInv, PassHasNotSkipped
  <1>10. QED
    BY <1>3, <1>4, <1>7, <1>8, <1>9 DEF ScheduleInv

\* The end of a transaction: what it staged is gone, or committed.
LEMMA RollbackInv ==
    ASSUME ScheduleInv, NEW t \in Txns, Rollback(t),
           UNCHANGED <<calendar, excused>>,
           \/ status' = status
           \/ status' = [r \in WeeklyRuns |-> IF r \in staged[t] THEN "active" ELSE status[r]]
    PROVE  ScheduleInv'
  <1>1. /\ work' = [work EXCEPT ![t] = "idle"]
        /\ remaining' = [remaining EXCEPT ![t] = {}]
        /\ wanted' = [wanted EXCEPT ![t] = NoRun]
        /\ staged' = [staged EXCEPT ![t] = {}]
        /\ left' = [left EXCEPT ![t] = {}]
    BY DEF Rollback
  <1>2. ScheduleTypeOK'
    <2>1. status' \in [WeeklyRuns -> WeekStatus]
      BY DEF ScheduleInv, ScheduleTypeOK, WeekStatus
    <2>2. QED
      BY <1>1, <2>1 DEF ScheduleInv, ScheduleTypeOK
  <1>3. \A u \in Txns \ {t} :
            /\ work'[u] = work[u] /\ remaining'[u] = remaining[u]
            /\ wanted'[u] = wanted[u] /\ staged'[u] = staged[u] /\ left'[u] = left[u]
    BY <1>1 DEF ScheduleInv, ScheduleTypeOK
  <1>4. work'[t] = "idle" /\ remaining'[t] = {} /\ wanted'[t] = NoRun /\ staged'[t] = {}
    BY <1>1 DEF ScheduleInv, ScheduleTypeOK
  <1>5. \A r \in WeeklyRuns :
            /\ status'[r] # status[r] => r \in staged[t] /\ status'[r] = "active"
            /\ status[r] # "none" => status'[r] # "none"
    BY DEF ScheduleInv, ScheduleTypeOK
  <1>6. HoldsOnePerProduct'
    BY <1>3, <1>4 DEF ScheduleInv, HoldsOnePerProduct
  <1>7. RowsDoNotClash'
    <2>1. \A r \in WeeklyRuns : HasRow(r)' => HasRow(r)
      BY <1>3, <1>4, <1>5 DEF HasRow
    <2>2. QED
      BY <2>1 DEF ScheduleInv, RowsDoNotClash, Period
  <1>8. CrossingIsExcused'
    <2>1. \A r \in WeeklyRuns : MayBeActive(r)' => MayBeActive(r)
      BY <1>3, <1>4, <1>5, WeeklyRunFacts DEF MayBeActive
    <2>2. QED
      BY <2>1 DEF ScheduleInv, CrossingIsExcused
  <1>9. PassHasNotSkipped'
    <2> SUFFICES ASSUME NEW u \in Txns, NEW p \in Products \ left'[u], work'[u] = "pass"
                 PROVE  \/ <<p, Scheduled>> \in remaining'[u] \cup staged'[u]
                        \/ status'[<<p, Scheduled>>] # "none"
      BY DEF PassHasNotSkipped
    <2>1. u # t
      BY <1>4
    <2>2. <<p, Scheduled>> \in WeeklyRuns
      BY WeeklyRunFacts DEF ScheduleInv, ScheduleTypeOK
    <2>3. \/ <<p, Scheduled>> \in remaining[u] \cup staged[u]
          \/ status[<<p, Scheduled>>] # "none"
      BY <1>3, <2>1 DEF ScheduleInv, PassHasNotSkipped
    <2>4. QED
      BY <1>3, <1>5, <2>1, <2>2, <2>3
  <1>10. QED
    BY <1>2, <1>6, <1>7, <1>8, <1>9 DEF ScheduleInv

\* A run ends or is retried.
LEMMA EnvironmentInv ==
    ASSUME ScheduleInv, NEW x \in WeeklyRuns, EndRun(x) \/ RetryRun(x)
    PROVE  ScheduleInv'
  <1>1. UNCHANGED <<calendar, work, remaining, wanted, staged, left>>
    BY DEF EndRun, RetryRun, txnVars
  <1>2. /\ status' \in [WeeklyRuns -> WeekStatus]
        /\ excused \subseteq excused' /\ excused' \subseteq Products
        /\ \A r \in WeeklyRuns :
               /\ status'[r] = "none" <=> status[r] = "none"
               /\ status'[r] = "active" => status[r] = "active" \/ r[1] \in excused'
    BY WeeklyRunFacts DEF EndRun, RetryRun, ScheduleInv, ScheduleTypeOK, WeekStatus
  <1>3. ScheduleTypeOK'
    BY <1>1, <1>2 DEF ScheduleInv, ScheduleTypeOK
  <1>4. HoldsOnePerProduct'
    BY <1>1 DEF ScheduleInv, HoldsOnePerProduct
  <1>5. RowsDoNotClash'
    BY <1>1, <1>2 DEF ScheduleInv, RowsDoNotClash, HasRow, Period
  <1>6. CrossingIsExcused'
    <2>1. \A r \in WeeklyRuns : MayBeActive(r)' => MayBeActive(r) \/ r[1] \in excused'
      BY <1>1, <1>2 DEF MayBeActive
    <2>2. QED
      BY <1>2, <2>1 DEF ScheduleInv, CrossingIsExcused
  <1>7. PassHasNotSkipped'
    <2> SUFFICES ASSUME NEW u \in Txns, NEW p \in Products \ left'[u], work[u] = "pass"
                 PROVE  \/ <<p, Scheduled>> \in remaining[u] \cup staged[u]
                        \/ status'[<<p, Scheduled>>] # "none"
      BY <1>1, <1>2 DEF PassHasNotSkipped
    <2>1. <<p, Scheduled>> \in WeeklyRuns
      BY WeeklyRunFacts DEF ScheduleInv, ScheduleTypeOK
    <2>2. QED
      BY <1>1, <1>2, <2>1 DEF ScheduleInv, PassHasNotSkipped
  <1>8. QED
    BY <1>3, <1>4, <1>5, <1>6, <1>7 DEF ScheduleInv

\* Every step keeps the invariant.
LEMMA ScheduleNextInv == ScheduleInv /\ [ScheduleNext]_scheduleVars => ScheduleInv'
  <1> SUFFICES ASSUME ScheduleInv, [ScheduleNext]_scheduleVars PROVE ScheduleInv'
    OBVIOUS
  <1>1. CASE UNCHANGED scheduleVars
    BY <1>1 DEF scheduleVars, ScheduleInv, ScheduleTypeOK, HoldsOnePerProduct, RowsDoNotClash,
       HasRow, Period, CrossingIsExcused, MayBeActive, PassHasNotSkipped
  <1>2. ASSUME NEW t \in Txns, TxnStep(t) \/ TxnDies(t) PROVE ScheduleInv'
    <2>1. CASE \E r \in WeeklyRuns : LeaveOut(t, r) \/ Skip(t, r) \/ Look(t, r)
      BY <2>1, SkipInv, LookInv
    <2>2. CASE Insert(t)
      BY <2>2, InsertInv
    <2>3. CASE \/ \E r \in WeeklyRuns : RaiseConflict(t, r)
               \/ InsertFails(t) \/ Commit(t) \/ TxnDies(t)
      <3>1. /\ Rollback(t) /\ UNCHANGED <<calendar, excused>>
            /\ \/ status' = status
               \/ status' = [r \in WeeklyRuns |-> IF r \in staged[t] THEN "active" ELSE status[r]]
        BY <2>3 DEF RaiseConflict, InsertFails, Commit, TxnDies
      <3>2. QED
        BY <3>1, RollbackInv
    <2>4. QED
      BY <1>2, <2>1, <2>2, <2>3 DEF TxnStep
  <1>3. ASSUME NEW t \in Txns,
               StartPass(t) \/ \E r \in ByHand \cup ByActivation : StartRequest(t, r)
        PROVE  ScheduleInv'
    BY <1>3, StartInv
  <1>4. CASE \E r \in WeeklyRuns : EndRun(r) \/ RetryRun(r)
    BY <1>4, EnvironmentInv
  <1>5. QED
    BY <1>1, <1>2, <1>3, <1>4 DEF ScheduleNext

\* The inductive invariant of the transactions that create the runs of a week.
THEOREM ScheduleInvariant == ScheduleSpec => []ScheduleInv
  BY ScheduleInitInv, ScheduleNextInv, PTL DEF ScheduleSpec

\* OneRunPerPeriod: for every set of products, transactions and requests, a product never has two
\* runs of one logical period (uq_operator_runs_weekly_period).
THEOREM ScheduleOneRunPerPeriod == ScheduleSpec => []OneRunPerPeriod
  <1>1. ScheduleInv => OneRunPerPeriod
    BY DEF ScheduleInv, OneRunPerPeriod, RowsDoNotClash, HasRow
  <1>2. QED
    BY <1>1, ScheduleInvariant, PTL

\* TwoActiveExplained: two runs of a product are active together only where transactions crossed
\* between look and commit, or a failed run was retried (create_weekly_run takes no lock).
THEOREM ScheduleTwoActiveExplained == ScheduleSpec => []TwoActiveExplained
  <1>1. ScheduleInv => TwoActiveExplained
    <2> SUFFICES ASSUME ScheduleInv, NEW p \in Products, p \notin excused
                 PROVE  ~(Cardinality({r \in WeeklyRuns : r[1] = p /\ status[r] = "active"}) > 1)
      BY DEF TwoActiveExplained
    <2> DEFINE S == {r \in WeeklyRuns : r[1] = p /\ status[r] = "active"}
    <2>1. \A r, q \in S : r = q
      BY DEF ScheduleInv, CrossingIsExcused, MayBeActive
    <2>2. CASE S = {}
      BY <2>2, FS_EmptySet
    <2>3. ASSUME NEW r \in S PROVE ~(Cardinality(S) > 1)
      <3>1. S = {r}
        BY <2>1, <2>3
      <3>2. Cardinality(S) = 1
        BY <3>1, FS_Singleton
      <3>3. QED
        BY <3>2
    <2>4. QED
      BY <2>2, <2>3
  <1>2. QED
    BY <1>1, ScheduleInvariant, PTL

\* ScheduleSafety: passes and requests that overlap create one run of a product and period, and
\* two active runs only where transactions crossed or a failed run was retried, for every set of
\* products, runs and transactions (create_weekly_run, WeeklyOperatorScheduler.schedule).
THEOREM ScheduleSafetyHolds == ScheduleSpec => []ScheduleSafety
  <1>1. ScheduleInv => ScheduleTypeOK
    BY DEF ScheduleInv
  <1>2. QED
    BY <1>1, ScheduleInvariant, ScheduleOneRunPerPeriod, ScheduleTwoActiveExplained, PTL
    DEF ScheduleSafety

\* PassCoversEveryProduct: a pass of WeeklyOperatorScheduler that commits leaves no product
\* without its scheduled run but those it has found not ready, although it visits products while
\* others create and end runs.
THEOREM SchedulePassCoversEveryProduct == ScheduleSpec => PassCoversEveryProduct
  <1> DEFINE Covers == \A t \in Txns :
         work[t] = "pass" /\ Commit(t)
            => \A p \in Products \ left[t] : status'[<<p, Scheduled>>] # "none"
  <1>1. ASSUME ScheduleInv PROVE Covers
    <2> SUFFICES ASSUME NEW t \in Txns, work[t] = "pass", Commit(t), NEW p \in Products \ left[t]
                 PROVE  status'[<<p, Scheduled>>] # "none"
      OBVIOUS
    <2>1. <<p, Scheduled>> \in WeeklyRuns
      BY <1>1, WeeklyRunFacts DEF ScheduleInv, ScheduleTypeOK
    <2>2. <<p, Scheduled>> \in staged[t] \/ status[<<p, Scheduled>>] # "none"
      BY <1>1 DEF ScheduleInv, PassHasNotSkipped, Commit, MayCommit
    <2>3. QED
      BY <2>1, <2>2 DEF Commit
  <1>2. ScheduleInv => [Covers]_scheduleVars
    BY <1>1
  <1>3. QED
    BY <1>2, ScheduleInvariant, PTL DEF PassCoversEveryProduct

-----------------------------------------------------------------------------
\* The rows of the product have their types.  Only a product of the workspace
\* is selected.
ReadinessInv ==
    /\ selected \in {"none", "mine", "other"}
    /\ profile \in {"none", "partial", "complete", "approved"}
    /\ detecting \in BOOLEAN /\ crawled \in BOOLEAN /\ crawling \in BOOLEAN
    /\ tracked \in BOOLEAN /\ enabled \in BOOLEAN /\ manual \in BOOLEAN
    /\ thisWeek \in BOOLEAN /\ report \in BOOLEAN
    /\ site \in {"none", "active", "disconnected"}
    /\ search \in {"none", "selected", "synced"}
    /\ mode \in {"required", "connected", "deferred_reduced"}
    /\ evidence \in {"connected", "deferred"}
    /\ latest \in {"none", "active", "ended"}

\* Every command keeps the types of the rows.
LEMMA ReadinessStep == ReadinessInv /\ [ReadinessNext]_readinessVars => ReadinessInv'
  <1> SUFFICES ASSUME ReadinessInv, [ReadinessNext]_readinessVars PROVE ReadinessInv'
    OBVIOUS
  <1> USE DEF ReadinessInv, sourceVars, settingVars, runStateVars
  <1>1. CASE UNCHANGED readinessVars
    BY <1>1 DEF readinessVars
  <1>2. CASE \E p \in {"mine", "other"} : SelectProduct(p)
    BY <1>2 DEF SelectProduct
  <1>3. CASE SaveWebsite \/ DisconnectWebsite
    BY <1>3 DEF SaveWebsite, DisconnectWebsite
  <1>4. CASE SaveDraft \/ ApproveProfile
    BY <1>4 DEF SaveDraft, ApproveProfile
  <1>5. CASE RequestWebsiteCrawl
    BY <1>5 DEF RequestWebsiteCrawl
  <1>6. CASE FinishWebsiteCrawl \/ SearchChanges
    BY <1>6 DEF FinishWebsiteCrawl, SearchChanges
  <1>7. CASE TrackingChanges \/ SearchSyncSucceeds
    BY <1>7 DEF TrackingChanges, SearchSyncSucceeds
  <1>8. CASE \E m \in {"connected", "deferred_reduced"} : ChooseMode(m)
    BY <1>8 DEF ChooseMode
  <1>9. CASE \E e \in {"connected", "deferred"} : ChooseEvidence(e)
    BY <1>9 DEF ChooseEvidence
  <1>10. CASE PatchConfig \/ RequestManualRun \/ RunEnds \/ WeekPasses
    BY <1>10 DEF PatchConfig, RequestManualRun, RunEnds, WeekPasses
  <1>11. CASE FinalizeRequest
    <2>1. thisWeek' \in BOOLEAN
      BY <1>11, Zenon DEF FinalizeRequest
    <2>2. latest' \in {"none", "active", "ended"}
      BY <1>11 DEF FinalizeRequest, RunAfterFinalize
    <2>3. QED
      BY <1>11, <2>1, <2>2 DEF FinalizeRequest
  <1>12. CASE DetectionStarts \/ DetectionEnds
    <2>1. CASE DetectionStarts
      BY <2>1 DEF DetectionStarts
    <2>2. CASE DetectionEnds
      <3>1. detecting' \in BOOLEAN
        BY <2>2, Zenon DEF DetectionEnds
      <3>2. UNCHANGED <<selected, sourceVars, settingVars, latest, thisWeek, report>>
        BY <2>2, Zenon DEF DetectionEnds
      <3>3. QED
        BY <3>1, <3>2
    <2>3. QED
      BY <1>12, <2>1, <2>2
  <1>13. QED
    BY <1>1, <1>2, <1>3, <1>6, <1>7, <1>8, <1>9, <1>10, <1>11, <1>4, <1>5, <1>12 DEF ReadinessNext

\* What the blockers of the activation product come to: the lists that activation_router
\* and weekly_growth_router build are empty exactly when nothing is missing.
LEMMA BlockersOfMine ==
    ASSUME ReadinessInv, selected = "mine",
           NEW s, s = ActivationState
    PROVE  /\ s.product = "mine"
           /\ WebsiteReady(s) <=> site = "active" /\ crawled
           /\ SearchConnected(s) <=> search = "synced"
           /\ SearchReady(s) <=> search = "synced" \/ mode = "deferred_reduced"
           /\ s.profile <=> Approved
           /\ s.active <=> latest = "active"
           /\ s.report <=> report
           /\ s.site = site
           /\ s.mode = mode
           /\ "profile" \in SourceBlockers(s) <=> ~s.profile
           /\ "website" \in SourceBlockers(s) <=> ~WebsiteReady(s)
           /\ "search" \in SourceBlockers(s) <=> ~SearchReady(s)
           /\ SourceBlockers(s) = {} <=> s.profile /\ WebsiteReady(s) /\ SearchReady(s)
           /\ RunBlockers(s) = {} <=> SourceBlockers(s) = {} /\ enabled /\ manual
           /\ RunBlockers(s) \cap {"profile", "operator_disabled", "manual_disabled"} = {}
                 <=> Approved /\ enabled /\ manual
  <1>1. /\ s.product = "mine" /\ s.profile = Approved /\ s.site = site /\ s.crawled = crawled
        /\ s.search = search /\ s.mode = mode /\ s.enabled = enabled /\ s.manual = manual
        /\ s.tracked = tracked /\ s.active = (latest = "active") /\ s.report = report
    BY DEF ActivationState
  <1>2. /\ WebsiteReady(s) <=> site = "active" /\ crawled
        /\ SearchConnected(s) <=> search = "synced"
        /\ SearchReady(s) <=> search = "synced" \/ mode = "deferred_reduced"
    BY <1>1 DEF WebsiteReady, SearchConnected, SearchReady
  <1>3. /\ "profile" \in SourceBlockers(s) <=> ~s.profile
        /\ "website" \in SourceBlockers(s) <=> ~WebsiteReady(s)
        /\ "search" \in SourceBlockers(s) <=> ~SearchReady(s)
        /\ SourceBlockers(s) \subseteq {"profile", "website", "search"}
    BY <1>1 DEF SourceBlockers
  <1>4. SourceBlockers(s) = {} <=> s.profile /\ WebsiteReady(s) /\ SearchReady(s)
    BY <1>3
  <1>5. RunBlockers(s) = {} <=> SourceBlockers(s) = {} /\ enabled /\ manual
    <2>1. (s.product = "none" \/ s.enabled <=> enabled) /\ (s.product = "none" \/ s.manual <=> manual)
      BY <1>1
    <2>2. QED
      BY <2>1 DEF RunBlockers
  <1>6. RunBlockers(s) \cap {"profile", "operator_disabled", "manual_disabled"} = {}
           <=> Approved /\ enabled /\ manual
    <2>1. (s.product = "none" \/ s.enabled <=> enabled) /\ (s.product = "none" \/ s.manual <=> manual)
      BY <1>1
    <2>2. /\ "profile" \in RunBlockers(s) <=> ~Approved
          /\ "operator_disabled" \in RunBlockers(s) <=> ~enabled
          /\ "manual_disabled" \in RunBlockers(s) <=> ~manual
      BY <2>1, <1>1, <1>3 DEF RunBlockers
    <2>3. QED
      BY <2>2
  <1>7. QED
    BY <1>1, <1>2, <1>3, <1>4, <1>5, <1>6

\* ReadinessSafety is a statement about one state: the rows decide alone what every
\* surface shows and what every handler accepts.
LEMMA ReadinessInvSafe == ReadinessInv => ReadinessSafety
  <1> SUFFICES ASSUME ReadinessInv PROVE ReadinessSafety
    OBVIOUS
  <1>1. CASE selected = "mine"
    <2>0. PICK s : s = ActivationState
      OBVIOUS
    <2>1. /\ s.product = "mine"
          /\ WebsiteReady(s) <=> site = "active" /\ crawled
          /\ SearchConnected(s) <=> search = "synced"
          /\ SearchReady(s) <=> search = "synced" \/ mode = "deferred_reduced"
          /\ s.profile <=> Approved
          /\ s.active <=> latest = "active"
          /\ s.report <=> report
          /\ s.site = site
          /\ s.mode = mode
          /\ "profile" \in SourceBlockers(s) <=> ~s.profile
          /\ "website" \in SourceBlockers(s) <=> ~WebsiteReady(s)
          /\ "search" \in SourceBlockers(s) <=> ~SearchReady(s)
          /\ SourceBlockers(s) = {} <=> s.profile /\ WebsiteReady(s) /\ SearchReady(s)
          /\ RunBlockers(s) = {} <=> SourceBlockers(s) = {} /\ enabled /\ manual
          /\ RunBlockers(s) \cap {"profile", "operator_disabled", "manual_disabled"} = {}
                <=> Approved /\ enabled /\ manual
      BY <1>1, <2>0, BlockersOfMine
    <2>2. ReadinessBlockers(s) = RunBlockers(s) /\ SummaryBlockers(s) = RunBlockers(s)
      BY <2>1 DEF ReadinessBlockers, SummaryBlockers
    <2>3. ManualRunAvailable(s) <=> RunBlockers(s) = {} /\ latest # "active"
      BY <2>1, <2>2 DEF ManualRunAvailable
    <2>4. ManualRunStarts <=> RunBlockers(s) = {} /\ latest # "active" /\ ~thisWeek
      BY <2>0, <2>1 DEF ManualRunStarts, RunReady
    <2>5. FinalizeAccepted <=> SourceBlockers(s) = {}
      BY <1>1, <2>0 DEF FinalizeAccepted
    <2>6. "finalize_and_start" \in FirstRunCommands(s)
             <=> ~report /\ latest # "active" /\ SourceBlockers(s) = {}
      BY <2>1 DEF FirstRunCommands
    <2>7. OfferedRunStarts
      BY <2>0, <2>1, <2>3, <2>4, <2>5, <2>6
         DEF OfferedRunStarts, RunAfterFinalize, ProfilePageAvailable, DetectionAccepted
    <2>8. RunnableIsOffered
      BY <2>0, <2>1, <2>3, <2>4, <2>5, <2>6
         DEF RunnableIsOffered, ProfilePageAvailable, WizardCommands
    <2>9. BlockedHasAWayOut
      <3>1. ~s.profile => "approve_profile" \in WizardCommands(s)
        BY DEF WizardCommands
      <3>2. ~SearchReady(s) => "defer_search" \in WizardCommands(s)
        BY DEF WizardCommands, SearchCommands
      <3>3. ~WebsiteReady(s) /\ s.site = "none" => "connect_website" \in WizardCommands(s)
        BY DEF WizardCommands, SearchCommands
      <3>4. ~WebsiteReady(s) /\ s.site # "none" => "crawl_website" \in WizardCommands(s)
        BY DEF WizardCommands, SearchCommands
      <3>5. site \in {"none", "disconnected"} \/ crawling \/ CrawlAccepted
        BY DEF ReadinessInv, CrawlAccepted
      <3>6. QED
        BY <2>0, <2>1, <3>1, <3>2, <3>3, <3>4, <3>5 DEF BlockedHasAWayOut
    <2>10. SurfacesAgree
      <3>1. ManualRunState(s) = "available" <=> (SummaryBlockers(s) = {} /\ latest # "active")
        BY <2>1, <2>2, <2>3 DEF ManualRunState
      <3>2. TodayWebsite(s) = WebsiteStatus(s)
        BY DEF TodayWebsite, WebsiteStatus
      <3>3. SummarySearch(s) = SearchStatus(s) /\ TodaySearch(s) = SearchStatus(s)
        BY <2>1 DEF SummarySearch, SearchStatus, TodaySearch
      <3>4. WizardEvidence(s) = ReadinessEvidence(s)
        BY DEF WizardEvidence, ReadinessEvidence, ReadinessInv
      <3>5. SearchStageComplete(s) <=> SourceBlockers(s) \cap {"website", "search"} = {}
        BY <2>1 DEF SearchStageComplete
      <3>6. "search" \in AvailableClasses(s) <=>
               WebsiteStatus(s) = "healthy" /\ SearchStatus(s) = "healthy"
        BY DEF AvailableClasses, WebsiteStatus, SearchStatus
      <3>7. ProfilePageAvailable <=>
               ReadinessBlockers(s) \cap {"profile", "operator_disabled", "manual_disabled"} = {}
        BY <2>1, <2>2 DEF ProfilePageAvailable
      <3>8. QED
        BY <2>0, <2>2, <3>1, <3>2, <3>3, <3>4, <3>5, <3>6, <3>7 DEF SurfacesAgree
    <2>11. QED
      BY <2>7, <2>8, <2>9, <2>10 DEF ReadinessSafety
  <1>2. CASE selected # "mine"
    <2>1. ActivationState.product # "mine"
      BY <1>2 DEF ReadinessInv, ActivationState, Absent, Elsewhere
    <2>2. ~ManualRunAvailable(ActivationState) /\ ~ManualRunStarts /\ ~FinalizeAccepted
      BY <1>2, <2>1 DEF ManualRunAvailable, ReadinessBlockers, ManualRunStarts, RunReady,
                        FinalizeAccepted
    <2>3. OfferedRunStarts
      BY <1>2, <2>2 DEF OfferedRunStarts, ProfilePageAvailable, DetectionAccepted
    <2>4. RunnableIsOffered /\ BlockedHasAWayOut /\ SurfacesAgree
      BY <1>2, <2>2 DEF RunnableIsOffered, BlockedHasAWayOut, SurfacesAgree
    <2>5. QED
      BY <2>3, <2>4 DEF ReadinessSafety
  <1>3. QED
    BY <1>1, <1>2

\* ReadinessSafety: in every state that the commands and workflows can bring about, the wizard, the
\* readiness, the Today page and the product list agree, a run that is offered starts unless its
\* period has had one, and a blocked user has a command that leads on.
THEOREM WeeklyReadinessSafety == ReadinessSpec => []ReadinessSafety
  <1>1. ReadinessInit => ReadinessInv
    BY DEF ReadinessInit, ReadinessInv
  <1>2. QED
    BY <1>1, ReadinessStep, ReadinessInvSafe, PTL DEF ReadinessSpec

=============================================================================
