-------------------------- MODULE MCWeeklyOperator --------------------------
(***************************************************************************)
(* The weekly run: the executions of one run, the runs of a period that the *)
(* schedule and requests create, the readiness the API reports before a run *)
(* is requested, and the LLM calls that share an execution's key.  They     *)
(* share no table, so that a behaviour follows one of the four (part).      *)
(***************************************************************************)
EXTENDS WeeklyOperator, WeeklySchedule, RunReadiness, LLMExecution, TLC

VARIABLE part

\* Executions are interchangeable, and so are transactions and two callers, which share
\* their model values because the parts never meet; opportunities are not, their numbers
\* are their priorities.
Symmetry == Permutations(Workers \cup Txns)

\* One product has a manual request and an activation, the other only the schedule.
OneProduct == CHOOSE p \in Products : TRUE
MCByHand == {<<OneProduct, "m">>}
MCByActivation == {<<OneProduct, "a">>}

\* The schedule has several calendars; the other parts rest on one of them.
MCInit ==
    /\ part \in {"run", "schedule", "readiness", "calls"}
    /\ Init /\ ScheduleInit /\ ReadinessInit /\ LLMInit
    /\ part # "schedule" => calendar = CHOOSE c \in Calendars : TRUE

MCNext ==
    /\ UNCHANGED part
    /\ \/ part = "run" /\ Next /\ UNCHANGED <<scheduleVars, readinessVars, llmVars>>
       \/ part = "schedule" /\ ScheduleNext /\ UNCHANGED <<vars, readinessVars, llmVars>>
       \/ part = "readiness" /\ ReadinessNext /\ UNCHANGED <<vars, scheduleVars, llmVars>>
       \/ part = "calls" /\ LLMNext /\ UNCHANGED <<vars, scheduleVars, readinessVars>>

MCSpec == MCInit /\ [][MCNext]_<<part, vars, scheduleVars, readinessVars, llmVars>>

=============================================================================
