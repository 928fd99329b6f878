---------------------- MODULE MCOpportunityDetection ----------------------
(***************************************************************************)
(* Opportunity detection: the lifecycle of one run, the detectors and the   *)
(* gates it applies, the search data it reads, and several runs of one      *)
(* product with the feedback on their opportunities.  A behaviour follows   *)
(* one of them (part); the others rest, so that their questions are asked   *)
(* of one instance each.                                                    *)
(***************************************************************************)
EXTENDS OpportunityDetection, MCSearchReading, OpportunityLedger, TLC

VARIABLE part

\* Workers, callers and request bodies are interchangeable.
Symmetry == Permutations(Workers) \cup Permutations(Callers) \cup Permutations(Bodies)

mcVars == <<part, vars, detectorVars, readingVars, ledgerVars>>

MCInit ==
    /\ part \in {"run", "detectors", "search", "ledger"}
    /\ Init /\ ReadingInit /\ LedgerInit
    /\ part # "run" => hasProfile
    /\ IF part = "detectors" THEN DetectorInit
       ELSE /\ given = Base /\ stage = "gather"
            /\ rest = {} /\ owners = {} /\ passed = {} /\ results = {}

MCNext ==
    /\ UNCHANGED part
    /\ \/ part = "run" /\ Next /\ UNCHANGED <<detectorVars, readingVars, ledgerVars>>
       \/ part = "detectors" /\ DetectorNext /\ UNCHANGED <<vars, readingVars, ledgerVars>>
       \/ part = "search" /\ ReadingNext /\ UNCHANGED <<vars, detectorVars, ledgerVars>>
       \/ part = "ledger" /\ LedgerNext /\ UNCHANGED <<vars, detectorVars, readingVars>>

MCSpec == MCInit /\ [][MCNext]_mcVars

=============================================================================
