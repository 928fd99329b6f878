---------------------------- MODULE MCPlanAction ----------------------------
(***************************************************************************)
(* The actions of a plan: one action with its assets and approvals and what *)
(* the API offers for it, and the commands that complete actions and edit   *)
(* drafts with their idempotency keys and measurements.  A behaviour        *)
(* follows one of the two (part).                                           *)
(***************************************************************************)
EXTENDS PlanActionOffers, ActionCommands, TLC

VARIABLE part

\* Users are interchangeable, as users of one action and as clients of the commands;
\* so are workflow executions in the one part and command keys in the other, which
\* share their model values because the parts never meet.
Symmetry == Permutations(Users \cup Clients) \cup Permutations(Workers \cup CommandKeys)

mcVars == <<part, vars, commandVars>>

MCInit == part \in {"action", "commands"} /\ Init /\ CommandInit

MCNext ==
    /\ UNCHANGED part
    /\ \/ part = "action" /\ Next /\ UNCHANGED commandVars
       \/ part = "commands" /\ CommandNext /\ UNCHANGED vars

MCSpec == MCInit /\ [][MCNext]_mcVars

=============================================================================
