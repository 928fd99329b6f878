----------------------------- MODULE MCRequests -----------------------------
(***************************************************************************)
(* Requests from outside that arrive more than once or at the same time:    *)
(* GitHub's deliveries and their consumers, browsers that present a         *)
(* session, and registration, password and OAuth sign-in.  They share no    *)
(* table, so that a behaviour follows one of the three (part).              *)
(***************************************************************************)
EXTENDS GitHubConsumer, BrowserSession, SignIn, TLC

VARIABLE part

\* Browsers and two visitors are named like the webhook requests: the parts never meet.
Symmetry ==
    Permutations(Consumers) \cup Permutations(Requests) \cup Permutations(Executions)

MCInit ==
    /\ part \in {"consumers", "sessions", "signIn"}
    /\ Init /\ SessionInit /\ SignInInit
    /\ part # "consumers" => tracked = {}

MCNext ==
    /\ UNCHANGED part
    /\ \/ part = "consumers" /\ Next /\ UNCHANGED <<sessionVars, signInVars>>
       \/ part = "sessions" /\ SessionNext /\ UNCHANGED <<vars, signInVars>>
       \/ part = "signIn" /\ SignInNext /\ UNCHANGED <<vars, sessionVars>>

MCSpec == MCInit /\ [][MCNext]_<<part, vars, sessionVars, signInVars>>

=============================================================================
