-------------------------- MODULE OpportunityLedger --------------------------
(***************************************************************************)
(* One product and one identity (identity_fingerprint) of opportunities:    *)
(* the requests that create detection runs (request_operator_run), the      *)
(* children the weekly coordinator inserts without asking, the history a    *)
(* run reads into its snapshot, the opportunity it persists, and the        *)
(* commands of users on it (feedback, dismissal) with their cooldown.       *)
(*                                                                         *)
(* How one run is claimed and persisted once is OpportunityDetection's;     *)
(* here runs meet.  Days are abstracted to a clock, and every run finds the *)
(* candidate: whether it is accepted depends on the history alone.          *)
(***************************************************************************)
EXTENDS Naturals, FiniteSets

CONSTANTS
    Asked,      \* idempotency keys of requested detection runs
    Children,   \* keys of weekly child runs
    Bodies,     \* request bodies
    Callers,    \* concurrent requests
    Replies,    \* idempotency keys of feedback commands
    NoOne,      \* no caller, key or body
    Cooldown,   \* days a dismissal keeps the identity away
    LastDay     \* bound: the clock

ASSUME LedgerAssumption ==
    /\ Asked \cap Children = {}
    /\ NoOne \notin Asked \cup Children \cup Bodies \cup Callers
    /\ Cooldown \in Nat \ {0}
    /\ LastDay \in Nat

DetectionRuns == Asked \cup Children

VARIABLES
    today,      \* the clock
    run,        \* operator_runs.status of a detection run
    body,       \* request_fingerprint
    locked,     \* the caller that holds the product's row
    call,       \* what a caller does: "idle" or "insert"
    asks,       \* its key and body
    answers,    \* history: the stored body and the sent body of every answer
    takenOn,    \* as_of of a run that was claimed
    history,    \* what the snapshot says of the identity: "unclaimed", "unread",
                \* "clear" or "blocked"
    opp,        \* status of the opportunity a run has accepted
    until,      \* its cooldown_until
    dismissedOn,\* day of its dismissal
    feedback,   \* opportunity_feedback by key: the action and the opportunity
    crossed     \* history: two runs read the history before either persisted

requestVars == <<body, locked, call, asks, answers>>
oppVars == <<opp, until, dismissedOn, feedback>>
ledgerVars == <<today, run, body, locked, call, asks, answers, takenOn, history, opp, until,
                dismissedOn, feedback, crossed>>

DetectionState == {"none", "active", "completed", "stopped"}
OppStatus == {"none", "open", "dismissed", "superseded"}
NoAsk == [key |-> NoOne, body |-> NoOne]
NoFeedback == [does |-> "none", on |-> NoOne]

LedgerInit ==
    /\ today = 0
    /\ run = [k \in DetectionRuns |-> "none"]
    /\ body = [k \in DetectionRuns |-> NoOne]
    /\ locked = NoOne
    /\ call = [c \in Callers |-> "idle"]
    /\ asks = [c \in Callers |-> NoAsk]
    /\ answers = {}
    /\ takenOn = [k \in DetectionRuns |-> 0]
    /\ history = [k \in DetectionRuns |-> "unclaimed"]
    /\ opp = [k \in DetectionRuns |-> "none"]
    /\ until = [k \in DetectionRuns |-> 0]
    /\ dismissedOn = [k \in DetectionRuns |-> 0]
    /\ feedback = [f \in Replies |-> NoFeedback]
    /\ crossed = FALSE

-----------------------------------------------------------------------------
(* request_operator_run: the product's row is locked to the commit.        *)

ActiveDetection == \E k \in DetectionRuns : run[k] = "active"

EndRequest(c) ==
    /\ call' = [call EXCEPT ![c] = "idle"]
    /\ asks' = [asks EXCEPT ![c] = NoAsk]
    /\ locked' = NoOne

\* Mutant: the product is read without a lock.
AskForRunUnlocked(c, k, b) ==
    /\ call[c] = "idle"
    /\ run[k] # "none" \/ ~ActiveDetection
    /\ call' = [call EXCEPT ![c] = "insert"]
    /\ asks' = [asks EXCEPT ![c] = [key |-> k, body |-> b]]
    /\ UNCHANGED <<today, run, body, locked, answers, takenOn, history, oppVars, crossed>>

\* The row is locked; a run of the key is replayed, and without one an active
\* detection run refuses the request (ActiveOperatorRunConflictError).
AskForRun(c, k, b) ==
    /\ call[c] = "idle"
    /\ locked = NoOne
    /\ run[k] # "none" \/ ~ActiveDetection
    /\ locked' = c
    /\ call' = [call EXCEPT ![c] = "insert"]
    /\ asks' = [asks EXCEPT ![c] = [key |-> k, body |-> b]]
    /\ UNCHANGED <<today, run, body, answers, takenOn, history, oppVars, crossed>>

\* Mutant: a replay does not compare the fingerprints.
SameBodyAny(stored, sent) == TRUE

\* The key belongs to one body.
SameBody(stored, sent) == stored = sent

\* insert_or_replay, the comparison of the fingerprints, the outbox event, commit.
InsertOrReplay(c) ==
    /\ call[c] = "insert"
    /\ LET k == asks[c].key
           stored == IF run[k] = "none" THEN asks[c].body ELSE body[k]
       IN  /\ run' = [run EXCEPT ![k] = IF @ = "none" THEN "active" ELSE @]
           /\ body' = [body EXCEPT ![k] = stored]
           /\ answers' = IF SameBody(stored, asks[c].body)
                            THEN answers \cup {<<stored, asks[c].body>>} ELSE answers
    /\ EndRequest(c)
    /\ UNCHANGED <<today, takenOn, history, oppVars, crossed>>

\* The request dies, and its transaction is rolled back.
RequestDies(c) ==
    /\ call[c] # "idle"
    /\ EndRequest(c)
    /\ UNCHANGED <<today, run, body, answers, takenOn, history, oppVars, crossed>>

\* WeeklyOperatorWorkflow._process inserts its child without lock or look.
InsertChild(k) ==
    /\ run[k] = "none"
    /\ run' = [run EXCEPT ![k] = "active"]
    /\ UNCHANGED <<today, requestVars, takenOn, history, oppVars, crossed>>

-----------------------------------------------------------------------------
(* The runs.                                                               *)

\* Mutant: an open opportunity is no duplicate.
KeepsAwayDismissed(j, day) == opp[j] = "dismissed" /\ day < until[j]

\* cooldown_decision: open is a duplicate, dismissed is away until its cooldown
\* ends, superseded never blocks.
KeepsAway(j, day) ==
    opp[j] = "open" \/ (opp[j] = "dismissed" /\ day < until[j])

\* The first claim of a run sets its as_of; retries keep it.
FirstClaim(k) ==
    /\ run[k] = "active"
    /\ history[k] = "unclaimed"
    /\ history' = [history EXCEPT ![k] = "unread"]
    /\ takenOn' = [takenOn EXCEPT ![k] = today]
    /\ UNCHANGED <<today, run, requestVars, oppVars, crossed>>

\* assemble_detection_input reads the opportunities of the product, maybe days later.
TakeSnapshot(k) ==
    /\ run[k] = "active"
    /\ history[k] = "unread"
    /\ history' = [history EXCEPT
         ![k] = IF \E j \in DetectionRuns : KeepsAway(j, takenOn[k]) THEN "blocked" ELSE "clear"]
    /\ crossed' = (crossed \/ \E j \in DetectionRuns \ {k} :
                                 run[j] = "active" /\ history[j] \in {"clear", "blocked"})
    /\ UNCHANGED <<today, run, requestVars, takenOn, oppVars>>

\* novelty_for_history found nothing that blocks.
Accepts(k) == history[k] = "clear"

\* persist_detection: the advisory lock on the identity is taken and nothing is
\* read again; an accepted candidate becomes an open opportunity.
PersistRun(k) ==
    /\ run[k] = "active"
    /\ history[k] \in {"clear", "blocked"}
    /\ run' = [run EXCEPT ![k] = "completed"]
    /\ IF Accepts(k)
         THEN /\ opp' = [opp EXCEPT ![k] = "open"]
              /\ until' = [until EXCEPT ![k] = takenOn[k] + Cooldown]
         ELSE UNCHANGED <<opp, until>>
    /\ UNCHANGED <<today, requestVars, takenOn, history, dismissedOn, feedback, crossed>>

\* A run without the inputs it needs is stopped.
StopRun(k) ==
    /\ run[k] = "active"
    /\ run' = [run EXCEPT ![k] = "stopped"]
    /\ UNCHANGED <<today, requestVars, takenOn, history, oppVars, crossed>>

-----------------------------------------------------------------------------
(* Commands on an opportunity; each locks it or relies on the unique key.  *)

\* append_feedback: only a note.
AppendFeedback(f, k) ==
    /\ opp[k] # "none"
    /\ feedback[f] = NoFeedback
    /\ feedback' = [feedback EXCEPT ![f] = [does |-> "feedback", on |-> k]]
    /\ UNCHANGED <<today, run, requestVars, takenOn, history, opp, until, dismissedOn, crossed>>

\* Mutant: a dismissal forgets the cooldown.
DismissOpportunityBriefly(f, k) ==
    /\ opp[k] = "open"
    /\ feedback[f] = NoFeedback
    /\ feedback' = [feedback EXCEPT ![f] = [does |-> "dismiss", on |-> k]]
    /\ opp' = [opp EXCEPT ![k] = "dismissed"]
    /\ dismissedOn' = [dismissedOn EXCEPT ![k] = today]
    /\ UNCHANGED <<today, run, requestVars, takenOn, history, until, crossed>>

\* dismiss_opportunity: only open opportunities, replayed by key.
DismissOpportunity(f, k) ==
    /\ opp[k] = "open"
    /\ feedback[f] = NoFeedback
    /\ feedback' = [feedback EXCEPT ![f] = [does |-> "dismiss", on |-> k]]
    /\ opp' = [opp EXCEPT ![k] = "dismissed"]
    /\ until' = [until EXCEPT ![k] = today + Cooldown]
    /\ dismissedOn' = [dismissedOn EXCEPT ![k] = today]
    /\ UNCHANGED <<today, run, requestVars, takenOn, history, crossed>>

SupersedeOpportunity(k) ==
    /\ opp[k] = "open"
    /\ opp' = [opp EXCEPT ![k] = "superseded"]
    /\ UNCHANGED <<today, run, requestVars, takenOn, history, until, dismissedOn, feedback,
                   crossed>>

NextDay ==
    /\ today < LastDay
    /\ today' = today + 1
    /\ UNCHANGED <<run, requestVars, takenOn, history, oppVars, crossed>>

-----------------------------------------------------------------------------
LedgerNext ==
    \/ \E c \in Callers : InsertOrReplay(c) \/ RequestDies(c)
    \/ \E c \in Callers, k \in Asked, b \in Bodies : AskForRun(c, k, b)
    \/ \E k \in Children : InsertChild(k)
    \/ \E k \in DetectionRuns :
        \/ FirstClaim(k) \/ TakeSnapshot(k) \/ PersistRun(k) \/ StopRun(k) \/ SupersedeOpportunity(k)
    \/ \E f \in Replies, k \in DetectionRuns : AppendFeedback(f, k) \/ DismissOpportunity(f, k)
    \/ NextDay

LedgerSpec == LedgerInit /\ [][LedgerNext]_ledgerVars

-----------------------------------------------------------------------------
\* The runs, the requests, the opportunities and the feedback have their types, and no
\* dismissal keeps an identity away for longer than its cooldown.
LedgerTypeOK ==
    /\ today \in 0..LastDay
    /\ run \in [DetectionRuns -> DetectionState]
    /\ body \in [DetectionRuns -> Bodies \cup {NoOne}]
    /\ locked \in Callers \cup {NoOne}
    /\ call \in [Callers -> {"idle", "insert"}]
    /\ asks \in [Callers -> [key : Asked, body : Bodies] \cup {NoAsk}]
    /\ answers \in SUBSET (Bodies \X Bodies)
    /\ takenOn \in [DetectionRuns -> 0..LastDay]
    /\ history \in [DetectionRuns -> {"unclaimed", "unread", "clear", "blocked"}]
    /\ opp \in [DetectionRuns -> OppStatus]
    /\ dismissedOn \in [DetectionRuns -> 0..LastDay]
    /\ until \in [DetectionRuns -> 0..(LastDay + Cooldown)]
    /\ \A k \in DetectionRuns : opp[k] = "dismissed" => until[k] <= dismissedOn[k] + Cooldown
    /\ feedback \in [Replies -> [does : {"feedback", "dismiss"}, on : DetectionRuns]
                                \cup {NoFeedback}]
    /\ crossed \in BOOLEAN

\* However many requests run at once, at most one requested detection run of a
\* product is active: the product's row lock covers the look and the insert.
OneRequestedActive ==
    \A j, k \in Asked : run[j] = "active" /\ run[k] = "active" => j = k

\* Whoever is answered with a run asked for exactly that: a key that was used with
\* another body is refused, whichever of two requests came first.
AnsweredWithOwnBody ==
    \A a \in answers : a[1] = a[2]

\* An identity is open twice only if two runs read the history before either
\* persisted: the snapshot, not the advisory lock, is what keeps duplicates away.
DuplicateNeedsCrossedRuns ==
    Cardinality({k \in DetectionRuns : opp[k] = "open"}) > 1 => crossed

\* Requests, runs and feedback of one product: one requested run is active, a key is
\* answered only with the run of its own body, and an identity is accepted twice only by runs whose
\* transactions crossed (request_operator_run, persist_detection).
LedgerSafety ==
    /\ LedgerTypeOK
    /\ OneRequestedActive
    /\ AnsweredWithOwnBody
    /\ DuplicateNeedsCrossedRuns

\* What a user dismissed stays away for its cooldown: a run of a later day does not
\* open the identity again before the cooldown of every dismissal it can see ends.
DismissedStaysAway ==
    [][\A j, k \in DetectionRuns :
         /\ opp[k] = "none" /\ opp'[k] = "open"
         /\ opp[j] = "dismissed" /\ dismissedOn[j] < takenOn[k]
         => dismissedOn[j] + Cooldown <= takenOn[k]]_ledgerVars

=============================================================================
