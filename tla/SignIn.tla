------------------------------- MODULE SignIn -------------------------------
(***************************************************************************)
(* How an account comes to be (app/modules/identity/services): registration *)
(* with an e-mail address and its verification code (password_auth.py), and *)
(* sign-in through an OAuth provider (browser_oauth.py), for one address    *)
(* and one identity of a provider.  Registration and provisioning take an   *)
(* advisory lock before they look; a verification locks the credential.     *)
(***************************************************************************)
EXTENDS Naturals, FiniteSets

CONSTANTS
    Visitors,     \* concurrent requests
    Flows,        \* OAuth transactions (one per authorization that was started)
    NoVisitor,    \* nobody
    MaxGuess,     \* attempts_remaining of a new challenge
    MaxMails      \* bound: registrations that are mailed

ASSUME SignInAssumption ==
    /\ NoVisitor \notin Visitors
    /\ {MaxGuess, MaxMails} \subseteq Nat

VARIABLES
    creds,        \* rows of password_credentials for the address
    verified,     \* verified_at is set
    guessesLeft,  \* attempts_remaining of the challenge
    codeOld,      \* the challenge has expired
    mailed,       \* codes the mail server accepted
    compared,     \* history: wrong codes that were compared
    flow,         \* state of an OAuth transaction
    exchanged,    \* history: code exchanges made with a transaction
    owners,       \* users created for the identity
    identity,     \* "none", "kept" or "deleted"
    sessionsOf,   \* history: state of the identity when a session of it was committed
    addressLock,  \* holder of the advisory lock on the address, or of the credential
    identityLock, \* holder of the advisory lock on the identity
    identityRow,  \* holder of the identity's row
    vpc,          \* what a visitor's request does next
    vread         \* what it has read

accountVars == <<creds, verified, guessesLeft, codeOld, mailed, compared>>
flowVars == <<flow, exchanged>>
identityVars == <<owners, identity, sessionsOf>>
lockVars == <<addressLock, identityLock, identityRow>>
signInVars == <<creds, verified, guessesLeft, codeOld, mailed, compared, flow, exchanged, owners,
                identity, sessionsOf, addressLock, identityLock, identityRow, vpc, vread>>

FlowState == {"none", "open", "consumed", "expired"}

SignInInit ==
    /\ creds = 0
    /\ verified = FALSE
    /\ guessesLeft = 0
    /\ codeOld = FALSE
    /\ mailed = 0
    /\ compared = 0
    /\ flow = [f \in Flows |-> "none"]
    /\ exchanged = [f \in Flows |-> 0]
    /\ owners = 0
    /\ identity = "none"
    /\ sessionsOf = {}
    /\ addressLock = NoVisitor
    /\ identityLock = NoVisitor
    /\ identityRow = NoVisitor
    /\ vpc = [v \in Visitors |-> "idle"]
    /\ vread = [v \in Visitors |-> 0]

Goes(v, next, value) ==
    /\ vpc' = [vpc EXCEPT ![v] = next]
    /\ vread' = [vread EXCEPT ![v] = value]

\* Whatever a request holds is released by its commit or rollback.
Releases(v) ==
    /\ addressLock' = IF addressLock = v THEN NoVisitor ELSE addressLock
    /\ identityLock' = IF identityLock = v THEN NoVisitor ELSE identityLock
    /\ identityRow' = IF identityRow = v THEN NoVisitor ELSE identityRow
    /\ Goes(v, "idle", 0)

-----------------------------------------------------------------------------
(* register_password_user                                                  *)

\* Mutant: no advisory lock.
RegisterLookUnlocked(v) ==
    /\ vpc[v] = "idle"
    /\ creds = 0
    /\ Goes(v, "mail", 0)
    /\ UNCHANGED <<accountVars, flowVars, identityVars, lockVars>>

\* Advisory lock, then the look: an address that is registered is a conflict.
RegisterLook(v) ==
    /\ vpc[v] = "idle"
    /\ addressLock = NoVisitor
    /\ creds = 0
    /\ addressLock' = v
    /\ Goes(v, "mail", 0)
    /\ UNCHANGED <<accountVars, flowVars, identityVars, identityLock, identityRow>>

\* Mutant: a mail that could not be sent does not end the registration.
RegisterMailIgnored(v) ==
    /\ vpc[v] = "mail"
    /\ mailed < MaxMails
    /\ \E sent \in BOOLEAN : mailed' = IF sent THEN mailed + 1 ELSE mailed
    /\ Goes(v, "register", 0)
    /\ UNCHANGED <<creds, verified, guessesLeft, codeOld, compared, flowVars, identityVars, lockVars>>

\* The rows are flushed and the code is mailed before the commit; what send raises
\* ends the request, whether the server took the message or not.
RegisterMail(v) ==
    /\ vpc[v] = "mail"
    /\ mailed < MaxMails
    /\ \/ mailed' = mailed + 1 /\ Goes(v, "register", 0) /\ UNCHANGED lockVars
       \/ mailed' \in {mailed, mailed + 1} /\ Releases(v)
    /\ UNCHANGED <<creds, verified, guessesLeft, codeOld, compared, flowVars, identityVars>>

\* A challenge that expires or whose guesses are used up is the only one an address
\* ever gets: nothing creates another.
RegisterCommit(v) ==
    /\ vpc[v] = "register"
    /\ creds' = creds + 1
    /\ guessesLeft' = MaxGuess
    /\ codeOld' = FALSE
    /\ Releases(v)
    /\ UNCHANGED <<verified, mailed, compared, flowVars, identityVars>>

-----------------------------------------------------------------------------
(* verify_registration_code: credential and challenge are locked.          *)

\* Mutant: the challenge is read without a lock.
VerifyReadUnlocked(v) ==
    /\ vpc[v] = "idle"
    /\ creds > 0 /\ ~verified
    /\ ~codeOld /\ guessesLeft > 0
    /\ Goes(v, "verify", guessesLeft)
    /\ UNCHANGED <<accountVars, flowVars, identityVars, lockVars>>

VerifyRead(v) ==
    /\ vpc[v] = "idle"
    /\ addressLock = NoVisitor
    /\ creds > 0 /\ ~verified
    /\ ~codeOld /\ guessesLeft > 0
    /\ addressLock' = v
    /\ Goes(v, "verify", guessesLeft)
    /\ UNCHANGED <<accountVars, flowVars, identityVars, identityLock, identityRow>>

\* A wrong code costs an attempt, the right one verifies address and user.
VerifyCommit(v) ==
    /\ vpc[v] = "verify"
    /\ \/ /\ guessesLeft' = vread[v] - 1
          /\ compared' = compared + 1
          /\ verified' = verified
       \/ /\ verified' = TRUE
          /\ UNCHANGED <<guessesLeft, compared>>
    /\ Releases(v)
    /\ UNCHANGED <<creds, codeOld, mailed, flowVars, identityVars>>

CodeExpires ==
    /\ creds > 0 /\ ~verified /\ ~codeOld
    /\ codeOld' = TRUE
    /\ UNCHANGED <<creds, verified, guessesLeft, mailed, compared, flowVars, identityVars, lockVars,
                   vpc, vread>>

-----------------------------------------------------------------------------
(* OAuth: authorize, callback, provisioning.                               *)

\* create_oauth_transaction, and the transactions of the integrations.
CreateTransaction(f) ==
    /\ flow[f] = "none"
    /\ flow' = [flow EXCEPT ![f] = "open"]
    /\ UNCHANGED <<accountVars, exchanged, identityVars, lockVars, vpc, vread>>

TransactionExpires(f) ==
    /\ flow[f] = "open"
    /\ flow' = [flow EXCEPT ![f] = "expired"]
    /\ UNCHANGED <<accountVars, exchanged, identityVars, lockVars, vpc, vread>>

\* Mutant: a consumed transaction is accepted until it expires.
UnusedOrConsumed(f) == flow[f] \in {"open", "consumed"}

\* The conditions of the update that consumes a transaction.
Unused(f) == flow[f] = "open"

\* One update, committed before the provider is asked; the exchange may fail, and the
\* transaction stays consumed.
ConsumeTransaction(v, f) ==
    /\ vpc[v] = "idle"
    /\ Unused(f)
    /\ flow' = [flow EXCEPT ![f] = "consumed"]
    /\ exchanged' = [exchanged EXCEPT ![f] = @ + 1]
    /\ \E ok \in BOOLEAN : Goes(v, IF ok THEN "look" ELSE "idle", 0)
    /\ UNCHANGED <<accountVars, identityVars, lockVars>>

\* Mutant: identities are looked up without the advisory lock.
ProvisionLookUnlocked(v) ==
    /\ vpc[v] = "look"
    /\ identity # "deleted"
    /\ Goes(v, IF identity = "none" THEN "create" ELSE "signin", 0)
    /\ UNCHANGED <<accountVars, flowVars, identityVars, lockVars>>

\* Mutant: the identity is read without its row lock.
ProvisionLookPlain(v) ==
    /\ vpc[v] = "look"
    /\ identityLock = NoVisitor
    /\ identity # "deleted"
    /\ identityLock' = v
    /\ Goes(v, IF identity = "none" THEN "create" ELSE "signin", 0)
    /\ UNCHANGED <<accountVars, flowVars, identityVars, addressLock, identityRow>>

\* provision_oauth_session: the advisory lock, the identity FOR UPDATE; one that was
\* deleted is refused.
ProvisionLook(v) ==
    /\ vpc[v] = "look"
    /\ identityLock = NoVisitor
    /\ identityRow = NoVisitor
    /\ IF identity = "deleted" THEN Releases(v)
       ELSE /\ identityLock' = v
            /\ identityRow' = IF identity = "none" THEN NoVisitor ELSE v
            /\ addressLock' = addressLock
            /\ Goes(v, IF identity = "none" THEN "create" ELSE "signin", 0)
    /\ UNCHANGED <<accountVars, flowVars, identityVars>>

\* User, workspace, membership, identity and session are inserted together.
ProvisionCreate(v) ==
    /\ vpc[v] = "create"
    /\ owners' = owners + 1
    /\ identity' = "kept"
    /\ sessionsOf' = sessionsOf \cup {"kept"}
    /\ Releases(v)
    /\ UNCHANGED <<accountVars, flowVars>>

ProvisionSignIn(v) ==
    /\ vpc[v] = "signin"
    /\ sessionsOf' = sessionsOf \cup {identity}
    /\ Releases(v)
    /\ UNCHANGED <<accountVars, flowVars, owners, identity>>

\* delete_user_account waits for the identity's row.
DeleteIdentity ==
    /\ identity = "kept"
    /\ identityRow = NoVisitor
    /\ identity' = "deleted"
    /\ UNCHANGED <<accountVars, flowVars, owners, sessionsOf, lockVars, vpc, vread>>

VisitorDies(v) ==
    /\ vpc[v] # "idle"
    /\ Releases(v)
    /\ UNCHANGED <<accountVars, flowVars, identityVars>>

SignInNext ==
    \/ \E v \in Visitors :
        \/ RegisterLook(v) \/ RegisterMail(v) \/ RegisterCommit(v)
        \/ VerifyRead(v) \/ VerifyCommit(v)
        \/ ProvisionLook(v) \/ ProvisionCreate(v) \/ ProvisionSignIn(v) \/ VisitorDies(v)
    \/ \E v \in Visitors, f \in Flows : ConsumeTransaction(v, f)
    \/ \E f \in Flows : CreateTransaction(f) \/ TransactionExpires(f)
    \/ CodeExpires
    \/ DeleteIdentity

SignInSpec == SignInInit /\ [][SignInNext]_signInVars

-----------------------------------------------------------------------------
\* The rows, the locks and the requests have their types; no attempts are left over
\* below zero.
SignInTypeOK ==
    /\ {creds, owners, mailed, compared} \subseteq Nat
    /\ {verified, codeOld} \subseteq BOOLEAN
    /\ guessesLeft \in 0..MaxGuess
    /\ flow \in [Flows -> FlowState]
    /\ exchanged \in [Flows -> Nat]
    /\ identity \in {"none", "kept", "deleted"}
    /\ sessionsOf \subseteq {"kept", "deleted"}
    /\ {addressLock, identityLock, identityRow} \subseteq Visitors \cup {NoVisitor}
    /\ vpc \in [Visitors -> {"idle", "mail", "register", "verify", "look", "create", "signin"}]
    /\ vread \in [Visitors -> 0..MaxGuess]

\* Registrations of one address that run at once leave one credential: the unique
\* constraint on it never has to refuse a request that has mailed its code.
OneCredential == creds <= 1

\* Whoever is registered was sent a code: the mail goes out before the commit, and an
\* error of the mail service leaves no account nobody could ever verify.
RegisteredWasMailed == creds > 0 => mailed > 0

\* Requests that verify one address at the same time do not get more guesses together
\* than the challenge allows.
BoundedGuesses == compared <= MaxGuess

\* A transaction is exchanged for at most one sign-in, however often the provider's
\* redirect is repeated.
TransactionUsedOnce == \A f \in Flows : exchanged[f] <= 1

\* Two callbacks with the same new identity create one user and workspace.
OneOwner == owners <= 1

\* No session is committed for an identity whose deletion is committed: sign-in and
\* deletion meet at the identity's row.
NoSessionOfDeleted == "deleted" \notin sessionsOf

\* Registrations, guesses and callbacks that overlap: an address has one credential and was
\* mailed its code, guesses are bounded, a transaction is consumed once, an identity has one
\* owner, and a deleted user gets no session (register_password_user,
\* verify_registration_code, provision_oauth_session).
SignInSafety ==
    /\ SignInTypeOK
    /\ OneCredential
    /\ RegisteredWasMailed
    /\ BoundedGuesses
    /\ TransactionUsedOnce
    /\ OneOwner
    /\ NoSessionOfDeleted

=============================================================================
