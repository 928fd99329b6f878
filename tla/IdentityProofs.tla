---------------------------- MODULE IdentityProofs ----------------------------
(***************************************************************************)
(* Safety of browser sessions and of registration and sign-in, for any      *)
(* number of requests, sessions, workspaces and OAuth transactions.         *)
(*                                                                          *)
(* Sessions: a refresh acts on what its first read said.  As long as its    *)
(* family is not mixed that reading is still true: the session it replaces  *)
(* is the only one of the family that can be live, nobody has logged out,   *)
(* and the workspace it has read is the one chosen last (RefreshKnows).     *)
(* Sign-in: between a look and its commit stands a lock, and whoever holds  *)
(* it finds what was looked at unchanged (AddressHolder, IdentityHolder).   *)
(***************************************************************************)
EXTENDS BrowserSession, SignIn, FiniteSetTheorems, TLAPS

\* Rows are numbered in the order of their creation.
RowsNumbered ==
    \E n \in 0..MaxSession : made = 1..n

\* A family is the number of one of its rows, and nothing is chosen in a family that
\* does not exist yet.
RowsKnow ==
    /\ \A s \in made : family[s] \in made
    /\ \A s \in Sessions \ made : chosen[s] = Home

\* A request that is about a session names a row.
RequestNames ==
    \A r \in Browsers :
        /\ bpc[r] \in {"idle", "login"} => bsess[r] = 0
        /\ bpc[r] \notin {"idle", "login"} => bsess[r] \in made

\* What a refresh or a logout has read is still true while its family is not mixed.
RefreshKnows ==
    \A r \in Browsers :
        bpc[r] \in {"rotate", "rotating", "logout"} /\ family[bsess[r]] \notin mixed =>
            /\ \A t \in Sessions : Live(t) /\ family[t] = family[bsess[r]] => t = bsess[r]
            /\ bpc[r] # "logout" =>
                  family[bsess[r]] \notin loggedOut /\ bspace[r] = chosen[family[bsess[r]]]

\* A deletion that nothing rushed has found every row it has to revoke.
DeletionKnows ==
    \A r \in Browsers :
        bpc[r] \in {"delete", "deleting"} /\ ~rushed => made \ revoked \subseteq doomed[r]

SessionInv ==
    /\ SessionSafety
    /\ RowsNumbered
    /\ RowsKnow
    /\ RequestNames
    /\ RefreshKnows
    /\ DeletionKnows

\* A user who has not signed in anywhere satisfies the invariant.
LEMMA SessionInitInv == SessionInit => SessionInv
  <1> SUFFICES ASSUME SessionInit PROVE SessionInv
    OBVIOUS
  <1> USE SessionAssumption DEF SessionInit, Sessions
  <1>1. rushed \in BOOLEAN
    BY Zenon
  <1>2. made = 1..0 /\ 0 \in 0..MaxSession
    OBVIOUS
  <1>3. SessionTypeOK
    BY <1>1 DEF SessionTypeOK, BrowserPC
  <1> QED BY <1>2, <1>3
      DEF SessionInv, SessionSafety, OneLivePerFamily, LoggedOutStaysOut, SwitchIsKept, DeletedHasNoSession,
          RowsNumbered, RowsKnow, RequestNames, RefreshKnows, DeletionKnows, Live

\* create_refresh_session_record inserts a row that did not exist.
LEMMA NewSessionAdds ==
  ASSUME SessionInv, NEW f, NEW w, NewSession(f, w)
  PROVE  \E s \in Sessions \ made :
            /\ made' = made \cup {s}
            /\ RowsNumbered'
            /\ family' = [family EXCEPT ![s] = IF f = 0 THEN s ELSE f]
            /\ space' = [space EXCEPT ![s] = w]
  <1>1. PICK n \in 0..MaxSession : made = 1..n
    BY DEF SessionInv, RowsNumbered
  <1>2. Cardinality(made) = n
    BY <1>1, FS_Interval, SessionAssumption
  <1>3. n + 1 \in Sessions /\ n + 1 \notin made
    BY <1>1, <1>2, SessionAssumption DEF NewSession, Sessions
  <1>4. made' = 1..(n + 1) /\ n + 1 \in 0..MaxSession
    BY <1>1, <1>2, <1>3, SessionAssumption DEF NewSession, Sessions
  <1> QED BY <1>2, <1>3, <1>4 DEF NewSession, RowsNumbered

\* What only depends on the rows and the families survives a step that writes neither.
LEMMA RowsUnchanged ==
  ASSUME SessionInv, UNCHANGED <<account, sessionRows, loggedOut, chosen, mixed>>, rushed => rushed'
  PROVE  /\ OneLivePerFamily' /\ LoggedOutStaysOut' /\ SwitchIsKept' /\ DeletedHasNoSession'
         /\ RowsNumbered' /\ RowsKnow'
  BY DEF sessionRows, SessionInv, SessionSafety, OneLivePerFamily, LoggedOutStaysOut, SwitchIsKept,
     DeletedHasNoSession, RowsNumbered, RowsKnow, Live

\* Requests that only read, or end without a commit.
LEMMA SessionReadInv ==
  ASSUME SessionInv, NEW r \in Browsers,
         \/ LoginCheck(r) \/ RotateLock(r) \/ RotateRefused(r) \/ DeleteRevoke(r) \/ BrowserDies(r)
         \/ ReplayAnswered(r)
         \/ \E s \in Sessions :
                RefreshRead(r, s) \/ RefreshReplay(r, s) \/ LogoutRead(r, s) \/ DeleteStart(r, s)
  PROVE  SessionInv'
  <1>0. 0 \notin Sessions /\ 0 \in 0..MaxSession /\ Sessions \subseteq 0..MaxSession
    BY SessionAssumption DEF Sessions
  <1> USE <1>0, SessionAssumption DEF sessionRows, historyVars
  <1>1. CASE LoginCheck(r)
    <2>1. SessionTypeOK' /\ RequestNames'
      BY <1>1 DEF LoginCheck, BeginRequest, SessionInv, SessionSafety, SessionTypeOK, RequestNames, BrowserPC, Live
    <2>2. RefreshKnows'
      BY <1>1 DEF LoginCheck, BeginRequest, SessionInv, SessionSafety, SessionTypeOK, RefreshKnows, Live
    <2>3. DeletionKnows'
      BY <1>1 DEF LoginCheck, BeginRequest, SessionInv, SessionSafety, SessionTypeOK, DeletionKnows
    <2> QED BY <1>1, <2>1, <2>2, <2>3, RowsUnchanged DEF LoginCheck, BeginRequest, SessionInv, SessionSafety
  <1>2. CASE RotateLock(r)
    <2>1. SessionTypeOK' /\ RequestNames'
      BY <1>2 DEF RotateLock, SessionInv, SessionSafety, SessionTypeOK, RequestNames, BrowserPC, Live
    <2>2. RefreshKnows'
      BY <1>2 DEF RotateLock, SessionInv, SessionSafety, SessionTypeOK, RefreshKnows, Live
    <2>3. DeletionKnows'
      BY <1>2 DEF RotateLock, SessionInv, SessionSafety, SessionTypeOK, DeletionKnows
    <2> QED BY <1>2, <2>1, <2>2, <2>3, RowsUnchanged DEF RotateLock, SessionInv, SessionSafety
  <1>3. CASE RotateRefused(r)
    <2>1. SessionTypeOK' /\ RequestNames'
      BY <1>3 DEF RotateRefused, BrowserIdle, SessionInv, SessionSafety, SessionTypeOK, RequestNames, BrowserPC, Live
    <2>2. RefreshKnows'
      BY <1>3 DEF RotateRefused, BrowserIdle, SessionInv, SessionSafety, SessionTypeOK, RefreshKnows, Live
    <2>3. DeletionKnows'
      BY <1>3 DEF RotateRefused, BrowserIdle, SessionInv, SessionSafety, SessionTypeOK, DeletionKnows
    <2> QED BY <1>3, <2>1, <2>2, <2>3, RowsUnchanged DEF RotateRefused, BrowserIdle, SessionInv, SessionSafety
  <1>4. CASE DeleteRevoke(r)
    <2>1. SessionTypeOK' /\ RequestNames'
      BY <1>4 DEF DeleteRevoke, Doomed, SessionInv, SessionSafety, SessionTypeOK, RequestNames, BrowserPC, Live
    <2>2. RefreshKnows'
      BY <1>4 DEF DeleteRevoke, Doomed, SessionInv, SessionSafety, SessionTypeOK, RefreshKnows, Live
    <2>3. DeletionKnows'
      BY <1>4 DEF DeleteRevoke, Doomed, SessionInv, SessionSafety, SessionTypeOK, DeletionKnows
    <2> QED BY <1>4, <2>1, <2>2, <2>3, RowsUnchanged DEF DeleteRevoke, Doomed, SessionInv, SessionSafety
  <1>5. CASE BrowserDies(r)
    <2>1. SessionTypeOK' /\ RequestNames'
      BY <1>5 DEF BrowserDies, BrowserIdle, SessionInv, SessionSafety, SessionTypeOK, RequestNames, BrowserPC, Live
    <2>2. RefreshKnows'
      BY <1>5 DEF BrowserDies, BrowserIdle, SessionInv, SessionSafety, SessionTypeOK, RefreshKnows, Live
    <2>3. DeletionKnows'
      BY <1>5 DEF BrowserDies, BrowserIdle, SessionInv, SessionSafety, SessionTypeOK, DeletionKnows
    <2> QED BY <1>5, <2>1, <2>2, <2>3, RowsUnchanged DEF BrowserDies, BrowserIdle, SessionInv, SessionSafety
  <1>6. ASSUME NEW s \in Sessions, RefreshRead(r, s) PROVE SessionInv'
    <2>1. SessionTypeOK' /\ RequestNames'
      BY <1>6 DEF RefreshRead, BeginRequest, SessionInv, SessionSafety, SessionTypeOK, RequestNames, BrowserPC, Live
    <2>2. RefreshKnows'
      BY <1>6 DEF RefreshRead, BeginRequest, SessionInv, SessionSafety, SessionTypeOK, RefreshKnows, Live, OneLivePerFamily, LoggedOutStaysOut, SwitchIsKept
    <2>3. DeletionKnows'
      BY <1>6 DEF RefreshRead, BeginRequest, SessionInv, SessionSafety, SessionTypeOK, DeletionKnows
    <2> QED BY <1>6, <2>1, <2>2, <2>3, RowsUnchanged DEF RefreshRead, BeginRequest, SessionInv, SessionSafety
  <1>7. ASSUME NEW s \in Sessions, LogoutRead(r, s) PROVE SessionInv'
    <2>1. SessionTypeOK' /\ RequestNames'
      BY <1>7 DEF LogoutRead, BeginRequest, SessionInv, SessionSafety, SessionTypeOK, RequestNames, BrowserPC, Live
    <2>2. RefreshKnows'
      BY <1>7 DEF LogoutRead, BeginRequest, SessionInv, SessionSafety, SessionTypeOK, RefreshKnows, Live, OneLivePerFamily, LoggedOutStaysOut, SwitchIsKept
    <2>3. DeletionKnows'
      BY <1>7 DEF LogoutRead, BeginRequest, SessionInv, SessionSafety, SessionTypeOK, DeletionKnows
    <2> QED BY <1>7, <2>1, <2>2, <2>3, RowsUnchanged DEF LogoutRead, BeginRequest, SessionInv, SessionSafety
  <1>8. ASSUME NEW s \in Sessions, DeleteStart(r, s) PROVE SessionInv'
    <2>1. rushed' \in BOOLEAN /\ (~rushed' => ~rushed)
      BY <1>8, Zenon DEF DeleteStart
    <2>2. SessionTypeOK' /\ RequestNames'
      BY <1>8, <2>1 DEF DeleteStart, SessionInv, SessionSafety, SessionTypeOK, RequestNames, BrowserPC, Live
    <2>3. RefreshKnows'
      BY <1>8 DEF DeleteStart, SessionInv, SessionSafety, SessionTypeOK, RefreshKnows, Live
    <2>4. DeletionKnows'
      BY <1>8, <2>1 DEF DeleteStart, SessionInv, SessionSafety, SessionTypeOK, DeletionKnows
    <2> QED BY <1>8, <2>1, <2>2, <2>3, <2>4, RowsUnchanged DEF DeleteStart, SessionInv, SessionSafety
  <1>9. CASE ReplayAnswered(r)
    <2>1. SessionTypeOK' /\ RequestNames'
      BY <1>9 DEF ReplayAnswered, BrowserIdle, SessionInv, SessionSafety, SessionTypeOK, RequestNames, BrowserPC, Live
    <2>2. RefreshKnows'
      BY <1>9 DEF ReplayAnswered, BrowserIdle, SessionInv, SessionSafety, SessionTypeOK, RefreshKnows, Live
    <2>3. DeletionKnows'
      BY <1>9 DEF ReplayAnswered, BrowserIdle, SessionInv, SessionSafety, SessionTypeOK, DeletionKnows
    <2> QED BY <1>9, <2>1, <2>2, <2>3, RowsUnchanged DEF ReplayAnswered, BrowserIdle, SessionInv, SessionSafety
  <1>10. ASSUME NEW s \in Sessions, RefreshReplay(r, s) PROVE SessionInv'
    <2>1. SessionTypeOK' /\ RequestNames'
      BY <1>10 DEF RefreshReplay, BeginRequest, SessionInv, SessionSafety, SessionTypeOK, RequestNames, BrowserPC, Live
    <2>2. RefreshKnows'
      BY <1>10 DEF RefreshReplay, BeginRequest, SessionInv, SessionSafety, SessionTypeOK, RefreshKnows, Live
    <2>3. DeletionKnows'
      BY <1>10 DEF RefreshReplay, BeginRequest, SessionInv, SessionSafety, SessionTypeOK, DeletionKnows
    <2> QED BY <1>10, <2>1, <2>2, <2>3, RowsUnchanged DEF RefreshReplay, BeginRequest, SessionInv, SessionSafety
  <1> QED BY <1>1, <1>2, <1>3, <1>4, <1>5, <1>6, <1>7, <1>8, <1>9, <1>10

\* A commit on a family makes it mixed if another request has read one of its rows.
LEMMA MixedFamily ==
  ASSUME SessionInv, NEW r \in Browsers, NEW f, Mixed(r, f)
  PROVE  /\ mixed \subseteq mixed' /\ mixed' \subseteq mixed \cup {f}
         /\ f \notin mixed' => \A q \in Browsers \ {r} :
               ~(bpc[q] \in {"rotate", "rotating", "logout"} /\ bsess[q] \in made /\ family[bsess[q]] = f)
  <1>1. 0 \notin made
    BY DEF SessionInv, SessionSafety, SessionTypeOK, Sessions
  <1>2. f \notin mixed' => ~Crossing(r, f)
    BY DEF Mixed
  <1> QED BY <1>1, <1>2 DEF Mixed, Crossing

\* A login: a family of its own.
LEMMA LoginInv ==
  ASSUME SessionInv, NEW r \in Browsers, LoginCommit(r)
  PROVE  SessionInv'
  <1> USE SessionAssumption DEF LoginCommit, BrowserIdle
  <1>1. PICK s \in Sessions \ made :
          /\ made' = made \cup {s}
          /\ RowsNumbered'
          /\ family' = [family EXCEPT ![s] = IF 0 = 0 THEN s ELSE 0]
          /\ space' = [space EXCEPT ![s] = Home]
    BY NewSessionAdds
  <1>2. rushed' \in BOOLEAN /\ (~rushed' => ~rushed /\ ~Deleting /\ account # "deleted")
    BY Zenon
  <1>3. 0 \notin Sessions /\ 0 \in 0..MaxSession /\ Sessions \subseteq 0..MaxSession
    BY DEF Sessions
  <1>4. SessionTypeOK' /\ RequestNames'
    BY <1>1, <1>2, <1>3 DEF SessionInv, SessionSafety, SessionTypeOK, RequestNames, BrowserPC
  <1>5. RowsKnow'
    BY <1>1 DEF SessionInv, SessionSafety, SessionTypeOK, RowsKnow
  <1>6. \A t \in Sessions : Live(t)' =>
            t = s \/ (Live(t) /\ family'[t] = family[t] /\ space'[t] = space[t] /\ family[t] \in made)
    <2>1. revoked' = revoked /\ expired' = expired
      OBVIOUS
    <2> QED BY <1>1, <2>1 DEF SessionInv, SessionSafety, SessionTypeOK, RowsKnow, Live
  <1>7. family'[s] = s /\ space'[s] = Home /\ s \notin loggedOut /\ chosen[s] = Home
    BY <1>1 DEF SessionInv, SessionSafety, SessionTypeOK, RowsKnow
  <1>8. OneLivePerFamily' /\ LoggedOutStaysOut' /\ SwitchIsKept'
    BY <1>1, <1>6, <1>7 DEF SessionInv, SessionSafety, SessionTypeOK, OneLivePerFamily, LoggedOutStaysOut, SwitchIsKept
  <1>9. DeletedHasNoSession' /\ DeletionKnows'
    BY <1>2 DEF SessionInv, SessionSafety, SessionTypeOK, DeletedHasNoSession, DeletionKnows, Deleting
  <1>10. RefreshKnows'
    <2>1. \A q \in Browsers : bpc'[q] \in {"rotate", "rotating", "logout"} =>
              /\ q # r /\ bpc'[q] = bpc[q] /\ bsess'[q] = bsess[q] /\ bspace'[q] = bspace[q]
              /\ bsess[q] \in made /\ family'[bsess[q]] = family[bsess[q]] /\ family[bsess[q]] \in made
      BY <1>1 DEF SessionInv, SessionSafety, SessionTypeOK, RequestNames, RowsKnow
    <2> QED BY <1>1, <1>6, <1>7, <2>1 DEF SessionInv, RefreshKnows
  <1> QED BY <1>1, <1>4, <1>5, <1>8, <1>9, <1>10 DEF SessionInv, SessionSafety

\* A rotation: the replacement is live in place of the session it revokes, unless the
\* family is mixed; other requests on the family make it so.
LEMMA RotateInv ==
  ASSUME SessionInv, NEW r \in Browsers, RotateCommit(r)
  PROVE  SessionInv'
  <1> USE SessionAssumption DEF RotateCommit, BrowserIdle, Replayed
  <1> DEFINE old == bsess[r]
             f == family[old]
  <1>0. old \in made /\ f \in made /\ f # 0 /\ made \subseteq Sessions
    <2>1. 0 \notin Sessions
      BY DEF Sessions
    <2> QED BY <2>1 DEF SessionInv, SessionSafety, SessionTypeOK, RequestNames, RowsKnow
  <1>1. PICK s \in Sessions \ made :
          /\ made' = made \cup {s}
          /\ RowsNumbered'
          /\ family' = [family EXCEPT ![s] = IF f = 0 THEN s ELSE f]
          /\ space' = [space EXCEPT ![s] = bspace[r]]
    BY NewSessionAdds DEF ReplacementSpace
  <1>2. rushed' \in BOOLEAN /\ (~rushed' => ~rushed /\ ~Deleting /\ account # "deleted")
    BY Zenon
  <1>3. /\ mixed \subseteq mixed' /\ mixed' \subseteq mixed \cup {f}
        /\ f \notin mixed' => \A q \in Browsers \ {r} :
              ~(bpc[q] \in {"rotate", "rotating", "logout"} /\ bsess[q] \in made /\ family[bsess[q]] = f)
    BY <1>0, MixedFamily
  <1>4. 0 \notin Sessions /\ 0 \in 0..MaxSession /\ Sessions \subseteq 0..MaxSession
    BY DEF Sessions
  <1>5. SessionTypeOK'
    <2>1. family' \in [Sessions -> 0..MaxSession] /\ space' \in [Sessions -> Workspaces]
      BY <1>0, <1>1, <1>4 DEF SessionInv, SessionSafety, SessionTypeOK
    <2>2. doomed' \in [Browsers -> SUBSET made'] /\ loggedOut' \subseteq made'
      BY <1>1 DEF SessionInv, SessionSafety, SessionTypeOK
    <2>3. bpc' \in [Browsers -> BrowserPC] /\ bsess' \in [Browsers -> 0..MaxSession]
          /\ bspace' \in [Browsers -> Workspaces]
      BY <1>4 DEF SessionInv, SessionSafety, SessionTypeOK, BrowserPC
    <2>4. /\ made' \subseteq Sessions /\ revoked' \subseteq made' /\ expired' \subseteq made'
          /\ rowLock' \subseteq made' /\ mixed' \subseteq Sessions
          /\ account' \in {"active", "deleted"} /\ chosen' \in [Sessions -> Workspaces]
      BY <1>0, <1>1, <1>3 DEF SessionInv, SessionSafety, SessionTypeOK
    <2> QED BY <1>2, <2>1, <2>2, <2>3, <2>4 DEF SessionTypeOK
  <1>6. RequestNames' /\ RowsKnow'
    BY <1>0, <1>1 DEF SessionInv, SessionSafety, SessionTypeOK, RequestNames, RowsKnow
  <1>7. \A t \in Sessions : Live(t)' =>
            t = s \/ (t # old /\ Live(t) /\ family'[t] = family[t] /\ space'[t] = space[t])
    BY <1>0, <1>1 DEF SessionInv, SessionSafety, SessionTypeOK, RowsKnow, Live
  <1>8. family'[s] = f /\ space'[s] = bspace[r]
    BY <1>0, <1>1 DEF SessionInv, SessionSafety, SessionTypeOK
  <1>9. f \notin mixed' =>
          /\ \A t \in Sessions : Live(t) /\ family[t] = f => t = old
          /\ f \notin loggedOut /\ bspace[r] = chosen[f]
    BY <1>3 DEF SessionInv, RefreshKnows
  <1> HIDE DEF old, f
  <1>10. OneLivePerFamily'
    BY <1>1, <1>3, <1>7, <1>8, <1>9 DEF SessionInv, SessionSafety, OneLivePerFamily
  <1>11. LoggedOutStaysOut'
    BY <1>1, <1>3, <1>7, <1>8, <1>9 DEF SessionInv, SessionSafety, LoggedOutStaysOut
  <1>12. SwitchIsKept'
    BY <1>1, <1>3, <1>7, <1>8, <1>9 DEF SessionInv, SessionSafety, SwitchIsKept
  <1>13. DeletedHasNoSession' /\ DeletionKnows'
    BY <1>2 DEF SessionInv, SessionSafety, SessionTypeOK, DeletedHasNoSession, DeletionKnows, Deleting
  <1>14. RefreshKnows'
    <2>1. \A q \in Browsers : bpc'[q] \in {"rotate", "rotating", "logout"} =>
              /\ q # r /\ bpc'[q] = bpc[q] /\ bsess'[q] = bsess[q] /\ bspace'[q] = bspace[q]
              /\ bsess[q] \in made /\ family'[bsess[q]] = family[bsess[q]]
      BY <1>1 DEF SessionInv, SessionSafety, SessionTypeOK, RequestNames, RowsKnow
    <2> QED BY <1>1, <1>3, <1>7, <1>8, <2>1 DEF SessionInv, RefreshKnows
  <1> QED BY <1>1, <1>5, <1>6, <1>10, <1>11, <1>12, <1>13, <1>14 DEF SessionInv, SessionSafety

\* A logout revokes the only session of the family that can be live.
LEMMA LogoutInv ==
  ASSUME SessionInv, NEW r \in Browsers, LogoutCommit(r)
  PROVE  SessionInv'
  <1> USE SessionAssumption DEF LogoutCommit, BrowserIdle
  <1> DEFINE old == bsess[r]
             f == family[old]
  <1>0. old \in made /\ f \in made /\ f # 0 /\ made \subseteq Sessions
    <2>1. 0 \notin Sessions
      BY DEF Sessions
    <2> QED BY <2>1 DEF SessionInv, SessionSafety, SessionTypeOK, RequestNames, RowsKnow
  <1>1. /\ mixed \subseteq mixed' /\ mixed' \subseteq mixed \cup {f}
        /\ f \notin mixed' => \A q \in Browsers \ {r} :
              ~(bpc[q] \in {"rotate", "rotating", "logout"} /\ bsess[q] \in made /\ family[bsess[q]] = f)
    BY <1>0, MixedFamily
  <1>2. 0 \in 0..MaxSession
    BY DEF Sessions
  <1>3. SessionTypeOK' /\ RequestNames'
    BY <1>0, <1>1, <1>2 DEF SessionInv, SessionSafety, SessionTypeOK, BrowserPC, RequestNames
  <1>4. \A t \in Sessions : Live(t)' => t # old /\ Live(t)
    BY DEF Live
  <1>5. f \notin mixed' => \A t \in Sessions : Live(t) /\ family[t] = f => t = old
    BY <1>1 DEF SessionInv, RefreshKnows
  <1>6. OneLivePerFamily' /\ SwitchIsKept'
    BY <1>1, <1>4 DEF SessionInv, SessionSafety, OneLivePerFamily, SwitchIsKept
  <1>7. LoggedOutStaysOut'
    BY <1>1, <1>4, <1>5 DEF SessionInv, SessionSafety, LoggedOutStaysOut
  <1>8. DeletedHasNoSession' /\ DeletionKnows'
    BY <1>4 DEF SessionInv, SessionSafety, SessionTypeOK, DeletedHasNoSession, DeletionKnows
  <1>9. RefreshKnows'
    <2>1. \A q \in Browsers : bpc'[q] \in {"rotate", "rotating", "logout"} =>
              /\ q # r /\ bpc'[q] = bpc[q] /\ bsess'[q] = bsess[q] /\ bspace'[q] = bspace[q]
              /\ bsess[q] \in made
      BY DEF SessionInv, SessionSafety, SessionTypeOK, RequestNames
    <2> QED BY <1>1, <1>4, <2>1 DEF SessionInv, RefreshKnows
  <1> QED BY <1>3, <1>6, <1>7, <1>8, <1>9 DEF SessionInv, SessionSafety, RowsNumbered, RowsKnow

\* A switch of the workspace, in a family with one live session unless it is mixed.
LEMMA SwitchInv ==
  ASSUME SessionInv, NEW r \in Browsers, NEW s \in Sessions, NEW w \in Workspaces, SwitchWorkspace(r, s, w)
  PROVE  SessionInv'
  <1> USE SessionAssumption DEF SwitchWorkspace
  <1> DEFINE f == family[s]
  <1>0. s \in made /\ f \in made /\ f \in Sessions
    BY DEF SessionInv, SessionSafety, SessionTypeOK, RowsKnow, Live
  <1>1. /\ mixed \subseteq mixed' /\ mixed' \subseteq mixed \cup {f}
        /\ f \notin mixed' => \A q \in Browsers :
              ~(bpc[q] \in {"rotate", "rotating", "logout"} /\ bsess[q] \in made /\ family[bsess[q]] = f)
    BY <1>0, MixedFamily
  <1>2. SessionTypeOK'
    BY <1>0, <1>1 DEF SessionInv, SessionSafety, SessionTypeOK
  <1>3. \A t \in Sessions : Live(t)' <=> Live(t)
    BY DEF Live
  <1>4. OneLivePerFamily' /\ LoggedOutStaysOut' /\ DeletedHasNoSession'
    BY <1>1, <1>3 DEF SessionInv, SessionSafety, OneLivePerFamily, LoggedOutStaysOut, DeletedHasNoSession
  <1>5. SwitchIsKept'
    BY <1>0, <1>1, <1>3 DEF SessionInv, SessionSafety, SessionTypeOK, OneLivePerFamily, SwitchIsKept, RowsKnow
  <1>6. RefreshKnows'
    <2>1. \A g \in Sessions : g # f => chosen'[g] = chosen[g]
      BY DEF SessionInv, SessionSafety, SessionTypeOK
    <2>2. \A q \in Browsers : bpc[q] \in {"rotate", "rotating", "logout"} =>
              bsess[q] \in made /\ family[bsess[q]] \in Sessions
      BY DEF SessionInv, SessionSafety, SessionTypeOK, RequestNames, RowsKnow
    <2> QED BY <1>1, <1>3, <2>1, <2>2 DEF SessionInv, RefreshKnows
  <1>7. RowsKnow'
    BY <1>0 DEF SessionInv, SessionSafety, SessionTypeOK, RowsKnow
  <1> QED BY <1>2, <1>4, <1>5, <1>6, <1>7
      DEF SessionInv, SessionSafety, RowsNumbered, RequestNames, DeletionKnows

\* A deletion, and the end of a token's lifetime, only take live sessions away.
LEMMA EndSessionInv ==
  ASSUME SessionInv,
         (\E r \in Browsers : DeleteCommit(r)) \/ (\E s \in Sessions : ExpireSession(s))
  PROVE  SessionInv'
  <1> USE SessionAssumption
  <1>1. ASSUME NEW r \in Browsers, DeleteCommit(r) PROVE SessionInv'
    <2> USE <1>1 DEF DeleteCommit, BrowserIdle
    <2>1. rushed' \in BOOLEAN /\ (~rushed' => ~rushed)
      BY Zenon
    <2>2. 0 \in 0..MaxSession
      OBVIOUS
    <2>3. SessionTypeOK' /\ RequestNames'
      BY <2>1, <2>2 DEF SessionInv, SessionSafety, SessionTypeOK, BrowserPC, RequestNames
    <2>4. \A t \in Sessions : Live(t)' => t \notin doomed[r] /\ Live(t) /\ t \in made \ revoked
      BY DEF Live
    <2>5. OneLivePerFamily' /\ LoggedOutStaysOut' /\ SwitchIsKept'
      BY <2>4 DEF SessionInv, SessionSafety, OneLivePerFamily, LoggedOutStaysOut, SwitchIsKept
    <2>6. DeletedHasNoSession'
      BY <2>1, <2>4 DEF SessionInv, DeletedHasNoSession, DeletionKnows
    <2>7. DeletionKnows'
      BY <2>1 DEF SessionInv, SessionSafety, SessionTypeOK, DeletionKnows
    <2>8. RefreshKnows'
      BY <2>4 DEF SessionInv, SessionSafety, SessionTypeOK, RefreshKnows
    <2> QED BY <2>3, <2>5, <2>6, <2>7, <2>8 DEF SessionInv, SessionSafety, RowsNumbered, RowsKnow
  <1>2. ASSUME NEW s \in Sessions, ExpireSession(s) PROVE SessionInv'
    <2> USE <1>2 DEF ExpireSession, historyVars
    <2>1. \A t \in Sessions : Live(t)' => Live(t)
      BY DEF Live
    <2>2. SessionTypeOK'
      BY DEF SessionInv, SessionSafety, SessionTypeOK, Live
    <2>3. OneLivePerFamily' /\ LoggedOutStaysOut' /\ SwitchIsKept' /\ DeletedHasNoSession'
      BY <2>1 DEF SessionInv, SessionSafety, OneLivePerFamily, LoggedOutStaysOut, SwitchIsKept, DeletedHasNoSession
    <2>4. RefreshKnows'
      BY <2>1 DEF SessionInv, RefreshKnows
    <2> QED BY <2>2, <2>3, <2>4 DEF SessionInv, SessionSafety, RowsNumbered, RowsKnow, RequestNames, DeletionKnows
  <1> QED BY <1>1, <1>2

\* The inductive invariant of the sessions.
THEOREM SessionInvariant == SessionSpec => []SessionInv
  <1>1. SessionInv /\ [SessionNext]_sessionVars => SessionInv'
    <2> SUFFICES ASSUME SessionInv, [SessionNext]_sessionVars PROVE SessionInv'
      OBVIOUS
    <2>1. CASE UNCHANGED sessionVars
      BY <2>1 DEF sessionVars, SessionInv, SessionSafety, SessionTypeOK, OneLivePerFamily, LoggedOutStaysOut,
         SwitchIsKept, DeletedHasNoSession, RowsNumbered, RowsKnow, RequestNames, RefreshKnows,
         DeletionKnows, Live
    <2> QED BY <2>1, SessionReadInv, LoginInv, RotateInv, LogoutInv, SwitchInv, EndSessionInv DEF SessionNext
  <1> QED BY <1>1, SessionInitInv, PTL DEF SessionSpec

\* SessionSafety: for every set of requests, sessions and workspaces, a login has one live session, who
\* logged out stays out, the workspace chosen last is kept and a deleted user has no session, except
\* where a refresh was under way meanwhile (the session routes of browser_router).
THEOREM SessionSafetyHolds == SessionSpec => []SessionSafety
  <1>1. SessionInv => SessionSafety
    BY DEF SessionInv
  <1> QED BY <1>1, SessionInvariant, PTL

-----------------------------------------------------------------------------
(* Registration and sign-in.                                               *)

\* Whoever registers or verifies an address holds its lock, and finds the credential
\* and its attempts as it has read them.
AddressHolder ==
    \A v \in Visitors :
        /\ vpc[v] \in {"mail", "register", "verify"} => addressLock = v
        /\ vpc[v] \in {"mail", "register"} => creds = 0
        /\ vpc[v] = "register" => mailed > 0
        /\ vpc[v] = "verify" => creds > 0 /\ vread[v] = guessesLeft /\ guessesLeft > 0

\* Every wrong code has cost an attempt of the one challenge.
GuessesAreCounted ==
    IF creds = 0 THEN compared = 0 ELSE compared + guessesLeft <= MaxGuess

\* Whoever provisions an identity holds its lock, and its row if there is one: the
\* identity is as it was when it was looked up.
IdentityHolder ==
    /\ \A v \in Visitors :
          /\ vpc[v] \in {"create", "signin"} => identityLock = v
          /\ vpc[v] = "create" => identity = "none"
          /\ vpc[v] = "signin" => identityRow = v /\ identity = "kept"
    /\ identity = "none" => owners = 0

\* A transaction that may still be consumed was not exchanged.
UnusedNotExchanged ==
    \A f \in Flows : flow[f] \in {"none", "open"} => exchanged[f] = 0

SignInInv ==
    /\ SignInSafety
    /\ AddressHolder
    /\ GuessesAreCounted
    /\ IdentityHolder
    /\ UnusedNotExchanged

\* An address nobody has registered satisfies the invariant.
LEMMA SignInInitInv == SignInInit => SignInInv
  <1> SUFFICES ASSUME SignInInit PROVE SignInInv
    OBVIOUS
  <1>1. verified \in BOOLEAN /\ codeOld \in BOOLEAN
    BY Zenon DEF SignInInit
  <1>2. SignInTypeOK
    BY <1>1, SignInAssumption DEF SignInInit, SignInTypeOK, FlowState
  <1> QED BY <1>2, SignInAssumption
      DEF SignInInit, SignInInv, SignInSafety, OneCredential, RegisteredWasMailed, BoundedGuesses,
          TransactionUsedOnce, OneOwner, NoSessionOfDeleted, AddressHolder, GuessesAreCounted,
          IdentityHolder, UnusedNotExchanged

\* The address: registration and verification.
LEMMA AddressInv ==
  ASSUME SignInInv, NEW v \in Visitors,
         RegisterLook(v) \/ RegisterMail(v) \/ RegisterCommit(v) \/ VerifyRead(v) \/ VerifyCommit(v)
  PROVE  SignInInv'
  <1> USE SignInAssumption
      DEF Goes, accountVars, flowVars, identityVars, lockVars, SignInInv, SignInSafety, SignInTypeOK,
          OneCredential, RegisteredWasMailed, BoundedGuesses, TransactionUsedOnce, OneOwner,
          NoSessionOfDeleted, AddressHolder, GuessesAreCounted, IdentityHolder, UnusedNotExchanged
  <1>1. CASE RegisterLook(v)
    BY <1>1 DEF RegisterLook
  <1>2. CASE RegisterMail(v)
    <2>1. CASE mailed' = mailed + 1 /\ Goes(v, "register", 0) /\ UNCHANGED lockVars
      BY <1>2, <2>1 DEF RegisterMail
    <2>2. CASE mailed' \in {mailed, mailed + 1} /\ Releases(v)
      BY <1>2, <2>2 DEF RegisterMail, Releases
    <2> QED BY <1>2, <2>1, <2>2 DEF RegisterMail
  <1>3. CASE RegisterCommit(v)
    <2>1. codeOld' \in BOOLEAN
      BY <1>3 DEF RegisterCommit
    <2> QED BY <1>3, <2>1 DEF RegisterCommit, Releases
  <1>4. CASE VerifyRead(v)
    BY <1>4 DEF VerifyRead
  <1>5. CASE VerifyCommit(v)
    <2>1. CASE guessesLeft' = vread[v] - 1 /\ compared' = compared + 1 /\ verified' = verified
      BY <1>5, <2>1 DEF VerifyCommit, Releases
    <2>2. CASE verified' = TRUE /\ UNCHANGED <<guessesLeft, compared>>
      <3>1. verified' \in BOOLEAN
        BY <2>2
      <3> QED BY <1>5, <2>2, <3>1 DEF VerifyCommit, Releases
    <2> QED BY <1>5, <2>1, <2>2 DEF VerifyCommit
  <1> QED BY <1>1, <1>2, <1>3, <1>4, <1>5

\* The identity: provisioning, deletion, and requests that die.
LEMMA IdentityInv ==
  ASSUME SignInInv,
         \/ \E v \in Visitors :
              ProvisionLook(v) \/ ProvisionCreate(v) \/ ProvisionSignIn(v) \/ VisitorDies(v)
         \/ DeleteIdentity
  PROVE  SignInInv'
  <1> USE SignInAssumption
      DEF Goes, accountVars, flowVars, identityVars, lockVars, SignInInv, SignInSafety, SignInTypeOK,
          OneCredential, RegisteredWasMailed, BoundedGuesses, TransactionUsedOnce, OneOwner,
          NoSessionOfDeleted, AddressHolder, GuessesAreCounted, IdentityHolder, UnusedNotExchanged, Releases
  <1>1. ASSUME NEW v \in Visitors, ProvisionLook(v) PROVE SignInInv'
    <2>1. CASE identity = "deleted"
      BY <1>1, <2>1 DEF ProvisionLook
    <2>2. CASE identity = "none"
      BY <1>1, <2>2 DEF ProvisionLook
    <2>3. CASE identity = "kept"
      BY <1>1, <2>3 DEF ProvisionLook
    <2> QED BY <2>1, <2>2, <2>3
  <1>2. ASSUME NEW v \in Visitors, ProvisionCreate(v) PROVE SignInInv'
    BY <1>2 DEF ProvisionCreate
  <1>3. ASSUME NEW v \in Visitors, ProvisionSignIn(v) PROVE SignInInv'
    BY <1>3 DEF ProvisionSignIn
  <1>4. ASSUME NEW v \in Visitors, VisitorDies(v) PROVE SignInInv'
    BY <1>4 DEF VisitorDies
  <1>5. CASE DeleteIdentity
    BY <1>5 DEF DeleteIdentity
  <1> QED BY <1>1, <1>2, <1>3, <1>4, <1>5

\* OAuth transactions, and the clock.
LEMMA FlowInv ==
  ASSUME SignInInv,
         \/ \E v \in Visitors, f \in Flows : ConsumeTransaction(v, f)
         \/ \E f \in Flows : CreateTransaction(f) \/ TransactionExpires(f)
         \/ CodeExpires
  PROVE  SignInInv'
  <1> USE SignInAssumption
      DEF Goes, accountVars, flowVars, identityVars, lockVars, SignInInv, SignInSafety, SignInTypeOK,
          OneCredential, RegisteredWasMailed, BoundedGuesses, TransactionUsedOnce, OneOwner,
          NoSessionOfDeleted, AddressHolder, GuessesAreCounted, IdentityHolder, UnusedNotExchanged, FlowState
  <1>1. ASSUME NEW v \in Visitors, NEW f \in Flows, ConsumeTransaction(v, f) PROVE SignInInv'
    BY <1>1 DEF ConsumeTransaction, Unused
  <1>2. ASSUME NEW f \in Flows, CreateTransaction(f) PROVE SignInInv'
    BY <1>2 DEF CreateTransaction
  <1>3. ASSUME NEW f \in Flows, TransactionExpires(f) PROVE SignInInv'
    BY <1>3 DEF TransactionExpires
  <1>4. CASE CodeExpires
    <2>1. codeOld' \in BOOLEAN
      BY <1>4 DEF CodeExpires
    <2> QED BY <1>4, <2>1 DEF CodeExpires
  <1> QED BY <1>1, <1>2, <1>3, <1>4

\* The inductive invariant of registration and sign-in.
THEOREM SignInInvariant == SignInSpec => []SignInInv
  <1>1. SignInInv /\ [SignInNext]_signInVars => SignInInv'
    <2> SUFFICES ASSUME SignInInv, [SignInNext]_signInVars PROVE SignInInv'
      OBVIOUS
    <2>1. CASE UNCHANGED signInVars
      BY <2>1 DEF signInVars, SignInInv, SignInSafety, SignInTypeOK, OneCredential, RegisteredWasMailed,
         BoundedGuesses, TransactionUsedOnce, OneOwner, NoSessionOfDeleted, AddressHolder,
         GuessesAreCounted, IdentityHolder, UnusedNotExchanged
    <2> QED BY <2>1, AddressInv, IdentityInv, FlowInv DEF SignInNext
  <1> QED BY <1>1, SignInInitInv, PTL DEF SignInSpec

\* SignInSafety: for every set of requests and transactions that overlap, an address has one credential
\* and was mailed its code, guesses are bounded, a transaction is consumed once, an identity has one
\* owner, and a deleted user gets no session (register_password_user, provision_oauth_session).
THEOREM SignInSafetyHolds == SignInSpec => []SignInSafety
  <1>1. SignInInv => SignInSafety
    BY DEF SignInInv
  <1> QED BY <1>1, SignInInvariant, PTL

=============================================================================
