--------------------------- MODULE AccountsProofs ---------------------------
(***************************************************************************)
(* Sessions: a token is rotated once and ended sessions stay ended, for    *)
(* any number of tokens and of calls in flight.  A rotation commits what   *)
(* it knew of its token when it began, so the invariant relates each open  *)
(* rotation to the row of its token as it is now.                          *)
(*                                                                         *)
(* PhoneCodes: a phone has one live code, for any number of phones, codes  *)
(* and calls, as long as its calls neither overlap nor break off.  The two *)
(* keys of a code are written and deleted one by one, so the invariant     *)
(* says for each stage of the one call for a phone which codes can be      *)
(* live: the one the phone's key names, the one the call has in hand, or   *)
(* none.                                                                   *)
(*                                                                         *)
(* Registration: an account has the password its token stood for, and a    *)
(* Google sign-in that met a conflict finds the account it met, for any    *)
(* number of accounts, identities and calls in flight.                     *)
(***************************************************************************)
EXTENDS MCAccounts, FiniteSetTheorems, TLAPS

Rotation(r) == req[r].at = "refresh"

\* What a call has found is still there.
Found ==
    \A r \in Req :
        /\ req[r].at \in {"refresh", "logout"} => req[r].old \in Rows
        /\ req[r].at = "reset" => req[r].old \in ResetToken

\* A rotation of a session ended since, and only such, was open at that moment.
LateIsKnown ==
    \A r \in Req : Rotation(r) /\ token[req[r].old].before
                       => token[req[r].old].late \/ req[r].late

\* What has an heir is not live.
ParentsRevoked ==
    \A t \in Rows : token[t].parent # None => token[t].parent \in Rows \ Live

\* Two open rotations of a token know of each other.
RotationsMeet ==
    \A r, s \in Req : r # s /\ Rotation(r) /\ Rotation(s) /\ req[r].old = req[s].old
                          => req[r].overlapped /\ req[s].overlapped

\* An open rotation of a token that has an heir overlapped the one that made it.
HeirsMeet ==
    \A r \in Req, t \in Rows : Rotation(r) /\ token[t].parent = req[r].old
                                   => req[r].overlapped /\ token[t].overlapped

IInv == /\ TypeOK /\ Found
        /\ LateIsKnown /\ EndedSessionsStayEnded
        /\ ParentsRevoked /\ RotationsMeet /\ HeirsMeet /\ OneHeir

LEMMA IdleOK == Idle \in Request /\ Idle.at = "idle"
  BY DEF Idle, Request

LEMMA InitIInv == Init => IInv
  BY IdleOK, SessionsConstants
     DEF Init, IInv, TypeOK, Found, LateIsKnown, EndedSessionsStayEnded, ParentsRevoked,
         RotationsMeet, HeirsMeet, OneHeir, Rows, Live, Rotation

\* A call that begins without rotating a token, or that ends, and leaves the
\* tokens alone.
LEMMA CallStep ==
  ASSUME IInv, NEW r \in Req, NEW q \in Request, UNCHANGED token,
         q.at # "refresh",
         q.at = "logout" => q.old \in Rows,
         q.at = "reset" => q.old \in ResetToken,
         reset' \in [ResetToken -> {"absent", "live", "consumed"}],
         hasPassword' \in BOOLEAN, active' \in BOOLEAN,
         req' = [req EXCEPT ![r] = q]
  PROVE  IInv'
  <1>1. TypeOK'
    BY DEF IInv, TypeOK
  <1>2. \A s \in Req : req'[s] = IF s = r THEN q ELSE req[s]
    BY DEF IInv, TypeOK
  <1>3. Rows' = Rows /\ Live' = Live
    BY DEF Rows, Live
  <1>4. Found'
    BY <1>2, <1>3 DEF IInv, Found
  <1>5. EndedSessionsStayEnded' /\ ParentsRevoked' /\ OneHeir'
    BY <1>3 DEF IInv, EndedSessionsStayEnded, ParentsRevoked, OneHeir
  <1>6. LateIsKnown' /\ RotationsMeet' /\ HeirsMeet'
    BY <1>2, <1>3 DEF IInv, LateIsKnown, RotationsMeet, HeirsMeet, Rotation
  <1>7. QED  BY <1>1, <1>4, <1>5, <1>6 DEF IInv

\* Ending every session: no token stays live, and whoever is open is late.
LEMMA EndStep ==
  ASSUME IInv, NEW r, EndSessions(r),
         reset' \in [ResetToken -> {"absent", "live", "consumed"}],
         hasPassword' \in BOOLEAN, active' \in BOOLEAN
  PROVE  IInv'
  <1>1. \A t \in Token : token'[t] = IF t \notin Rows THEN None
             ELSE IF t \in Live THEN [token[t] EXCEPT !.live = FALSE, !.before = TRUE]
             ELSE [token[t] EXCEPT !.before = TRUE]
    BY DEF EndSessions, ToRevoke, Revoked, IInv, TypeOK, Rows, Row
  <1>2. \A t \in Rows : token[t] \in Row
    BY DEF IInv, TypeOK, Rows
  <1>3. \A t \in Rows : /\ token'[t] \in Row /\ ~token'[t].live
                        /\ token'[t].parent = token[t].parent
                        /\ (token'[t].late <=> token[t].late)
                        /\ (token'[t].overlapped <=> token[t].overlapped)
    <2> SUFFICES ASSUME NEW t \in Rows
                 PROVE  /\ token'[t] \in Row /\ ~token'[t].live
                        /\ token'[t].parent = token[t].parent
                        /\ (token'[t].late <=> token[t].late)
                        /\ (token'[t].overlapped <=> token[t].overlapped)
      OBVIOUS
    <2>1. t \in Token /\ token[t] \in Row
      BY <1>2 DEF Rows
    <2>2. CASE t \in Live
      <3>1. token'[t] = [token[t] EXCEPT !.live = FALSE, !.before = TRUE]
        BY <1>1, <2>1, <2>2
      <3>2. QED  BY <2>1, <3>1 DEF Row
    <2>3. CASE t \notin Live
      <3>1. token'[t] = [token[t] EXCEPT !.before = TRUE] /\ ~token[t].live
        BY <1>1, <2>1, <2>3 DEF Live
      <3>2. QED  BY <2>1, <3>1 DEF Row
    <2>4. QED  BY <2>2, <2>3
  <1>4. Rows' = Rows /\ Live' = {}
    <2>1. \A t \in Token : t \in Rows <=> token'[t] # None
      BY <1>1, <1>3, SessionsConstants
    <2>2. Rows' = Rows
      BY <2>1 DEF Rows
    <2>3. QED  BY <1>3, <2>2 DEF Live
  <1>5. \A s \in Req : req'[s] = IF s = r \/ req[s] = Idle THEN Idle
                                 ELSE [req[s] EXCEPT !.late = TRUE]
    BY DEF EndSessions
  <1>6. \A s \in Req : /\ req'[s] \in Request
                       /\ \/ req'[s].at = "idle"
                          \/ /\ req'[s].at = req[s].at /\ req'[s].old = req[s].old
                             /\ (req'[s].overlapped <=> req[s].overlapped)
                             /\ req'[s].late
    <2> SUFFICES ASSUME NEW s \in Req
                 PROVE  /\ req'[s] \in Request
                        /\ \/ req'[s].at = "idle"
                           \/ /\ req'[s].at = req[s].at /\ req'[s].old = req[s].old
                              /\ (req'[s].overlapped <=> req[s].overlapped)
                              /\ req'[s].late
      OBVIOUS
    <2>1. CASE s = r \/ req[s] = Idle
      BY <1>5, <2>1, IdleOK
    <2>2. CASE ~(s = r \/ req[s] = Idle)
      <3>1. req'[s] = [req[s] EXCEPT !.late = TRUE] /\ req[s] \in Request
        BY <1>5, <2>2 DEF IInv, TypeOK
      <3>2. QED  BY <3>1 DEF Request
    <2>3. QED  BY <2>1, <2>2
  <1>7. TypeOK'
    <2>1. token' \in [Token -> Row \cup {None}]
      BY <1>1, <1>3 DEF EndSessions
    <2>2. req' \in [Req -> Request]
      BY <1>6 DEF EndSessions
    <2>3. QED  BY <2>1, <2>2 DEF TypeOK
  <1>8. Found' /\ LateIsKnown'
    BY <1>4, <1>6 DEF IInv, Found, LateIsKnown, Rotation
  <1>9. EndedSessionsStayEnded' /\ ParentsRevoked' /\ OneHeir'
    BY <1>3, <1>4 DEF IInv, EndedSessionsStayEnded, ParentsRevoked, OneHeir
  <1>10. RotationsMeet' /\ HeirsMeet'
    BY <1>3, <1>4, <1>6 DEF IInv, RotationsMeet, HeirsMeet, Rotation
  <1>11. QED  BY <1>7, <1>8, <1>9, <1>10 DEF IInv

\* A request that ends is idle.
LEMMA FinishStep ==
  ASSUME IInv, NEW r \in Req, Finish(r), UNCHANGED token,
         reset' \in [ResetToken -> {"absent", "live", "consumed"}],
         hasPassword' \in BOOLEAN, active' \in BOOLEAN
  PROVE  IInv'
  BY IdleOK, CallStep DEF Finish

\* Signing in adds a token without a parent.
LEMMA LoginStep ==
  ASSUME IInv, NEW r \in Req, NEW t \in Token, CommitLogin(r, t)
  PROVE  IInv'
  <1> DEFINE new == [live |-> TRUE, parent |-> None, before |-> req[r].late,
                     late |-> req[r].late, overlapped |-> FALSE]
  <1>1. req[r].late \in BOOLEAN /\ t \notin Rows
    BY DEF IInv, TypeOK, Request, CommitLogin
  <1>2. new \in Row /\ new # None
    <2>1. new \in Row
      BY <1>1 DEF Row
    <2>2. QED  BY <2>1, SessionsConstants
  <1> HIDE DEF new
  <1>3. \A u \in Token : token'[u] = IF u = t THEN new ELSE token[u]
    BY DEF IInv, TypeOK, CommitLogin, new
  <1>4. \A s \in Req : req'[s] = IF s = r THEN Idle ELSE req[s]
    BY DEF IInv, TypeOK, CommitLogin, Finish
  <1>5. Rows' = Rows \cup {t} /\ Live' = Live \cup {t}
    <2>1. Rows' = Rows \cup {t}
      BY <1>2, <1>3 DEF Rows
    <2>2. new.live
      BY DEF new
    <2>3. QED  BY <1>1, <1>3, <2>1, <2>2 DEF Live, Rows
  <1>6. TypeOK'
    BY <1>2, IdleOK DEF IInv, TypeOK, CommitLogin, Finish, new
  <1>7. /\ new.parent = None /\ (new.before <=> new.late)
    BY DEF new
  <1>8. Found'
    BY <1>4, <1>5, IdleOK DEF IInv, Found, CommitLogin
  <1>9. LateIsKnown' /\ EndedSessionsStayEnded'
    BY <1>1, <1>3, <1>4, <1>5, <1>7, IdleOK
       DEF IInv, Found, LateIsKnown, EndedSessionsStayEnded, Rotation, Rows, Live
  <1>10. ParentsRevoked' /\ OneHeir'
    BY <1>1, <1>3, <1>5, <1>7 DEF IInv, ParentsRevoked, OneHeir, Rows, Live
  <1>11. RotationsMeet'
    BY <1>4, IdleOK DEF IInv, RotationsMeet, Rotation
  <1>12. HeirsMeet'
    <2>1. None \notin Rows
      BY SessionsConstants DEF Rows
    <2>2. QED  BY <1>1, <1>3, <1>4, <1>5, <1>7, <2>1, IdleOK
               DEF IInv, Found, HeirsMeet, Rotation, Rows
  <1>13. QED  BY <1>6, <1>8, <1>9, <1>10, <1>11, <1>12 DEF IInv

\* A rotation begins with a live token, which has no heir; the rotations of it
\* that are open overlap it.
LEMMA RefreshStep ==
  ASSUME IInv, NEW r \in Req, NEW t \in Token, Refresh(r, t)
  PROVE  IInv'
  <1> DEFINE new == [at |-> "refresh", old |-> t, late |-> FALSE,
                     overlapped |-> Rotating(t) # {}]
  <1>1. t \in Live /\ t \in Rows /\ UNCHANGED token
    BY DEF Refresh, Live, db
  <1>2. new \in Request
    BY DEF Request
  <1>3. \A s \in Req : req'[s] = IF s = r THEN new
                                 ELSE IF s \in Rotating(t)
                                      THEN [req[s] EXCEPT !.overlapped = TRUE] ELSE req[s]
    BY DEF Refresh
  <1>4. \A s \in Req \ {r} :
            /\ req'[s] \in Request /\ req'[s].at = req[s].at
            /\ req'[s].old = req[s].old /\ (req'[s].late <=> req[s].late)
            /\ (req'[s].overlapped <=> req[s].overlapped \/ s \in Rotating(t))
    <2> SUFFICES ASSUME NEW s \in Req \ {r}
                 PROVE  /\ req'[s] \in Request /\ req'[s].at = req[s].at
                        /\ req'[s].old = req[s].old /\ (req'[s].late <=> req[s].late)
                        /\ (req'[s].overlapped <=> req[s].overlapped \/ s \in Rotating(t))
      OBVIOUS
    <2>1. req[s] \in Request
      BY DEF IInv, TypeOK
    <2>2. CASE s \in Rotating(t)
      <3>1. req'[s] = [req[s] EXCEPT !.overlapped = TRUE]
        BY <1>3, <2>2
      <3>2. QED  BY <2>1, <2>2, <3>1 DEF Request
    <2>3. CASE s \notin Rotating(t)
      <3>1. req'[s] = req[s]
        BY <1>3, <2>3
      <3>2. QED  BY <2>1, <2>3, <3>1 DEF Request
    <2>4. QED  BY <2>2, <2>3
  <1>5. Rows' = Rows /\ Live' = Live
    BY <1>1 DEF Rows, Live
  <1>6. /\ req'[r].at = "refresh" /\ req'[r].old = t /\ ~req'[r].late
        /\ (req'[r].overlapped <=> Rotating(t) # {})
    <2>1. req'[r] = new
      BY <1>3
    <2>2. new.overlapped <=> Rotating(t) # {}
      OBVIOUS
    <2>3. QED  BY <2>1, <2>2
  <1>7. \A s \in Req : s \in Rotating(t) <=> Rotation(s) /\ req[s].old = t
    BY DEF Rotating, Rotation
  <1>8. req[r].at = "idle"
    BY IdleOK DEF Refresh
  <1>9. TypeOK'
    <2>1. req' \in [Req -> Request]
      BY <1>2, <1>3, <1>4 DEF Refresh
    <2>2. QED  BY <2>1 DEF IInv, TypeOK, Refresh, db
  <1>10. Found'
    BY <1>1, <1>4, <1>5, <1>6 DEF IInv, Found
  <1>11. EndedSessionsStayEnded' /\ ParentsRevoked' /\ OneHeir'
    BY <1>1, <1>5 DEF IInv, EndedSessionsStayEnded, ParentsRevoked, OneHeir
  <1>12. LateIsKnown'
    BY <1>1, <1>4, <1>6 DEF IInv, LateIsKnown, EndedSessionsStayEnded, Rotation
  <1>13. RotationsMeet'
    BY <1>4, <1>6, <1>7 DEF IInv, RotationsMeet, Rotation
  <1>14. HeirsMeet'
    <2>1. \A u \in Rows : token[u].parent # t
      BY <1>1, SessionsConstants DEF IInv, ParentsRevoked
    <2>2. QED  BY <1>1, <1>4, <1>5, <1>6, <2>1 DEF IInv, HeirsMeet, Rotation
  <1>15. QED  BY <1>9, <1>10, <1>11, <1>12, <1>13, <1>14 DEF IInv

\* A rotation revokes its token and inserts the heir.
LEMMA RotateStep ==
  ASSUME IInv, NEW r \in Req, NEW t \in Token, CommitRefresh(r, t)
  PROVE  IInv'
  <1> DEFINE old == req[r].old
             new == [live |-> TRUE, parent |-> old, before |-> token[old].before,
                     late |-> token[old].late \/ req[r].late,
                     overlapped |-> req[r].overlapped]
  <1>1. Rotation(r) /\ old \in Rows /\ old \in Token /\ t \notin Rows /\ old # t
    BY DEF IInv, Found, CommitRefresh, Rotation, Rows
  <1>2. token[old] \in Row /\ req[r] \in Request
    BY <1>1 DEF IInv, TypeOK, Rows
  <1>3. new \in Row /\ new # None
    <2>1. new \in Row
      BY <1>1, <1>2 DEF Row, Request
    <2>2. QED  BY <2>1, SessionsConstants
  <1>4. /\ new.live /\ new.parent = old /\ (new.before <=> token[old].before)
        /\ (new.late <=> token[old].late \/ req[r].late)
        /\ (new.overlapped <=> req[r].overlapped)
    OBVIOUS
  <1>5. \A u \in Token : token'[u] = IF u = t THEN new
                                     ELSE IF u = old THEN [token[old] EXCEPT !.live = FALSE]
                                     ELSE token[u]
    BY <1>1 DEF IInv, TypeOK, CommitRefresh, Replaced, Revoked
  <1> HIDE DEF new
  <1>6. /\ token'[old] \in Row /\ ~token'[old].live
        /\ token'[old].parent = token[old].parent
        /\ (token'[old].before <=> token[old].before)
        /\ (token'[old].late <=> token[old].late)
        /\ (token'[old].overlapped <=> token[old].overlapped)
    <2>1. token'[old] = [token[old] EXCEPT !.live = FALSE]
      BY <1>1, <1>5
    <2>2. QED  BY <1>2, <2>1 DEF Row
  <1>7. \A s \in Req : req'[s] = IF s = r THEN Idle ELSE req[s]
    BY DEF IInv, TypeOK, CommitRefresh, Finish
  <1>8. Rows' = Rows \cup {t}
    BY <1>1, <1>3, <1>5, <1>6, SessionsConstants DEF Rows
  <1>9. \A u \in Rows : /\ token'[u].parent = token[u].parent
                        /\ (token'[u].before <=> token[u].before)
                        /\ (token'[u].late <=> token[u].late)
                        /\ (token'[u].overlapped <=> token[u].overlapped)
                        /\ token'[u].live => token[u].live
    BY <1>1, <1>5, <1>6 DEF Rows
  <1>10. token'[t] = new
    BY <1>5
  <1>11. Live' = (Live \ {old}) \cup {t}
    BY <1>1, <1>4, <1>5, <1>6, <1>8, <1>10 DEF Live, Rows
  <1>12. TypeOK'
    <2>1. \A u \in Token : token'[u] \in Row \cup {None}
      BY <1>3, <1>5, <1>6 DEF IInv, TypeOK
    <2>2. token' \in [Token -> Row \cup {None}]
      BY <2>1 DEF IInv, TypeOK, CommitRefresh
    <2>3. QED  BY <2>2, IdleOK DEF IInv, TypeOK, CommitRefresh, Finish
  <1>13. Found'
    BY <1>7, <1>8, IdleOK DEF IInv, Found, CommitRefresh
  <1>14. LateIsKnown'
    BY <1>7, <1>9, IdleOK DEF IInv, Found, LateIsKnown, Rotation
  <1>15. EndedSessionsStayEnded'
    <2>1. new.before => new.late
      BY <1>1, <1>4 DEF IInv, LateIsKnown
    <2>2. QED  BY <1>9, <1>10, <1>11, <2>1 DEF IInv, EndedSessionsStayEnded, Live
  <1>16. ParentsRevoked'
    BY <1>1, <1>4, <1>8, <1>9, <1>10, <1>11 DEF IInv, ParentsRevoked
  <1>17. RotationsMeet'
    BY <1>7, IdleOK DEF IInv, RotationsMeet, Rotation
  <1>18. HeirsMeet'
    BY <1>1, <1>4, <1>7, <1>8, <1>9, <1>10, IdleOK
       DEF IInv, HeirsMeet, RotationsMeet, Rotation
  <1>19. OneHeir'
    BY <1>1, <1>4, <1>8, <1>9, <1>10 DEF IInv, OneHeir, HeirsMeet
  <1>20. QED
    BY <1>12, <1>13, <1>14, <1>15, <1>16, <1>17, <1>18, <1>19 DEF IInv

\* Signing out revokes one token.
LEMMA LogoutStep ==
  ASSUME IInv, NEW r \in Req, CommitLogout(r)
  PROVE  IInv'
  <1> DEFINE old == req[r].old
  <1>1. old \in Rows /\ old \in Token
    BY DEF IInv, Found, CommitLogout, Rows
  <1>2. token[old] \in Row
    BY <1>1 DEF IInv, TypeOK, Rows
  <1>3. \A u \in Token : token'[u] = IF u = old THEN [token[old] EXCEPT !.live = FALSE]
                                     ELSE token[u]
    BY <1>1 DEF IInv, TypeOK, CommitLogout, Revoked
  <1>4. /\ token'[old] \in Row /\ ~token'[old].live
        /\ token'[old].parent = token[old].parent
        /\ (token'[old].before <=> token[old].before)
        /\ (token'[old].late <=> token[old].late)
        /\ (token'[old].overlapped <=> token[old].overlapped)
    <2>1. token'[old] = [token[old] EXCEPT !.live = FALSE]
      BY <1>1, <1>3
    <2>2. QED  BY <1>2, <2>1 DEF Row
  <1>5. Rows' = Rows
    BY <1>1, <1>3, <1>4, SessionsConstants DEF Rows
  <1>6. \A u \in Rows : /\ token'[u].parent = token[u].parent
                        /\ (token'[u].before <=> token[u].before)
                        /\ (token'[u].late <=> token[u].late)
                        /\ (token'[u].overlapped <=> token[u].overlapped)
                        /\ token'[u].live => token[u].live
    BY <1>1, <1>3, <1>4 DEF Rows
  <1>7. Live' \subseteq Live
    BY <1>5, <1>6 DEF Live
  <1>8. \A s \in Req : req'[s] = IF s = r THEN Idle ELSE req[s]
    BY DEF IInv, TypeOK, CommitLogout, Finish
  <1>9. TypeOK'
    <2>1. token' \in [Token -> Row \cup {None}]
      BY <1>3, <1>4 DEF IInv, TypeOK, CommitLogout
    <2>2. QED  BY <2>1, IdleOK DEF IInv, TypeOK, CommitLogout, Finish
  <1>10. Found' /\ LateIsKnown'
    BY <1>5, <1>6, <1>8, IdleOK DEF IInv, Found, LateIsKnown, Rotation
  <1>11. EndedSessionsStayEnded' /\ ParentsRevoked' /\ OneHeir'
    BY <1>5, <1>6, <1>7 DEF IInv, EndedSessionsStayEnded, ParentsRevoked, OneHeir, Live
  <1>12. RotationsMeet' /\ HeirsMeet'
    BY <1>5, <1>6, <1>8, IdleOK DEF IInv, RotationsMeet, HeirsMeet, Rotation
  <1>13. QED  BY <1>9, <1>10, <1>11, <1>12 DEF IInv

\* A call that is about to be made in another way than by rotation.
LEMMA BeginStep ==
  ASSUME IInv, NEW r \in Req, NEW at, NEW old, Begin(r, at, old),
         at \in {"login", "logout", "reset", "set", "change"},
         old \in Token \cup ResetToken \cup {None},
         at = "logout" => old \in Rows,
         at = "reset" => old \in ResetToken
  PROVE  IInv'
  <1> DEFINE q == [Idle EXCEPT !.at = at, !.old = old]
  <1>1. q \in Request /\ q.at = at /\ q.old = old
    BY DEF Idle, Request
  <1>2. req' = [req EXCEPT ![r] = q] /\ UNCHANGED db
    BY DEF Begin
  <1> HIDE DEF q
  <1>3. QED  BY <1>1, <1>2, CallStep DEF IInv, TypeOK, db

LEMMA NextIInv == IInv /\ [Next]_vars => IInv'
  <1> SUFFICES ASSUME IInv, [Next]_vars PROVE IInv'
    OBVIOUS
  <1>1. CASE UNCHANGED vars
    BY <1>1 DEF vars, db, IInv, TypeOK, Found, LateIsKnown, EndedSessionsStayEnded,
                ParentsRevoked, RotationsMeet, HeirsMeet, OneHeir, Rows, Live, Rotation
  <1>2. ASSUME NEW r \in Req, Handle(r)
        PROVE  IInv'
    <2>1. CASE Login(r)
      BY <2>1, BeginStep DEF Login
    <2>2. CASE ChangePassword(r)
      BY <2>2, BeginStep DEF ChangePassword
    <2>3. ASSUME NEW t \in Token, Refresh(r, t)
          PROVE  IInv'
      BY <2>3, RefreshStep
    <2>4. ASSUME NEW t \in Token, Logout(r, t)
          PROVE  IInv'
      BY <2>4, BeginStep DEF Logout, Live
    <2>5. ASSUME NEW k \in ResetToken, ResetPassword(r, k)
          PROVE  IInv'
      BY <2>5, BeginStep DEF ResetPassword
    <2>6. ASSUME NEW t \in Token, CommitLogin(r, t) \/ CommitRefresh(r, t)
          PROVE  IInv'
      BY <2>6, LoginStep, RotateStep
    <2>7. CASE CommitLogout(r)
      BY <2>7, LogoutStep
    <2>8. CASE CommitReset(r)
      BY <2>8, EndStep DEF CommitReset, IInv, TypeOK
    <2>9. CASE CommitChange(r)
      BY <2>9, FinishStep DEF CommitChange, IInv, TypeOK
    <2>10. CASE Abort(r)
      BY <2>10, FinishStep DEF Abort, IInv, TypeOK, db
    <2>11. QED
      BY <1>2, <2>1, <2>2, <2>3, <2>4, <2>5, <2>6, <2>7, <2>8, <2>9, <2>10 DEF Handle
  <1>3. ASSUME NEW t \in Token, ReuseDetected(t)
        PROVE  IInv'
    BY <1>3, EndStep DEF ReuseDetected, IInv, TypeOK
  <1>4. ASSUME NEW stays \in BOOLEAN, RevokeAll(stays)
        PROVE  IInv'
    BY <1>4, EndStep DEF RevokeAll, IInv, TypeOK
  <1>5. CASE SetActive \/ \E k \in ResetToken : RequestPasswordReset(k) \/ ExpireReset(k)
    <2>1. UNCHANGED <<token, req, hasPassword>>
      BY <1>5 DEF SetActive, RequestPasswordReset, ExpireReset
    <2>2. TypeOK'
      BY <1>5 DEF IInv, TypeOK, SetActive, RequestPasswordReset, ExpireReset
    <2>3. Rows' = Rows /\ Live' = Live
      BY <2>1 DEF Rows, Live
    <2>4. QED
      BY <2>1, <2>2, <2>3
         DEF IInv, Found, LateIsKnown, EndedSessionsStayEnded, ParentsRevoked,
             RotationsMeet, HeirsMeet, OneHeir, Rotation
  <1>6. QED  BY <1>1, <1>2, <1>3, <1>4, <1>5 DEF Next

\* The invariant holds in every reachable state.
THEOREM Invariance == Spec => []IInv
  BY InitIInv, NextIInv, PTL DEF Spec

\* Rows and requests keep their types.
THEOREM TypeCorrect == Spec => []TypeOK
  <1>1. IInv => TypeOK
    BY DEF IInv
  <1>2. QED  BY Invariance, <1>1, PTL

\* What a reset, a reuse or "sign out everywhere" has ended does not go on
\* through rotations, for any number of tokens and calls, but for a call that
\* was open at that moment.
THEOREM EndedSessionsDoNotGoOn == Spec => []EndedSessionsStayEnded
  <1>1. IInv => EndedSessionsStayEnded
    BY DEF IInv
  <1>2. QED  BY Invariance, <1>1, PTL

\* A token has two heirs only if their rotations overlapped, for any number of
\* tokens and calls.
THEOREM TokensHaveOneHeir == Spec => []OneHeir
  <1>1. IInv => OneHeir
    BY DEF IInv
  <1>2. QED  BY Invariance, <1>1, PTL

-----------------------------------------------------------------------------
(* PhoneCodes *)

Named(p) == {c \in Identity : pending[p] = c}

InHand(q) == {c \in Identity : q.code = c}

\* A call has what its stage needs.
StageOK(q) ==
    /\ q.at \in {"check", "read", "wipe", "draw", "point", "taken", "bind", "clean"} =>
          q.phone \in Contact
    /\ q.at \in {"wipe", "point", "find", "taken", "bind", "clean"} => q.code \in Identity
    /\ q.at \in {"find", "taken", "bind", "clean"} => q.user \in User
    /\ q.at \in {"idle", "find"} => q.phone = None

\* The live codes of the phone that the call is for.
LiveOK(q) ==
    /\ q.at \in {"check", "read", "taken", "bind"} => P!LiveCodes(q.phone) \subseteq Named(q.phone)
    /\ q.at \in {"wipe", "point", "taken", "bind", "clean"} =>
          P!LiveCodes(q.phone) \subseteq InHand(q)
    /\ q.at = "draw" => P!LiveCodes(q.phone) = {}

\* One call at a time is open for a phone none of whose calls broke.
OneCall ==
    \A r, s \in Req :
        phoneReq[r].phone \in Contact \ broken /\ phoneReq[r].phone = phoneReq[s].phone
            => r = s

PhoneInv ==
    /\ P!TypeOK /\ OneCall
    /\ \A r \in Req : StageOK(phoneReq[r])
    /\ \A r \in Req : phoneReq[r].phone \in Contact \ broken => LiveOK(phoneReq[r])
    /\ \A p \in Contact \ broken : P!Open(p) = {} => P!LiveCodes(p) \subseteq Named(p)

LEMMA PhoneIdleOK ==
  /\ P!Idle \in P!Request /\ StageOK(P!Idle) /\ P!Idle.phone = None /\ P!Idle.at = "idle"
  BY DEF P!Idle, P!Request, StageOK

LEMMA PhoneInitIInv ==
  ASSUME P!PhoneCodesConstants, P!Init
  PROVE  PhoneInv
  BY PhoneIdleOK DEF P!Init, PhoneInv, P!TypeOK, OneCall, P!LiveCodes, P!PhoneCodesConstants

\* A step of the call r that leaves the codes of other phones alone but for
\* deleting some of them.
LEMMA PhoneCallStep ==
  ASSUME P!PhoneCodesConstants, PhoneInv, NEW r \in Req,
         phoneReq' \in [Req -> P!Request], \A s \in Req \ {r} : phoneReq'[s] = phoneReq[s],
         StageOK(phoneReq'[r]),
         otp' \in [Identity -> Contact \cup {None}], pending' \in [Contact -> Identity \cup {None}],
         owner' \in [User -> Contact \cup {None}],
         broken \subseteq broken', broken' \subseteq Contact,
         phoneReq'[r].phone \in Contact \ broken' =>
             /\ phoneReq'[r].phone = phoneReq[r].phone \/ P!Open(phoneReq'[r].phone) = {}
             /\ LiveOK(phoneReq[r])',
         \A p \in Contact \ broken' : p = phoneReq[r].phone /\ p # phoneReq'[r].phone =>
             P!LiveCodes(p)' \subseteq Named(p)',
         \A p \in Contact \ broken' : p \notin {phoneReq[r].phone, phoneReq'[r].phone} =>
             P!LiveCodes(p)' \subseteq P!LiveCodes(p) /\ pending'[p] = pending[p]
  PROVE  PhoneInv'
  <1>1. \A s \in Req : StageOK(phoneReq'[s])
    BY DEF PhoneInv
  <1>2. P!TypeOK'
    BY <1>1 DEF PhoneInv, P!TypeOK, StageOK, P!PhoneCodesConstants
  <1>3. \A s \in Req : s # r /\ phoneReq[s].phone \in Contact \ broken' =>
            phoneReq[s].phone \notin {phoneReq[r].phone, phoneReq'[r].phone}
    <2> SUFFICES ASSUME NEW s \in Req, s # r, phoneReq[s].phone \in Contact \ broken'
                 PROVE  /\ phoneReq[s].phone # phoneReq[r].phone
                        /\ phoneReq[s].phone # phoneReq'[r].phone
      OBVIOUS
    <2>1. phoneReq[s].phone # phoneReq[r].phone
      BY DEF PhoneInv, OneCall
    <2>2. s \in P!Open(phoneReq[s].phone)
      BY DEF P!Open
    <2>3. QED  BY <2>1, <2>2
  <1>4. OneCall'
    BY <1>3 DEF PhoneInv, OneCall
  <1>5. ASSUME NEW s \in Req, phoneReq'[s].phone \in Contact \ broken'
        PROVE  LiveOK(phoneReq[s])'
    <2>1. CASE s = r
      BY <1>5, <2>1
    <2>2. CASE s # r
      <3> DEFINE p == phoneReq[s].phone
      <3>1. phoneReq'[s] = phoneReq[s] /\ p \in Contact \ broken' /\ p \in Contact \ broken
        BY <1>5, <2>2
      <3>2. P!LiveCodes(p)' \subseteq P!LiveCodes(p) /\ pending'[p] = pending[p]
        BY <1>3, <2>2, <3>1
      <3>3. LiveOK(phoneReq[s])
        BY <3>1 DEF PhoneInv
      <3>4. Named(p)' = Named(p) /\ InHand(phoneReq[s])' = InHand(phoneReq[s])
        BY <3>1, <3>2 DEF Named, InHand
      <3>5. QED  BY <3>1, <3>2, <3>3, <3>4 DEF LiveOK
    <2>3. QED  BY <2>1, <2>2
  <1>6. ASSUME NEW p \in Contact \ broken', P!Open(p)' = {}
        PROVE  P!LiveCodes(p)' \subseteq Named(p)'
    <2>1. p # phoneReq'[r].phone
      BY <1>6 DEF P!Open
    <2>2. CASE p = phoneReq[r].phone
      BY <2>1, <2>2
    <2>3. CASE p # phoneReq[r].phone
      <3>1. P!Open(p) = {}
        BY <1>6, <2>3 DEF P!Open
      <3>2. P!LiveCodes(p) \subseteq Named(p)
        BY <3>1 DEF PhoneInv
      <3>3. P!LiveCodes(p)' \subseteq P!LiveCodes(p) /\ pending'[p] = pending[p]
        BY <2>1, <2>3
      <3>4. QED  BY <3>2, <3>3 DEF Named
    <2>4. QED  BY <2>2, <2>3
  <1>7. QED  BY <1>1, <1>2, <1>4, <1>5, <1>6 DEF PhoneInv

\* A call that goes on or ends without touching Redis or the accounts.
LEMMA PhoneReadStep ==
  ASSUME P!PhoneCodesConstants, PhoneInv, NEW r \in Req, NEW q \in P!Request, StageOK(q),
         phoneReq' = [phoneReq EXCEPT ![r] = q], UNCHANGED <<P!redis, owner>>,
         broken \subseteq broken', broken' \subseteq Contact,
         q.phone \in Contact \ broken' =>
             LiveOK(q) /\ (q.phone = phoneReq[r].phone \/ P!Open(q.phone) = {}),
         phoneReq[r].phone \in Contact \ broken' /\ q.phone # phoneReq[r].phone =>
             P!LiveCodes(phoneReq[r].phone) \subseteq Named(phoneReq[r].phone)
  PROVE  PhoneInv'
  <1>1. UNCHANGED <<otp, pending, owner>>
    BY DEF P!redis
  <1>2. /\ phoneReq' \in [Req -> P!Request] /\ phoneReq'[r] = q
        /\ \A s \in Req \ {r} : phoneReq'[s] = phoneReq[s]
    BY DEF PhoneInv, P!TypeOK
  <1>3. \A p : P!LiveCodes(p)' = P!LiveCodes(p) /\ Named(p)' = Named(p)
    BY <1>1 DEF P!LiveCodes, Named
  <1>4. q.phone \in Contact \ broken' => LiveOK(phoneReq[r])'
    <2>1. LiveOK(q) => LiveOK(phoneReq[r])'
      BY <1>2, <1>3 DEF LiveOK, InHand
    <2>2. QED  BY <2>1
  <1>5. QED  BY <1>1, <1>2, <1>3, <1>4, PhoneCallStep DEF PhoneInv, P!TypeOK

-----------------------------------------------------------------------------
(* issue_phone_otp *)

LEMMA PhoneIssueStep ==
  ASSUME P!PhoneCodesConstants, PhoneInv, NEW r \in Req, NEW p \in Contact, P!Issue(r, p)
  PROVE  PhoneInv'
  <1> DEFINE q == [P!Idle EXCEPT !.at = "check", !.phone = p]
  <1>1. /\ q \in P!Request /\ q.at = "check" /\ q.phone = p /\ StageOK(q)
    BY DEF P!Idle, P!Request, StageOK
  <1>2. phoneReq[r].phone = None /\ None \notin Contact
    BY PhoneIdleOK DEF P!Issue, P!PhoneCodesConstants
  <1>3. P!Open(p) # {} => p \in broken'
    BY DEF P!Issue
  <1>4. p \in Contact \ broken' => LiveOK(q) /\ P!Open(p) = {}
    BY <1>1, <1>3 DEF PhoneInv, LiveOK, P!Issue
  <1>5. broken \subseteq broken' /\ broken' \subseteq Contact
    BY DEF P!Issue, PhoneInv, P!TypeOK
  <1>6. phoneReq' = [phoneReq EXCEPT ![r] = q] /\ UNCHANGED <<P!redis, owner>>
    BY DEF P!Issue
  <1> HIDE DEF q
  <1>7. QED  BY <1>1, <1>2, <1>4, <1>5, <1>6, PhoneReadStep

\* A call that ends when the live codes of its phone are the named one.
LEMMA PhoneEndStep ==
  ASSUME P!PhoneCodesConstants, PhoneInv, NEW r \in Req, P!Finish(r), UNCHANGED <<P!redis, owner>>,
         broken \subseteq broken', broken' \subseteq Contact,
         phoneReq[r].phone \in Contact \ broken' =>
             P!LiveCodes(phoneReq[r].phone) \subseteq Named(phoneReq[r].phone)
  PROVE  PhoneInv'
  BY PhoneIdleOK, PhoneReadStep DEF P!Finish, P!PhoneCodesConstants

\* A call that goes on to a stage for which its phone is as it should be.
LEMMA PhoneGoStep ==
  ASSUME P!PhoneCodesConstants, PhoneInv, NEW r \in Req, NEW at \in {"read", "bind", "clean"},
         P!Go(r, at), UNCHANGED <<P!redis, owner, broken>>,
         at = "read" => phoneReq[r].at = "check",
         at = "bind" => phoneReq[r].at = "taken",
         at = "clean" => phoneReq[r].at \in {"taken", "bind"}
  PROVE  PhoneInv'
  <1> DEFINE q == [phoneReq[r] EXCEPT !.at = at]
  <1>1. /\ phoneReq[r] \in P!Request /\ StageOK(phoneReq[r])
        /\ phoneReq[r].phone \in Contact \ broken => LiveOK(phoneReq[r])
    BY DEF PhoneInv, P!TypeOK
  <1>2. /\ q \in P!Request /\ q.at = at /\ q.phone = phoneReq[r].phone /\ q.code = phoneReq[r].code
        /\ q.user = phoneReq[r].user
    BY <1>1 DEF P!Request
  <1>3. phoneReq' = [phoneReq EXCEPT ![r] = q]
    BY DEF P!Go
  <1> HIDE DEF q
  <1>4. StageOK(q)
    BY <1>1, <1>2 DEF StageOK
  <1>5. q.phone \in Contact \ broken => LiveOK(q)
    BY <1>1, <1>2 DEF LiveOK, InHand
  <1>6. QED  BY <1>2, <1>3, <1>4, <1>5, PhoneReadStep DEF PhoneInv, P!TypeOK

LEMMA PhoneCheckPhoneStep ==
  ASSUME P!PhoneCodesConstants, PhoneInv, NEW r \in Req, P!CheckPhone(r)
  PROVE  PhoneInv'
  <1>1. /\ phoneReq[r].at = "check" /\ UNCHANGED <<P!redis, owner, broken>>
        /\ P!Finish(r) \/ P!Go(r, "read")
    BY DEF P!CheckPhone
  <1>2. CASE P!Finish(r)
    BY <1>1, <1>2, PhoneEndStep DEF PhoneInv, P!TypeOK, LiveOK
  <1>3. CASE P!Go(r, "read")
    BY <1>1, <1>3, PhoneGoStep
  <1>4. QED  BY <1>1, <1>2, <1>3

LEMMA PhoneReadPendingStep ==
  ASSUME P!PhoneCodesConstants, PhoneInv, NEW r \in Req, P!ReadPending(r)
  PROVE  PhoneInv'
  <1> DEFINE p  == phoneReq[r].phone
             at == IF pending[p] = None THEN "draw" ELSE "wipe"
             q  == [phoneReq[r] EXCEPT !.at = at, !.code = pending[p]]
  <1>1. /\ phoneReq[r] \in P!Request /\ p \in Contact /\ phoneReq[r].at = "read"
        /\ p \in Contact \ broken => P!LiveCodes(p) \subseteq Named(p)
        /\ UNCHANGED <<P!redis, owner, broken>> /\ broken \subseteq Contact
    BY DEF PhoneInv, P!TypeOK, StageOK, LiveOK, P!ReadPending
  <1>2. pending[p] \in Identity \cup {None}
    BY <1>1 DEF PhoneInv, P!TypeOK
  <1>3. q \in P!Request /\ q.at = at /\ q.phone = p /\ q.code = pending[p]
    BY <1>1, <1>2 DEF P!Request
  <1>4. phoneReq' = [phoneReq EXCEPT ![r] = q]
    BY DEF P!ReadPending
  <1> HIDE DEF q
  <1>5. StageOK(q)
    BY <1>1, <1>2, <1>3 DEF StageOK
  <1>6. p \in Contact \ broken => LiveOK(q)
    BY <1>1, <1>2, <1>3 DEF LiveOK, Named, InHand, P!PhoneCodesConstants
  <1>7. QED  BY <1>1, <1>3, <1>4, <1>5, <1>6, PhoneReadStep

LEMMA PhoneWipeStep ==
  ASSUME P!PhoneCodesConstants, PhoneInv, NEW r \in Req, P!WipeOld(r) \/ P!CleanKeys(r)
  PROVE  PhoneInv'
  <1> DEFINE c == phoneReq[r].code
             q == [phoneReq[r] EXCEPT !.at = "draw"]
  <1>1. /\ phoneReq[r] \in P!Request /\ phoneReq[r].phone \in Contact /\ c \in Identity
        /\ phoneReq[r].phone \in Contact \ broken =>
              P!LiveCodes(phoneReq[r].phone) \subseteq InHand(phoneReq[r])
        /\ otp' = [otp EXCEPT ![c] = None] /\ UNCHANGED <<owner, broken>>
    BY DEF PhoneInv, P!TypeOK, StageOK, LiveOK, P!WipeOld, P!CleanKeys, P!Wiped
  <1>2. otp' \in [Identity -> Contact \cup {None}] /\ \A d \in Identity : otp'[d] \in {otp[d], None}
    BY <1>1 DEF PhoneInv, P!TypeOK
  <1>3. \A x \in Contact : P!LiveCodes(x)' \subseteq P!LiveCodes(x) \ {c}
    BY <1>1, <1>2 DEF P!LiveCodes, P!PhoneCodesConstants, PhoneInv, P!TypeOK
  <1>4. \A x \in Contact \ broken : x = phoneReq[r].phone => P!LiveCodes(x)' = {}
    BY <1>1, <1>3 DEF InHand
  <1>5. CASE P!WipeOld(r)
    <2>1. phoneReq' = [phoneReq EXCEPT ![r] = q] /\ UNCHANGED pending
      BY <1>5 DEF P!WipeOld, P!Go
    <2>2. q \in P!Request /\ q.at = "draw" /\ q.phone = phoneReq[r].phone /\ q.code = c
      BY <1>1 DEF P!Request
    <2> HIDE DEF q
    <2>3. /\ phoneReq' \in [Req -> P!Request] /\ \A s \in Req \ {r} : phoneReq'[s] = phoneReq[s]
          /\ phoneReq'[r] = q
      BY <2>1, <2>2 DEF PhoneInv, P!TypeOK
    <2>4. StageOK(phoneReq'[r])
      BY <1>1, <2>2, <2>3 DEF StageOK
    <2>5. phoneReq'[r].phone \in Contact \ broken' => LiveOK(phoneReq[r])'
      BY <1>1, <1>4, <2>2, <2>3 DEF LiveOK
    <2>6. QED
      BY <1>1, <1>2, <1>3, <2>1, <2>2, <2>3, <2>4, <2>5, PhoneCallStep DEF PhoneInv, P!TypeOK
  <1>6. CASE P!CleanKeys(r)
    <2>1. /\ pending' = [pending EXCEPT ![phoneReq[r].phone] = None]
          /\ phoneReq' = [phoneReq EXCEPT ![r] = P!Idle]
      BY <1>6 DEF P!CleanKeys, P!Finish
    <2>2. /\ phoneReq' \in [Req -> P!Request] /\ \A s \in Req \ {r} : phoneReq'[s] = phoneReq[s]
          /\ phoneReq'[r] = P!Idle
      BY <2>1, PhoneIdleOK DEF PhoneInv, P!TypeOK
    <2>3. /\ pending' \in [Contact -> Identity \cup {None}]
          /\ \A x \in Contact : x # phoneReq[r].phone => pending'[x] = pending[x]
      BY <1>1, <2>1 DEF PhoneInv, P!TypeOK
    <2>4. StageOK(phoneReq'[r]) /\ phoneReq'[r].phone = None /\ None \notin Contact
      BY <2>2, PhoneIdleOK DEF P!PhoneCodesConstants
    <2>5. QED
      BY <1>1, <1>2, <1>3, <1>4, <2>2, <2>3, <2>4, PhoneCallStep DEF PhoneInv, P!TypeOK
  <1>7. QED  BY <1>5, <1>6

LEMMA PhoneDrawStep ==
  ASSUME P!PhoneCodesConstants, PhoneInv, NEW r \in Req, NEW c \in Identity, P!DrawCode(r, c)
  PROVE  PhoneInv'
  <1> DEFINE p == phoneReq[r].phone
             q == [phoneReq[r] EXCEPT !.at = "point", !.code = c]
  <1>1. /\ phoneReq[r] \in P!Request /\ p \in Contact /\ otp[c] = None
        /\ p \in Contact \ broken => P!LiveCodes(p) = {}
        /\ otp' = [otp EXCEPT ![c] = p] /\ UNCHANGED <<pending, owner, broken>>
        /\ phoneReq' = [phoneReq EXCEPT ![r] = q]
    BY DEF PhoneInv, P!TypeOK, StageOK, LiveOK, P!DrawCode, P!Free
  <1>2. q \in P!Request /\ q.at = "point" /\ q.phone = p /\ q.code = c
    BY <1>1 DEF P!Request
  <1> HIDE DEF q
  <1>3. /\ otp' \in [Identity -> Contact \cup {None}]
        /\ \A d \in Identity : otp'[d] = IF d = c THEN p ELSE otp[d]
    BY <1>1 DEF PhoneInv, P!TypeOK
  <1>4. \A x \in Contact :
           P!LiveCodes(x)' = IF x = p THEN P!LiveCodes(x) \cup {c} ELSE P!LiveCodes(x)
    BY <1>1, <1>3 DEF P!LiveCodes, P!PhoneCodesConstants
  <1>5. /\ phoneReq' \in [Req -> P!Request] /\ \A s \in Req \ {r} : phoneReq'[s] = phoneReq[s]
        /\ phoneReq'[r] = q
    BY <1>1, <1>2 DEF PhoneInv, P!TypeOK
  <1>6. StageOK(phoneReq'[r])
    BY <1>1, <1>2, <1>5 DEF StageOK
  <1>7. phoneReq'[r].phone \in Contact \ broken' => LiveOK(phoneReq[r])'
    BY <1>1, <1>2, <1>4, <1>5 DEF LiveOK, InHand
  <1>8. QED  BY <1>1, <1>2, <1>3, <1>4, <1>5, <1>6, <1>7, PhoneCallStep DEF PhoneInv, P!TypeOK

LEMMA PhonePointStep ==
  ASSUME P!PhoneCodesConstants, PhoneInv, NEW r \in Req, P!PointToCode(r)
  PROVE  PhoneInv'
  <1> DEFINE p == phoneReq[r].phone
             c == phoneReq[r].code
  <1>1. /\ p \in Contact /\ c \in Identity
        /\ p \in Contact \ broken => P!LiveCodes(p) \subseteq InHand(phoneReq[r])
        /\ pending' = [pending EXCEPT ![p] = c] /\ UNCHANGED <<otp, owner, broken>>
        /\ phoneReq' = [phoneReq EXCEPT ![r] = P!Idle]
    BY DEF PhoneInv, P!TypeOK, StageOK, LiveOK, P!PointToCode, P!Finish
  <1>2. /\ phoneReq' \in [Req -> P!Request] /\ \A s \in Req \ {r} : phoneReq'[s] = phoneReq[s]
        /\ phoneReq'[r] = P!Idle
    BY <1>1, PhoneIdleOK DEF PhoneInv, P!TypeOK
  <1>3. /\ pending' \in [Contact -> Identity \cup {None}] /\ pending'[p] = c
        /\ \A x \in Contact : x # p => pending'[x] = pending[x]
    BY <1>1 DEF PhoneInv, P!TypeOK
  <1>4. StageOK(phoneReq'[r]) /\ phoneReq'[r].phone = None /\ None \notin Contact
    BY <1>2, PhoneIdleOK DEF P!PhoneCodesConstants
  <1>5. \A x : P!LiveCodes(x)' = P!LiveCodes(x)
    BY <1>1 DEF P!LiveCodes
  <1>6. \A x \in Contact \ broken' : x = p => P!LiveCodes(x)' \subseteq Named(x)'
    BY <1>1, <1>3, <1>5 DEF Named, InHand
  <1>7. QED  BY <1>1, <1>2, <1>3, <1>4, <1>5, <1>6, PhoneCallStep DEF PhoneInv, P!TypeOK

-----------------------------------------------------------------------------
(* verify_phone *)

LEMMA PhoneVerifyStep ==
  ASSUME P!PhoneCodesConstants, PhoneInv, NEW r \in Req, NEW u \in User, NEW c \in Identity,
         P!Verify(r, u, c)
  PROVE  PhoneInv'
  <1> DEFINE q == [P!Idle EXCEPT !.at = "find", !.code = c, !.user = u]
  <1>1. q \in P!Request /\ StageOK(q) /\ q.phone = None
    BY DEF P!Idle, P!Request, StageOK
  <1>2. phoneReq[r].phone = None /\ None \notin Contact
    BY PhoneIdleOK DEF P!Verify, P!PhoneCodesConstants
  <1>3. phoneReq' = [phoneReq EXCEPT ![r] = q] /\ UNCHANGED <<P!redis, owner, broken>>
    BY DEF P!Verify
  <1> HIDE DEF q
  <1>4. QED  BY <1>1, <1>2, <1>3, PhoneReadStep DEF PhoneInv, P!TypeOK

LEMMA PhoneFindStep ==
  ASSUME P!PhoneCodesConstants, PhoneInv, NEW r \in Req, P!FindCode(r)
  PROVE  PhoneInv'
  <1> DEFINE c == phoneReq[r].code
             p == otp[c]
             q == [phoneReq[r] EXCEPT !.at = "taken", !.phone = p]
  <1>1. /\ phoneReq[r] \in P!Request /\ phoneReq[r].at = "find" /\ c \in Identity
        /\ phoneReq[r].phone = None
        /\ p \in Contact \cup {None} /\ UNCHANGED <<P!redis, owner>>
    BY DEF PhoneInv, P!TypeOK, StageOK, P!FindCode
  <1>2. CASE p = None
    BY <1>1, <1>2, PhoneEndStep DEF P!FindCode, PhoneInv, P!TypeOK, P!PhoneCodesConstants
  <1>3. CASE p # None
    <2>1. p \in Contact
      BY <1>1, <1>3
    <2>2. /\ q \in P!Request /\ q.at = "taken" /\ q.phone = p /\ q.code = c
          /\ q.user = phoneReq[r].user
      BY <1>1, <2>1 DEF P!Request
    <2>3. /\ phoneReq' = [phoneReq EXCEPT ![r] = q]
          /\ broken' = IF P!Open(p) # {} THEN broken \cup {p} ELSE broken
      BY <1>3 DEF P!FindCode
    <2> HIDE DEF q
    <2>4. StageOK(q)
      BY <1>1, <2>1, <2>2 DEF StageOK, PhoneInv
    <2>5. p \in Contact \ broken' => LiveOK(q) /\ P!Open(p) = {}
      <3> SUFFICES ASSUME p \in Contact \ broken' PROVE LiveOK(q) /\ P!Open(p) = {}
        OBVIOUS
      <3>1. P!Open(p) = {} /\ p \in Contact \ broken
        BY <2>3
      <3>2. P!LiveCodes(p) \subseteq Named(p)
        BY <3>1 DEF PhoneInv
      <3>3. c \in P!LiveCodes(p)
        BY <1>1 DEF P!LiveCodes
      <3>4. pending[p] = c
        BY <3>2, <3>3 DEF Named
      <3>5. QED  BY <2>2, <3>1, <3>2, <3>4 DEF LiveOK, Named, InHand
    <2>6. broken \subseteq broken' /\ broken' \subseteq Contact
      BY <2>1, <2>3 DEF PhoneInv, P!TypeOK
    <2>7. None \notin Contact
      BY DEF P!PhoneCodesConstants
    <2>8. QED  BY <1>1, <2>2, <2>3, <2>4, <2>5, <2>6, <2>7, PhoneReadStep
  <1>4. QED  BY <1>2, <1>3

LEMMA PhoneCheckTakenStep ==
  ASSUME P!PhoneCodesConstants, PhoneInv, NEW r \in Req, P!CheckTaken(r)
  PROVE  PhoneInv'
  <1>1. /\ phoneReq[r].at = "taken" /\ UNCHANGED <<P!redis, owner, broken>>
        /\ \E at \in {"bind", "clean"} : P!Go(r, at)
    BY DEF P!CheckTaken
  <1>2. QED  BY <1>1, PhoneGoStep

LEMMA PhoneBindStep ==
  ASSUME P!PhoneCodesConstants, PhoneInv, NEW r \in Req, P!BindPhone(r)
  PROVE  PhoneInv'
  <1> DEFINE p == phoneReq[r].phone
             q == [phoneReq[r] EXCEPT !.at = "clean"]
  <1>1. /\ phoneReq[r] \in P!Request /\ phoneReq[r].at = "bind" /\ p \in Contact /\ StageOK(phoneReq[r])
        /\ p \in Contact \ broken => LiveOK(phoneReq[r])
        /\ UNCHANGED <<P!redis, broken>>
    BY DEF PhoneInv, P!TypeOK, StageOK, P!BindPhone
  <1>2. CASE P!Finish(r) /\ UNCHANGED owner
    BY <1>1, <1>2, PhoneEndStep DEF PhoneInv, P!TypeOK, LiveOK
  <1>3. CASE owner' = [owner EXCEPT ![phoneReq[r].user] = p] /\ P!Go(r, "clean")
    <2>1. q \in P!Request /\ q.at = "clean" /\ q.phone = p /\ q.code = phoneReq[r].code
            /\ q.user = phoneReq[r].user
      BY <1>1 DEF P!Request
    <2>2. phoneReq' = [phoneReq EXCEPT ![r] = q] /\ UNCHANGED <<otp, pending>>
      BY <1>1, <1>3 DEF P!Go, P!redis
    <2> HIDE DEF q
    <2>3. /\ phoneReq' \in [Req -> P!Request] /\ \A s \in Req \ {r} : phoneReq'[s] = phoneReq[s]
          /\ phoneReq'[r] = q
      BY <2>1, <2>2 DEF PhoneInv, P!TypeOK
    <2>4. owner' \in [User -> Contact \cup {None}]
      BY <1>1, <1>3 DEF PhoneInv, P!TypeOK
    <2>5. StageOK(phoneReq'[r])
      BY <1>1, <2>1, <2>3 DEF StageOK
    <2>6. \A x : P!LiveCodes(x)' = P!LiveCodes(x)
      BY <2>2 DEF P!LiveCodes
    <2>7. phoneReq'[r].phone \in Contact \ broken' => LiveOK(phoneReq[r])'
      BY <1>1, <2>1, <2>3, <2>6 DEF LiveOK, InHand
    <2>8. QED
      BY <1>1, <2>1, <2>2, <2>3, <2>4, <2>5, <2>6, <2>7, PhoneCallStep DEF PhoneInv, P!TypeOK
  <1>4. QED  BY <1>2, <1>3 DEF P!BindPhone

-----------------------------------------------------------------------------
(* The invariant *)

\* A call whose phone is marked as broken when it ends.
LEMMA PhoneBreakStep ==
  ASSUME P!PhoneCodesConstants, PhoneInv, NEW r \in Req, P!DrawFails(r) \/ P!Abort(r)
  PROVE  PhoneInv'
  <1>1. /\ P!Finish(r) /\ UNCHANGED <<P!redis, owner>>
        /\ broken \subseteq broken' /\ broken' \subseteq broken \cup {phoneReq[r].phone}
        /\ phoneReq[r].phone \in Contact => phoneReq[r].phone \in broken'
    BY DEF P!DrawFails, P!Abort, P!PhoneCodesConstants
  <1>2. broken' \subseteq Contact
    <2>1. CASE P!DrawFails(r)
      <3>1. phoneReq[r].phone \in Contact
        BY <2>1 DEF P!DrawFails, PhoneInv, StageOK
      <3>2. QED  BY <1>1, <3>1 DEF PhoneInv, P!TypeOK
    <2>2. CASE P!Abort(r)
      <3>1. phoneReq[r].phone \in Contact \cup {None}
        BY DEF PhoneInv, P!TypeOK, P!Request
      <3>2. QED  BY <2>2, <3>1 DEF P!Abort, PhoneInv, P!TypeOK
    <2>3. QED  BY <2>1, <2>2
  <1>3. QED  BY <1>1, <1>2, PhoneEndStep

\* A key that expires.
LEMMA PhoneExpireStep ==
  ASSUME P!PhoneCodesConstants, PhoneInv,
         (\E c \in Identity : P!ExpireCode(c)) \/ (\E p \in Contact : P!ExpirePending(p))
  PROVE  PhoneInv'
  <1>1. UNCHANGED <<owner, phoneReq, broken>>
    BY DEF P!ExpireCode, P!ExpirePending
  <1>2. /\ otp' \in [Identity -> Contact \cup {None}] /\ pending' \in [Contact -> Identity \cup {None}]
        /\ \A c \in Identity : otp'[c] \in {otp[c], None}
        /\ \A p \in Contact : pending'[p] = pending[p]
                               \/ (UNCHANGED otp /\ otp[pending[p]] # p)
    BY DEF P!ExpireCode, P!ExpirePending, PhoneInv, P!TypeOK
  <1>3. P!TypeOK' /\ OneCall' /\ \A r \in Req : StageOK(phoneReq'[r])
    BY <1>1, <1>2 DEF PhoneInv, P!TypeOK, OneCall
  <1>4. \A p \in Contact : P!LiveCodes(p)' \subseteq P!LiveCodes(p)
    BY <1>2 DEF P!LiveCodes, P!PhoneCodesConstants
  <1>5. \A p \in Contact : P!LiveCodes(p) \subseteq Named(p) => P!LiveCodes(p)' \subseteq Named(p)'
    <2> SUFFICES ASSUME NEW p \in Contact, P!LiveCodes(p) \subseteq Named(p)
                 PROVE  P!LiveCodes(p)' \subseteq Named(p)'
      OBVIOUS
    <2>1. CASE pending'[p] = pending[p]
      BY <1>4, <2>1 DEF Named
    <2>2. CASE otp[pending[p]] # p
      BY <1>4, <2>2 DEF Named, P!LiveCodes
    <2>3. QED  BY <1>2, <2>1, <2>2
  <1>6. ASSUME NEW r \in Req, phoneReq'[r].phone \in Contact \ broken'
        PROVE  LiveOK(phoneReq[r])'
    <2>1. phoneReq'[r] = phoneReq[r] /\ LiveOK(phoneReq[r]) /\ phoneReq[r].phone \in Contact
      BY <1>1, <1>6 DEF PhoneInv
    <2> DEFINE p == phoneReq[r].phone
    <2>2. /\ P!LiveCodes(p)' \subseteq P!LiveCodes(p)
          /\ P!LiveCodes(p) \subseteq Named(p) => P!LiveCodes(p)' \subseteq Named(p)'
      BY <1>4, <1>5, <2>1
    <2>3. InHand(phoneReq[r])' = InHand(phoneReq[r])
      BY <2>1 DEF InHand
    <2>4. QED  BY <2>1, <2>2, <2>3 DEF LiveOK
  <1>7. ASSUME NEW p \in Contact \ broken', P!Open(p)' = {}
        PROVE  P!LiveCodes(p)' \subseteq Named(p)'
    <2>1. p \in Contact \ broken /\ P!Open(p) = {}
      BY <1>1, <1>7 DEF P!Open
    <2>2. QED  BY <1>5, <2>1 DEF PhoneInv
  <1>8. QED  BY <1>3, <1>6, <1>7 DEF PhoneInv

LEMMA PhoneNextIInv ==
  ASSUME P!PhoneCodesConstants, PhoneInv, [P!Next]_(P!vars)
  PROVE  PhoneInv'
  <1>1. CASE UNCHANGED P!vars
    BY <1>1 DEF P!vars, P!redis, PhoneInv, P!TypeOK, OneCall, LiveOK, P!Open, P!LiveCodes,
                Named, InHand
  <1>2. ASSUME NEW r \in Req, NEW p \in Contact, P!Issue(r, p)
        PROVE  PhoneInv'
    BY <1>2, PhoneIssueStep
  <1>3. ASSUME NEW r \in Req, NEW u \in User, NEW c \in Identity, P!Verify(r, u, c)
        PROVE  PhoneInv'
    BY <1>3, PhoneVerifyStep
  <1>4. ASSUME NEW r \in Req, P!Step(r)
        PROVE  PhoneInv'
    BY <1>4, PhoneCheckPhoneStep, PhoneReadPendingStep, PhoneWipeStep, PhoneDrawStep,
       PhoneBreakStep, PhonePointStep,
       PhoneFindStep, PhoneCheckTakenStep, PhoneBindStep DEF P!Step
  <1>5. ASSUME NEW r \in Req, P!Abort(r)
        PROVE  PhoneInv'
    BY <1>5, PhoneBreakStep
  <1>6. QED  BY <1>1, <1>2, <1>3, <1>4, <1>5, PhoneExpireStep DEF P!Next

-----------------------------------------------------------------------------
(* Registration *)

\* A pending row has the password of the last registration of its e-mail.
PendingIsLatest ==
    \A e \in Contact : waiting[e] # None => waiting[e].password = latest[e]

TablesOK ==
    /\ users \in [User -> R!Account \cup {None}]
    /\ waiting \in [Contact -> R!Pending \cup {None}]
    /\ used \subseteq Token
    /\ latest \in [Contact -> Token \cup {None}]
    /\ PendingIsLatest /\ R!RedeemedPassword

\* A call has what its stage needs; the row a redemption has read had the
\* password registered last; what a sign-in has met can be found, unless an
\* account has lost what it could be found by.
SignupOK(q) ==
    /\ q \in R!Request
    /\ q.at \in {"pending", "write", "resend", "check", "create", "sub", "email", "save"} =>
          q.email \in Contact
    /\ q.at \in {"check", "create"} => q.row \in R!Pending /\ q.row.password = q.expected
    /\ q.at \in {"sub", "email", "save"} => q.sub \in Identity
    /\ q.found # None => q.found \in R!Accounts
    /\ q.again = "insert" /\ ~q.gone /\ q.at = "sub" =>
          R!BySub(q.sub) # {} \/ R!ByEmail(q.email) # {}
    /\ q.again = "insert" /\ ~q.gone /\ q.at = "email" => R!ByEmail(q.email) # {}
    /\ q.at = "refused" => q.gone

SignupInv == TablesOK /\ signup \in [Req -> R!Request] /\ \A r \in Req : SignupOK(signup[r])

LEMMA SignupIdleOK ==
  /\ R!Idle \in R!Request /\ SignupOK(R!Idle) /\ R!Idle.at = "idle" /\ R!Idle.found = None
  BY DEF R!Idle, R!Request, SignupOK

LEMMA SignupInitIInv ==
  ASSUME R!RegistrationConstants, R!Init
  PROVE  SignupInv
  BY SignupIdleOK DEF R!Init, SignupInv, TablesOK, PendingIsLatest, R!RedeemedPassword, R!Accounts

\* A call that goes on or ends and writes nothing.
LEMMA SignupCallStep ==
  ASSUME SignupInv, NEW r \in Req, NEW q, SignupOK(q), UNCHANGED <<R!db, latest>>, R!Become(r, q)
  PROVE  SignupInv'
  <1>1. UNCHANGED <<users, waiting, used, latest>>
    BY DEF R!db
  <1>2. TablesOK'
    BY <1>1 DEF SignupInv, TablesOK, PendingIsLatest, R!RedeemedPassword, R!Accounts
  <1>3. \A s \in Req : signup'[s] = IF s = r THEN q ELSE signup[s]
    BY DEF SignupInv, R!Become
  <1>4. signup' \in [Req -> R!Request]
    BY DEF SignupInv, R!Become, SignupOK
  <1>5. /\ R!Accounts' = R!Accounts
        /\ \A x : R!BySub(x)' = R!BySub(x) /\ R!ByEmail(x)' = R!ByEmail(x)
    BY <1>1 DEF R!Accounts, R!BySub, R!ByEmail
  <1>6. \A s \in Req : SignupOK(signup'[s])
    BY <1>3 DEF SignupInv
  <1>7. \A s \in Req : SignupOK(signup[s])'
    BY <1>5, <1>6 DEF SignupOK
  <1>8. QED  BY <1>2, <1>4, <1>7 DEF SignupInv

LEMMA SignupEndStep ==
  ASSUME SignupInv, NEW r \in Req, UNCHANGED <<R!db, latest>>, R!Finish(r)
  PROVE  SignupInv'
  BY SignupIdleOK, SignupCallStep DEF R!Finish

\* A write after which every account can be found as before.
LEMMA SignupWriteStep ==
  ASSUME SignupInv, NEW r \in Req, R!Finish(r), TablesOK', R!Accounts \subseteq R!Accounts',
         \A s \in Identity : R!BySub(s) \subseteq R!BySub(s)',
         \A e \in Contact : R!ByEmail(e) \subseteq R!ByEmail(e)'
  PROVE  SignupInv'
  <1>1. \A s \in Req : signup'[s] = IF s = r THEN R!Idle ELSE signup[s]
    BY DEF SignupInv, R!Finish, R!Become
  <1>2. signup' \in [Req -> R!Request]
    BY SignupIdleOK DEF SignupInv, R!Finish, R!Become
  <1>3. \A s \in Req : SignupOK(signup'[s])
    BY <1>1, SignupIdleOK DEF SignupInv
  <1>4. \A s \in Req : SignupOK(signup[s])'
    BY <1>3 DEF SignupOK
  <1>5. QED  BY <1>2, <1>4 DEF SignupInv

\* A write after which an account can no longer be found: the open calls know.
LEMMA SignupLosingStep ==
  ASSUME SignupInv, NEW r, signup' = [R!Unsettled EXCEPT ![r] = R!Idle] \/ signup' = R!Unsettled,
         TablesOK', R!Accounts \subseteq R!Accounts'
  PROVE  SignupInv'
  <1>1. \A s \in Req : signup'[s] = R!Idle \/ signup'[s] = [signup[s] EXCEPT !.gone = TRUE]
    BY DEF R!Unsettled
  <1>2. \A s \in Req : SignupOK(signup[s]) /\ signup[s] \in R!Request
    BY DEF SignupInv, SignupOK
  <1>3. \A s \in Req : signup'[s] \in R!Request /\ SignupOK(signup[s])'
    <2> SUFFICES ASSUME NEW s \in Req PROVE signup'[s] \in R!Request /\ SignupOK(signup[s])'
      OBVIOUS
    <2>1. CASE signup'[s] = R!Idle
      BY <2>1, SignupIdleOK DEF SignupOK, R!Idle
    <2>2. CASE signup'[s] = [signup[s] EXCEPT !.gone = TRUE]
      <3>1. /\ signup'[s] \in R!Request /\ signup'[s].gone
            /\ signup'[s].at = signup[s].at /\ signup'[s].email = signup[s].email
            /\ signup'[s].row = signup[s].row /\ signup'[s].expected = signup[s].expected
            /\ signup'[s].sub = signup[s].sub /\ signup'[s].found = signup[s].found
        BY <1>2, <2>2 DEF R!Request
      <3>2. QED  BY <1>2, <3>1 DEF SignupOK
    <2>3. QED  BY <1>1, <2>1, <2>2
  <1>4. signup' \in [Req -> R!Request]
    BY <1>3 DEF R!Unsettled
  <1>5. QED  BY <1>3, <1>4 DEF SignupInv

-----------------------------------------------------------------------------
(* Registrations *)

LEMMA SignupSavePendingStep ==
  ASSUME R!RegistrationConstants, SignupInv, NEW r \in Req, NEW t \in Token, R!SavePending(r, t)
  PROVE  SignupInv'
  <1> DEFINE e   == signup[r].email
             row == R!Overwritten(waiting[e], t)
  <1>1. e \in Contact /\ R!Finish(r) /\ users' = users
    BY DEF SignupInv, SignupOK, R!SavePending
  <1>2. R!Accounts' = R!Accounts /\ \A x : R!BySub(x)' = R!BySub(x) /\ R!ByEmail(x)' = R!ByEmail(x)
    BY <1>1 DEF R!Accounts, R!BySub, R!ByEmail
  <1>3. CASE UNCHANGED <<waiting, used, latest>>
    BY <1>1, <1>3, SignupEndStep DEF R!db
  <1>4. CASE /\ waiting' = [waiting EXCEPT ![e] = row]
             /\ used' = used \cup {t}
             /\ latest' = [latest EXCEPT ![e] = t]
    <2>1. row \in R!Pending /\ row.password = t
      BY <1>1 DEF SignupInv, TablesOK, R!Overwritten, R!Pending
    <2> HIDE DEF row
    <2>2. waiting' \in [Contact -> R!Pending \cup {None}] /\ latest' \in [Contact -> Token \cup {None}]
      BY <1>1, <1>4, <2>1 DEF SignupInv, TablesOK
    <2>3. \A x \in Contact : /\ waiting'[x] = IF x = e THEN row ELSE waiting[x]
                             /\ latest'[x] = IF x = e THEN t ELSE latest[x]
      BY <1>1, <1>4 DEF SignupInv, TablesOK
    <2>4. PendingIsLatest'
      BY <2>1, <2>3 DEF SignupInv, TablesOK, PendingIsLatest
    <2>5. R!RedeemedPassword'
      BY <1>1, <1>2 DEF SignupInv, TablesOK, R!RedeemedPassword
    <2>6. TablesOK'
      BY <1>1, <1>4, <2>2, <2>4, <2>5 DEF SignupInv, TablesOK
    <2>7. QED  BY <1>1, <1>2, <2>6, SignupWriteStep
  <1>5. QED  BY <1>3, <1>4 DEF R!SavePending

LEMMA SignupSaveResendStep ==
  ASSUME R!RegistrationConstants, SignupInv, NEW r \in Req, NEW t \in Token, R!SaveResend(r, t)
  PROVE  SignupInv'
  <1> DEFINE e   == signup[r].email
             row == [waiting[e] EXCEPT !.token = t]
  <1>1. e \in Contact /\ R!Finish(r) /\ UNCHANGED <<users, latest>>
    BY DEF SignupInv, SignupOK, R!SaveResend
  <1>2. R!Accounts' = R!Accounts /\ \A x : R!BySub(x)' = R!BySub(x) /\ R!ByEmail(x)' = R!ByEmail(x)
    BY <1>1 DEF R!Accounts, R!BySub, R!ByEmail
  <1>3. CASE UNCHANGED <<waiting, used>>
    BY <1>1, <1>3, SignupEndStep DEF R!db
  <1>4. CASE /\ R!SameRow(waiting[e], signup[r].row)
             /\ waiting' = [waiting EXCEPT ![e] = row]
             /\ used' = used \cup {t}
    <2>1. waiting[e] \in R!Pending /\ waiting[e] # None
      BY <1>1, <1>4 DEF SignupInv, TablesOK, R!SameRow
    <2>2. row \in R!Pending /\ row.password = waiting[e].password
      BY <2>1 DEF R!Pending
    <2> HIDE DEF row
    <2>3. waiting' \in [Contact -> R!Pending \cup {None}]
      BY <1>1, <1>4, <2>2 DEF SignupInv, TablesOK
    <2>4. \A x \in Contact : waiting'[x] = IF x = e THEN row ELSE waiting[x]
      BY <1>1, <1>4 DEF SignupInv, TablesOK
    <2>5. PendingIsLatest'
      BY <1>1, <2>1, <2>2, <2>4 DEF SignupInv, TablesOK, PendingIsLatest
    <2>6. R!RedeemedPassword'
      BY <1>1, <1>2 DEF SignupInv, TablesOK, R!RedeemedPassword
    <2>7. TablesOK'
      BY <1>1, <1>4, <2>3, <2>5, <2>6 DEF SignupInv, TablesOK
    <2>8. QED  BY <1>1, <1>2, <2>7, SignupWriteStep
  <1>5. QED  BY <1>3, <1>4 DEF R!SaveResend, R!Reissued

\* An account that is inserted with the password it was expected to have.
LEMMA SignupNewAccountStep ==
  ASSUME R!RegistrationConstants, SignupInv, NEW r \in Req, NEW u \in User, u \notin R!Accounts,
         NEW a \in R!Account, a.password = a.expected, users' = [users EXCEPT ![u] = a],
         waiting' \in [Contact -> R!Pending \cup {None}], PendingIsLatest',
         UNCHANGED <<used, latest>>, R!Finish(r)
  PROVE  SignupInv'
  <1>1. users' \in [User -> R!Account \cup {None}]
    BY DEF SignupInv, TablesOK
  <1>2. \A v \in User : users'[v] = IF v = u THEN a ELSE users[v]
    BY DEF SignupInv, TablesOK
  <1>3. R!Accounts' = R!Accounts \cup {u}
    BY <1>2 DEF R!Accounts, R!RegistrationConstants
  <1>4. /\ \A x : R!BySub(x) \subseteq R!BySub(x)'
        /\ \A x : R!ByEmail(x) \subseteq R!ByEmail(x)'
    BY <1>2, <1>3 DEF R!BySub, R!ByEmail, R!Accounts
  <1>5. R!RedeemedPassword'
    BY <1>2, <1>3 DEF SignupInv, TablesOK, R!RedeemedPassword, R!Accounts
  <1>6. TablesOK'
    BY <1>1, <1>5 DEF SignupInv, TablesOK
  <1>7. QED  BY <1>3, <1>4, <1>6, SignupWriteStep

LEMMA SignupCreateAccountStep ==
  ASSUME R!RegistrationConstants, SignupInv, NEW r \in Req, NEW u \in User, R!CreateAccount(r, u)
  PROVE  SignupInv'
  <1> DEFINE q == signup[r]
             a == [email |-> q.email, sub |-> None,
                   password |-> q.row.password, expected |-> q.expected]
  <1>1. /\ q.email \in Contact /\ q.row \in R!Pending /\ q.row.password = q.expected
        /\ u \notin R!Accounts /\ R!Finish(r) /\ UNCHANGED <<used, latest>>
    BY DEF SignupInv, SignupOK, R!CreateAccount
  <1>2. CASE UNCHANGED <<users, waiting>>
    BY <1>1, <1>2, SignupEndStep DEF R!db
  <1>3. CASE /\ users' = [users EXCEPT ![u] = a]
             /\ waiting' = [waiting EXCEPT ![q.email] =
                               IF R!SameRow(waiting[q.email], q.row) THEN None
                               ELSE waiting[q.email]]
    <2>1. a \in R!Account /\ a.password = a.expected
      BY <1>1 DEF R!Account, R!Pending
    <2> HIDE DEF a
    <2>2. \A x \in Contact : waiting'[x] = waiting[x] \/ waiting'[x] = None
      BY <1>3 DEF SignupInv, TablesOK
    <2>3. waiting' \in [Contact -> R!Pending \cup {None}]
      BY <1>3, <2>2 DEF SignupInv, TablesOK
    <2>4. PendingIsLatest'
      BY <1>1, <2>2 DEF SignupInv, TablesOK, PendingIsLatest
    <2>5. QED  BY <1>1, <1>3, <2>1, <2>3, <2>4, SignupNewAccountStep
  <1>4. QED  BY <1>2, <1>3 DEF R!CreateAccount

-----------------------------------------------------------------------------
(* Sign-ins with Google *)

\* Looking up again after a conflict.
LEMMA SignupAgainStep ==
  ASSUME SignupInv, NEW r \in Req, signup[r].at = "save", NEW write \in {"link", "insert"},
         write = "insert" => R!BySub(signup[r].sub) # {} \/ R!ByEmail(signup[r].email) # {},
         UNCHANGED <<R!db, latest>>, R!Become(r, R!LookupAgain(signup[r], write))
  PROVE  SignupInv'
  <1> DEFINE q == R!LookupAgain(signup[r], write)
  <1>1. SignupOK(signup[r]) /\ signup[r] \in R!Request
    BY DEF SignupInv
  <1>2. /\ q \in R!Request /\ q.at = "sub" /\ q.again = write /\ q.found = None
        /\ q.sub = signup[r].sub /\ q.email = signup[r].email /\ q.row = signup[r].row
    BY <1>1 DEF R!LookupAgain, R!Request
  <1> HIDE DEF q
  <1>3. SignupOK(q)
    BY <1>1, <1>2 DEF SignupOK
  <1>4. QED  BY <1>3, SignupCallStep DEF q

LEMMA SignupLinkStep ==
  ASSUME R!RegistrationConstants, SignupInv, NEW r \in Req, R!LinkAccount(r)
  PROVE  SignupInv'
  <1> DEFINE q == signup[r]
             u == q.found
             a == [users[u] EXCEPT !.sub = q.sub]
  <1>1. /\ u \in R!Accounts /\ u \in User /\ q.sub \in Identity /\ q.at = "save"
        /\ UNCHANGED <<waiting, used, latest>>
    BY DEF SignupInv, SignupOK, R!LinkAccount, R!Accounts
  <1>2. CASE users' = users /\ R!Become(r, R!LookupAgain(q, "link"))
    BY <1>1, <1>2, SignupAgainStep DEF R!db
  <1>3. CASE /\ users' = [users EXCEPT ![u].sub = q.sub]
             /\ IF users[u].sub \in {None, q.sub} THEN R!Finish(r)
                ELSE signup' = [R!Unsettled EXCEPT ![r] = R!Idle]
    <2>1. users[u] \in R!Account
      BY <1>1 DEF SignupInv, TablesOK, R!Accounts
    <2>2. /\ a \in R!Account /\ a.sub = q.sub /\ a.email = users[u].email
          /\ a.password = users[u].password /\ a.expected = users[u].expected
      BY <1>1, <2>1 DEF R!Account
    <2>3. users' = [users EXCEPT ![u] = a]
      BY <1>3
    <2> HIDE DEF a
    <2>4. \A v \in User : users'[v] = IF v = u THEN a ELSE users[v]
      BY <2>3 DEF SignupInv, TablesOK
    <2>5. users' \in [User -> R!Account \cup {None}]
      BY <2>2, <2>3 DEF SignupInv, TablesOK
    <2>6. R!Accounts' = R!Accounts
      BY <1>1, <2>2, <2>4 DEF R!Accounts, R!RegistrationConstants
    <2>7. R!RedeemedPassword'
      BY <2>2, <2>4, <2>6 DEF SignupInv, TablesOK, R!RedeemedPassword, R!Accounts
    <2>8. PendingIsLatest'
      BY <1>1 DEF SignupInv, TablesOK, PendingIsLatest
    <2>9. TablesOK'
      BY <1>1, <2>5, <2>7, <2>8 DEF SignupInv, TablesOK
    <2>10. CASE users[u].sub \in {None, q.sub}
      <3>1. \A s \in Identity : R!BySub(s) \subseteq R!BySub(s)'
        BY <2>2, <2>4, <2>6, <2>10 DEF R!BySub, R!Accounts, R!RegistrationConstants
      <3>2. \A e \in Contact : R!ByEmail(e) \subseteq R!ByEmail(e)'
        BY <2>2, <2>4, <2>6 DEF R!ByEmail, R!Accounts
      <3>3. QED  BY <1>3, <2>6, <2>9, <2>10, <3>1, <3>2, SignupWriteStep
    <2>11. CASE users[u].sub \notin {None, q.sub}
      BY <1>3, <2>6, <2>9, <2>11, SignupLosingStep
    <2>12. QED  BY <2>10, <2>11
  <1>4. QED  BY <1>2, <1>3 DEF R!LinkAccount

LEMMA SignupInsertStep ==
  ASSUME R!RegistrationConstants, SignupInv, NEW r \in Req, NEW u \in User, R!InsertAccount(r, u)
  PROVE  SignupInv'
  <1> DEFINE q == signup[r]
             a == [email |-> q.email, sub |-> q.sub, password |-> None, expected |-> None]
  <1>1. /\ q.sub \in Identity /\ q.email \in Contact /\ q.at = "save" /\ u \notin R!Accounts
        /\ UNCHANGED <<waiting, used, latest>>
    BY DEF SignupInv, SignupOK, R!InsertAccount
  <1>2. CASE /\ R!BySub(q.sub) \cup R!ByEmail(q.email) # {}
             /\ users' = users /\ R!Become(r, R!LookupAgain(q, "insert"))
    BY <1>1, <1>2, SignupAgainStep DEF R!db
  <1>3. CASE users' = [users EXCEPT ![u] = a] /\ R!Finish(r)
    <2>1. a \in R!Account /\ a.password = a.expected
      BY <1>1 DEF R!Account
    <2> HIDE DEF a
    <2>2. PendingIsLatest' /\ waiting' \in [Contact -> R!Pending \cup {None}]
      BY <1>1 DEF SignupInv, TablesOK, PendingIsLatest
    <2>3. QED  BY <1>1, <1>3, <2>1, <2>2, SignupNewAccountStep
  <1>4. QED  BY <1>2, <1>3 DEF R!InsertAccount

\* A lookup that has found an account.
LEMMA SignupSettleStep ==
  ASSUME SignupInv, NEW r \in Req, signup[r].at \in {"sub", "email"}, NEW u \in R!Accounts,
         UNCHANGED <<R!db, latest>>, R!Settle(r, u)
  PROVE  SignupInv'
  <1> DEFINE q == [signup[r] EXCEPT !.at = "save", !.found = u]
  <1>1. SignupOK(signup[r]) /\ signup[r] \in R!Request /\ u \in User
    BY DEF SignupInv, R!Accounts
  <1>2. /\ q \in R!Request /\ q.at = "save" /\ q.found = u
        /\ q.sub = signup[r].sub /\ q.email = signup[r].email
    BY <1>1 DEF R!Request
  <1>3. CASE R!Become(r, q)
    <2> HIDE DEF q
    <2>1. SignupOK(q)
      BY <1>1, <1>2 DEF SignupOK
    <2>2. QED  BY <1>3, <2>1, SignupCallStep
  <1>4. QED  BY <1>3, SignupEndStep DEF R!Settle

LEMMA SignupLookupStep ==
  ASSUME SignupInv, NEW r \in Req, R!LookupSub(r) \/ R!LookupEmail(r)
  PROVE  SignupInv'
  <1>1. SignupOK(signup[r]) /\ signup[r] \in R!Request /\ UNCHANGED <<R!db, latest>>
    BY DEF SignupInv, R!LookupSub, R!LookupEmail
  <1>2. ASSUME NEW at \in {"email", "save", "refused"}, signup[r].at \in {"sub", "email"},
               R!Become(r, [signup[r] EXCEPT !.at = at]),
               at = "email" => signup[r].at = "sub" /\ R!BySub(signup[r].sub) = {},
               at = "refused" => signup[r].again = "insert" /\ signup[r].at = "email"
                                   /\ R!ByEmail(signup[r].email) = {}
        PROVE  SignupInv'
    <2> DEFINE q == [signup[r] EXCEPT !.at = at]
    <2>1. /\ q \in R!Request /\ q.at = at /\ q.sub = signup[r].sub /\ q.email = signup[r].email
          /\ q.again = signup[r].again /\ (q.gone <=> signup[r].gone) /\ q.found = signup[r].found
      BY <1>1 DEF R!Request
    <2> HIDE DEF q
    <2>2. SignupOK(q)
      BY <1>1, <1>2, <2>1 DEF SignupOK
    <2>3. R!Become(r, q)
      BY <1>2 DEF q
    <2>4. QED  BY <1>1, <2>2, <2>3, SignupCallStep
  <1>3. ASSUME NEW u \in R!Accounts, R!Settle(r, u), signup[r].at \in {"sub", "email"}
        PROVE  SignupInv'
    BY <1>1, <1>3, SignupSettleStep
  <1>4. CASE R!LookupSub(r)
    <2>1. CASE R!BySub(signup[r].sub) = {}
      BY <1>2, <1>4, <2>1 DEF R!LookupSub
    <2>2. CASE R!BySub(signup[r].sub) # {}
      <3>1. PICK u \in R!BySub(signup[r].sub) : R!Settle(r, u)
        BY <1>4, <2>2 DEF R!LookupSub
      <3>2. QED  BY <1>3, <1>4, <3>1 DEF R!LookupSub, R!BySub
    <2>3. QED  BY <2>1, <2>2
  <1>5. CASE R!LookupEmail(r)
    <2>1. CASE R!ByEmail(signup[r].email) = {}
      <3>1. CASE signup[r].again = "insert"
        BY <1>2, <1>5, <2>1, <3>1 DEF R!LookupEmail, R!HasEmail
      <3>2. CASE signup[r].again # "insert"
        BY <1>2, <1>5, <2>1, <3>2 DEF R!LookupEmail, R!HasEmail
      <3>3. QED  BY <3>1, <3>2
    <2>2. CASE R!ByEmail(signup[r].email) # {}
      <3>1. PICK u \in R!ByEmail(signup[r].email) : R!Settle(r, u)
        BY <1>5, <2>2 DEF R!LookupEmail, R!HasEmail
      <3>2. QED  BY <1>3, <1>5, <3>1 DEF R!LookupEmail, R!ByEmail
    <2>3. QED  BY <2>1, <2>2
  <1>6. QED  BY <1>4, <1>5

-----------------------------------------------------------------------------
(* The invariant *)

\* The first step of each call, and those that only read.
LEMMA SignupBeginStep ==
  ASSUME R!RegistrationConstants, SignupInv, NEW r \in Req, NEW e \in Contact,
         R!Register(r, e) \/ R!Resend(r, e) \/ R!VerifyEmail(r, e)
           \/ \E s \in Identity : R!GoogleLogin(r, s, e)
  PROVE  SignupInv'
  <1>1. UNCHANGED <<R!db, latest>>
    BY DEF R!Register, R!Resend, R!VerifyEmail, R!GoogleLogin
  <1>2. waiting[e] \in R!Pending \cup {None} /\ latest[e] \in Token \cup {None}
    BY DEF SignupInv, TablesOK
  <1>3. CASE R!Register(r, e)
    <2>1. SignupOK([R!Idle EXCEPT !.at = "pending", !.email = e])
      BY SignupIdleOK DEF R!Idle, SignupOK, R!Request
    <2>2. QED  BY <1>1, <1>3, <2>1, SignupCallStep DEF R!Register
  <1>4. CASE R!Resend(r, e)
    <2>1. SignupOK([R!Idle EXCEPT !.at = "resend", !.email = e, !.row = waiting[e]])
      BY <1>2, SignupIdleOK DEF R!Idle, SignupOK, R!Request
    <2>2. QED  BY <1>1, <1>4, <2>1, SignupCallStep DEF R!Resend
  <1>5. CASE R!VerifyEmail(r, e)
    <2>1. waiting[e] \in R!Pending /\ waiting[e].password = latest[e]
      BY <1>2, <1>5 DEF R!VerifyEmail, SignupInv, TablesOK, PendingIsLatest
    <2>2. SignupOK([R!Idle EXCEPT !.at = "check", !.email = e, !.row = waiting[e],
                              !.expected = latest[e]])
      BY <1>2, <2>1, SignupIdleOK DEF R!Idle, SignupOK, R!Request
    <2>3. QED  BY <1>1, <1>5, <2>2, SignupCallStep DEF R!VerifyEmail
  <1>6. ASSUME NEW s \in Identity, R!GoogleLogin(r, s, e)
        PROVE  SignupInv'
    <2>1. SignupOK([R!Idle EXCEPT !.at = "sub", !.sub = s, !.email = e])
      BY SignupIdleOK DEF R!Idle, SignupOK, R!Request
    <2>2. QED  BY <1>1, <1>6, <2>1, SignupCallStep DEF R!GoogleLogin
  <1>7. QED  BY <1>3, <1>4, <1>5, <1>6

LEMMA SignupReadStep ==
  ASSUME SignupInv, NEW r \in Req,
         R!FindPending(r) \/ R!CheckAccount(r) \/ R!Refuse(r) \/ R!Abort(r)
  PROVE  SignupInv'
  <1>1. SignupOK(signup[r]) /\ signup[r] \in R!Request /\ UNCHANGED <<R!db, latest>>
    BY DEF SignupInv, R!FindPending, R!CheckAccount, R!Refuse, R!Abort
  <1>2. CASE R!FindPending(r)
    <2> DEFINE q == [signup[r] EXCEPT !.at = "write", !.row = waiting[signup[r].email]]
    <2>1. waiting[signup[r].email] \in R!Pending \cup {None}
      BY <1>1, <1>2 DEF SignupInv, TablesOK, SignupOK, R!FindPending
    <2>2. /\ q \in R!Request /\ q.at = "write" /\ q.email = signup[r].email
          /\ q.found = signup[r].found
      BY <1>1, <2>1 DEF R!Request
    <2> HIDE DEF q
    <2>3. SignupOK(q)
      BY <1>1, <1>2, <2>2 DEF SignupOK, R!FindPending
    <2>4. QED  BY <1>1, <1>2, <2>3, SignupCallStep DEF R!FindPending, q
  <1>3. CASE R!CheckAccount(r)
    <2> DEFINE q == [signup[r] EXCEPT !.at = "create"]
    <2>1. /\ q \in R!Request /\ q.at = "create" /\ q.email = signup[r].email
          /\ q.found = signup[r].found /\ q.row = signup[r].row /\ q.expected = signup[r].expected
      BY <1>1 DEF R!Request
    <2>2. CASE R!Become(r, q)
      <3> HIDE DEF q
      <3>1. SignupOK(q)
        BY <1>1, <1>3, <2>1 DEF SignupOK, R!CheckAccount
      <3>2. QED  BY <1>1, <2>2, <3>1, SignupCallStep
    <2>3. QED  BY <1>1, <1>3, <2>2, SignupEndStep DEF R!CheckAccount
  <1>4. CASE R!Refuse(r) \/ R!Abort(r)
    BY <1>1, <1>4, SignupEndStep DEF R!Refuse, R!Abort
  <1>5. QED  BY <1>2, <1>3, <1>4

LEMMA SignupDeleteStep ==
  ASSUME R!RegistrationConstants, SignupInv, NEW u \in User, R!DeleteMe(u)
  PROVE  SignupInv'
  <1> DEFINE a == [users[u] EXCEPT !.email = None]
  <1>1. /\ u \in R!Accounts /\ users' = [users EXCEPT ![u] = a] /\ signup' = R!Unsettled
        /\ UNCHANGED <<waiting, used, latest>>
    BY DEF R!DeleteMe
  <1>2. users[u] \in R!Account
    BY <1>1 DEF SignupInv, TablesOK, R!Accounts
  <1>3. a \in R!Account /\ a.password = users[u].password /\ a.expected = users[u].expected
    BY <1>2 DEF R!Account
  <1> HIDE DEF a
  <1>4. \A v \in User : users'[v] = IF v = u THEN a ELSE users[v]
    BY <1>1 DEF SignupInv, TablesOK
  <1>5. R!Accounts' = R!Accounts
    BY <1>1, <1>3, <1>4 DEF R!Accounts, R!RegistrationConstants
  <1>6. R!RedeemedPassword'
    BY <1>3, <1>4, <1>5 DEF SignupInv, TablesOK, R!RedeemedPassword, R!Accounts
  <1>7. users' \in [User -> R!Account \cup {None}]
    BY <1>1, <1>3 DEF SignupInv, TablesOK
  <1>8. TablesOK'
    BY <1>1, <1>6, <1>7 DEF SignupInv, TablesOK, PendingIsLatest
  <1>9. QED  BY <1>1, <1>5, <1>8, SignupLosingStep

LEMMA SignupNextIInv ==
  ASSUME R!RegistrationConstants, SignupInv, [R!Next]_(R!vars)
  PROVE  SignupInv'
  <1>1. CASE UNCHANGED R!vars
    BY <1>1 DEF R!vars, R!db, SignupInv, TablesOK, PendingIsLatest, R!RedeemedPassword, SignupOK,
                R!Accounts, R!BySub, R!ByEmail
  <1>2. ASSUME NEW r \in Req, R!Handle(r)
        PROVE  SignupInv'
    <2>1. CASE \E e \in Contact : R!Register(r, e) \/ R!Resend(r, e) \/ R!VerifyEmail(r, e)
      BY <2>1, SignupBeginStep
    <2>2. CASE \E s \in Identity, e \in Contact : R!GoogleLogin(r, s, e)
      BY <2>2, SignupBeginStep
    <2>3. CASE R!FindPending(r) \/ R!CheckAccount(r) \/ R!Refuse(r)
      BY <2>3, SignupReadStep
    <2>4. ASSUME NEW t \in Token, R!SavePending(r, t) \/ R!SaveResend(r, t)
          PROVE  SignupInv'
      BY <2>4, SignupSavePendingStep, SignupSaveResendStep
    <2>5. ASSUME NEW u \in User, R!CreateAccount(r, u) \/ R!InsertAccount(r, u)
          PROVE  SignupInv'
      BY <2>5, SignupCreateAccountStep, SignupInsertStep
    <2>6. CASE R!LookupSub(r) \/ R!LookupEmail(r)
      BY <2>6, SignupLookupStep
    <2>7. CASE R!LinkAccount(r)
      BY <2>7, SignupLinkStep
    <2>8. QED  BY <1>2, <2>1, <2>2, <2>3, <2>4, <2>5, <2>6, <2>7 DEF R!Handle
  <1>3. ASSUME NEW r \in Req, R!Abort(r)
        PROVE  SignupInv'
    BY <1>3, SignupReadStep
  <1>4. ASSUME NEW u \in User, R!DeleteMe(u)
        PROVE  SignupInv'
    BY <1>4, SignupDeleteStep
  <1>5. QED  BY <1>1, <1>2, <1>3, <1>4 DEF R!Next

-----------------------------------------------------------------------------
(* The parts of MCAccounts *)

\* A behaviour that is one of a part keeps the invariant of the part, and the
\* others leave its variables alone.
MCInv == (part = "phone" => PhoneInv) /\ (part = "signup" => SignupInv)

LEMMA MCInvariance == MCSpec => []MCInv
  <1>1. MCInit => MCInv
    BY SignupConstants, PhoneInitIInv, SignupInitIInv DEF MCInit, MCInv
  <1>2. MCInv /\ [MCNext]_all => MCInv'
    <2> SUFFICES ASSUME MCInv, [MCNext]_all
                 PROVE  MCInv'
      OBVIOUS
    <2>1. part' = part
      BY DEF MCNext, all
    <2>2. ASSUME part = "phone"
          PROVE  PhoneInv'
      <3>1. PhoneInv
        BY <2>2 DEF MCInv
      <3>2. [P!Next]_(P!vars)
        BY <2>2 DEF MCNext, all, phoneVars, P!vars
      <3>3. QED  BY <3>1, <3>2, SignupConstants, PhoneNextIInv
    <2>3. ASSUME part = "signup"
          PROVE  SignupInv'
      <3>1. SignupInv
        BY <2>3 DEF MCInv
      <3>2. [R!Next]_(R!vars)
        BY <2>3 DEF MCNext, all, signupVars, R!vars, R!db
      <3>3. QED  BY <3>1, <3>2, SignupConstants, SignupNextIInv
    <2>4. QED  BY <2>1, <2>2, <2>3 DEF MCInv
  <1>3. QED  BY <1>1, <1>2, PTL DEF MCSpec

\* The invariant implies that a phone whose calls neither overlapped nor broke
\* off has one live code: the one that its key or its call names.
LEMMA NamedCodeIsOnly ==
  ASSUME P!PhoneCodesConstants, PhoneInv
  PROVE  P!OneLiveCode
  <1> SUFFICES ASSUME NEW p \in Contact \ broken
               PROVE  P!Cardinality(P!LiveCodes(p)) <= 1
    BY DEF P!OneLiveCode
  <1>1. \A c, d \in P!LiveCodes(p) : c = d
    <2>1. CASE P!Open(p) = {}
      BY <2>1 DEF PhoneInv, Named
    <2>2. ASSUME NEW r \in P!Open(p)
          PROVE  \A c, d \in P!LiveCodes(p) : c = d
      <3>1. /\ LiveOK(phoneReq[r]) /\ StageOK(phoneReq[r]) /\ phoneReq[r].phone = p
            /\ phoneReq[r] \in P!Request
        BY <2>2 DEF PhoneInv, P!TypeOK, P!Open
      <3>2. phoneReq[r].at \notin {"idle", "find"}
        BY <3>1 DEF StageOK, P!PhoneCodesConstants
      <3>3. QED  BY <3>1, <3>2 DEF LiveOK, Named, InHand, P!Request
    <2>3. QED  BY <2>1, <2>2
  <1>2. P!Cardinality(P!LiveCodes(p)) = Cardinality(P!LiveCodes(p))
    BY DEF P!Cardinality, Cardinality
  <1>3. CASE P!LiveCodes(p) = {}
    BY <1>2, <1>3, FS_EmptySet
  <1>4. ASSUME NEW c \in P!LiveCodes(p)
        PROVE  P!Cardinality(P!LiveCodes(p)) <= 1
    <2>1. P!LiveCodes(p) = {c}
      BY <1>1, <1>4
    <2>2. Cardinality({c}) = 1
      BY FS_Singleton
    <2>3. QED  BY <1>2, <2>1, <2>2
  <1>5. QED  BY <1>3, <1>4

\* "A single phone never has two live codes" (issue_phone_otp, verify_phone), for
\* any number of phones, codes and calls, as long as no two calls for the phone
\* overlapped and none broke off.
THEOREM PhoneHasOneLiveCode == MCSpec => []LiveCodeIsOne
  <1>1. MCInv => LiveCodeIsOne
    BY SignupConstants, NamedCodeIsOnly DEF MCInv, LiveCodeIsOne, PhoneInv
  <1>2. QED  BY <1>1, MCInvariance, PTL

\* verify_email: an account has the password of the last registration of its
\* e-mail that was committed when its token was redeemed, however registrations,
\* resends and redemptions overlap, for any number of accounts and calls.
THEOREM PasswordsAreRedeemed == MCSpec => []PasswordIsRedeemed
  <1>1. MCInv => PasswordIsRedeemed
    BY DEF MCInv, PasswordIsRedeemed, SignupInv, TablesOK, R!TypeOK
  <1>2. QED  BY <1>1, MCInvariance, PTL

\* find_or_create_user answers a sign-in that met a conflict with the account it
\* met, unless one was deleted or linked to another identity meanwhile.
THEOREM ConflictsAreResolved == MCSpec => []ConflictsResolved
  <1>1. MCInv => ConflictsResolved
    BY DEF MCInv, ConflictsResolved, SignupInv, SignupOK, R!ConflictIsResolved
  <1>2. QED  BY <1>1, MCInvariance, PTL

=============================================================================
