------------------------------ MODULE Sessions ------------------------------
(***************************************************************************)
(* The refresh tokens of one account: signing in and out, rotation, and    *)
(* what ends every session (app/services/auth_service.py,                  *)
(* app/api/v1/account.py).                                                 *)
(*                                                                         *)
(* A call is one READ COMMITTED transaction.  Between what it reads and    *)
(* what it commits, others run: a bulk UPDATE of the tokens sees neither a *)
(* token that another transaction has inserted and not committed, nor that *)
(* the row it revokes is being rotated.                                    *)
(***************************************************************************)
EXTENDS FiniteSets

CONSTANTS
    Req,         \* request slots
    Token,       \* refresh tokens
    ResetToken,  \* password reset tokens
    None

VARIABLES
    token,        \* [Token -> refresh_tokens row, or None]
    reset,        \* [ResetToken -> "absent", "live" or "consumed"]
    hasPassword,  \* users.password_hash is not NULL
    active,       \* users.is_active
    req           \* [Req -> Request]

db   == <<token, reset, hasPassword, active>>
vars == <<db, req>>

\* Ghosts.  before: its session was signed in to before all sessions were last
\* ended.  late: that took place while a call of its session was open.
\* overlapped: another refresh of its parent was open.
Row == [live : BOOLEAN, parent : Token \cup {None},
        before : BOOLEAN, late : BOOLEAN, overlapped : BOOLEAN]

\* old: the token it has found live.  late, overlapped: ghosts, as for a row.
Request == [at : {"idle", "login", "refresh", "logout", "reset", "set", "change"},
            old : Token \cup ResetToken \cup {None},
            late : BOOLEAN, overlapped : BOOLEAN]

ASSUME SessionsConstants ==
    /\ None \notin Token \cup ResetToken
    /\ None \notin Row

Idle == [at |-> "idle", old |-> None, late |-> FALSE, overlapped |-> FALSE]

Init ==
    /\ token = [t \in Token |-> None]
    /\ reset = [k \in ResetToken |-> "absent"]
    /\ hasPassword \in BOOLEAN
    /\ active = TRUE
    /\ req = [r \in Req |-> Idle]

Rows == {t \in Token : token[t] # None}
Live == {t \in Rows : token[t].live}

Begin(r, at, old) ==
    /\ req[r] = Idle
    /\ req' = [req EXCEPT ![r] = [Idle EXCEPT !.at = at, !.old = old]]
    /\ UNCHANGED db

Finish(r) == req' = [req EXCEPT ![r] = Idle]

-----------------------------------------------------------------------------
(* Ending every session *)

Revoked(row) == [row EXCEPT !.live = FALSE]

\* Mutant: the tokens that were rotated into are left.
FirstTokens == {t \in Live : token[t].parent = None}

\* WHERE user_id = ... AND revoked_at IS NULL
ToRevoke == Live

\* UPDATE refresh_tokens SET revoked_at, committed by r, or None.
EndSessions(r) ==
    /\ token' = [t \in Token |->
           IF t \notin Rows THEN None
           ELSE IF t \in ToRevoke THEN [Revoked(token[t]) EXCEPT !.before = TRUE]
           ELSE [token[t] EXCEPT !.before = TRUE]]
    /\ req' = [s \in Req |->
           IF s = r \/ req[s] = Idle THEN Idle ELSE [req[s] EXCEPT !.late = TRUE]]

-----------------------------------------------------------------------------
(* Signing in *)

\* login and login_by_phone check the password; issue_tokens comes after Google
\* has vouched for the user.
Login(r) == active /\ Begin(r, "login", None)

CommitLogin(r, t) ==
    /\ req[r].at = "login" /\ t \notin Rows
    /\ token' = [token EXCEPT ![t] =
           [live |-> TRUE, parent |-> None, before |-> req[r].late,
            late |-> req[r].late, overlapped |-> FALSE]]
    /\ Finish(r)
    /\ UNCHANGED <<reset, hasPassword, active>>

-----------------------------------------------------------------------------
(* Rotation *)

Rotating(t) == {s \in Req : req[s].at = "refresh" /\ req[s].old = t}

\* refresh, of a live token.  Its expiry only refuses more.
Refresh(r, t) ==
    /\ req[r] = Idle /\ t \in Live
    /\ req' = [s \in Req |->
          IF s = r THEN [at |-> "refresh", old |-> t, late |-> FALSE,
                         overlapped |-> Rotating(t) # {}]
          ELSE IF s \in Rotating(t) THEN [req[s] EXCEPT !.overlapped = TRUE]
          ELSE req[s]]
    /\ UNCHANGED db

\* Mutant: the old token is not revoked.
NotReplaced(t) == token[t]

\* rt.revoked_at = now, whatever has become of the row meanwhile.
Replaced(t) == Revoked(token[t])

CommitRefresh(r, t) ==
    LET old == req[r].old IN
    /\ req[r].at = "refresh" /\ t \notin Rows
    /\ token' = [token EXCEPT ![old] = Replaced(old),
           ![t] = [live |-> TRUE, parent |-> old, before |-> token[old].before,
                   late |-> token[old].late \/ req[r].late,
                   overlapped |-> req[r].overlapped]]
    /\ Finish(r)
    /\ UNCHANGED <<reset, hasPassword, active>>

\* refresh, of a token that was revoked
ReuseDetected(t) ==
    /\ t \in Rows \ Live
    /\ EndSessions(None)
    /\ UNCHANGED <<reset, hasPassword, active>>

-----------------------------------------------------------------------------
(* Signing out *)

\* logout, revoke_session
Logout(r, t) == t \in Live /\ Begin(r, "logout", t)

CommitLogout(r) ==
    /\ req[r].at = "logout"
    /\ token' = [token EXCEPT ![req[r].old] = Revoked(@)]
    /\ Finish(r)
    /\ UNCHANGED <<reset, hasPassword, active>>

\* revoke_all_sessions; delete_me, which disables the account as well.
RevokeAll(stays) ==
    /\ active
    /\ EndSessions(None)
    /\ active' = stays
    /\ UNCHANGED <<reset, hasPassword>>

\* update_user of the admin: the sessions stay.
SetActive ==
    /\ active' = ~active
    /\ UNCHANGED <<token, reset, hasPassword, req>>

-----------------------------------------------------------------------------
(* Passwords *)

RequestPasswordReset(k) ==
    /\ reset[k] = "absent"
    /\ reset' = [reset EXCEPT ![k] = "live"]
    /\ UNCHANGED <<token, hasPassword, active, req>>

\* A reset token that is neither used nor expired.
ResetPassword(r, k) == reset[k] = "live" /\ Begin(r, "reset", k)

ExpireReset(k) ==
    /\ reset[k] = "live"
    /\ reset' = [reset EXCEPT ![k] = "consumed"]
    /\ UNCHANGED <<token, hasPassword, active, req>>

CommitReset(r) ==
    /\ req[r].at = "reset"
    /\ EndSessions(r)
    /\ reset' = [reset EXCEPT ![req[r].old] = "consumed"]
    /\ hasPassword' = TRUE
    /\ UNCHANGED active

\* change_password, set_password: the sessions stay.
ChangePassword(r) ==
    active /\ Begin(r, IF hasPassword THEN "change" ELSE "set", None)

CommitChange(r) ==
    /\ req[r].at \in {"change", "set"}
    /\ hasPassword' = TRUE
    /\ Finish(r)
    /\ UNCHANGED <<token, reset, active>>

\* A request cancelled by its client.
Abort(r) == req[r] # Idle /\ Finish(r) /\ UNCHANGED db

-----------------------------------------------------------------------------
Handle(r) ==
    \/ Login(r) \/ ChangePassword(r)
    \/ \E t \in Token : Refresh(r, t) \/ Logout(r, t)
    \/ \E k \in ResetToken : ResetPassword(r, k)
    \/ \E t \in Token : CommitLogin(r, t) \/ CommitRefresh(r, t)
    \/ CommitLogout(r) \/ CommitReset(r) \/ CommitChange(r) \/ Abort(r)

Next ==
    \/ \E r \in Req : Handle(r)
    \/ \E t \in Token : ReuseDetected(t)
    \/ \E stays \in BOOLEAN : RevokeAll(stays)
    \/ SetActive
    \/ \E k \in ResetToken : RequestPasswordReset(k) \/ ExpireReset(k)

Spec == Init /\ [][Next]_vars

-----------------------------------------------------------------------------
(* Properties *)

TypeOK ==
    /\ token \in [Token -> Row \cup {None}]
    /\ reset \in [ResetToken -> {"absent", "live", "consumed"}]
    /\ hasPassword \in BOOLEAN /\ active \in BOOLEAN
    /\ req \in [Req -> Request]

\* "revoke all existing refresh tokens after password reset", "all sessions
\* revoked": after a reset, a reuse, a sign-out everywhere or the deletion of the
\* account no session that was signed in to before goes on, through however many
\* rotations, unless a call of it was open at that moment.  Changing the password
\* is not among them: see PasswordChangeEndsSessions.
EndedSessionsStayEnded == \A t \in Live : token[t].before => token[t].late

\* Rotation: a token is exchanged once, unless two exchanges of it overlap;
\* so its second use is seen as a reuse.
OneHeir ==
    \A t, u \in Rows :
        t # u /\ token[t].parent # None /\ token[t].parent = token[u].parent
            => token[t].overlapped /\ token[u].overlapped

\* README: a refresh token is "Revoked on logout, password change, password reset":
\* no token outlives a change of the password.  change_password revokes none.
PasswordChangeEndsSessions ==
    [][\A r \in Req :
          CommitChange(r) /\ req[r].at = "change" => Live \cap Live' = {}]_vars

=============================================================================
