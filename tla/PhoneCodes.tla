----------------------------- MODULE PhoneCodes -----------------------------
(***************************************************************************)
(* One-time codes that bind a phone number to an account: issued for the   *)
(* Telegram bot, redeemed by the user (app/services/auth_service.py,       *)
(* issue_phone_otp and verify_phone).                                      *)
(*                                                                         *)
(* A code lives in two Redis keys, otp:<code> -> phone and phone:<phone>   *)
(* -> code, which expire on their own.  Each command is atomic, the calls  *)
(* are not; accounts are in PostgreSQL, where phone_number is unique.      *)
(***************************************************************************)
EXTENDS Naturals, FiniteSets

CONSTANTS
    Req,    \* request slots
    Phone,  \* phone numbers
    Code,   \* the codes that can be drawn
    User,   \* accounts
    None

VARIABLES
    otp,      \* [Code -> Phone or None]: the key otp:<code>
    pending,  \* [Phone -> Code or None]: the key phone:<phone>
    owner,    \* [User -> phone_number, None while it is not verified]
    req,      \* [Req -> Request]
    broken    \* ghost: the phones with an issue that overlapped or broke off

redis == <<otp, pending>>
vars  == <<otp, pending, owner, req, broken>>

Request == [at : {"idle", "check", "read", "wipe", "draw", "point",
                  "find", "taken", "bind", "clean"},
            phone : Phone \cup {None}, code : Code \cup {None}, user : User \cup {None}]

Idle == [at |-> "idle", phone |-> None, code |-> None, user |-> None]

\* What the theorems assume of the constants: None is no phone, code or user.
PhoneCodesConstants == None \notin Phone \cup Code \cup User

Init ==
    /\ otp = [c \in Code |-> None]
    /\ pending = [p \in Phone |-> None]
    /\ owner = [u \in User |-> None]
    /\ req = [r \in Req |-> Idle]
    /\ broken = {}

Open(p) == {r \in Req : req[r].phone = p}

Taken(p) == \E u \in User : owner[u] = p

Go(r, at)  == req' = [req EXCEPT ![r].at = at]
Finish(r)  == req' = [req EXCEPT ![r] = Idle]

-----------------------------------------------------------------------------
(* issue_phone_otp *)

Issue(r, p) ==
    /\ req[r] = Idle
    /\ req' = [req EXCEPT ![r] = [Idle EXCEPT !.at = "check", !.phone = p]]
    /\ broken' = IF Open(p) # {} THEN broken \cup {p} ELSE broken
    /\ UNCHANGED <<redis, owner>>

CheckPhone(r) ==
    /\ req[r].at = "check"
    /\ IF Taken(req[r].phone) THEN Finish(r) ELSE Go(r, "read")
    /\ UNCHANGED <<redis, owner, broken>>

\* GET phone:<phone>
ReadPending(r) ==
    LET old == pending[req[r].phone] IN
    /\ req[r].at = "read"
    /\ req' = [req EXCEPT ![r].at = IF old = None THEN "draw" ELSE "wipe",
                          ![r].code = old]
    /\ UNCHANGED <<redis, owner, broken>>

\* Mutant: the earlier code is left to expire.
NotWiped(c) == otp

Wiped(c) == [otp EXCEPT ![c] = None]

\* DEL otp:<old>
WipeOld(r) ==
    /\ req[r].at = "wipe"
    /\ otp' = Wiped(req[r].code)
    /\ Go(r, "draw")
    /\ UNCHANGED <<pending, owner, broken>>

Free(c) == otp[c] = None

\* SET otp:<code> NX EX, drawn again when the code is live.
DrawCode(r, c) ==
    /\ req[r].at = "draw" /\ Free(c)
    /\ otp' = [otp EXCEPT ![c] = req[r].phone]
    /\ req' = [req EXCEPT ![r].at = "point", ![r].code = c]
    /\ UNCHANGED <<pending, owner, broken>>

\* Five draws, all of live codes.
DrawFails(r) ==
    /\ req[r].at = "draw" /\ \E c \in Code : ~Free(c)
    /\ Finish(r)
    /\ broken' = broken \cup {req[r].phone}
    /\ UNCHANGED <<redis, owner>>

\* SET phone:<phone> EX
PointToCode(r) ==
    /\ req[r].at = "point"
    /\ pending' = [pending EXCEPT ![req[r].phone] = req[r].code]
    /\ Finish(r)
    /\ UNCHANGED <<otp, owner, broken>>

-----------------------------------------------------------------------------
(* verify_phone *)

Verify(r, u, c) ==
    /\ req[r] = Idle /\ owner[u] = None
    /\ req' = [req EXCEPT ![r] = [Idle EXCEPT !.at = "find", !.code = c, !.user = u]]
    /\ UNCHANGED <<redis, owner, broken>>

\* GET otp:<code>
FindCode(r) ==
    LET p == otp[req[r].code] IN
    /\ req[r].at = "find"
    /\ IF p # None
       THEN /\ req' = [req EXCEPT ![r].at = "taken", ![r].phone = p]
            /\ broken' = IF Open(p) # {} THEN broken \cup {p} ELSE broken
       ELSE Finish(r) /\ UNCHANGED broken
    /\ UNCHANGED <<redis, owner>>

CheckTaken(r) ==
    LET q == req[r] IN
    /\ q.at = "taken"
    /\ Go(r, IF \E u \in User \ {q.user} : owner[u] = q.phone THEN "clean" ELSE "bind")
    /\ UNCHANGED <<redis, owner, broken>>

\* The commit; uq phone_number.
BindPhone(r) ==
    LET q == req[r] IN
    /\ q.at = "bind"
    /\ IF \E u \in User \ {q.user} : owner[u] = q.phone
       THEN Finish(r) /\ UNCHANGED owner
       ELSE owner' = [owner EXCEPT ![q.user] = q.phone] /\ Go(r, "clean")
    /\ UNCHANGED <<redis, broken>>

\* DEL otp:<code> phone:<phone>, of a taken or of a bound phone.
CleanKeys(r) ==
    LET q == req[r] IN
    /\ q.at = "clean"
    /\ otp' = Wiped(q.code)
    /\ pending' = [pending EXCEPT ![q.phone] = None]
    /\ Finish(r)
    /\ UNCHANGED <<owner, broken>>

-----------------------------------------------------------------------------
\* The later key of a pair is the later one to expire.
ExpireCode(c) ==
    /\ otp[c] # None
    /\ otp' = [otp EXCEPT ![c] = None]
    /\ UNCHANGED <<pending, owner, req, broken>>

ExpirePending(p) ==
    /\ pending[p] # None /\ otp[pending[p]] # p
    /\ pending' = [pending EXCEPT ![p] = None]
    /\ UNCHANGED <<otp, owner, req, broken>>

\* A request cancelled by its client, a crash, or a Redis failure.
Abort(r) ==
    /\ req[r] # Idle
    /\ Finish(r)
    /\ broken' = IF req[r].phone = None THEN broken ELSE broken \cup {req[r].phone}
    /\ UNCHANGED <<redis, owner>>

Step(r) ==
    \/ CheckPhone(r) \/ ReadPending(r) \/ WipeOld(r)
    \/ \E c \in Code : DrawCode(r, c)
    \/ DrawFails(r) \/ PointToCode(r)
    \/ FindCode(r) \/ CheckTaken(r) \/ BindPhone(r) \/ CleanKeys(r)

Next ==
    \/ \E r \in Req :
          \/ \E p \in Phone : Issue(r, p)
          \/ \E u \in User, c \in Code : Verify(r, u, c)
          \/ Step(r) \/ Abort(r)
    \/ \E c \in Code : ExpireCode(c)
    \/ \E p \in Phone : ExpirePending(p)

Spec == Init /\ [][Next]_vars

-----------------------------------------------------------------------------
(* Properties *)

TypeOK ==
    /\ otp \in [Code -> Phone \cup {None}]
    /\ pending \in [Phone -> Code \cup {None}]
    /\ owner \in [User -> Phone \cup {None}]
    /\ req \in [Req -> Request]
    /\ \A r \in Req : req[r].at \in {"taken", "bind", "clean"} => req[r].phone # None
    /\ broken \subseteq Phone

LiveCodes(p) == {c \in Code : otp[c] = p}

\* "A single phone never has two live codes": as long as no two calls for the
\* phone overlapped and none broke off.
OneLiveCode == \A p \in Phone \ broken : Cardinality(LiveCodes(p)) <= 1

=============================================================================
