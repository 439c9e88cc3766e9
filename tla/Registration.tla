---------------------------- MODULE Registration ----------------------------
(***************************************************************************)
(* How an account comes to be: a registration that waits for its e-mail to *)
(* be verified (app/services/auth_service.py), and a first sign-in with    *)
(* Google (app/services/google_oauth_service.py).                          *)
(*                                                                         *)
(* Each step of a call is one statement, which sees what is committed when *)
(* it runs.  A flush and its commit are one step: a call that would write  *)
(* the same unique value in between waits for the commit.                  *)
(***************************************************************************)
EXTENDS FiniteSets

CONSTANTS
    Req,    \* request slots
    Email,
    Sub,    \* Google identities
    Token,  \* verification tokens; the password a register call brings is
            \* named by the token it draws
    User,   \* account ids
    None

VARIABLES
    users,    \* [User -> Account, or None]
    waiting,  \* [Email -> pending_registrations row, or None]
    used,     \* the tokens that have been drawn
    req,      \* [Req -> Request]
    latest    \* ghost: [Email -> the last password a registration committed]

db   == <<users, waiting, used>>
vars == <<db, req, latest>>

\* email is None once the user has deleted the account.  expected is a ghost:
\* the last password registered for the e-mail when its token was redeemed.
Account == [email : Email \cup {None}, sub : Sub \cup {None},
            password : Token \cup {None}, expected : Token \cup {None}]

Pending == [id : Token, token : Token, password : Token]

\* row: the pending row it has read.  found: the account it has found.  again: the
\* write that met a unique value.  gone: ghost, an account has lost its e-mail or its
\* Google identity meanwhile.
Request == [at : {"idle", "pending", "write", "resend", "check", "create",
                  "sub", "email", "save", "refused"},
            email : Email \cup {None}, sub : Sub \cup {None},
            row : Pending \cup {None}, expected : Token \cup {None},
            found : User \cup {None}, again : {"no", "link", "insert"}, gone : BOOLEAN]

Idle == [at |-> "idle", email |-> None, sub |-> None, row |-> None,
         expected |-> None, found |-> None, again |-> "no", gone |-> FALSE]

\* What the theorems assume of the constants: None stands for SQL's NULL.
RegistrationConstants ==
    /\ None \notin Email \cup Sub \cup Token \cup User
    /\ None \notin Account \cup Pending

Init ==
    /\ users = [u \in User |-> None]
    /\ waiting = [e \in Email |-> None]
    /\ used = {}
    /\ req = [r \in Req |-> Idle]
    /\ latest = [e \in Email |-> None]

Accounts   == {u \in User : users[u] # None}
ByEmail(e) == {u \in Accounts : users[u].email = e}
BySub(s)   == {u \in Accounts : users[u].sub = s}

\* The row is there that the call has read.
SameRow(row, read) == row # None /\ read # None /\ row.id = read.id

Become(r, q) == req' = [req EXCEPT ![r] = q]
Finish(r)    == Become(r, Idle)

\* The open calls once an account has lost what it could be found by.
Unsettled == [r \in Req |-> IF req[r] = Idle THEN Idle ELSE [req[r] EXCEPT !.gone = TRUE]]

-----------------------------------------------------------------------------
(* register *)

\* SELECT the account
Register(r, e) ==
    /\ req[r] = Idle /\ ByEmail(e) = {}
    /\ Become(r, [Idle EXCEPT !.at = "pending", !.email = e])
    /\ UNCHANGED <<db, latest>>

\* SELECT the pending row
FindPending(r) ==
    /\ req[r].at = "pending"
    /\ Become(r, [req[r] EXCEPT !.at = "write", !.row = waiting[req[r].email]])
    /\ UNCHANGED <<db, latest>>

Overwritten(row, t) ==
    [id |-> IF row = None THEN t ELSE row.id, token |-> t, password |-> t]

\* INSERT or UPDATE.  The insert fails when a row has appeared, the update when
\* its row has gone.
SavePending(r, t) ==
    LET q == req[r] IN
    /\ q.at = "write" /\ t \notin used
    /\ IF waiting[q.email] = q.row \/ SameRow(waiting[q.email], q.row)
       THEN /\ waiting' = [waiting EXCEPT ![q.email] = Overwritten(@, t)]
            /\ used' = used \cup {t}
            /\ latest' = [latest EXCEPT ![q.email] = t]
       ELSE UNCHANGED <<waiting, used, latest>>
    /\ Finish(r)
    /\ UNCHANGED users

-----------------------------------------------------------------------------
(* resend_verification *)

Resend(r, e) ==
    /\ req[r] = Idle /\ waiting[e] # None
    /\ Become(r, [Idle EXCEPT !.at = "resend", !.email = e, !.row = waiting[e]])
    /\ UNCHANGED <<db, latest>>

\* Mutant: the row is written back as it was read.
WrittenBack(row, read, t) == [read EXCEPT !.token = t]

\* UPDATE of token_hash and expires_at alone.
Reissued(row, read, t) == [row EXCEPT !.token = t]

SaveResend(r, t) ==
    LET q == req[r] IN
    /\ q.at = "resend" /\ t \notin used
    /\ IF SameRow(waiting[q.email], q.row)
       THEN /\ waiting' = [waiting EXCEPT ![q.email] = Reissued(@, q.row, t)]
            /\ used' = used \cup {t}
       ELSE UNCHANGED <<waiting, used>>
    /\ Finish(r)
    /\ UNCHANGED <<users, latest>>

-----------------------------------------------------------------------------
(* verify_email *)

\* SELECT the pending row of the token, which has not expired.
VerifyEmail(r, e) ==
    /\ req[r] = Idle /\ waiting[e] # None
    /\ Become(r, [Idle EXCEPT !.at = "check", !.email = e, !.row = waiting[e],
                              !.expected = latest[e]])
    /\ UNCHANGED <<db, latest>>

\* SELECT the account: email_taken
CheckAccount(r) ==
    /\ req[r].at = "check"
    /\ IF ByEmail(req[r].email) = {}
       THEN Become(r, [req[r] EXCEPT !.at = "create"])
       ELSE Finish(r)
    /\ UNCHANGED <<db, latest>>

\* INSERT the account, DELETE the row whatever token it has now.
CreateAccount(r, u) ==
    LET q == req[r] IN
    /\ q.at = "create" /\ u \notin Accounts
    /\ IF ByEmail(q.email) = {}
       THEN /\ users' = [users EXCEPT ![u] =
                   [email |-> q.email, sub |-> None,
                    password |-> q.row.password, expected |-> q.expected]]
            /\ waiting' = [waiting EXCEPT ![q.email] = IF SameRow(@, q.row) THEN None ELSE @]
       ELSE UNCHANGED <<users, waiting>>
    /\ Finish(r)
    /\ UNCHANGED <<used, latest>>

-----------------------------------------------------------------------------
(* find_or_create_user *)

GoogleLogin(r, s, e) ==
    /\ req[r] = Idle
    /\ Become(r, [Idle EXCEPT !.at = "sub", !.sub = s, !.email = e])
    /\ UNCHANGED <<db, latest>>

\* What follows a lookup that found u.  A deleted account is refused.
Settle(r, u) ==
    IF users[u].sub = None /\ req[r].again = "no"
    THEN Become(r, [req[r] EXCEPT !.at = "save", !.found = u])
    ELSE Finish(r)

\* _lookup_user, its first SELECT
LookupSub(r) ==
    /\ req[r].at = "sub"
    /\ IF BySub(req[r].sub) = {}
       THEN Become(r, [req[r] EXCEPT !.at = "email"])
       ELSE \E u \in BySub(req[r].sub) : Settle(r, u)
    /\ UNCHANGED <<db, latest>>

\* Mutant: an account is looked up by its Google identity alone.
NotByEmail(e) == {}

HasEmail(e) == ByEmail(e)

\* _lookup_user, its second SELECT.  oauth_user_provision_failed when there is
\* still no account after an insert that met one.
LookupEmail(r) ==
    LET q == req[r] IN
    /\ q.at = "email"
    /\ IF HasEmail(q.email) # {}
       THEN \E u \in HasEmail(q.email) : Settle(r, u)
       ELSE Become(r, [q EXCEPT !.at = IF q.again = "insert" THEN "refused" ELSE "save"])
    /\ UNCHANGED <<db, latest>>

LookupAgain(q, write) == [q EXCEPT !.at = "sub", !.again = write, !.found = None]

\* The savepoint that links the account, google_sub = sub, whatever another call
\* has linked it to since it was found.
LinkAccount(r) ==
    LET q == req[r] IN
    /\ q.at = "save" /\ q.found # None
    /\ IF BySub(q.sub) \ {q.found} = {}
       THEN /\ users' = [users EXCEPT ![q.found].sub = q.sub]
            /\ IF users[q.found].sub \in {None, q.sub}
               THEN Finish(r)
               ELSE req' = [Unsettled EXCEPT ![r] = Idle]
       ELSE Become(r, LookupAgain(q, "link")) /\ UNCHANGED users
    /\ UNCHANGED <<waiting, used, latest>>

\* The savepoint that inserts it.
InsertAccount(r, u) ==
    LET q == req[r] IN
    /\ q.at = "save" /\ q.found = None /\ u \notin Accounts
    /\ IF BySub(q.sub) \cup ByEmail(q.email) = {}
       THEN /\ users' = [users EXCEPT ![u] =
                   [email |-> q.email, sub |-> q.sub, password |-> None, expected |-> None]]
            /\ Finish(r)
       ELSE Become(r, LookupAgain(q, "insert")) /\ UNCHANGED users
    /\ UNCHANGED <<waiting, used, latest>>

\* The answer of a call that was refused.
Refuse(r) == req[r].at = "refused" /\ Finish(r) /\ UNCHANGED <<db, latest>>

-----------------------------------------------------------------------------
\* delete_me: the row and its google_sub stay, the e-mail is scrubbed.
DeleteMe(u) ==
    /\ u \in Accounts /\ users[u].email # None
    /\ users' = [users EXCEPT ![u].email = None]
    /\ req' = Unsettled
    /\ UNCHANGED <<waiting, used, latest>>

Abort(r) == req[r] # Idle /\ Finish(r) /\ UNCHANGED <<db, latest>>

Handle(r) ==
    \/ \E e \in Email : Register(r, e) \/ Resend(r, e) \/ VerifyEmail(r, e)
    \/ \E s \in Sub, e \in Email : GoogleLogin(r, s, e)
    \/ FindPending(r) \/ CheckAccount(r)
    \/ \E t \in Token : SavePending(r, t) \/ SaveResend(r, t)
    \/ \E u \in User : CreateAccount(r, u) \/ InsertAccount(r, u)
    \/ LookupSub(r) \/ LookupEmail(r) \/ LinkAccount(r) \/ Refuse(r)

Next ==
    \/ \E r \in Req : Handle(r) \/ Abort(r)
    \/ \E u \in User : DeleteMe(u)

Spec == Init /\ [][Next]_vars

-----------------------------------------------------------------------------
(* Properties *)

TypeOK ==
    /\ users \in [User -> Account \cup {None}]
    /\ waiting \in [Email -> Pending \cup {None}]
    /\ used \subseteq Token
    /\ req \in [Req -> Request]
    /\ latest \in [Email -> Token \cup {None}]

\* "The owner's re-registration overwrites this row (token reset) and
\* invalidates the squatter's token": an account has the password of the last
\* registration of its e-mail that was committed when its token was redeemed,
\* however registrations and resends overlap.
RedeemedPassword ==
    \A u \in Accounts : users[u].password = users[u].expected

\* "savepoint + re-query covers the case where two concurrent first-time logins
\* ... race": a Google sign-in that met a conflict finds the account it met,
\* unless in between an account was deleted or linked to another identity.
ConflictIsResolved == \A r \in Req : req[r].at = "refused" => req[r].gone

=============================================================================
