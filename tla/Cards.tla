------------------------------- MODULE Cards --------------------------------
(***************************************************************************)
(* The cards on file of one user (app/services/payment_service.py).        *)
(*                                                                         *)
(* A call talks to Payme first and then writes in one READ COMMITTED       *)
(* transaction.  A card that becomes the default demotes the others with   *)
(* one UPDATE, which sees the rows committed when it starts, waits for     *)
(* those another transaction has locked, and holds them to its commit.     *)
(***************************************************************************)
EXTENDS FiniteSets

CONSTANTS
    Req,    \* request slots
    Token,  \* card tokens of Payme
    None

VARIABLES
    card,     \* [Token -> payment_methods row, or None]
    req,      \* [Req -> Request]
    newest,   \* ghost: the card last added as the default, or None
    crossed   \* ghost: pairs of cards whose additions as the default overlapped

table == <<card, newest, crossed>>
vars  == <<table, req>>

Row == [default : BOOLEAN, verified : BOOLEAN, revoked : BOOLEAN]

\* seen: the rows its UPDATE demotes.  met: ghost, the default cards committed
\* since that UPDATE started.
Request == [at : {"idle", "demote", "wait", "insert", "verify", "remove"},
            token : Token \cup {None}, default : BOOLEAN, verified : BOOLEAN,
            seen : SUBSET Token, met : SUBSET Token]

\* What the theorem assumes of the constants: None stands for no card.
CardsConstants == None \notin Token \cup Row

Idle == [at |-> "idle", token |-> None, default |-> FALSE, verified |-> FALSE,
         seen |-> {}, met |-> {}]

Init ==
    /\ card = [t \in Token |-> None]
    /\ req = [r \in Req |-> Idle]
    /\ newest = None
    /\ crossed = {}

Rows == {t \in Token : card[t] # None}

Begin(r, q) ==
    /\ req[r] = Idle
    /\ req' = [req EXCEPT ![r] = q]
    /\ UNCHANGED table

Finish(r) == req' = [req EXCEPT ![r] = Idle]

\* The rows that the demotion of q holds.
Locked(q) == IF q.at = "insert" THEN q.seen ELSE {}

Unlocked(r, rows) == \A s \in Req \ {r} : Locked(req[s]) \cap rows = {}

-----------------------------------------------------------------------------
(* create_payment_method *)

\* cards.create has answered with a token and whether it is verified.
CreatePaymentMethod(r, t, default, verified) ==
    Begin(r, [Idle EXCEPT !.at = IF default THEN "demote" ELSE "insert",
                          !.token = t, !.default = default, !.verified = verified])

StartDemotion(r) ==
    /\ req[r].at = "demote"
    /\ req' = [req EXCEPT ![r].at = "wait", ![r].seen = Rows]
    /\ UNCHANGED table

\* Its locks are taken at once: two demotions take them in the same order.
LockRows(r) ==
    /\ req[r].at = "wait" /\ Unlocked(r, req[r].seen)
    /\ req' = [req EXCEPT ![r].at = "insert"]
    /\ UNCHANGED table

\* Mutant: the new card is inserted before the others are demoted.
DemotedToo(q) == q.seen \cup {q.token}

Demoted(q) == q.seen

\* What a card added as the default is to an UPDATE under way.
Missed(q, t) == IF q.at \in {"wait", "insert"} /\ q.default
                THEN [q EXCEPT !.met = @ \cup {t}] ELSE q

\* The INSERT and the commit, or the violation of uq_payment_methods_user_token.
InsertCard(r) ==
    LET q      == req[r]
        stored == [card EXCEPT ![q.token] =
                      [default |-> q.default, verified |-> q.verified, revoked |-> FALSE]]
    IN
    /\ q.at = "insert"
    /\ IF q.token \in Rows
       THEN Finish(r) /\ UNCHANGED table
       ELSE /\ card' = [t \in Token |->
                  IF t \in Demoted(q) THEN [stored[t] EXCEPT !.default = FALSE]
                  ELSE stored[t]]
            /\ newest' = IF q.default THEN q.token ELSE newest
            /\ crossed' = crossed \cup {{q.token, t} : t \in q.met}
            /\ req' = [s \in Req |->
                  IF s = r THEN Idle
                  ELSE IF q.default THEN Missed(req[s], q.token) ELSE req[s]]

-----------------------------------------------------------------------------
(* Verification and removal *)

\* _get_pm
OnFile(t) == t \in Rows /\ ~card[t].revoked

ConfirmCardVerification(r, t) ==
    /\ OnFile(t) /\ ~card[t].verified
    /\ Begin(r, [Idle EXCEPT !.at = "verify", !.token = t])

\* cards.verify has accepted the code.
MarkVerified(r) ==
    LET t == req[r].token IN
    /\ req[r].at = "verify" /\ Unlocked(r, {t})
    /\ card' = [card EXCEPT ![t].verified = TRUE]
    /\ Finish(r)
    /\ UNCHANGED <<newest, crossed>>

DeletePaymentMethod(r, t) ==
    OnFile(t) /\ Begin(r, [Idle EXCEPT !.at = "remove", !.token = t])

\* Whatever cards.remove has answered.  A default card stays marked as such.
MarkRevoked(r) ==
    LET t == req[r].token IN
    /\ req[r].at = "remove" /\ Unlocked(r, {t})
    /\ card' = [card EXCEPT ![t].revoked = TRUE]
    /\ Finish(r)
    /\ UNCHANGED <<newest, crossed>>

\* Payme refuses, or the client cancels its request.
Abort(r) == req[r] # Idle /\ Finish(r) /\ UNCHANGED table

-----------------------------------------------------------------------------
Handle(r) ==
    \/ \E t \in Token :
          \/ \E default, verified \in BOOLEAN :
                CreatePaymentMethod(r, t, default, verified)
          \/ ConfirmCardVerification(r, t) \/ DeletePaymentMethod(r, t)
    \/ StartDemotion(r) \/ LockRows(r) \/ InsertCard(r)
    \/ MarkVerified(r) \/ MarkRevoked(r) \/ Abort(r)

Next == \E r \in Req : Handle(r)

Spec == Init /\ [][Next]_vars

-----------------------------------------------------------------------------
(* Properties *)

TypeOK ==
    /\ card \in [Token -> Row \cup {None}]
    /\ req \in [Req -> Request]
    /\ newest \in Token \cup {None}
    /\ crossed \subseteq {{t, u} : t, u \in Token}

Default == {t \in Rows : card[t].default}

\* "demote previous default": the card last added as the default is a default,
\* and another one is too only if their additions overlapped.
OneDefault ==
    /\ newest \in Default \cup {None}
    /\ \A t, u \in Default : t # u => {t, u} \in crossed

=============================================================================
