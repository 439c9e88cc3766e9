----------------------------- MODULE MCLearning -----------------------------
(***************************************************************************)
(* Instances of Learning for TLC, and of the small modules Cards and       *)
(* RateLimit.  They share no state here, so a behaviour is one of one of   *)
(* them.                                                                   *)
(***************************************************************************)
EXTENDS Learning, TLC

CONSTANTS Token, None, Limit, Window, MaxTime, Parts

VARIABLES part,
    card, cardReq, newest, crossed,
    clock, bucket, expires, open, called, admitted, refused

C == INSTANCE Cards WITH req <- cardReq
L == INSTANCE RateLimit WITH req <- open

ASSUME CardsHaveConstants == C!CardsConstants

ASSUME LimitHasConstants == L!RateLimitConstants

cardVars  == <<card, cardReq, newest, crossed>>
limitVars == <<clock, bucket, expires, open, called, admitted, refused>>

all == <<part, vars, cardVars, limitVars>>

MCInit == Init /\ C!Init /\ L!Init /\ part \in Parts

MCNext ==
    /\ UNCHANGED part
    /\ \/ part = "learning" /\ Next /\ UNCHANGED <<cardVars, limitVars>>
       \/ part = "cards" /\ C!Next /\ UNCHANGED <<vars, limitVars>>
       \/ part = "limit" /\ L!Next /\ UNCHANGED <<vars, cardVars>>

MCSpec == MCInit /\ [][MCNext]_all

\* Every call the two clients can make.
AllCalls == [k \in Kind |-> IF k = "fetch" THEN {"done", "keep"} ELSE Want]

Symmetry == UNION {Permutations(S) : S \in {Req, Lesson \ Editable, Token}}

\* Cards: the types, and one default card.
DefaultIsOne == part = "cards" => C!TypeOK /\ C!OneDefault

\* RateLimit: the types, and the limit neither exceeded nor applied early.
WindowHolds == part = "limit" => L!TypeOK /\ L!LimitHolds /\ L!RefusalIsEarned

=============================================================================
