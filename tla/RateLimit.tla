----------------------------- MODULE RateLimit ------------------------------
(***************************************************************************)
(* The sliding-window limiter of one bucket (app/middleware/rate_limit.py):*)
(* a sorted set in Redis whose members and scores are the instants of the  *)
(* calls.                                                                  *)
(*                                                                         *)
(* A call reads the clock first; its four commands reach Redis later, as   *)
(* one MULTI/EXEC, possibly after those of a call that read a later clock. *)
(* The workers share one clock.                                            *)
(***************************************************************************)
EXTENDS Naturals, FiniteSets

CONSTANTS
    Req,      \* calls in flight
    Limit,    \* calls in a window
    Window,   \* window_s
    MaxTime,  \* bound of the clock
    None

VARIABLES
    clock,     \* time.time()
    bucket,    \* the sorted set
    expires,   \* when Redis drops the key
    req,       \* [Req -> the instant read by an open call, or None]
    called,    \* ghost: the instants of all calls that were counted
    admitted,  \* ghost: of these, the ones let through that were not late
    refused    \* ghost: and the ones refused

vars == <<clock, bucket, expires, req, called, admitted, refused>>

Time == 0 .. MaxTime

\* What the theorem assumes of the constants: None is not an instant.
RateLimitConstants ==
    /\ Limit \in Nat /\ Window \in Nat \ {0} /\ MaxTime \in Nat
    /\ None \notin Time

Init ==
    /\ clock = 0 /\ expires = 0
    /\ bucket = {} /\ called = {} /\ admitted = {} /\ refused = {}
    /\ req = [r \in Req |-> None]

Tick ==
    /\ clock < MaxTime
    /\ clock' = clock + 1
    /\ UNCHANGED <<bucket, expires, req, called, admitted, refused>>

\* now = time.time()
Call(r) ==
    /\ req[r] = None
    /\ req' = [req EXCEPT ![r] = clock]
    /\ UNCHANGED <<clock, bucket, expires, called, admitted, refused>>

Answer(r) == req' = [req EXCEPT ![r] = None] /\ UNCHANGED clock

-----------------------------------------------------------------------------
(* The pipeline *)

\* ZREMRANGEBYSCORE bucket 0 (now - window_s), of a key that has not expired.
Kept(now) ==
    IF clock >= expires THEN {} ELSE {n \in bucket : n + Window > now}

\* Mutant: the call is added after the members are counted.
CountedBefore(now) == Cardinality(Kept(now))

\* ZADD, then ZCARD.
Count(now) == Cardinality(Kept(now) \cup {now})

\* ZADD and EXPIRE: a refused call counts as well.
Execute(now) ==
    /\ bucket' = Kept(now) \cup {now}
    /\ expires' = clock + Window + 1
    /\ called' = called \cup {now}

\* Ghost: another call has overtaken it, or the second passed that the lifetime
\* of the key allows for.
Late(now) == clock > now + 1 \/ \E n \in called : n > now

CheckLimit(r) ==
    LET now == req[r] IN
    /\ now # None
    /\ Execute(now)
    /\ IF Late(now) THEN UNCHANGED <<admitted, refused>>
       ELSE IF Count(now) > Limit
            THEN refused' = refused \cup {now} /\ UNCHANGED admitted
            ELSE admitted' = admitted \cup {now} /\ UNCHANGED refused
    /\ Answer(r)

\* RedisError: the call is let through, whether Redis has executed or not.
FailOpen(r) ==
    /\ req[r] # None
    /\ Execute(req[r]) \/ UNCHANGED <<bucket, expires, called>>
    /\ Answer(r)
    /\ UNCHANGED <<admitted, refused>>

-----------------------------------------------------------------------------
Next == Tick \/ \E r \in Req : Call(r) \/ CheckLimit(r) \/ FailOpen(r)

Spec == Init /\ [][Next]_vars

-----------------------------------------------------------------------------
(* Properties *)

TypeOK ==
    /\ clock \in Time /\ expires \in 0 .. MaxTime + Window + 1
    /\ bucket \subseteq called
    /\ called \subseteq Time
    /\ admitted \subseteq called /\ refused \subseteq called
    /\ req \in [Req -> Time \cup {None}]

Recent(calls, now) == {n \in calls : n <= now /\ n + Window > now}

\* "{limit} requests per {window_s} seconds": no window holds more calls that
\* were let through, of those neither late on their way to Redis nor made in the
\* same instant as another.
LimitHolds == \A now \in Time : Cardinality(Recent(admitted, now)) <= Limit

\* And a call is refused only when the limit had been used up before it.
RefusalIsEarned == \A now \in refused : Cardinality(Recent(called, now)) > Limit

=============================================================================
