----------------------------- MODULE Streaming -----------------------------
(***************************************************************************)
(* The anti-seek gate of one enrolled learner's lesson:                    *)
(* gate_segment_fetch of app/services/streaming_service.py, as the segment *)
(* and manifest endpoints of app/api/v1/streaming.py call it.              *)
(*                                                                         *)
(* A fetch loads the progress row, judges it by the clock, and commits     *)
(* what it computed.  Time passes in ticks, TicksPerSecond to the second,  *)
(* because the gap between two fetches is cut to whole seconds, and the    *)
(* segments last fractions of one: durations are in ticks.  What the       *)
(* code takes from last_segment_at is the time since then, so that is what *)
(* is kept, up to MaxGap, beyond which no comparison changes.              *)
(*                                                                         *)
(* Left out: tokens and who is gated (lookup_enforced_enrollment), the     *)
(* creation of the row, and what completion sets off (module Learning).    *)
(***************************************************************************)
EXTENDS Naturals, Integers, Functions

CONSTANTS
    Req,            \* request slots
    Count,          \* Lesson.hls_segments_count
    Duration,       \* [0 .. Count - 1 -> ticks]: hls_segment_durations
    Lookahead,      \* STREAM_LOOKAHEAD_SEGMENTS
    MaxRate,        \* STREAM_MAX_RATE_MULTIPLIER
    TicksPerSecond, \* resolution of the clock
    MaxCredit,      \* bound on play_credit_seconds, enough for the last segment
    MaxGap,         \* bound on the time since the last fetch, in ticks
    MaxElapsed,     \* bound on the ghost clock, in ticks
    Never           \* last_segment_at is NULL

VARIABLES
    watermark,   \* LessonProgress.max_segment_index
    credit,      \* play_credit_seconds
    since,       \* ticks since last_segment_at
    completed,   \* completed_at is set
    manifest,    \* the last segment the player's copy of the manifest lists
    elapsed,     \* ghost: ticks since the gate let the first fetch through
    req          \* [Req -> Request]

row  == <<watermark, credit, since, completed>>
vars == <<watermark, credit, since, completed, manifest, elapsed, req>>

Segment == 0 .. Count - 1

Since == 0 .. MaxGap \cup {Never}

\* What the theorem assumes of the constants: Never is not a time.
StreamingConstants ==
    /\ Count \in Nat \ {0} /\ Duration \in [Segment -> Nat]
    /\ Lookahead \in Nat /\ MaxRate \in Nat /\ TicksPerSecond \in Nat \ {0}
    /\ MaxCredit \in Nat /\ MaxGap \in Nat /\ MaxElapsed \in Nat
    /\ Never \notin (0 .. MaxGap) \cup (0 .. MaxElapsed)

\* A request holds the columns as loaded, then as they will be written.
Request == [at : {"idle", "gate", "commit"}, seg : Segment,
            watermark : -1 .. Count - 1, credit : 0 .. MaxCredit, since : Since,
            newWatermark : -1 .. Count - 1, newCredit : 0 .. MaxCredit]

Idle == [at |-> "idle", seg |-> 0, watermark |-> -1, credit |-> 0,
         since |-> Never, newWatermark |-> -1, newCredit |-> 0]

\* _get_or_create_progress
Init ==
    /\ watermark = -1
    /\ credit = 0
    /\ since = Never
    /\ completed = FALSE
    /\ manifest = -1
    /\ elapsed = Never
    /\ req = [r \in Req |-> Idle]

-----------------------------------------------------------------------------
(* The gate's arithmetic *)

SmallerOf(m, n) == IF m < n THEN m ELSE n

\* round: whole seconds, half to even.
Rounded(ticks) ==
    LET whole == ticks \div TicksPerSecond
        twice == 2 * (ticks % TicksPerSecond)
    IN  IF twice < TicksPerSecond \/ (twice = TicksPerSecond /\ whole % 2 = 0)
        THEN whole ELSE whole + 1

\* max(1, round(_segment_length)): what one gap may be credited, in seconds.
SegmentLength(seg) == IF Rounded(Duration[seg]) = 0 THEN 1 ELSE Rounded(Duration[seg])

\* _segment_end_offset: the time played through the end of a segment.
EndOffset(seg) == SumFunctionOnSet(Duration, 0 .. seg)

\* Mutant: a gap longer than the segment is a pause, and earns nothing.
PauseEarnsNothing(seg, gap) ==
    LET seconds == IF gap = Never THEN 0 ELSE gap \div TicksPerSecond
    IN  IF seconds <= SegmentLength(seg) THEN seconds ELSE 0

\* A gap, in whole seconds, is credited up to the length of the segment.
Credited(seg, gap) ==
    LET seconds == IF gap = Never THEN 0 ELSE gap \div TicksPerSecond
    IN  SmallerOf(seconds, SegmentLength(seg))

\* credit >= required_credit
Earned(mark, credits) ==
    mark >= Lookahead =>
        MaxRate * (credits * TicksPerSecond) >= EndOffset(mark - Lookahead)

-----------------------------------------------------------------------------
(* lesson_hls_segment *)

Finish(r) == req' = [req EXCEPT ![r] = Idle]

FetchSegment(r, seg) ==
    /\ req[r] = Idle
    /\ req' = [req EXCEPT ![r] = [Idle EXCEPT !.at = "gate", !.seg = seg,
                 !.watermark = watermark, !.credit = credit, !.since = since]]
    /\ UNCHANGED <<row, manifest, elapsed>>

NewWatermark(q) == IF q.seg > q.watermark THEN q.seg ELSE q.watermark

NewCredit(q)    == SmallerOf(MaxCredit, q.credit + Credited(q.seg, q.since))

\* Rule 1, anti-skip, and rule 2, anti-fast-forward.  A refusal writes nothing.
GateSegment(r) ==
    LET q == req[r] IN
    /\ q.at = "gate"
    /\ IF q.seg <= q.watermark + Lookahead /\ Earned(NewWatermark(q), NewCredit(q))
       THEN /\ req' = [req EXCEPT ![r] =
                  [q EXCEPT !.at = "commit", !.newWatermark = NewWatermark(q),
                            !.newCredit = NewCredit(q), !.since = 0]]
            /\ elapsed' = IF elapsed = Never THEN 0 ELSE elapsed
       ELSE Finish(r) /\ UNCHANGED elapsed
    /\ UNCHANGED <<row, manifest>>

\* A column is updated if its new value differs from the loaded one.
Written(stored, loaded, new) == IF new = loaded THEN stored ELSE new

\* Mutant: last_segment_at keeps the time of the first fetch.
KeepsFirst(q) == IF since = Never THEN q.since ELSE since

\* last_segment_at is the gate's clock, which has aged with the request.
NewSince(q) == q.since

CommitSegment(r) ==
    LET q == req[r] IN
    /\ q.at = "commit"
    /\ watermark' = Written(watermark, q.watermark, q.newWatermark)
    /\ credit' = Written(credit, q.credit, q.newCredit)
    /\ since' = NewSince(q)
    /\ completed' = (completed \/ q.newWatermark >= Count - 1)
    /\ Finish(r)
    /\ UNCHANGED <<manifest, elapsed>>

-----------------------------------------------------------------------------
(* lesson_hls_master *)

\* visible_segment_ceiling
Ceiling(mark) == mark + Lookahead

\* _render_manifest drops every segment above the ceiling.
FetchManifest ==
    /\ manifest' = SmallerOf(Ceiling(watermark), Count - 1)
    /\ UNCHANGED <<row, elapsed, req>>

-----------------------------------------------------------------------------
Older(gap, bound) == IF gap \in {Never, bound} THEN gap ELSE gap + 1

Tick ==
    /\ since' = Older(since, MaxGap)
    /\ elapsed' = Older(elapsed, MaxElapsed)
    /\ req' = [r \in Req |-> [req[r] EXCEPT !.since = Older(@, MaxGap)]]
    /\ UNCHANGED <<watermark, credit, completed, manifest>>

Abort(r) ==
    /\ req[r] # Idle
    /\ Finish(r)
    /\ UNCHANGED <<row, manifest, elapsed>>

Continue(r) == GateSegment(r) \/ CommitSegment(r)

\* The player goes on from the last segment it was served.
FetchNext(r) ==
    /\ watermark + 1 \in Segment
    /\ FetchSegment(r, watermark + 1)

\* It shows what it was served before.
Rewatch(r) == \E seg \in Segment : seg <= watermark /\ FetchSegment(r, seg)

\* It asks for what the manifest lists further on.
Prefetch(r) ==
    \E seg \in Segment : /\ seg > watermark + 1 /\ seg <= manifest
                         /\ FetchSegment(r, seg)

Next ==
    \/ \E r \in Req : FetchNext(r) \/ Rewatch(r) \/ Prefetch(r) \/ Continue(r) \/ Abort(r)
    \/ FetchManifest
    \/ Tick

Spec == Init /\ [][Next]_vars

\* The clock runs, handlers are resumed, and the player, when it is refused,
\* asks again for the segment it needs next.
Fairness ==
    /\ WF_vars(Tick)
    /\ \A r \in Req : WF_vars(Continue(r))
    /\ SF_vars(\E r \in Req : FetchNext(r))

FairSpec == Spec /\ Fairness

-----------------------------------------------------------------------------
(* Properties *)

TypeOK ==
    /\ watermark \in -1 .. Count - 1
    /\ credit \in 0 .. MaxCredit
    /\ since \in Since
    /\ completed \in BOOLEAN
    /\ manifest \in -1 .. Count - 1
    /\ elapsed \in 0 .. MaxElapsed \cup {Never}
    /\ req \in [Req -> Request]

\* "the user has actually watched": however the fetches are timed and broken off,
\* a player that makes one at a time, and has been served segment w, began
\* watching long enough ago to have played, at the highest rate, all but the
\* look-ahead.
WatchedLongEnough ==
    watermark >= Lookahead /\ elapsed < MaxElapsed =>
        MaxRate * elapsed >= EndOffset(watermark - Lookahead)

\* "let the player retry once enough time has elapsed": a player that keeps
\* asking for the next segment, and is left to it, reaches the end.
PlaybackCompletes ==
    <>[][\A r \in Req : (~Abort(r) \/ GateSegment(r)) /\ ~Rewatch(r) /\ ~Prefetch(r)]_vars
        => <>completed

=============================================================================
