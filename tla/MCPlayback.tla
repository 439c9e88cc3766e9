----------------------------- MODULE MCPlayback -----------------------------
(***************************************************************************)
(* Instances of Learning, Streaming and Packaging for TLC.  They share no  *)
(* state here, so a behaviour is one of one of them; Learning has three    *)
(* parts, each with the calls that its properties are about.               *)
(***************************************************************************)
EXTENDS Learning, TLC

CONSTANTS
    Player, Count, Duration, Lookahead, MaxRate, TicksPerSecond, MaxCredit,
    MaxGap, MaxElapsed, Never,
    Task, MaxUpload, Length, Key, Kek, None,
    Parts

VARIABLES part,
    watermark, credit, since, completed, manifest, elapsed, fetch,
    video, status, count, contentKey, wrappedBy, kek, stored, segment, task,
    overlapped, stranded

S == INSTANCE Streaming WITH Req <- Player, req <- fetch
P == INSTANCE Packaging WITH manifest <- stored

ASSUME GateHasConstants == S!StreamingConstants

ASSUME PackagingHasConstants == P!PackagingConstants

gateVars == <<watermark, credit, since, completed, manifest, elapsed, fetch>>

packagingVars ==
    <<video, status, count, contentKey, wrappedBy, kek, stored, segment, task,
      overlapped, stranded>>

all == <<part, vars, gateVars, packagingVars>>

MCInit ==
    /\ Init /\ S!Init /\ P!Init
    /\ part \in Parts
    /\ part # "packaging" => kek = None

\* One request at a time; the instructor works in between.
Alone ==
    /\ Next
    /\ Cardinality({r \in Req : req'[r] # Idle}) <= 1
    /\ lesson' # lesson => \A r \in Req : req[r] = Idle

\* A call that clears a completion has no other call beside it.
ClearsAlone == \A r, s \in Req : req[r].want = "open" /\ req[s] # Idle => r = s

\* Overlapping progress calls; one that clears a completion overlaps none: what
\* another one had loaded before it could equal what that one computes, and the
\* column would not be written.
Updates ==
    /\ Next /\ UNCHANGED lesson
    /\ \A r \in Req : req'[r].kind = "update"
    /\ ClearsAlone'

\* Overlapping progress calls and fetches, none of which clears a completion.
Forward ==
    /\ Next /\ UNCHANGED lesson
    /\ \A r \in Req : /\ req'[r].want # "open"
                      /\ req'[r].kind = "fetch" => req'[r].want = "done"

MCNext ==
    /\ UNCHANGED part
    /\ \/ part = "alone" /\ Alone /\ UNCHANGED <<gateVars, packagingVars>>
       \/ part = "updates" /\ Updates /\ UNCHANGED <<gateVars, packagingVars>>
       \/ part = "forward" /\ Forward /\ UNCHANGED <<gateVars, packagingVars>>
       \/ part = "gate" /\ S!Next /\ UNCHANGED <<vars, packagingVars>>
       \/ part = "packaging" /\ P!Next /\ UNCHANGED <<vars, gateVars>>

\* The fairness of each part, Fairness of its module.
MCFairness ==
    /\ \A r \in Req : SF_vars(part = "forward" /\ Continue(r))
    /\ SF_vars(part = "forward" /\ \E r \in Req, l \in Lesson : Call(r, "update", l, "keep"))
    /\ WF_gateVars(part = "gate" /\ S!Tick)
    /\ \A r \in Player : WF_gateVars(part = "gate" /\ S!Continue(r))
    /\ SF_gateVars(part = "gate" /\ \E r \in Player : S!FetchNext(r))
    /\ \A t \in Task : WF_packagingVars(part = "packaging" /\ P!Step(t))

MCSpec == MCInit /\ [][MCNext]_all /\ MCFairness

\* Every call the two clients can make.
AllCalls == [k \in Kind |-> IF k = "fetch" THEN {"done", "keep"} ELSE Want]

\* A stream copy, in half seconds: 2.5 and 1.5 s, both of which round to 2.
StreamCopy == [n \in 0 .. Count - 1 |-> IF n % 2 = 0 THEN 5 ELSE 3]

\* Transcoded video, 4 s a segment, whose last one is the second that is left.
ShortEnd == [n \in 0 .. Count - 1 |-> IF n = Count - 1 THEN 2 ELSE 8]

MCLength == [u \in 1 .. MaxUpload |-> IF u = 2 THEN 1 ELSE 2]

\* Learning: once quiet, the enrollment tells what its lessons tell, provided that
\* no progress call overlapped one that clears a completion.
UpdatesAgree == part = "updates" => TypeOK /\ AgreesWhenQuiet

\* Learning: such progress calls issue one certificate, also to a learner who
\* re-opens a lesson and completes the course again.
CertificateIsOne == part = "updates" => OneCertificate

\* Learning: a recomputation puts right what edits of the course have left.
RecomputedIsRight == [][part = "alone" => RecomputeAgrees]_all

\* Learning: the completion arrives.
ForwardCompletes == part = "forward" => CompletionArrives

\* Streaming: the types, and nothing is served much ahead of time.
WatchedLongEnough == part = "gate" => S!TypeOK /\ S!WatchedLongEnough

\* Streaming: the end is reached.
PlaybackReachesEnd == part = "gate" => S!PlaybackCompletes

\* Packaging: the types, and segments can be decrypted.
Decryptable == part = "packaging" => P!TypeOK /\ P!Decryptable

\* Packaging: READY means one whole video.
ReadyIsWhole == part = "packaging" => P!ReadyIsWhole

\* Packaging: PENDING ends, unless the task that set it was stranded.
PackagingSettles == part = "packaging" => P!PackagingSettles

=============================================================================
