--------------------------- MODULE PlaybackProofs ---------------------------
(***************************************************************************)
(* Packaging, the anti-seek gate and the progress calls, for any video,    *)
(* rate, course and number of tasks, fetches and calls; the gate for       *)
(* fetches that do not overlap.                                            *)
(*                                                                         *)
(* What is stored of a video belongs to the lesson's key, because a task   *)
(* that has a key has the lesson's: the insert of the second one is        *)
(* refused. Unless tasks overlap, the one in flight also packages the      *)
(* lesson's video, and what it says it has written is there.               *)
(*                                                                         *)
(* The credit of a learner was earned second by second before the present  *)
(* gap began, and pays for the segments before the watermark. What a fetch *)
(* is about to commit is in the same way paid for by the gap it has        *)
(* loaded.                                                                 *)
(*                                                                         *)
(* A progress call holds its enrollment while it counts, so nothing it has *)
(* counted changes before it commits, and what it loaded earlier is not    *)
(* ahead of what is stored. A recomputation that nothing overlaps has      *)
(* loaded what is stored, and so stores the values it computes.            *)
(***************************************************************************)
EXTENDS MCPlayback, Numbers, TLAPS

-----------------------------------------------------------------------------
(* Packaging: what the tasks know *)

LEMMA MaxSegmentBounds ==
  ASSUME NEW u \in P!Upload
  PROVE  Length[u] \in Nat /\ P!MaxSegment \in Nat /\ Length[u] <= P!MaxSegment
  <1> DEFINE T == {Length[v] : v \in P!Upload}
  <1>1. MaxUpload \in Nat /\ Length \in [1 .. MaxUpload -> Nat]
    BY PackagingHasConstants DEF P!PackagingConstants, P!Upload
  <1>2. PICK b \in Nat : \A v \in 1 .. MaxUpload : Length[v] <= b
    BY <1>1, LengthsAreBounded
  <1>3. T \in SUBSET Nat /\ Length[u] \in T /\ \A x \in T : x <= b
    BY <1>1, <1>2 DEF P!Upload
  <1> HIDE DEF T
  <1>4. \E n \in T : \A m \in T : m <= n
    BY <1>3, GreatestNumber
  <1>5. P!MaxSegment \in T /\ \A m \in T : m <= P!MaxSegment
    BY <1>4 DEF P!MaxSegment, T
  <1>6. QED  BY <1>3, <1>5

\* A task that has its key has the lesson's; it writes the segments of the video
\* it loaded one after the other.
TaskOK(q) ==
    /\ q.at = "idle" => q = P!Idle
    /\ q.at # "idle" => video # 0
    /\ q.at \notin {"idle", "load"} => q.upload # 0
    /\ q.at = "insert" => q.key \in Key
    /\ q.at \in {"source", "manifest", "segments", "finish"} =>
          q.key = contentKey /\ contentKey \in Key
    /\ IF q.at \in {"segments", "finish"} THEN q.written <= Length[q.upload]
       ELSE q.written = 0

\* What a task knows that no other one overlaps: it packages the lesson's video,
\* and what it has written is what is stored.
TaskAlone(q) ==
    /\ q.at \notin {"idle", "load"} =>
          q.upload = video /\ status = "pending" /\ q.count = count
    /\ q.at \in {"segments", "finish"} =>
          stored = q.upload /\ \A n \in 1 .. q.written : segment[n].upload = q.upload
    /\ q.at = "finish" => q.written = Length[q.upload]

\* Without overlap at most one task is in flight.
OneInFlight == \A t, u \in Task : task[t] # P!Idle /\ task[u] # P!Idle => t = u

SegmentsHaveKeys == \A n \in 1 .. P!MaxSegment : segment[n].upload # 0 => contentKey \in Key

PackInv ==
    /\ P!TypeOK /\ P!Decryptable /\ P!ReadyIsWhole
    /\ SegmentsHaveKeys
    /\ \A t \in Task : TaskOK(task[t])
    /\ ~overlapped => OneInFlight /\ \A t \in Task : TaskAlone(task[t])

LEMMA TaskIdleOK == P!Idle \in P!TaskState /\ TaskOK(P!Idle) /\ TaskAlone(P!Idle)
  BY DEF P!Idle, P!TaskState, TaskOK, TaskAlone

LEMMA PackInitInv == P!Init => PackInv
  <1> SUFFICES ASSUME P!Init
               PROVE  PackInv
    OBVIOUS
  <1>1. P!TypeOK
    BY TaskIdleOK DEF P!Init, P!TypeOK, P!Upload, P!Status, P!Stored
  <1>2. status # "ready"
    BY PackagingHasConstants DEF P!Init, P!PackagingConstants, P!Status
  <1>3. \A n \in 1 .. P!MaxSegment : segment[n].upload = 0
    BY DEF P!Init
  <1>4. \A t \in Task : task[t] = P!Idle
    BY DEF P!Init
  <1>5. QED
    BY <1>1, <1>2, <1>3, <1>4, TaskIdleOK
       DEF PackInv, P!Decryptable, P!ReadyIsWhole, SegmentsHaveKeys, OneInFlight

\* A step of one task in flight: what the other tasks know it leaves true.
LEMMA PackStep ==
  ASSUME PackInv, NEW t \in Task, NEW q \in P!TaskState, task[t] # P!Idle,
         task' = [task EXCEPT ![t] = q],
         UNCHANGED <<video, kek, overlapped>>, stranded' \in BOOLEAN,
         wrappedBy' \in Kek \cup {None},
         contentKey' = contentKey \/ (contentKey = None /\ contentKey' \in Key),
         status' \in P!Status \cup {None}, count' \in Nat \cup {None},
         stored' \in P!Upload \cup {0}, segment' \in [1 .. P!MaxSegment -> P!Stored],
         P!Decryptable', SegmentsHaveKeys', P!ReadyIsWhole',
         TaskOK(q)', ~overlapped => TaskAlone(q)'
  PROVE  PackInv'
  <1>1. \A s \in Task : task'[s] = IF s = t THEN q ELSE task[s]
    BY DEF PackInv, P!TypeOK
  <1>2. P!TypeOK'
    BY DEF PackInv, P!TypeOK
  <1>3. ASSUME NEW s \in Task
        PROVE  TaskOK(task[s])'
    <2>1. CASE s = t
      BY <1>1, <2>1 DEF TaskOK
    <2>2. CASE s # t
      <3> DEFINE p == task[s]
      <3>1. TaskOK(p) /\ task'[s] = p
        BY <1>1, <2>2 DEF PackInv
      <3>2. contentKey \in Key => contentKey' = contentKey
        BY PackagingHasConstants DEF P!PackagingConstants
      <3>3. QED  BY <3>1, <3>2 DEF TaskOK
    <2>3. QED  BY <2>1, <2>2
  <1>4. ASSUME ~overlapped'
        PROVE  OneInFlight' /\ (\A s \in Task : TaskAlone(task[s]))'
    <2>1. \A s \in Task \ {t} : task[s] = P!Idle
      BY <1>4 DEF PackInv, OneInFlight
    <2>2. OneInFlight'
      BY <1>1, <2>1 DEF OneInFlight, P!Idle
    <2>3. ASSUME NEW s \in Task
          PROVE  TaskAlone(task[s])'
      <3>1. CASE s = t
        BY <1>1, <1>4, <3>1 DEF TaskAlone
      <3>2. CASE s # t
        <4>1. task'[s] = P!Idle
          BY <1>1, <2>1, <3>2
        <4>2. QED  BY <4>1 DEF TaskAlone, P!Idle
      <3>3. QED  BY <3>1, <3>2
    <2>4. QED  BY <2>2, <2>3
  <1>5. QED  BY <1>2, <1>3, <1>4 DEF PackInv

\* A step of a task that writes nothing.
LEMMA PackQuietStep ==
  ASSUME PackInv, NEW t \in Task, NEW q \in P!TaskState, task[t] # P!Idle,
         task' = [task EXCEPT ![t] = q],
         UNCHANGED <<video, status, count, contentKey, wrappedBy, kek>>,
         UNCHANGED <<stored, segment, overlapped>>, stranded' \in BOOLEAN,
         TaskOK(q), ~overlapped => TaskAlone(q), q = P!Idle => status # "ready" \/ overlapped
  PROVE  PackInv'
  <1>1. /\ status' \in P!Status \cup {None} /\ count' \in Nat \cup {None}
        /\ stored' \in P!Upload \cup {0} /\ segment' \in [1 .. P!MaxSegment -> P!Stored]
        /\ wrappedBy' \in Kek \cup {None} /\ kek' = kek
        /\ UNCHANGED <<video, status, count, contentKey, stored, segment, overlapped>>
    BY DEF PackInv, P!TypeOK
  <1>2. P!Decryptable' /\ SegmentsHaveKeys'
    BY <1>1 DEF PackInv, P!Decryptable, SegmentsHaveKeys
  <1>3. TaskOK(q)' /\ (~overlapped => TaskAlone(q)')
    BY <1>1 DEF TaskOK, TaskAlone
  <1>4. P!ReadyIsWhole'
    <2>1. CASE q = P!Idle
      BY <1>1, <2>1 DEF P!ReadyIsWhole
    <2>2. CASE q # P!Idle
      <3>1. P!InFlight' # {}
        BY <2>2 DEF P!InFlight, PackInv, P!TypeOK
      <3>2. QED  BY <1>1, <3>1 DEF PackInv, P!ReadyIsWhole
    <2>3. QED  BY <2>1, <2>2
  <1>5. QED  BY <1>1, <1>2, <1>3, <1>4, PackStep

\* What holds of the record of one task.
LEMMA TaskFacts ==
  ASSUME PackInv, NEW t \in Task
  PROVE  /\ task[t] \in P!TaskState /\ TaskOK(task[t])
         /\ ~overlapped => TaskAlone(task[t])
         /\ task[t].at # "idle" => task[t] # P!Idle /\ video \in P!Upload
  BY DEF PackInv, P!TypeOK, TaskOK, P!Idle

-----------------------------------------------------------------------------
(* Packaging: the steps of a task *)

\* A task that ends with the lesson marked FAILED.
LEMMA FailedStep ==
  ASSUME PackInv, NEW t \in Task, task[t] # P!Idle, P!Failed(t),
         UNCHANGED <<video, count, contentKey, wrappedBy, kek>>,
         UNCHANGED <<stored, segment, overlapped, stranded>>
  PROVE  PackInv'
  <1>1. /\ status' = "failed" /\ task' = [task EXCEPT ![t] = P!Idle]
        /\ UNCHANGED <<video, count, contentKey, wrappedBy, kek, stored, segment>>
        /\ UNCHANGED <<overlapped, stranded>>
    BY DEF P!Failed, P!Finish
  <1>2. P!ReadyIsWhole'
    BY <1>1 DEF P!ReadyIsWhole
  <1>3. /\ status' \in P!Status \cup {None} /\ count' \in Nat \cup {None}
        /\ stored' \in P!Upload \cup {0} /\ segment' \in [1 .. P!MaxSegment -> P!Stored]
        /\ wrappedBy' \in Kek \cup {None} /\ stranded' \in BOOLEAN
    BY <1>1 DEF PackInv, P!TypeOK, P!Status
  <1>4. P!Decryptable' /\ SegmentsHaveKeys'
    BY <1>1 DEF PackInv, P!Decryptable, SegmentsHaveKeys
  <1>5. TaskOK(P!Idle)' /\ TaskAlone(P!Idle)'
    BY DEF TaskOK, TaskAlone, P!Idle
  <1>6. QED  BY <1>1, <1>2, <1>3, <1>4, <1>5, TaskIdleOK, PackStep

LEMMA LoadStep ==
  ASSUME PackInv, NEW t \in Task, P!LoadLesson(t)
  PROVE  PackInv'
  <1>1. /\ task[t] \in P!TaskState /\ TaskOK(task[t]) /\ video \in P!Upload
        /\ task[t] # P!Idle /\ task[t].at = "load"
        /\ UNCHANGED <<video, count, contentKey, stored, segment>>
        /\ UNCHANGED <<wrappedBy, kek, overlapped, stranded>>
    BY TaskFacts DEF P!LoadLesson, P!store, P!keys, P!ghosts
  <1>2. CASE P!Finish(t) /\ status' = "failed"
    BY <1>1, <1>2, FailedStep DEF P!Failed
  <1>3. CASE /\ task' = [task EXCEPT ![t].at = "key", ![t].upload = video, ![t].count = count]
             /\ status' = "pending"
    <2>0. PICK q : q = [task[t] EXCEPT !.at = "key", !.upload = video, !.count = count]
      OBVIOUS
    <2>1. /\ q \in P!TaskState /\ q.at = "key" /\ q.upload = video /\ q.count = count
          /\ q.written = task[t].written
      BY <1>1, <2>0 DEF P!TaskState, PackInv, P!TypeOK
    <2>2. task' = [task EXCEPT ![t] = q]
      BY <1>3, <2>0 DEF PackInv, P!TypeOK
    <2>3. TaskOK(q)' /\ TaskAlone(q)'
      BY <1>1, <1>3, <2>1 DEF TaskOK, TaskAlone, P!Upload
    <2>4. P!ReadyIsWhole'
      BY <1>3 DEF P!ReadyIsWhole
    <2>5. /\ status' \in P!Status \cup {None} /\ count' \in Nat \cup {None}
          /\ stored' \in P!Upload \cup {0} /\ segment' \in [1 .. P!MaxSegment -> P!Stored]
          /\ wrappedBy' \in Kek \cup {None} /\ stranded' \in BOOLEAN
      BY <1>1, <1>3 DEF PackInv, P!TypeOK, P!Status
    <2>6. P!Decryptable' /\ SegmentsHaveKeys'
      BY <1>1 DEF PackInv, P!Decryptable, SegmentsHaveKeys
    <2>7. QED  BY <1>1, <2>1, <2>2, <2>3, <2>4, <2>5, <2>6, PackStep
  <1>4. QED  BY <1>2, <1>3 DEF P!LoadLesson

LEMMA FindStep ==
  ASSUME PackInv, NEW t \in Task, P!FindKey(t)
  PROVE  PackInv'
  <1>1. /\ task[t] \in P!TaskState /\ TaskOK(task[t]) /\ (~overlapped => TaskAlone(task[t]))
        /\ task[t] # P!Idle /\ task[t].at = "key" /\ stranded \in BOOLEAN
        /\ UNCHANGED <<video, status, count, contentKey, stored, segment>>
        /\ UNCHANGED <<wrappedBy, kek, overlapped>>
    BY TaskFacts DEF P!FindKey, P!lesson, P!store, P!keys, PackInv, P!TypeOK
  <1>2. ASSUME NEW k \in Key,
               task' = [task EXCEPT ![t].at = "insert", ![t].key = k], UNCHANGED stranded
        PROVE  PackInv'
    <2> DEFINE q == [task[t] EXCEPT !.at = "insert", !.key = k]
    <2>1. /\ q \in P!TaskState /\ q.at = "insert" /\ q.upload = task[t].upload
          /\ q.count = task[t].count /\ q.written = task[t].written /\ q.key = k
      BY <1>1 DEF P!TaskState
    <2>2. task' = [task EXCEPT ![t] = q]
      BY <1>2 DEF PackInv, P!TypeOK
    <2> HIDE DEF q
    <2>3. TaskOK(q) /\ (~overlapped => TaskAlone(q)) /\ q # P!Idle
      BY <1>1, <2>1 DEF TaskOK, TaskAlone, P!Idle
    <2>4. QED  BY <1>1, <1>2, <2>1, <2>2, <2>3, PackQuietStep
  <1>3. CASE /\ contentKey # None /\ UNCHANGED stranded
             /\ task' = [task EXCEPT ![t].at = "source", ![t].key = contentKey]
    <2> DEFINE q == [task[t] EXCEPT !.at = "source", !.key = contentKey]
    <2>1. contentKey \in Key
      BY <1>3 DEF PackInv, P!TypeOK
    <2>2. /\ q \in P!TaskState /\ q.at = "source" /\ q.upload = task[t].upload
          /\ q.count = task[t].count /\ q.written = task[t].written /\ q.key = contentKey
      BY <1>1, <2>1 DEF P!TaskState
    <2>3. task' = [task EXCEPT ![t] = q]
      BY <1>3 DEF PackInv, P!TypeOK
    <2> HIDE DEF q
    <2>4. TaskOK(q) /\ (~overlapped => TaskAlone(q)) /\ q # P!Idle
      BY <1>1, <2>1, <2>2 DEF TaskOK, TaskAlone, P!Idle
    <2>5. QED  BY <1>1, <1>3, <2>2, <2>3, <2>4, PackQuietStep
  <1>4. CASE P!Finish(t) /\ stranded' = TRUE
    <2>1. status # "ready" \/ overlapped
      BY <1>1 DEF TaskAlone
    <2>2. QED  BY <1>1, <1>4, <2>1, TaskIdleOK, PackQuietStep DEF P!Finish
  <1>5. QED  BY <1>2, <1>3, <1>4 DEF P!FindKey, P!KeyMissing

LEMMA InsertStep ==
  ASSUME PackInv, NEW t \in Task, P!InsertKey(t)
  PROVE  PackInv'
  <1>1. /\ task[t] \in P!TaskState /\ TaskOK(task[t]) /\ (~overlapped => TaskAlone(task[t]))
        /\ task[t] # P!Idle /\ task[t].at = "insert" /\ task[t].key \in Key
        /\ stranded \in BOOLEAN /\ kek \in Kek \cup {None} /\ wrappedBy \in Kek \cup {None}
        /\ UNCHANGED <<video, status, count, kek, stored, segment, overlapped, stranded>>
    BY TaskFacts
       DEF P!InsertKey, P!lesson, P!store, P!ghosts, TaskOK, PackInv, P!TypeOK
  <1>2. CASE P!Finish(t) /\ UNCHANGED <<contentKey, wrappedBy>>
    <2>1. status # "ready" \/ overlapped
      BY <1>1 DEF TaskAlone
    <2>2. QED  BY <1>1, <1>2, <2>1, TaskIdleOK, PackQuietStep DEF P!Finish
  <1>3. CASE /\ contentKey = None /\ contentKey' = task[t].key /\ wrappedBy' = kek
             /\ P!Go(t, "source")
    <2>0. PICK q : q = [task[t] EXCEPT !.at = "source"]
      OBVIOUS
    <2>1. /\ q \in P!TaskState /\ q.at = "source" /\ q.upload = task[t].upload
          /\ q.count = task[t].count /\ q.written = task[t].written /\ q.key = task[t].key
      BY <1>1, <2>0 DEF P!TaskState
    <2>2. task' = [task EXCEPT ![t] = q]
      BY <1>3, <2>0 DEF PackInv, P!TypeOK, P!Go
    <2>3. TaskOK(q)' /\ (~overlapped => TaskAlone(q)') /\ q # P!Idle
      BY <1>1, <1>3, <2>1 DEF TaskOK, TaskAlone, P!Idle
    <2>4. \A n \in 1 .. P!MaxSegment : segment[n].upload = 0
      BY <1>3, PackagingHasConstants DEF PackInv, SegmentsHaveKeys, P!PackagingConstants
    <2>5. P!Decryptable' /\ SegmentsHaveKeys'
      BY <1>1, <2>4 DEF P!Decryptable, SegmentsHaveKeys
    <2>6. P!ReadyIsWhole'
      BY <1>1, TaskIdleOK DEF P!ReadyIsWhole, TaskAlone
    <2>7. /\ status' \in P!Status \cup {None} /\ count' \in Nat \cup {None}
          /\ stored' \in P!Upload \cup {0} /\ segment' \in [1 .. P!MaxSegment -> P!Stored]
          /\ wrappedBy' \in Kek \cup {None} /\ stranded' \in BOOLEAN
      BY <1>1, <1>3 DEF PackInv, P!TypeOK
    <2>8. QED  BY <1>1, <1>3, <2>1, <2>2, <2>3, <2>5, <2>6, <2>7, PackStep
  <1>4. QED  BY <1>2, <1>3 DEF P!InsertKey, P!KeyAccepted

LEMMA SourceStep ==
  ASSUME PackInv, NEW t \in Task, P!ReadSource(t)
  PROVE  PackInv'
  <1>1. /\ task[t] \in P!TaskState /\ TaskOK(task[t]) /\ (~overlapped => TaskAlone(task[t]))
        /\ task[t] # P!Idle /\ task[t].at = "source" /\ stranded \in BOOLEAN
        /\ UNCHANGED <<video, count, contentKey, stored, segment>>
        /\ UNCHANGED <<wrappedBy, kek, overlapped, stranded>>
    BY TaskFacts DEF P!ReadSource, P!store, P!keys, P!ghosts, PackInv, P!TypeOK
  <1>2. CASE P!Failed(t)
    BY <1>1, <1>2, FailedStep
  <1>3. CASE P!Go(t, "manifest") /\ UNCHANGED status
    <2> DEFINE q == [task[t] EXCEPT !.at = "manifest"]
    <2>1. /\ q \in P!TaskState /\ q.at = "manifest" /\ q.upload = task[t].upload
          /\ q.count = task[t].count /\ q.written = task[t].written /\ q.key = task[t].key
      BY <1>1 DEF P!TaskState
    <2>2. task' = [task EXCEPT ![t] = q]
      BY <1>3 DEF PackInv, P!TypeOK, P!Go
    <2> HIDE DEF q
    <2>3. TaskOK(q) /\ (~overlapped => TaskAlone(q)) /\ q # P!Idle
      BY <1>1, <2>1 DEF TaskOK, TaskAlone, P!Idle
    <2>4. QED  BY <1>1, <1>3, <2>1, <2>2, <2>3, PackQuietStep
  <1>4. QED  BY <1>2, <1>3 DEF P!ReadSource

LEMMA FailStep ==
  ASSUME PackInv, NEW t \in Task, P!FailPackaging(t)
  PROVE  PackInv'
  BY TaskFacts, FailedStep DEF P!FailPackaging, P!store, P!keys, P!ghosts

LEMMA ManifestStep ==
  ASSUME PackInv, NEW t \in Task, P!WriteManifest(t)
  PROVE  PackInv'
  <1>0. PICK q : q = [task[t] EXCEPT !.at = "segments"]
    OBVIOUS
  <1>1. /\ task[t] \in P!TaskState /\ TaskOK(task[t]) /\ (~overlapped => TaskAlone(task[t]))
        /\ task[t] # P!Idle /\ task[t].at = "manifest" /\ stored' = task[t].upload
        /\ UNCHANGED <<video, status, count, contentKey, segment>>
        /\ UNCHANGED <<wrappedBy, kek, overlapped, stranded>>
    BY TaskFacts DEF P!WriteManifest, P!lesson, P!keys, P!ghosts
  <1>2. /\ q \in P!TaskState /\ q.at = "segments" /\ q.upload = task[t].upload
        /\ q.count = task[t].count /\ q.written = task[t].written /\ q.key = task[t].key
    BY <1>0, <1>1 DEF P!TaskState
  <1>3. task' = [task EXCEPT ![t] = q]
    BY <1>0 DEF PackInv, P!TypeOK, P!Go, P!WriteManifest
  <1>4. q.upload \in P!Upload /\ q.written = 0
    BY <1>1, <1>2 DEF TaskOK, P!TaskState
  <1>5. TaskOK(q)' /\ (~overlapped => TaskAlone(q)')
    BY <1>1, <1>2, <1>4, MaxSegmentBounds DEF TaskOK, TaskAlone
  <1>6. P!ReadyIsWhole'
    BY <1>1 DEF P!ReadyIsWhole, TaskAlone
  <1>7. /\ status' \in P!Status \cup {None} /\ count' \in Nat \cup {None}
        /\ stored' \in P!Upload \cup {0} /\ segment' \in [1 .. P!MaxSegment -> P!Stored]
        /\ wrappedBy' \in Kek \cup {None} /\ stranded' \in BOOLEAN
    BY <1>1, <1>2, <1>4 DEF PackInv, P!TypeOK
  <1>8. P!Decryptable' /\ SegmentsHaveKeys'
    BY <1>1 DEF PackInv, P!Decryptable, SegmentsHaveKeys
  <1>9. QED  BY <1>1, <1>2, <1>3, <1>5, <1>6, <1>7, <1>8, PackStep

LEMMA SegmentStep ==
  ASSUME PackInv, NEW t \in Task, P!WriteSegment(t)
  PROVE  PackInv'
  <1>1. /\ task[t] \in P!TaskState /\ TaskOK(task[t]) /\ (~overlapped => TaskAlone(task[t]))
        /\ task[t] # P!Idle /\ task[t].at = "segments" /\ task[t].upload \in P!Upload
        /\ UNCHANGED <<video, status, count, contentKey, stored>>
        /\ UNCHANGED <<wrappedBy, kek, overlapped, stranded>>
    BY TaskFacts DEF P!WriteSegment, P!lesson, P!keys, P!ghosts, TaskOK, P!TaskState
  <1>2. P!ReadyIsWhole'
    BY <1>1 DEF P!ReadyIsWhole, TaskAlone
  <1>3. /\ status' \in P!Status \cup {None} /\ count' \in Nat \cup {None}
        /\ stored' \in P!Upload \cup {0} /\ segment \in [1 .. P!MaxSegment -> P!Stored]
        /\ wrappedBy' \in Kek \cup {None} /\ stranded' \in BOOLEAN
    BY <1>1 DEF PackInv, P!TypeOK
  <1>4. CASE task[t].written = Length[task[t].upload] /\ P!Go(t, "finish") /\ UNCHANGED segment
    <2>0. PICK q : q = [task[t] EXCEPT !.at = "finish"]
      OBVIOUS
    <2>1. /\ q \in P!TaskState /\ q.at = "finish" /\ q.upload = task[t].upload
          /\ q.count = task[t].count /\ q.written = task[t].written /\ q.key = task[t].key
      BY <1>1, <2>0 DEF P!TaskState
    <2>2. task' = [task EXCEPT ![t] = q]
      BY <1>4, <2>0 DEF PackInv, P!TypeOK, P!Go
    <2>3. TaskOK(q)' /\ (~overlapped => TaskAlone(q)')
      BY <1>1, <1>4, <2>1 DEF TaskOK, TaskAlone
    <2>4. P!Decryptable' /\ SegmentsHaveKeys'
      BY <1>1, <1>4 DEF PackInv, P!Decryptable, SegmentsHaveKeys
    <2>5. QED  BY <1>1, <1>2, <1>3, <1>4, <2>1, <2>2, <2>3, <2>4, PackStep
  <1>5. CASE /\ task[t].written # Length[task[t].upload]
             /\ segment' = [segment EXCEPT ![task[t].written + 1] =
                               [upload |-> task[t].upload, key |-> task[t].key]]
             /\ task' = [task EXCEPT ![t].written = @ + 1]
    <2>0. PICK q : q = [task[t] EXCEPT !.written = @ + 1]
      OBVIOUS
    <2>1. /\ q \in P!TaskState /\ q.at = "segments" /\ q.upload = task[t].upload
          /\ q.count = task[t].count /\ q.written = task[t].written + 1 /\ q.key = task[t].key
      BY <1>1, <2>0 DEF P!TaskState
    <2>2. task' = [task EXCEPT ![t] = q]
      BY <1>5, <2>0 DEF PackInv, P!TypeOK
    <2>3. /\ task[t].written \in Nat /\ task[t].written <= Length[q.upload]
          /\ Length[q.upload] \in Nat /\ q.key = contentKey /\ contentKey \in Key
      BY <1>1, <2>1, MaxSegmentBounds DEF TaskOK, P!TaskState
    <2>4. q.written \in 1 .. P!MaxSegment /\ q.written <= Length[q.upload]
      BY <1>1, <1>5, <2>1, <2>3, MaxSegmentBounds
    <2>5. PICK e : e = [upload |-> q.upload, key |-> q.key]
      OBVIOUS
    <2>6. e \in P!Stored /\ e.upload = q.upload /\ e.key = contentKey
      BY <1>1, <2>1, <2>3, <2>5 DEF P!Stored
    <2>7. segment' = [segment EXCEPT ![q.written] = e]
      BY <1>5, <2>1, <2>5
    <2>8. /\ segment' \in [1 .. P!MaxSegment -> P!Stored]
          /\ \A n \in 1 .. P!MaxSegment : segment'[n] = IF n = q.written THEN e ELSE segment[n]
      BY <1>3, <2>6, <2>7
    <2>9. P!Decryptable' /\ SegmentsHaveKeys'
      BY <1>1, <2>3, <2>6, <2>8 DEF PackInv, P!Decryptable, SegmentsHaveKeys
    <2>10. TaskOK(q)'
      BY <1>1, <2>1, <2>3, <2>4 DEF TaskOK
    <2>11. ~overlapped => TaskAlone(q)'
      <3> SUFFICES ASSUME ~overlapped
                   PROVE  TaskAlone(q)'
        OBVIOUS
      <3>1. /\ q.upload = video /\ status = "pending" /\ q.count = count /\ stored = q.upload
            /\ \A n \in 1 .. task[t].written : segment[n].upload = q.upload
        BY <1>1, <2>1 DEF TaskAlone
      <3>2. ASSUME NEW n \in 1 .. q.written
            PROVE  segment'[n].upload = q.upload
        <4>1. n \in 1 .. P!MaxSegment
          BY <1>1, <2>4, MaxSegmentBounds
        <4>2. n = q.written \/ n \in 1 .. task[t].written
          BY <2>1, <2>3
        <4>3. QED  BY <2>6, <2>8, <3>1, <4>1, <4>2
      <3>3. QED  BY <1>1, <2>1, <3>1, <3>2 DEF TaskAlone
    <2>12. QED
      BY <1>1, <1>2, <1>3, <2>1, <2>2, <2>8, <2>9, <2>10, <2>11, PackStep
  <1>6. QED  BY <1>4, <1>5 DEF P!WriteSegment, P!AllWritten

LEMMA FinishStep ==
  ASSUME PackInv, NEW t \in Task, P!FinishPackaging(t)
  PROVE  PackInv'
  <1> DEFINE q == task[t]
  <1>1. /\ q \in P!TaskState /\ TaskOK(q) /\ (~overlapped => TaskAlone(q))
        /\ q # P!Idle /\ q.at = "finish" /\ q.upload \in P!Upload
        /\ task' = [task EXCEPT ![t] = P!Idle] /\ status' = "ready"
        /\ count' = IF Length[q.upload] = q.count THEN count ELSE Length[q.upload]
        /\ UNCHANGED <<video, contentKey, stored, segment>>
        /\ UNCHANGED <<wrappedBy, kek, overlapped, stranded>>
    BY TaskFacts DEF P!FinishPackaging, P!Finish, P!store, P!keys, P!ghosts, TaskOK, P!TaskState
  <1>2. Length[q.upload] \in Nat
    BY <1>1, MaxSegmentBounds
  <1>3. /\ status' \in P!Status \cup {None} /\ count' \in Nat \cup {None}
        /\ stored' \in P!Upload \cup {0} /\ segment' \in [1 .. P!MaxSegment -> P!Stored]
        /\ wrappedBy' \in Kek \cup {None} /\ stranded' \in BOOLEAN
    BY <1>1, <1>2 DEF PackInv, P!TypeOK, P!Status
  <1>4. P!Decryptable' /\ SegmentsHaveKeys'
    BY <1>1 DEF PackInv, P!Decryptable, SegmentsHaveKeys
  <1>5. TaskOK(P!Idle)' /\ TaskAlone(P!Idle)'
    BY DEF TaskOK, TaskAlone, P!Idle
  <1>6. P!ReadyIsWhole'
    <2> SUFFICES ASSUME ~overlapped
                 PROVE  P!ReadyIsWhole'
      BY <1>1 DEF P!ReadyIsWhole
    <2>1. /\ q.upload = video /\ q.count = count /\ stored = q.upload
          /\ q.written = Length[q.upload]
          /\ \A n \in 1 .. q.written : segment[n].upload = q.upload
      BY <1>1 DEF TaskAlone
    <2>2. stored # 0 /\ count' = Length[stored]
      BY <1>1, <2>1 DEF P!Upload
    <2> HIDE DEF q
    <2>3. QED  BY <1>1, <2>1, <2>2 DEF P!ReadyIsWhole
  <1>7. QED  BY <1>1, <1>3, <1>4, <1>5, <1>6, TaskIdleOK, PackStep

\* An upload that finds another task in flight overlaps it.
LEMMA UploadStep ==
  ASSUME PackInv, NEW t \in Task, P!UploadVideo(t)
  PROVE  PackInv'
  <1>0. PICK q : q = [P!Idle EXCEPT !.at = "load"]
    OBVIOUS
  <1>1. /\ q \in P!TaskState /\ q.at = "load" /\ q.written = 0 /\ q # P!Idle
    BY <1>0, TaskIdleOK DEF P!Idle, P!TaskState
  <1>2. /\ video \in Nat /\ video' = video + 1 /\ video' \in P!Upload
        /\ task[t] = P!Idle /\ task' = [task EXCEPT ![t] = q]
        /\ overlapped' = (overlapped \/ P!InFlight # {})
        /\ stranded' = FALSE
        /\ UNCHANGED <<status, count, contentKey, wrappedBy, kek, stored, segment>>
    BY <1>0, PackagingHasConstants
       DEF P!UploadVideo, PackInv, P!TypeOK, P!Upload, P!keys, P!store, P!PackagingConstants
  <1>3. \A s \in Task : task'[s] = IF s = t THEN q ELSE task[s]
    BY <1>2 DEF PackInv, P!TypeOK
  <1>4. P!TypeOK'
    BY <1>1, <1>2 DEF PackInv, P!TypeOK
  <1>5. P!Decryptable' /\ SegmentsHaveKeys'
    BY <1>2 DEF PackInv, P!Decryptable, SegmentsHaveKeys
  <1>6. P!InFlight' # {}
    BY <1>1, <1>3 DEF P!InFlight
  <1>7. P!ReadyIsWhole'
    BY <1>2, <1>6 DEF PackInv, P!ReadyIsWhole, P!TypeOK
  <1>8. ASSUME NEW s \in Task
        PROVE  TaskOK(task[s])'
    <2>1. video' # 0
      BY <1>2
    <2>2. CASE s = t
      BY <1>1, <1>2, <1>3, <2>1, <2>2 DEF TaskOK
    <2>3. CASE s # t
      <3> DEFINE p == task[s]
      <3>1. TaskOK(p) /\ task'[s] = p
        BY <1>3, <2>3 DEF PackInv
      <3>2. QED  BY <1>2, <2>1, <3>1 DEF TaskOK
    <2>4. QED  BY <2>2, <2>3
  <1>9. ASSUME ~overlapped'
        PROVE  OneInFlight' /\ (\A s \in Task : TaskAlone(task[s]))'
    <2>1. \A s \in Task : task[s] = P!Idle
      BY <1>2, <1>9 DEF P!InFlight
    <2>2. OneInFlight'
      BY <1>3, <2>1 DEF OneInFlight, P!Idle
    <2>3. \A s \in Task : task'[s].at \in {"idle", "load"}
      BY <1>1, <1>3, <2>1 DEF P!Idle
    <2>4. QED  BY <2>2, <2>3 DEF TaskAlone
  <1>10. QED  BY <1>4, <1>5, <1>7, <1>8, <1>9 DEF PackInv

LEMMA RestartStep ==
  ASSUME PackInv, P!Restart
  PROVE  PackInv'
  <1>1. /\ task' = [t \in Task |-> P!Idle] /\ kek' \in Kek \cup {None}
        /\ stranded' = (stranded \/ P!InFlight # {})
        /\ UNCHANGED <<video, status, count, contentKey, wrappedBy, stored, segment, overlapped>>
    BY DEF P!Restart, P!lesson, P!store
  <1>2. P!TypeOK'
    BY <1>1, TaskIdleOK DEF PackInv, P!TypeOK
  <1>3. P!Decryptable' /\ SegmentsHaveKeys' /\ P!ReadyIsWhole'
    BY <1>1 DEF PackInv, P!Decryptable, SegmentsHaveKeys, P!ReadyIsWhole
  <1>4. OneInFlight' /\ \A t \in Task : task'[t] = P!Idle
    BY <1>1 DEF OneInFlight
  <1>5. (\A t \in Task : TaskOK(task[t]) /\ TaskAlone(task[t]))'
    BY <1>4 DEF TaskOK, TaskAlone, P!Idle
  <1>6. QED  BY <1>2, <1>3, <1>4, <1>5 DEF PackInv

LEMMA TaskAbortStep ==
  ASSUME PackInv, NEW t \in Task, P!Abort(t)
  PROVE  PackInv'
  <1>1. /\ task' = [task EXCEPT ![t] = P!Idle] /\ stranded' = TRUE
        /\ UNCHANGED <<video, status, count, contentKey, wrappedBy, kek, stored, segment>>
        /\ UNCHANGED overlapped
    BY DEF P!Abort, P!Finish, P!lesson, P!keys, P!store
  <1>2. P!Decryptable' /\ SegmentsHaveKeys' /\ P!ReadyIsWhole'
    BY <1>1 DEF PackInv, P!Decryptable, SegmentsHaveKeys, P!ReadyIsWhole
  <1>3. /\ status' \in P!Status \cup {None} /\ count' \in Nat \cup {None}
        /\ stored' \in P!Upload \cup {0} /\ segment' \in [1 .. P!MaxSegment -> P!Stored]
        /\ wrappedBy' \in Kek \cup {None} /\ stranded' \in BOOLEAN
    BY <1>1 DEF PackInv, P!TypeOK
  <1>4. TaskOK(P!Idle)' /\ TaskAlone(P!Idle)'
    BY DEF TaskOK, TaskAlone, P!Idle
  <1>5. task[t] # P!Idle
    BY DEF P!Abort
  <1>6. QED  BY <1>1, <1>2, <1>3, <1>4, <1>5, TaskIdleOK, PackStep

LEMMA PackNextInv == PackInv /\ [P!Next]_packagingVars => PackInv'
  <1> SUFFICES ASSUME PackInv, [P!Next]_packagingVars
               PROVE  PackInv'
    OBVIOUS
  <1>1. CASE UNCHANGED packagingVars
    <2>1. /\ P!TypeOK' /\ P!Decryptable' /\ P!ReadyIsWhole' /\ SegmentsHaveKeys'
      BY <1>1 DEF packagingVars, PackInv, P!TypeOK, P!Decryptable, P!ReadyIsWhole, P!InFlight,
                  SegmentsHaveKeys
    <2>2. /\ (\A t \in Task : TaskOK(task[t]))'
          /\ ~overlapped' => OneInFlight' /\ (\A t \in Task : TaskAlone(task[t]))'
      BY <1>1 DEF packagingVars, PackInv, OneInFlight, TaskOK, TaskAlone
    <2>3. QED  BY <2>1, <2>2 DEF PackInv
  <1>2. CASE P!Restart
    BY <1>2, RestartStep
  <1>3. ASSUME NEW t \in Task, P!UploadVideo(t) \/ P!Step(t) \/ P!Abort(t)
        PROVE  PackInv'
    BY <1>3, TaskAbortStep, UploadStep, LoadStep, FindStep, InsertStep, SourceStep, FailStep, ManifestStep,
       SegmentStep, FinishStep DEF P!Step
  <1>4. QED  BY <1>1, <1>2, <1>3 DEF P!Next

-----------------------------------------------------------------------------
(* The gate *)

\* Fetches that do not overlap.
OneFetch == \A r, s \in Player : r = s

\* The sum that the model takes from the community modules.
LEMMA SumIsFold ==
  \A f, T : S!SumFunctionOnSet(f, T) = SumOver(f, T)
  BY DEF S!SumFunctionOnSet, S!FoldFunctionOnSet, S!MapThenFoldSet, SumOver, SumOn, SumStep,
         Picked

LEMMA EndOffsetIsNumber ==
  ASSUME NEW seg \in S!Segment
  PROVE  S!EndOffset(seg) \in Nat
  <1>1. /\ Count \in Nat \ {0} /\ Duration \in [0 .. Count - 1 -> Nat] /\ seg \in 0 .. Count - 1
    BY GateHasConstants DEF S!StreamingConstants, S!Segment
  <1>2. IsFiniteSet(0 .. seg)
    BY <1>1, FS_Interval
  <1>3. \A x \in 0 .. seg : Duration[x] \in Nat
    BY <1>1
  <1>4. SumOver(Duration, 0 .. seg) \in Nat
    BY <1>2, <1>3, SumIsNumber
  <1>5. QED  BY <1>4, SumIsFold DEF S!EndOffset

\* Products, of which the rest of the proof needs no more than this.
LEMMA ProductsGrow ==
  ASSUME NEW a \in Nat, NEW b \in Nat, NEW t \in Nat, a <= b
  PROVE  a * t \in Nat /\ a * t <= b * t
  OBVIOUS

LEMMA ProductOfSum ==
  ASSUME NEW a \in Nat, NEW b \in Nat, NEW t \in Nat
  PROVE  (a + b) * t = a * t + b * t
  OBVIOUS

LEMMA WholeSeconds ==
  ASSUME NEW g \in Nat, NEW t \in Nat \ {0}
  PROVE  g \div t \in Nat /\ (g \div t) * t <= g
  OBVIOUS

LEMMA RateOfTime ==
  ASSUME NEW a \in Nat, NEW e \in Nat, NEW t \in Nat, NEW rate \in Nat, NEW o \in Nat,
         rate * (a * t) >= o, a * t <= e
  PROVE  rate * e >= o
  <1>1. rate * (a * t) <= rate * e
    OBVIOUS
  <1>2. QED  BY <1>1

\* The clamp is a number of seconds.
LEMMA SegmentLengthIsNumber ==
  ASSUME NEW seg \in S!Segment
  PROVE  S!SegmentLength(seg) \in Nat
  <1>1. Duration[seg] \in Nat /\ TicksPerSecond \in Nat \ {0}
    BY GateHasConstants DEF S!StreamingConstants
  <1>2. Duration[seg] \div TicksPerSecond \in Nat
    BY <1>1
  <1>3. S!Rounded(Duration[seg]) \in Nat
    BY <1>2 DEF S!Rounded
  <1>4. QED  BY <1>3 DEF S!SegmentLength

\* Ticks since gap; none if it never was.
Ticks(gap) == IF gap = Never THEN 0 ELSE gap

\* The credit was earned, second by second, before the last gap began.
PaidFor(credits, gap) ==
    /\ gap = Never => credits = 0
    /\ elapsed # Never /\ elapsed < MaxElapsed => credits * TicksPerSecond + Ticks(gap) <= elapsed

\* A fetch has loaded the row, which nothing changes until it commits.
FetchOK(q) ==
    /\ q.at # "idle" => q.watermark = watermark /\ q.credit = credit
    /\ q.at = "gate" => q.since = since
    /\ q.at = "commit" => /\ elapsed # Never /\ q.since # Never
                          /\ S!Earned(q.newWatermark, q.newCredit)
                          /\ PaidFor(q.newCredit, q.since)

GateInv ==
    /\ S!TypeOK
    /\ elapsed = Never => watermark = -1 /\ since = Never
    /\ S!Earned(watermark, credit)
    /\ PaidFor(credit, since)
    /\ \A r \in Player : FetchOK(fetch[r])

LEMMA FetchIdleOK == S!Idle \in S!Request /\ FetchOK(S!Idle)
  BY GateHasConstants DEF S!Idle, S!Request, S!Segment, S!Since, FetchOK, S!StreamingConstants

\* What the constants are, as the proof uses it.
LEMMA GateNumbers ==
  /\ Count \in Nat \ {0} /\ Duration \in [S!Segment -> Nat] /\ S!Segment = 0 .. Count - 1
  /\ Lookahead \in Nat /\ MaxRate \in Nat /\ TicksPerSecond \in Nat \ {0}
  /\ MaxCredit \in Nat /\ MaxGap \in Nat /\ MaxElapsed \in Nat
  /\ \A n \in (0 .. MaxGap) \cup (0 .. MaxElapsed) : n # Never
  /\ S!Since = (0 .. MaxGap) \cup {Never}
  BY GateHasConstants DEF S!StreamingConstants, S!Segment, S!Since

LEMMA GateInitInv == S!Init => GateInv
  <1> SUFFICES ASSUME S!Init
               PROVE  GateInv
    OBVIOUS
  <1>1. S!TypeOK
    <2>1. -1 \in -1 .. Count - 1 /\ 0 \in 0 .. MaxCredit /\ Never \in S!Since
      BY GateNumbers
    <2>2. QED  BY <2>1, FetchIdleOK DEF S!Init, S!TypeOK
  <1>2. S!Earned(watermark, credit) /\ PaidFor(credit, since)
    BY GateNumbers DEF S!Init, S!Earned, PaidFor
  <1>3. QED
    BY <1>1, <1>2, FetchIdleOK DEF S!Init, GateInv

\* A step of a fetch that writes no column.
LEMMA FetchStep ==
  ASSUME GateInv, OneFetch, NEW r \in Player, NEW q \in S!Request, FetchOK(q),
         fetch' = [fetch EXCEPT ![r] = q],
         UNCHANGED <<watermark, credit, since, completed, manifest, elapsed>>
  PROVE  GateInv'
  <1>1. fetch' \in [Player -> S!Request] /\ \A s \in Player : fetch'[s] = q
    BY DEF GateInv, S!TypeOK, OneFetch
  <1>2. S!TypeOK' /\ S!Earned(watermark, credit)' /\ PaidFor(credit, since)'
    BY <1>1 DEF GateInv, S!TypeOK, S!Earned, PaidFor
  <1>3. FetchOK(q)'
    BY DEF FetchOK, PaidFor
  <1>4. (\A s \in Player : FetchOK(fetch[s]))'
    BY <1>1, <1>3
  <1>5. QED  BY <1>2, <1>4 DEF GateInv

LEMMA FetchEnds ==
  ASSUME GateInv, OneFetch, NEW r \in Player, S!Finish(r),
         UNCHANGED <<watermark, credit, since, completed, manifest, elapsed>>
  PROVE  GateInv'
  BY FetchIdleOK, FetchStep DEF S!Finish

LEMMA FetchBegins ==
  ASSUME GateInv, OneFetch, NEW r \in Player, NEW seg \in S!Segment, S!FetchSegment(r, seg)
  PROVE  GateInv'
  <1> DEFINE q == [S!Idle EXCEPT !.at = "gate", !.seg = seg, !.watermark = watermark,
                                 !.credit = credit, !.since = since]
  <1>1. /\ q \in S!Request /\ q.at = "gate" /\ q.watermark = watermark /\ q.credit = credit
        /\ q.since = since
    BY FetchIdleOK DEF S!Idle, S!Request, GateInv, S!TypeOK
  <1>2. /\ fetch' = [fetch EXCEPT ![r] = q]
        /\ UNCHANGED <<watermark, credit, since, completed, manifest, elapsed>>
    BY DEF S!FetchSegment, S!row
  <1> HIDE DEF q
  <1>3. FetchOK(q)
    BY <1>1 DEF FetchOK
  <1>4. QED  BY <1>1, <1>2, <1>3, FetchStep

\* What the gate credits has passed.
LEMMA CreditIsPaid ==
  ASSUME GateInv, NEW r \in Player, fetch[r].at = "gate", elapsed # Never
  PROVE  /\ S!NewCredit(fetch[r]) \in 0 .. MaxCredit
         /\ PaidFor(S!NewCredit(fetch[r]), 0)
  <1> DEFINE q       == fetch[r]
             gap     == q.since
             seconds == IF gap = Never THEN 0 ELSE gap \div TicksPerSecond
             new     == S!NewCredit(q)
  <1>1. /\ q.seg \in S!Segment /\ q.credit = credit /\ gap = since /\ gap \in (0 .. MaxGap) \cup {Never}
        /\ credit \in 0 .. MaxCredit /\ elapsed \in 0 .. MaxElapsed
        /\ PaidFor(credit, gap)
    BY GateNumbers DEF GateInv, S!TypeOK, FetchOK, S!Request
  <1>2. PICK length \in Nat : length = S!SegmentLength(q.seg)
    BY <1>1, SegmentLengthIsNumber
  <1>3. seconds \in Nat /\ seconds * TicksPerSecond <= Ticks(gap)
    <2>1. CASE gap = Never
      BY <2>1, GateNumbers DEF Ticks
    <2>2. CASE gap # Never
      <3>1. gap \in Nat /\ TicksPerSecond \in Nat \ {0}
        BY <1>1, <2>2, GateNumbers
      <3>2. seconds = gap \div TicksPerSecond /\ Ticks(gap) = gap
        BY <2>2 DEF Ticks
      <3> HIDE DEF seconds, gap
      <3>3. QED  BY <3>1, <3>2, WholeSeconds
    <2>3. QED  BY <2>1, <2>2
  <1> HIDE DEF seconds
  <1>4. PICK n \in Nat : n = S!Credited(q.seg, gap) /\ n <= seconds
    <2>1. S!Credited(q.seg, gap) = IF seconds < length THEN seconds ELSE length
      BY <1>2 DEF S!Credited, S!SmallerOf, seconds
    <2>2. QED  BY <1>2, <1>3, <2>1
  <1>5. new \in 0 .. MaxCredit /\ new \in Nat /\ new <= credit + n
    BY <1>1, <1>4, GateNumbers DEF S!NewCredit, S!SmallerOf
  <1> HIDE DEF new
  <1>6. ASSUME elapsed < MaxElapsed
        PROVE  new * TicksPerSecond <= elapsed
    <2>1. credit \in Nat /\ TicksPerSecond \in Nat
      BY <1>1, GateNumbers
    <2>2. credit * TicksPerSecond \in Nat
      BY <2>1, ProductsGrow
    <2>3. credit * TicksPerSecond + Ticks(gap) <= elapsed
      BY <1>1, <1>6 DEF PaidFor
    <2>4. /\ n * TicksPerSecond \in Nat /\ n * TicksPerSecond <= seconds * TicksPerSecond
          /\ seconds * TicksPerSecond \in Nat
      BY <1>3, <1>4, <2>1, ProductsGrow
    <2>5. (credit + n) * TicksPerSecond = credit * TicksPerSecond + n * TicksPerSecond
      BY <2>1, ProductOfSum
    <2>6. credit + n \in Nat
      BY <2>1
    <2>7. /\ new * TicksPerSecond \in Nat
          /\ new * TicksPerSecond <= (credit + n) * TicksPerSecond
      BY <1>5, <2>1, <2>6, ProductsGrow
    <2>8. Ticks(gap) \in Nat /\ elapsed \in Nat
      BY <1>1 DEF Ticks
    <2>9. QED  BY <1>3, <2>2, <2>3, <2>4, <2>5, <2>7, <2>8
  <1>7. PaidFor(new, 0)
    <2>1. 0 # Never
      BY GateNumbers
    <2>2. Ticks(0) = 0 /\ (elapsed < MaxElapsed => new * TicksPerSecond + 0 = new * TicksPerSecond)
      <3>1. new * TicksPerSecond \in Nat
        BY <1>5, GateNumbers, ProductsGrow
      <3>2. QED  BY <3>1 DEF Ticks
    <2>3. QED  BY <1>6, <2>1, <2>2 DEF PaidFor
  <1>8. QED  BY <1>5, <1>7 DEF new

\* The first fetch let through is credited nothing.
LEMMA FirstCredit ==
  ASSUME GateInv, NEW r \in Player, fetch[r].at = "gate", elapsed = Never
  PROVE  S!NewCredit(fetch[r]) = 0
  <1> DEFINE q == fetch[r]
  <1>1. q.since = Never /\ q.credit = 0 /\ q.seg \in S!Segment
    BY DEF GateInv, S!TypeOK, S!Request, FetchOK, PaidFor
  <1>2. S!SegmentLength(q.seg) \in Nat
    BY <1>1, SegmentLengthIsNumber
  <1> HIDE DEF q
  <1>3. S!NewCredit(q) = 0
    BY <1>1, <1>2, GateNumbers DEF S!NewCredit, S!Credited, S!SmallerOf
  <1>4. QED  BY <1>3 DEF q

LEMMA GateStep ==
  ASSUME GateInv, OneFetch, NEW r \in Player, S!GateSegment(r)
  PROVE  GateInv'
  <1>0. PICK p : p = fetch[r]
    OBVIOUS
  <1>1. /\ p \in S!Request /\ p.at = "gate" /\ p.watermark = watermark /\ p.credit = credit
        /\ UNCHANGED <<watermark, credit, since, completed, manifest>>
    BY <1>0 DEF GateInv, S!TypeOK, FetchOK, S!GateSegment, S!row
  <1>2. CASE S!Finish(r) /\ UNCHANGED elapsed
    BY <1>1, <1>2, FetchEnds
  <1>3. CASE /\ S!Earned(S!NewWatermark(p), S!NewCredit(p))
             /\ fetch' = [fetch EXCEPT ![r] =
                   [p EXCEPT !.at = "commit", !.newWatermark = S!NewWatermark(p),
                             !.newCredit = S!NewCredit(p), !.since = 0]]
             /\ elapsed' = IF elapsed = Never THEN 0 ELSE elapsed
    <2> DEFINE new == S!NewCredit(p)
    <2>1. new \in 0 .. MaxCredit
      BY <1>0, <1>1, CreditIsPaid, FirstCredit, GateNumbers
    <2>2. S!NewWatermark(p) \in -1 .. Count - 1
      BY <1>1, GateNumbers DEF S!NewWatermark, S!Request
    <2>3. PICK q : q = [p EXCEPT !.at = "commit", !.newWatermark = S!NewWatermark(p),
                                 !.newCredit = new, !.since = 0]
      OBVIOUS
    <2>4. /\ q \in S!Request /\ q.at = "commit" /\ q.watermark = watermark /\ q.credit = credit
          /\ q.newWatermark = S!NewWatermark(p) /\ q.newCredit = new /\ q.since = 0
      <3>1. 0 \in S!Since
        BY GateNumbers
      <3> HIDE DEF new
      <3>2. QED  BY <1>1, <2>1, <2>2, <2>3, <3>1 DEF S!Request
    <2>5. fetch' \in [Player -> S!Request] /\ \A s \in Player : fetch'[s] = q
      BY <1>3, <2>3, <2>4 DEF GateInv, S!TypeOK, OneFetch
    <2>6. elapsed' \in 0 .. MaxElapsed /\ elapsed' # Never /\ 0 # Never
      BY <1>3, GateNumbers DEF GateInv, S!TypeOK
    <2>7. PaidFor(new, 0)'
      <3>1. CASE elapsed = Never
        <4>1. new = 0 /\ elapsed' = 0
          BY <1>0, <1>1, <1>3, <3>1, FirstCredit
        <4>2. 0 * TicksPerSecond = 0
          BY GateNumbers
        <4>3. QED  BY <1>0, <4>1, <4>2, <2>6 DEF PaidFor, Ticks
      <3>2. CASE elapsed # Never
        <4>1. PaidFor(new, 0) /\ elapsed' = elapsed
          BY <1>0, <1>1, <1>3, <3>2, CreditIsPaid
        <4>2. QED  BY <4>1, <2>4 DEF PaidFor, Ticks
      <3>3. QED  BY <3>1, <3>2
    <2>8. FetchOK(q)'
      BY <1>1, <1>3, <2>4, <2>6, <2>7 DEF FetchOK
    <2>9. S!TypeOK'
      BY <1>1, <2>5, <2>6 DEF GateInv, S!TypeOK
    <2>10. S!Earned(watermark, credit)' /\ PaidFor(credit, since)'
      <3>1. CASE elapsed = Never
        <4>1. since = Never /\ credit = 0 /\ elapsed' = 0
          BY <1>3, <3>1 DEF GateInv, PaidFor
        <4>2. 0 * TicksPerSecond = 0
          BY GateNumbers
        <4>3. QED  BY <1>1, <4>1, <4>2 DEF GateInv, S!Earned, PaidFor, Ticks
      <3>2. CASE elapsed # Never
        BY <1>1, <1>3, <3>2 DEF GateInv, S!Earned, PaidFor, Ticks
      <3>3. QED  BY <3>1, <3>2
    <2>11. (\A s \in Player : FetchOK(fetch[s]))'
      BY <2>5, <2>8
    <2>12. QED  BY <2>6, <2>9, <2>10, <2>11 DEF GateInv
  <1>4. QED  BY <1>0, <1>2, <1>3 DEF S!GateSegment

LEMMA CommitSegmentStep ==
  ASSUME GateInv, OneFetch, NEW r \in Player, S!CommitSegment(r)
  PROVE  GateInv'
  <1> DEFINE q == fetch[r]
  <1>1. /\ q \in S!Request /\ q.at = "commit" /\ q.watermark = watermark /\ q.credit = credit
        /\ elapsed # Never /\ q.since # Never /\ S!Earned(q.newWatermark, q.newCredit)
        /\ PaidFor(q.newCredit, q.since)
        /\ UNCHANGED <<manifest, elapsed>> /\ S!Finish(r) /\ completed' \in BOOLEAN
    BY DEF GateInv, S!TypeOK, FetchOK, S!CommitSegment
  <1>2. watermark' = q.newWatermark /\ credit' = q.newCredit /\ since' = q.since
    BY <1>1 DEF S!CommitSegment, S!Written, S!NewSince
  <1>3. fetch' \in [Player -> S!Request] /\ \A s \in Player : fetch'[s] = S!Idle
    BY <1>1, FetchIdleOK DEF GateInv, S!TypeOK, OneFetch, S!Finish
  <1>4. S!TypeOK'
    BY <1>1, <1>2, <1>3 DEF GateInv, S!TypeOK, S!Request
  <1>5. S!Earned(watermark, credit)' /\ PaidFor(credit, since)'
    BY <1>1, <1>2 DEF S!Earned, PaidFor, Ticks
  <1>6. (\A s \in Player : FetchOK(fetch[s]))'
    BY <1>3 DEF FetchOK, S!Idle
  <1>7. QED  BY <1>1, <1>4, <1>5, <1>6 DEF GateInv

\* A tick ages the last gap no more than the time since the beginning.
LEMMA OlderIsPaid ==
  ASSUME S!TypeOK, NEW credits \in 0 .. MaxCredit, NEW gap \in S!Since, PaidFor(credits, gap),
         elapsed' = S!Older(elapsed, MaxElapsed)
  PROVE  PaidFor(credits, S!Older(gap, MaxGap))'
  <1>1. /\ elapsed \in (0 .. MaxElapsed) \cup {Never} /\ MaxElapsed \in Nat /\ MaxGap \in Nat
        /\ gap \in (0 .. MaxGap) \cup {Never}
        /\ \A n \in (0 .. MaxGap) \cup (0 .. MaxElapsed) : n # Never
    BY GateNumbers DEF S!TypeOK
  <1>2. PICK old \in S!Since : old = S!Older(gap, MaxGap)
    BY <1>1, GateNumbers DEF S!Older
  <1>3. /\ old = Never <=> gap = Never
        /\ Ticks(old) \in Nat /\ Ticks(gap) \in Nat /\ Ticks(old) <= Ticks(gap) + 1
    BY <1>1, <1>2, GateNumbers DEF S!Older, Ticks
  <1>4. credits * TicksPerSecond \in Nat
    BY GateNumbers, ProductsGrow
  <1>5. ASSUME elapsed' # Never, elapsed' < MaxElapsed
        PROVE  credits * TicksPerSecond + Ticks(old) <= elapsed'
    <2>1. elapsed # Never /\ elapsed' = elapsed + 1 /\ elapsed < MaxElapsed /\ elapsed \in Nat
      BY <1>1, <1>5 DEF S!Older
    <2>2. credits * TicksPerSecond + Ticks(gap) <= elapsed
      BY <2>1 DEF PaidFor
    <2>3. QED  BY <1>3, <1>4, <2>1, <2>2
  <1>6. PaidFor(credits, old)'
    BY <1>3, <1>5 DEF PaidFor, Ticks
  <1>7. QED  BY <1>2, <1>6

LEMMA TickStep ==
  ASSUME GateInv, S!Tick
  PROVE  GateInv'
  <1>1. /\ since' = S!Older(since, MaxGap) /\ elapsed' = S!Older(elapsed, MaxElapsed)
        /\ fetch' = [r \in Player |-> [fetch[r] EXCEPT !.since = S!Older(@, MaxGap)]]
        /\ UNCHANGED <<watermark, credit, completed, manifest>>
    BY DEF S!Tick
  <1>2. \A gap \in S!Since : S!Older(gap, MaxGap) \in S!Since
                              /\ (S!Older(gap, MaxGap) = Never <=> gap = Never)
    BY GateNumbers DEF S!Older
  <1>3. /\ elapsed' \in (0 .. MaxElapsed) \cup {Never}
        /\ elapsed' = Never <=> elapsed = Never
    BY <1>1, GateNumbers DEF S!Older, GateInv, S!TypeOK
  <1>4. ASSUME NEW r \in Player
        PROVE  fetch'[r] \in S!Request /\ FetchOK(fetch[r])'
    <2>0. PICK p : p = fetch[r]
      OBVIOUS
    <2>1. p \in S!Request /\ FetchOK(p) /\ p.since \in S!Since
      BY <2>0 DEF GateInv, S!TypeOK, S!Request
    <2>2. PICK q : q = [p EXCEPT !.since = S!Older(@, MaxGap)]
      OBVIOUS
    <2>3. /\ q \in S!Request /\ q.at = p.at /\ q.watermark = p.watermark /\ q.credit = p.credit
          /\ q.newWatermark = p.newWatermark /\ q.newCredit = p.newCredit
          /\ q.since = S!Older(p.since, MaxGap) /\ p.newCredit \in 0 .. MaxCredit
      BY <1>2, <2>1, <2>2 DEF S!Request
    <2>4. fetch'[r] = q
      BY <1>1, <2>0, <2>2
    <2>5. q.at = "gate" => q.since = since'
      BY <1>1, <2>1, <2>3 DEF FetchOK
    <2>6. ASSUME q.at = "commit"
          PROVE  PaidFor(q.newCredit, q.since)'
      <3>1. PaidFor(p.newCredit, p.since)
        BY <2>1, <2>3, <2>6 DEF FetchOK
      <3>2. PICK c \in 0 .. MaxCredit, gap \in S!Since : c = p.newCredit /\ gap = p.since
        BY <2>1, <2>3
      <3>3. PaidFor(c, S!Older(gap, MaxGap))'
        BY <1>1, <3>1, <3>2, OlderIsPaid DEF GateInv
      <3>4. QED  BY <2>3, <3>2, <3>3 DEF S!Older
    <2>7. q.at = "commit" => elapsed' # Never /\ q.since # Never
                             /\ S!Earned(q.newWatermark, q.newCredit)
      BY <1>2, <1>3, <2>1, <2>3 DEF FetchOK
    <2>8. q.at # "idle" => q.watermark = watermark' /\ q.credit = credit'
      BY <1>1, <2>1, <2>3 DEF FetchOK
    <2>9. FetchOK(q)'
      BY <2>5, <2>6, <2>7, <2>8 DEF FetchOK
    <2>10. QED  BY <2>3, <2>4, <2>9
  <1>5. S!TypeOK'
    <2>1. fetch' \in [Player -> S!Request]
      BY <1>1, <1>4
    <2>2. QED  BY <1>1, <1>2, <1>3, <2>1 DEF GateInv, S!TypeOK
  <1>6. PaidFor(credit, since)'
    <2>1. PICK c \in 0 .. MaxCredit, gap \in S!Since : c = credit /\ gap = since
      BY DEF GateInv, S!TypeOK
    <2>2. PaidFor(c, S!Older(gap, MaxGap))'
      BY <1>1, <2>1, OlderIsPaid DEF GateInv
    <2>3. QED  BY <1>1, <2>1, <2>2 DEF S!Older
  <1>7. S!Earned(watermark, credit)' /\ (elapsed' = Never => watermark' = -1 /\ since' = Never)
    BY <1>1, <1>2, <1>3 DEF GateInv, S!TypeOK, S!Earned
  <1>8. QED  BY <1>4, <1>5, <1>6, <1>7 DEF GateInv

LEMMA ManifestFetchStep ==
  ASSUME GateInv, S!FetchManifest
  PROVE  GateInv'
  <1>1. UNCHANGED <<watermark, credit, since, completed, elapsed, fetch>>
    BY DEF S!FetchManifest, S!row
  <1>2. manifest' \in -1 .. Count - 1
    BY GateNumbers DEF S!FetchManifest, S!SmallerOf, S!Ceiling, GateInv, S!TypeOK
  <1>3. S!TypeOK' /\ S!Earned(watermark, credit)' /\ PaidFor(credit, since)'
    BY <1>1, <1>2 DEF GateInv, S!TypeOK, S!Earned, PaidFor
  <1>4. (\A r \in Player : FetchOK(fetch[r]))'
    BY <1>1 DEF GateInv, FetchOK, PaidFor
  <1>5. QED  BY <1>1, <1>3, <1>4 DEF GateInv

LEMMA GateNextInv ==
  ASSUME OneFetch, GateInv, [S!Next]_gateVars
  PROVE  GateInv'
  <1>1. CASE UNCHANGED gateVars
    <2>1. S!TypeOK' /\ S!Earned(watermark, credit)' /\ PaidFor(credit, since)'
      BY <1>1 DEF gateVars, GateInv, S!TypeOK, S!Earned, PaidFor
    <2>2. (\A r \in Player : FetchOK(fetch[r]))'
      BY <1>1 DEF gateVars, GateInv, FetchOK, PaidFor
    <2>3. QED  BY <1>1, <2>1, <2>2 DEF gateVars, GateInv
  <1>2. CASE S!Tick
    BY <1>2, TickStep
  <1>3. CASE S!FetchManifest
    BY <1>3, ManifestFetchStep
  <1>4. ASSUME NEW r \in Player, S!FetchNext(r) \/ S!Rewatch(r) \/ S!Prefetch(r)
        PROVE  GateInv'
    BY <1>4, FetchBegins DEF S!FetchNext, S!Rewatch, S!Prefetch
  <1>5. ASSUME NEW r \in Player, S!Continue(r)
        PROVE  GateInv'
    BY <1>5, GateStep, CommitSegmentStep DEF S!Continue
  <1>6. ASSUME NEW r \in Player, S!Abort(r)
        PROVE  GateInv'
    BY <1>6, FetchEnds DEF S!Abort, S!row
  <1>7. QED  BY <1>1, <1>2, <1>3, <1>4, <1>5, <1>6 DEF S!Next

\* The invariant implies that the learner began watching long enough ago.
LEMMA PaidIsWatched == GateInv => S!WatchedLongEnough
  <1> SUFFICES ASSUME GateInv, watermark >= Lookahead, elapsed < MaxElapsed
               PROVE  MaxRate * elapsed >= S!EndOffset(watermark - Lookahead)
    BY DEF S!WatchedLongEnough
  <1>1. /\ watermark \in -1 .. Count - 1 /\ credit \in Nat /\ elapsed # Never
        /\ elapsed \in Nat
    BY GateNumbers DEF GateInv, S!TypeOK
  <1>2. watermark - Lookahead \in S!Segment
    BY <1>1, GateNumbers
  <1>3. S!EndOffset(watermark - Lookahead) \in Nat
    BY <1>2, EndOffsetIsNumber
  <1>4. MaxRate * (credit * TicksPerSecond) >= S!EndOffset(watermark - Lookahead)
    BY DEF GateInv, S!Earned
  <1>5. credit * TicksPerSecond <= elapsed
    <2>1. credit * TicksPerSecond + Ticks(since) <= elapsed
      BY <1>1 DEF GateInv, PaidFor
    <2>2. Ticks(since) \in Nat /\ credit * TicksPerSecond \in Nat
      BY <1>1, GateNumbers, ProductsGrow DEF GateInv, S!TypeOK, Ticks
    <2>3. QED  BY <1>1, <2>1, <2>2
  <1>6. QED  BY <1>1, <1>3, <1>4, <1>5, GateNumbers, RateOfTime

-----------------------------------------------------------------------------
(* The percentage *)

LEMMA PercentIsRounded ==
  ASSUME NEW done \in Nat, NEW total \in Nat
  PROVE  Percent(done, total) = IF total = 0 THEN 0 ELSE Rounded(done, total)
  BY DEF Percent, Rounded

\* int(round(count / total * 100)): in range, and it grows with the count.
LEMMA PercentInRange ==
  ASSUME NEW done \in Nat, NEW total \in Nat, done <= total
  PROVE  Percent(done, total) \in 0 .. 100
  <1>1. total # 0 => Rounded(done, total) \in Nat /\ Rounded(done, total) <= 100
    BY RoundedBounds
  <1>2. QED  BY <1>1, PercentIsRounded

LEMMA PercentGrows ==
  ASSUME NEW a \in Nat, NEW b \in Nat, NEW total \in Nat, a <= b
  PROVE  Percent(a, total) <= Percent(b, total)
  BY PercentIsRounded, RoundedGrows

-----------------------------------------------------------------------------
(* Progress calls: what a recomputation counts *)

\* What the rows will be once q has committed: what it sees itself.
DoneFor(q) == {l \in Lesson : Seen(q, l) = "done"}

\* The lessons that have progress are lessons of the course.
RowsAreLive == \A l \in Lesson : progress[l] # "absent" => lesson[l] = "live"

LEMMA LessonsAreFinite ==
  ASSUME NEW T \in SUBSET Lesson
  PROVE  IsFiniteSet(T) /\ Cardinality(T) \in Nat
  BY LearningConstants, FS_Subset, FS_CardinalityType DEF LearningConstants

\* Fewer lessons are done than there are, and as many only if all are.
LEMMA CountsAgree ==
  ASSUME NEW D \in SUBSET Live
  PROVE  /\ Cardinality(D) \in Nat /\ Cardinality(Live) \in Nat
         /\ Cardinality(D) <= Cardinality(Live)
         /\ Finishes(Cardinality(D), Cardinality(Live)) <=> Live # {} /\ Live \subseteq D
         /\ Percent(Cardinality(D), Cardinality(Live)) \in 0 .. 100
  <1>1. Live \in SUBSET Lesson /\ D \in SUBSET Lesson
    BY DEF Live
  <1>2. /\ Cardinality(D) \in Nat /\ Cardinality(Live) \in Nat /\ IsFiniteSet(Live)
        /\ IsFiniteSet(D)
    BY <1>1, LessonsAreFinite
  <1>3. /\ Cardinality(D) <= Cardinality(Live)
        /\ Cardinality(D) = Cardinality(Live) => D = Live
    BY <1>2, FS_Subset
  <1>4. Cardinality(Live) = 0 <=> Live = {}
    BY <1>2, FS_EmptySet
  <1>5. Live \subseteq D => D = Live
    OBVIOUS
  <1>6. Finishes(Cardinality(D), Cardinality(Live)) <=> Live # {} /\ Live \subseteq D
    BY <1>2, <1>3, <1>4, <1>5 DEF Finishes
  <1>7. QED  BY <1>2, <1>3, <1>6, PercentInRange

\* A request that has counted the lessons as they are.
HasCounted(q) ==
    /\ q.at # "idle" => q.lesson \in Lesson /\ lesson[q.lesson] = "live"
    /\ q.at \in {"completed", "certify", "commit"} /\ Recomputes(q) =>
          q.total = Cardinality(Live)
    /\ q.at \in {"certify", "commit"} /\ Recomputes(q) =>
          q.count = Cardinality(DoneFor(q))

LEMMA DoneForIsLive ==
  ASSUME TypeOK, RowsAreLive, NEW q, q.lesson \in Lesson, lesson[q.lesson] = "live"
  PROVE  DoneFor(q) \in SUBSET Live
  BY DEF DoneFor, Seen, Live, RowsAreLive

\* The commit of a recomputation: the rows are those it counted, and the new
\* values are what they tell.
LEMMA CommitCounts ==
  ASSUME TypeOK, RowsAreLive, NEW r \in Req, Commit(r), Recomputes(req[r]), HasCounted(req[r])
  PROVE  /\ Done' = DoneFor(req[r]) /\ DoneFor(req[r]) \in SUBSET Live /\ lesson' = lesson
         /\ Live' = Live
         /\ enrollment' =
              [percent |-> Changed(enrollment.percent, req[r].enrollment.percent,
                                   Percent(Cardinality(Done'), Cardinality(Live))),
               completed |-> Changed(enrollment.completed, req[r].enrollment.completed, Finished')]
         /\ progress' = [l \in Lesson |-> Seen(req[r], l)]
         /\ certificates' = certificates + IF req[r].issue THEN 1 ELSE 0
         /\ Finish(r)
  <1> DEFINE q == req[r]
  <1>1. /\ q \in Request /\ q.at = "commit" /\ q.lesson \in Lesson /\ lesson[q.lesson] = "live"
        /\ q.total = Cardinality(Live) /\ q.count = Cardinality(DoneFor(q)) /\ Finish(r)
    BY DEF TypeOK, Commit, HasCounted
  <1>2. DoneFor(q) \in SUBSET Live
    BY <1>1, DoneForIsLive
  <1>3. Percent(q.count, q.total) \in 0 .. 100
    BY <1>1, <1>2, CountsAgree
  <1>4. /\ progress' = IF Written(q) = "none" THEN progress
                       ELSE [progress EXCEPT ![q.lesson] = Written(q)]
        /\ certificates' = certificates + IF q.issue THEN 1 ELSE 0
        /\ enrollment' =
              [percent |-> Changed(enrollment.percent, q.enrollment.percent,
                                   Percent(q.count, q.total)),
               completed |-> Changed(enrollment.completed, q.enrollment.completed,
                                     Finishes(q.count, q.total))]
        /\ lesson' = lesson
    BY <1>3 DEF Commit, InRange
  <1>5. progress' = [l \in Lesson |-> Seen(q, l)]
    BY <1>1, <1>4 DEF TypeOK, Seen
  <1>6. Done' = DoneFor(q)
    BY <1>5 DEF Done, DoneFor
  <1>7. Live' = Live
    BY <1>4 DEF Live
  <1>8. Finishes(q.count, q.total) = Finished'
    BY <1>1, <1>2, <1>6, <1>7, CountsAgree DEF Finished, Finishes
  <1>9. QED  BY <1>1, <1>2, <1>4, <1>5, <1>6, <1>7, <1>8

-----------------------------------------------------------------------------
(* Overlapping progress calls *)

\* What a progress call has loaded is not ahead of what is stored; once it holds
\* the enrollment nothing changes, so a row it is about to insert is not there.
\* A call that clears a completion is alone and has loaded what is stored.
UpdateOK(q) ==
    /\ HasCounted(q)
    /\ q.kind = "update"
    /\ q.at # "idle" /\ q.want = "open" => q.enrollment = enrollment
    /\ q.at # "idle" => /\ q.enrollment.percent <= enrollment.percent
                        /\ q.enrollment.completed => enrollment.completed
    /\ q.at \in Counted /\ q.row = "absent" => progress[q.lesson] = "absent"
    /\ q.issue => q.at = "commit" /\ certificates = 0

OneHolder ==
    \A r, s \in Req : HoldsEnrollment(req[r]) /\ HoldsEnrollment(req[s]) => r = s

\* The enrollment tells what its lessons tell, in flight too.
Agrees == enrollment = [percent |-> Percent(Cardinality(Done), Cardinality(Live)),
                        completed |-> Finished]

UpdateInv ==
    /\ TypeOK /\ OneCertificate
    /\ RowsAreLive
    /\ Agrees
    /\ \A r \in Req : UpdateOK(req[r])
    /\ OneHolder /\ ClearsAlone

LEMMA RequestIdleOK == Idle \in Request /\ UpdateOK(Idle) /\ HasCounted(Idle)
  BY DEF Idle, Request, Stage, Kind, Want, Enrollment, ProgressRow, UpdateOK, HasCounted, Counted

LEMMA LearningInitFacts ==
  ASSUME Init
  PROVE  TypeOK /\ RowsAreLive /\ Done = {} /\ \A r \in Req : req[r] = Idle
  BY RequestIdleOK
     DEF Init, TypeOK, RowsAreLive, Done, LessonState, ProgressRow, Enrollment

LEMMA UpdateInitInv == Init => UpdateInv
  <1> SUFFICES ASSUME Init
               PROVE  UpdateInv
    OBVIOUS
  <1>1. TypeOK /\ RowsAreLive /\ Done = {} /\ \A r \in Req : req[r] = Idle
    BY LearningInitFacts
  <1>2. Cardinality(Done) = 0 /\ Cardinality(Live) \in Nat
    BY <1>1, FS_EmptySet, LessonsAreFinite DEF Live
  <1>3. Percent(Cardinality(Done), Cardinality(Live)) = 0
    <2>1. \A t \in Nat : Percent(0, t) = 0
      BY DEF Percent
    <2>2. QED  BY <1>2, <2>1
  <1>4. Finished = FALSE
    BY <1>1 DEF Finished
  <1>5. Agrees /\ OneCertificate
    <2>1. enrollment = [percent |-> 0, completed |-> FALSE] /\ certificates = 0
      BY DEF Init
    <2>2. Agrees
      BY <1>3, <1>4, <2>1, Zenon DEF Agrees
    <2>3. QED  BY <2>1, <2>2 DEF OneCertificate
  <1>6. QED
    BY <1>1, <1>5, RequestIdleOK
       DEF UpdateInv, OneHolder, ClearsAlone, HoldsEnrollment, Idle, Counted

\* A step of one progress call that writes no row.
LEMMA UpdateStep ==
  ASSUME UpdateInv, ClearsAlone', UNCHANGED db, NEW r \in Req, NEW q \in Request, UpdateOK(q),
         HoldsEnrollment(q) => HoldsEnrollment(req[r]) \/ EnrollmentFree(r),
         req' = [req EXCEPT ![r] = q]
  PROVE  UpdateInv'
  <1>1. \A s \in Req : req'[s] = IF s = r THEN q ELSE req[s]
    BY DEF UpdateInv, TypeOK
  <1>2. TypeOK' /\ OneCertificate' /\ RowsAreLive' /\ Agrees'
    BY DEF UpdateInv, TypeOK, OneCertificate, RowsAreLive, Agrees, Done, Live, Finished, db
  <1>3. ASSUME NEW s \in Req
        PROVE  UpdateOK(req[s])'
    <2>1. PICK p : p = req'[s]
      OBVIOUS
    <2>2. UpdateOK(p)
      BY <1>1, <2>1 DEF UpdateInv
    <2>3. UpdateOK(p)'
      BY <2>2 DEF UpdateOK, HasCounted, DoneFor, Seen, Live, db
    <2>4. QED  BY <2>1, <2>3
  <1>4. OneHolder'
    BY <1>1 DEF UpdateInv, OneHolder, EnrollmentFree, HoldsEnrollment
  <1>5. QED  BY <1>2, <1>3, <1>4 DEF UpdateInv

LEMMA UpdateEnds ==
  ASSUME UpdateInv, ClearsAlone', UNCHANGED db, NEW r \in Req, Finish(r)
  PROVE  UpdateInv'
  <1>1. ~HoldsEnrollment(Idle)
    BY DEF HoldsEnrollment, Idle, Counted
  <1>2. QED  BY <1>1, RequestIdleOK, UpdateStep DEF Finish

\* What holds of one progress call in flight.
LEMMA UpdateFacts ==
  ASSUME UpdateInv, NEW r \in Req
  PROVE  req[r] \in Request /\ UpdateOK(req[r])
  BY DEF UpdateInv, TypeOK

LEMMA UpdateCalls ==
  ASSUME UpdateInv, ClearsAlone', NEW r \in Req, NEW l \in Lesson, NEW want \in Want,
         Call(r, "update", l, want)
  PROVE  UpdateInv'
  <1> DEFINE q == [Idle EXCEPT !.at = "progress", !.kind = "update", !.lesson = l,
                               !.want = want, !.enrollment = enrollment]
  <1>1. /\ q \in Request /\ q.at = "progress" /\ q.kind = "update" /\ q.lesson = l
        /\ q.want = want /\ q.enrollment = enrollment /\ q.issue = FALSE
    BY RequestIdleOK DEF Idle, Request, Stage, Kind, UpdateInv, TypeOK
  <1>2. req' = [req EXCEPT ![r] = q] /\ lesson[l] = "live" /\ UNCHANGED db
    BY DEF Call
  <1>3. enrollment.percent \in 0 .. 100
    BY DEF UpdateInv, TypeOK, Enrollment
  <1> HIDE DEF q
  <1>4. UpdateOK(q) /\ ~HoldsEnrollment(q)
    BY <1>1, <1>2, <1>3 DEF UpdateOK, HasCounted, HoldsEnrollment, Counted
  <1>5. QED  BY <1>1, <1>2, <1>4, UpdateStep

LEMMA UpdateLoads ==
  ASSUME UpdateInv, ClearsAlone', NEW r \in Req, LoadProgress(r)
  PROVE  UpdateInv'
  <1> DEFINE row == progress[req[r].lesson]
             q == [req[r] EXCEPT !.row = row, !.at = "lock"]
  <1>1. req[r] \in Request /\ UpdateOK(req[r]) /\ req[r].at = "progress" /\ UNCHANGED db
    BY UpdateFacts DEF LoadProgress
  <1>2. row \in ProgressRow
    BY <1>1 DEF UpdateOK, HasCounted, UpdateInv, TypeOK
  <1>3. /\ q \in Request /\ q.at = "lock" /\ q.kind = req[r].kind /\ q.lesson = req[r].lesson
        /\ q.want = req[r].want /\ q.enrollment = req[r].enrollment /\ (q.issue <=> req[r].issue)
    BY <1>1, <1>2 DEF Request, Stage
  <1>4. req' = [req EXCEPT ![r] = q]
    BY <1>1 DEF LoadProgress, UpdateOK, UpdateInv, TypeOK
  <1> HIDE DEF q, row
  <1>5. UpdateOK(q) /\ ~HoldsEnrollment(q)
    BY <1>1, <1>3 DEF UpdateOK, HasCounted, HoldsEnrollment, Counted
  <1>6. QED  BY <1>1, <1>3, <1>4, <1>5, UpdateStep

LEMMA UpdateLocks ==
  ASSUME UpdateInv, ClearsAlone', NEW r \in Req, LockEnrollment(r)
  PROVE  UpdateInv'
  <1> DEFINE q == [req[r] EXCEPT !.at = "flush"]
  <1>1. /\ req[r] \in Request /\ UpdateOK(req[r]) /\ req[r].at = "lock" /\ UNCHANGED db
        /\ EnrollmentFree(r)
    BY UpdateFacts DEF LockEnrollment
  <1>2. /\ q \in Request /\ q.at = "flush" /\ q.kind = req[r].kind /\ q.lesson = req[r].lesson
        /\ q.want = req[r].want /\ q.enrollment = req[r].enrollment /\ (q.issue <=> req[r].issue)
    BY <1>1 DEF Request, Stage
  <1>3. req' = [req EXCEPT ![r] = q]
    BY DEF LockEnrollment, UpdateInv, TypeOK
  <1> HIDE DEF q
  <1>4. UpdateOK(q)
    BY <1>1, <1>2 DEF UpdateOK, HasCounted, Counted
  <1>5. QED  BY <1>1, <1>2, <1>3, <1>4, UpdateStep

LEMMA UpdateFlushes ==
  ASSUME UpdateInv, ClearsAlone', NEW r \in Req, Flush(r)
  PROVE  UpdateInv'
  <1> DEFINE q == [req[r] EXCEPT !.at = "total"]
  <1>1. /\ req[r] \in Request /\ UpdateOK(req[r]) /\ req[r].at = "flush" /\ UNCHANGED db
        /\ Recomputes(req[r])
    BY UpdateFacts DEF Flush, UpdateOK, Recomputes
  <1>2. CASE Finish(r)
    BY <1>1, <1>2, UpdateEnds
  <1>3. CASE /\ req[r].row = "absent" => progress[req[r].lesson] = "absent"
             /\ req' = [req EXCEPT ![r].at = "total"]
    <2>1. /\ q \in Request /\ q.at = "total" /\ q.kind = req[r].kind /\ q.lesson = req[r].lesson
          /\ q.want = req[r].want /\ q.enrollment = req[r].enrollment
          /\ (q.issue <=> req[r].issue) /\ q.row = req[r].row
      BY <1>1 DEF Request, Stage
    <2>2. req' = [req EXCEPT ![r] = q]
      BY <1>3 DEF UpdateInv, TypeOK
    <2> HIDE DEF q
    <2>3. UpdateOK(q)
      BY <1>1, <1>3, <2>1 DEF UpdateOK, HasCounted
    <2>4. HoldsEnrollment(req[r])
      BY <1>1 DEF UpdateOK, HoldsEnrollment
    <2>5. QED  BY <1>1, <2>1, <2>2, <2>3, <2>4, UpdateStep
  <1>4. QED  BY <1>1, <1>2, <1>3 DEF Flush

LEMMA UpdateCountsLessons ==
  ASSUME UpdateInv, ClearsAlone', NEW r \in Req, CountLessons(r)
  PROVE  UpdateInv'
  <1> DEFINE total == Cardinality(Live)
             q == [req[r] EXCEPT !.total = total, !.at = "completed"]
  <1>1. req[r] \in Request /\ UpdateOK(req[r]) /\ req[r].at = "total" /\ UNCHANGED db
    BY UpdateFacts DEF CountLessons
  <1>2. total \in Nat
    BY LessonsAreFinite DEF Live
  <1> HIDE DEF total
  <1>3. /\ q \in Request /\ q.at = "completed" /\ q.kind = req[r].kind /\ q.lesson = req[r].lesson
        /\ q.want = req[r].want /\ q.enrollment = req[r].enrollment
        /\ (q.issue <=> req[r].issue) /\ q.row = req[r].row /\ q.total = total
    BY <1>1, <1>2 DEF Request, Stage
  <1>4. req' = [req EXCEPT ![r] = q]
    BY DEF CountLessons, UpdateInv, TypeOK, total
  <1> HIDE DEF q
  <1>5. UpdateOK(q)
    BY <1>1, <1>3 DEF UpdateOK, HasCounted, Counted, total
  <1>6. HoldsEnrollment(req[r])
    BY <1>1 DEF UpdateOK, HoldsEnrollment, Counted
  <1>7. QED  BY <1>1, <1>3, <1>4, <1>5, <1>6, UpdateStep

LEMMA UpdateCountsCompleted ==
  ASSUME UpdateInv, ClearsAlone', NEW r \in Req, CountCompleted(r)
  PROVE  UpdateInv'
  <1> DEFINE done == Cardinality(DoneFor(req[r]))
             at == IF Certifies(req[r], done) THEN "certify" ELSE "commit"
             q == [req[r] EXCEPT !.count = done, !.at = at]
  <1>1. req[r] \in Request /\ UpdateOK(req[r]) /\ req[r].at = "completed" /\ UNCHANGED db
    BY UpdateFacts DEF CountCompleted
  <1>2. done \in Nat /\ at \in {"certify", "commit"}
    BY LessonsAreFinite DEF DoneFor
  <1>3. req' = [req EXCEPT ![r] = q]
    BY DEF CountCompleted, UpdateInv, TypeOK, DoneFor
  <1> HIDE DEF done, at
  <1>4. /\ q \in Request /\ q.at = at /\ q.kind = req[r].kind /\ q.lesson = req[r].lesson
        /\ q.want = req[r].want /\ q.enrollment = req[r].enrollment
        /\ (q.issue <=> req[r].issue) /\ q.row = req[r].row /\ q.total = req[r].total
        /\ q.count = done
    BY <1>1, <1>2 DEF Request, Stage
  <1> HIDE DEF q
  <1>5. DoneFor(q) = DoneFor(req[r]) /\ (Recomputes(q) <=> Recomputes(req[r]))
    BY <1>4 DEF DoneFor, Seen, Written, Recomputes
  <1>6. UpdateOK(q)
    BY <1>1, <1>2, <1>4, <1>5 DEF UpdateOK, HasCounted, Counted, done
  <1>7. HoldsEnrollment(req[r])
    BY <1>1 DEF UpdateOK, HoldsEnrollment, Counted
  <1>8. QED  BY <1>1, <1>3, <1>4, <1>6, <1>7, UpdateStep

LEMMA UpdateCertifies ==
  ASSUME UpdateInv, ClearsAlone', NEW r \in Req, Certify(r)
  PROVE  UpdateInv'
  <1> DEFINE q == [req[r] EXCEPT !.issue = NoneIssued, !.at = "commit"]
  <1>1. req[r] \in Request /\ UpdateOK(req[r]) /\ req[r].at = "certify" /\ UNCHANGED db
    BY UpdateFacts DEF Certify
  <1>2. /\ q \in Request /\ q.at = "commit" /\ q.kind = req[r].kind /\ q.lesson = req[r].lesson
        /\ q.want = req[r].want /\ q.enrollment = req[r].enrollment
        /\ (q.issue <=> NoneIssued) /\ q.row = req[r].row /\ q.total = req[r].total
        /\ q.count = req[r].count
    BY <1>1 DEF Request, Stage, NoneIssued
  <1>3. req' = [req EXCEPT ![r] = q]
    BY DEF Certify, UpdateInv, TypeOK
  <1> HIDE DEF q
  <1>4. DoneFor(q) = DoneFor(req[r]) /\ (Recomputes(q) <=> Recomputes(req[r]))
    BY <1>2 DEF DoneFor, Seen, Written, Recomputes
  <1>5. UpdateOK(q)
    BY <1>1, <1>2, <1>4 DEF UpdateOK, HasCounted, Counted, NoneIssued
  <1>6. HoldsEnrollment(req[r])
    BY <1>1 DEF UpdateOK, HoldsEnrollment, Counted
  <1>7. QED  BY <1>1, <1>2, <1>3, <1>5, <1>6, UpdateStep

\* A commit finds a row that it or an earlier call has made; none becomes undone.
LEMMA UpdateKeepsDone ==
  ASSUME UpdateInv, NEW r \in Req, req[r].at = "commit", req[r].want # "open"
  PROVE  Done \subseteq DoneFor(req[r])
  <1> DEFINE q == req[r]
  <1>1. /\ q \in Request /\ q.want # "open" /\ q.want \in Want /\ q.row \in ProgressRow
        /\ q.row = "absent" => progress[q.lesson] = "absent"
    BY UpdateFacts DEF UpdateOK, Request, Counted
  <1>2. q.row = "absent" \/ Written(q) \in {"done", "none"}
    BY <1>1 DEF Written, ProgressRow, Want
  <1> HIDE DEF q
  <1>3. Done \subseteq DoneFor(q)
    BY <1>1, <1>2 DEF Done, DoneFor, Seen
  <1>4. QED  BY <1>3 DEF q

LEMMA UpdateCommits ==
  ASSUME UpdateInv, ClearsAlone', NEW r \in Req, Commit(r)
  PROVE  UpdateInv'
  <1>0. PICK q : q = req[r]
    OBVIOUS
  <1>1. /\ q \in Request /\ UpdateOK(q) /\ q.at = "commit" /\ HasCounted(q) /\ Recomputes(q)
        /\ HoldsEnrollment(q)
    BY <1>0, UpdateFacts DEF Commit, UpdateOK, Recomputes, HoldsEnrollment, Counted
  <1> DEFINE percent == Percent(Cardinality(Done'), Cardinality(Live))
  <1>2. /\ Done' = DoneFor(q) /\ DoneFor(q) \in SUBSET Live /\ lesson' = lesson /\ Live' = Live
        /\ enrollment' = [percent |-> Changed(enrollment.percent, q.enrollment.percent, percent),
                          completed |-> Changed(enrollment.completed, q.enrollment.completed,
                                                Finished')]
        /\ progress' = [l \in Lesson |-> Seen(q, l)]
        /\ certificates' = certificates + IF q.issue THEN 1 ELSE 0
        /\ req' = [req EXCEPT ![r] = Idle]
    BY <1>0, <1>1, CommitCounts DEF UpdateInv, Finish
  <1>3. /\ Done \in SUBSET Live /\ Done' \in SUBSET Live
        /\ q.want # "open" => Done \subseteq Done'
    <2>1. Done \in SUBSET Live
      BY DEF UpdateInv, TypeOK, RowsAreLive, Done, Live
    <2>2. q.want # "open" => Done \subseteq Done'
      BY <1>0, <1>1, <1>2, UpdateKeepsDone
    <2>3. QED  BY <1>2, <2>1, <2>2
  <1>4. /\ Cardinality(Done) \in Nat /\ Cardinality(Done') \in Nat /\ Cardinality(Live) \in Nat
        /\ q.want # "open" => Cardinality(Done) <= Cardinality(Done')
    <2>1. Live \in SUBSET Lesson
      BY DEF Live
    <2>2. Done \in SUBSET Lesson /\ Done' \in SUBSET Lesson
      BY <1>3, <2>1
    <2>3. QED  BY <1>3, <2>1, <2>2, LessonsAreFinite, FS_Subset
  <1>5. percent \in 0 .. 100
    BY <1>3, CountsAgree
  <1>6. q.want # "open" => Percent(Cardinality(Done), Cardinality(Live)) <= percent
    BY <1>4, PercentGrows
  <1>7. q.want # "open" => (Finished => Finished')
    BY <1>2, <1>3 DEF Finished
  <1> HIDE DEF percent
  <1>8. /\ enrollment.percent = Percent(Cardinality(Done), Cardinality(Live))
        /\ enrollment.completed <=> Finished
        /\ enrollment.percent \in 0 .. 100 /\ enrollment.completed \in BOOLEAN
        /\ q.enrollment.percent <= enrollment.percent /\ q.enrollment.percent \in 0 .. 100
        /\ q.enrollment.completed => enrollment.completed
        /\ q.enrollment.completed \in BOOLEAN
        /\ q.want = "open" => /\ q.enrollment.percent = enrollment.percent
                              /\ q.enrollment.completed <=> enrollment.completed
    <2>1. enrollment \in Enrollment /\ q.enrollment \in Enrollment
      BY <1>1 DEF UpdateInv, TypeOK, Request
    <2>2. q.enrollment.percent <= enrollment.percent
          /\ (q.enrollment.completed => enrollment.completed)
          /\ (q.want = "open" => q.enrollment = enrollment)
      BY <1>1 DEF UpdateOK
    <2>3. /\ enrollment.percent = Percent(Cardinality(Done), Cardinality(Live))
          /\ enrollment.completed <=> Finished
      BY DEF UpdateInv, Agrees
    <2>4. QED  BY <2>1, <2>2, <2>3 DEF Enrollment
  <1>9. Changed(enrollment.percent, q.enrollment.percent, percent) = percent
    BY <1>5, <1>6, <1>8 DEF Changed
  <1>10. Changed(enrollment.completed, q.enrollment.completed, Finished') = Finished'
    <2>1. Finished' \in BOOLEAN
      BY DEF Finished
    <2>2. QED  BY <1>7, <1>8, <2>1 DEF Changed
  <1>11. enrollment' = [percent |-> percent, completed |-> Finished']
    BY <1>2, <1>9, <1>10, Zenon
  <1>12. Agrees'
    BY <1>2, <1>11, Zenon DEF Agrees, percent
  <1>13. /\ enrollment' \in Enrollment
         /\ q.want # "open" => /\ enrollment.percent <= enrollment'.percent
                               /\ enrollment.completed => enrollment'.completed
    <2>1. Finished' \in BOOLEAN
      BY DEF Finished
    <2>2. enrollment'.percent = percent /\ (enrollment'.completed <=> Finished')
      BY <1>11
    <2>3. enrollment' \in Enrollment
      BY <1>5, <1>11, <2>1 DEF Enrollment
    <2>4. QED  BY <1>6, <1>7, <1>8, <2>2, <2>3
  <1>14. OneCertificate' /\ certificates' \in Nat
    BY <1>1, <1>2 DEF UpdateInv, OneCertificate, UpdateOK, TypeOK
  <1>15. progress' \in [Lesson -> ProgressRow]
    <2>1. \A l \in Lesson : Seen(q, l) \in ProgressRow
      BY <1>1 DEF UpdateInv, TypeOK, Seen, Written, ProgressRow
    <2>2. QED  BY <1>2, <2>1
  <1>16. /\ req' \in [Req -> Request]
         /\ \A s \in Req : req'[s] = IF s = r THEN Idle ELSE req[s]
    BY <1>2, RequestIdleOK DEF UpdateInv, TypeOK
  <1>17. TypeOK'
    BY <1>2, <1>13, <1>14, <1>15, <1>16 DEF UpdateInv, TypeOK
  <1>18. RowsAreLive'
    <2>1. \A l \in Lesson : progress'[l] = Seen(q, l)
      BY <1>2
    <2>2. QED  BY <1>1, <1>2, <2>1 DEF UpdateInv, RowsAreLive, Seen, HasCounted
  <1>19. ASSUME NEW s \in Req
         PROVE  UpdateOK(req[s])'
    <2>1. CASE s = r
      <3>1. req'[s] = Idle
        BY <1>16, <2>1
      <3>2. QED  BY <3>1 DEF UpdateOK, HasCounted, Idle, Counted
    <2>2. CASE s # r /\ q.want = "open"
      <3>1. req[s] = Idle
        BY <1>0, <2>2 DEF UpdateInv, ClearsAlone
      <3>2. req'[s] = Idle
        BY <1>16, <2>2, <3>1
      <3>3. QED  BY <3>2 DEF UpdateOK, HasCounted, Idle, Counted
    <2>3. CASE s # r /\ q.want # "open"
      <3>0. PICK p : p = req[s]
        OBVIOUS
      <3>1. req'[s] = p /\ p \in Request /\ UpdateOK(p)
        BY <1>16, <2>3, <3>0, UpdateFacts
      <3>2. ~HoldsEnrollment(p)
        BY <1>0, <1>1, <2>3, <3>0 DEF UpdateInv, OneHolder
      <3>3. p.at \notin Counted /\ ~p.issue
        BY <3>1, <3>2 DEF UpdateOK, HoldsEnrollment, Counted
      <3>4. p.at # "idle" => /\ p.enrollment.percent <= enrollment.percent
                             /\ p.enrollment.completed => enrollment.completed
                             /\ p.enrollment.percent \in 0 .. 100
        BY <3>1 DEF UpdateOK, Request, Enrollment
      <3>5. p.at # "idle" => /\ p.enrollment.percent <= enrollment'.percent
                             /\ p.enrollment.completed => enrollment'.completed
        <4>1. enrollment'.percent \in 0 .. 100
          BY <1>13 DEF Enrollment
        <4>2. p.at # "idle" => p.enrollment.percent <= enrollment'.percent
          <5>1. enrollment.percent \in 0 .. 100 /\ enrollment.percent <= enrollment'.percent
            BY <1>8, <1>13, <2>3
          <5>2. \A a, b, c \in 0 .. 100 : a <= b /\ b <= c => a <= c
            OBVIOUS
          <5>3. QED  BY <3>4, <4>1, <5>1, <5>2
        <4>3. p.at # "idle" => (p.enrollment.completed => enrollment'.completed)
          BY <1>13, <2>3, <3>4
        <4>4. QED  BY <4>2, <4>3
      <3>6. HasCounted(p)'
        BY <1>2, <3>1, <3>3 DEF UpdateOK, HasCounted, Counted
      <3>7. UpdateOK(p)'
        <4>1. p.kind = "update" /\ ~(p.at # "idle" /\ p.want = "open")
          <5>1. p.at # "idle" /\ q.at # "idle" => p # Idle /\ q # Idle
            BY DEF Idle
          <5>2. QED  BY <1>0, <1>1, <2>3, <3>0, <3>1, <5>1 DEF UpdateOK, UpdateInv, ClearsAlone
        <4>2. (p.at \in Counted /\ p.row = "absent" => progress[p.lesson] = "absent")'
          BY <3>3 DEF Counted
        <4>3. QED  BY <3>3, <3>5, <3>6, <4>1, <4>2 DEF UpdateOK
      <3>8. QED  BY <3>1, <3>7
    <2>4. QED  BY <2>1, <2>2, <2>3
  <1>20. OneHolder'
    BY <1>16 DEF UpdateInv, OneHolder, HoldsEnrollment, Idle, Counted
  <1>21. QED  BY <1>12, <1>14, <1>17, <1>18, <1>19, <1>20 DEF UpdateInv

LEMMA UpdateNextInv ==
  ASSUME UpdateInv, Updates \/ UNCHANGED vars
  PROVE  UpdateInv'
  <1>1. CASE UNCHANGED vars
    <2>1. TypeOK' /\ OneCertificate' /\ RowsAreLive' /\ Agrees' /\ OneHolder' /\ ClearsAlone'
      BY <1>1 DEF vars, UpdateInv, TypeOK, OneCertificate, RowsAreLive, Agrees, Done, Live,
                  Finished, OneHolder, ClearsAlone
    <2>2. (\A r \in Req : UpdateOK(req[r]))'
      BY <1>1 DEF vars, UpdateInv, UpdateOK, HasCounted, DoneFor, Seen, Live
    <2>3. QED  BY <2>1, <2>2 DEF UpdateInv
  <1>2. CASE Updates
    <2>1. /\ Next /\ lesson' = lesson
          /\ \A s \in Req : req'[s].kind = "update"
          /\ ClearsAlone'
      BY <1>2 DEF Updates
    <2>2. ASSUME NEW r \in Req, NEW l \in Lesson, NEW w \in Want, NEW k \in Kind, Call(r, k, l, w)
          PROVE  UpdateInv'
      <3>1. k = "update"
        <4>1. req'[r] = [Idle EXCEPT !.at = "progress", !.kind = k, !.lesson = l, !.want = w,
                                     !.enrollment = enrollment]
          BY <2>2 DEF Call, UpdateInv, TypeOK
        <4>2. req'[r].kind = k
          BY <4>1 DEF Idle
        <4>3. QED  BY <2>1, <4>2
      <3>2. QED  BY <2>1, <2>2, <3>1, UpdateCalls
    <2>3. ASSUME NEW r \in Req, NEW s \in Req, BreakDeadlock(r, s)
          PROVE  UpdateInv'
      BY <2>3, UpdateFacts DEF BreakDeadlock, UpdateOK
    <2>4. ASSUME NEW r \in Req, Continue(r)
          PROVE  UpdateInv'
      BY <2>1, <2>3, <2>4, UpdateLoads, UpdateLocks, UpdateFlushes, UpdateCountsLessons,
         UpdateCountsCompleted, UpdateCertifies, UpdateCommits DEF Continue
    <2>5. ASSUME NEW r \in Req, Abort(r)
          PROVE  UpdateInv'
      BY <2>1, <2>5, UpdateEnds DEF Abort
    <2>6. ASSUME NEW r \in Req, NEW l \in Lesson, CreateLesson(r, l) \/ DeleteLesson(r, l)
          PROVE  UpdateInv'
      <3>1. lesson'[l] # lesson[l]
        BY <2>6 DEF CreateLesson, DeleteLesson, UpdateInv, TypeOK
      <3>2. QED  BY <2>1, <3>1
    <2>7. QED  BY <2>1, <2>2, <2>4, <2>5, <2>6 DEF Next
  <1>3. QED  BY <1>1, <1>2

-----------------------------------------------------------------------------
(* One request at a time, and an instructor in between *)

OneRequest == \A r, s \in Req : req[r] # Idle /\ req[s] # Idle => r = s

\* A request that nothing overlaps has loaded what is stored.
AloneOK(q) ==
    /\ HasCounted(q)
    /\ q.at = "idle" => q = Idle
    /\ q.at # "idle" => q.enrollment = enrollment

AloneInv ==
    /\ TypeOK
    /\ RowsAreLive
    /\ \A r \in Req : AloneOK(req[r])
    /\ OneRequest

LEMMA AloneInitInv == Init => AloneInv
  BY LearningInitFacts, RequestIdleOK DEF AloneInv, AloneOK, OneRequest, Idle

\* One of at most one request: a count of at most one says so.
LEMMA StillOneRequest ==
  ASSUME OneRequest, NEW r \in Req, \A s \in Req \ {r} : req'[s] = req[s],
         Cardinality({s \in Req : req'[s] # Idle}) <= 1
  PROVE  OneRequest'
  <1> DEFINE N == {s \in Req : req'[s] # Idle}
  <1> SUFFICES ASSUME NEW a \in N, NEW b \in N, a # b
               PROVE  FALSE
    BY DEF OneRequest
  <1>1. N = {a, b}
    BY DEF OneRequest
  <1>2. Cardinality({a, b}) = 2
    <2>1. IsFiniteSet({a}) /\ Cardinality({a}) = 1
      BY FS_Singleton
    <2>2. Cardinality({a} \cup {b}) = Cardinality({a}) + 1
      BY <2>1, FS_AddElement
    <2>3. {a} \cup {b} = {a, b}
      OBVIOUS
    <2>4. QED  BY <2>1, <2>2, <2>3
  <1>3. QED  BY <1>1, <1>2

LEMMA AloneStep ==
  ASSUME AloneInv, UNCHANGED db, NEW r \in Req, NEW q \in Request, AloneOK(q),
         req' = [req EXCEPT ![r] = q],
         Cardinality({s \in Req : req'[s] # Idle}) <= 1
  PROVE  AloneInv'
  <1>1. \A s \in Req : req'[s] = IF s = r THEN q ELSE req[s]
    BY DEF AloneInv, TypeOK
  <1>2. TypeOK' /\ RowsAreLive'
    BY DEF AloneInv, TypeOK, RowsAreLive, db
  <1>3. ASSUME NEW s \in Req
        PROVE  AloneOK(req[s])'
    <2>1. PICK p : p = req'[s]
      OBVIOUS
    <2>2. AloneOK(p)
      BY <1>1, <2>1 DEF AloneInv
    <2>3. AloneOK(p)'
      BY <2>2 DEF AloneOK, HasCounted, DoneFor, Seen, Live, db
    <2>4. QED  BY <2>1, <2>3
  <1>4. OneRequest'
    BY <1>1, StillOneRequest DEF AloneInv
  <1>5. QED  BY <1>2, <1>3, <1>4 DEF AloneInv

\* A request that goes on, short of its commit, ends or has counted what is there.
LEMMA GoesOn ==
  ASSUME TypeOK, NEW r \in Req, HasCounted(req[r]),
         \/ LoadProgress(r) \/ LockEnrollment(r) \/ Flush(r)
         \/ CountLessons(r) \/ CountCompleted(r) \/ Certify(r)
  PROVE  /\ UNCHANGED db /\ req[r].at # "idle"
         /\ \/ Finish(r)
            \/ \E q \in Request : /\ HasCounted(q) /\ q.at # "idle"
                                  /\ q.enrollment = req[r].enrollment
                                  /\ req' = [req EXCEPT ![r] = q]
  <1> DEFINE p == req[r]
             Goes == \E q \in Request : /\ HasCounted(q) /\ q.at # "idle"
                                        /\ q.enrollment = p.enrollment
                                        /\ req' = [req EXCEPT ![r] = q]
  <1>1. p \in Request
    BY DEF TypeOK
  <1>2. CASE LoadProgress(r)
    <2> DEFINE row == progress[p.lesson]
               at  == IF p.kind = "update" THEN "lock" ELSE "flush"
               q   == [p EXCEPT !.row = row, !.at = at]
    <2>1. p.at = "progress" /\ UNCHANGED db /\ p.lesson \in Lesson
      BY <1>2 DEF LoadProgress, HasCounted
    <2>2. row \in ProgressRow /\ at \in {"lock", "flush"}
      BY <2>1 DEF TypeOK
    <2>3. req' = [req EXCEPT ![r] = q]
      BY <1>2 DEF LoadProgress, TypeOK
    <2> HIDE DEF row, at
    <2>4. q \in Request /\ q.at = at /\ q.lesson = p.lesson /\ q.enrollment = p.enrollment
      BY <1>1, <2>2 DEF Request, Stage
    <2> HIDE DEF q
    <2>5. HasCounted(q)
      BY <2>1, <2>2, <2>4 DEF HasCounted
    <2>6. Goes
      BY <2>2, <2>3, <2>4, <2>5
    <2>7. QED  BY <2>1, <2>6
  <1>3. CASE LockEnrollment(r)
    <2> DEFINE q == [p EXCEPT !.at = "flush"]
    <2>1. p.at = "lock" /\ UNCHANGED db /\ req' = [req EXCEPT ![r] = q]
      BY <1>3 DEF LockEnrollment, TypeOK
    <2>2. q \in Request /\ q.at = "flush" /\ q.lesson = p.lesson /\ q.enrollment = p.enrollment
      BY <1>1 DEF Request, Stage
    <2> HIDE DEF q
    <2>3. HasCounted(q)
      BY <2>1, <2>2 DEF HasCounted
    <2>4. Goes
      BY <2>1, <2>2, <2>3
    <2>5. QED  BY <2>1, <2>4
  <1>4. CASE Flush(r)
    <2> DEFINE at == IF Recomputes(p) THEN "total" ELSE "commit"
               q  == [p EXCEPT !.at = at]
    <2>1. p.at = "flush" /\ UNCHANGED db /\ (Finish(r) \/ req' = [req EXCEPT ![r] = q])
      BY <1>4 DEF Flush, TypeOK
    <2>2. at \in {"total", "commit"} /\ (at = "commit" => ~Recomputes(p))
      OBVIOUS
    <2> HIDE DEF at
    <2>3. /\ q \in Request /\ q.at = at /\ q.lesson = p.lesson /\ q.enrollment = p.enrollment
          /\ q.kind = p.kind /\ q.row = p.row /\ q.want = p.want
      BY <1>1, <2>2 DEF Request, Stage
    <2> HIDE DEF q
    <2>4. Recomputes(q) <=> Recomputes(p)
      BY <2>3 DEF Recomputes, Written
    <2>5. HasCounted(q)
      BY <2>1, <2>2, <2>3, <2>4 DEF HasCounted
    <2>6. Finish(r) \/ Goes
      BY <2>1, <2>2, <2>3, <2>5
    <2>7. QED  BY <2>1, <2>6
  <1>5. CASE CountLessons(r)
    <2> DEFINE total == Cardinality(Live)
               q     == [p EXCEPT !.total = total, !.at = "completed"]
    <2>1. p.at = "total" /\ UNCHANGED db /\ req' = [req EXCEPT ![r] = q]
      BY <1>5 DEF CountLessons, TypeOK
    <2>2. total \in Nat
      BY LessonsAreFinite DEF Live
    <2> HIDE DEF total
    <2>3. /\ q \in Request /\ q.at = "completed" /\ q.lesson = p.lesson
          /\ q.enrollment = p.enrollment /\ q.total = total
      BY <1>1, <2>2 DEF Request, Stage
    <2> HIDE DEF q
    <2>4. HasCounted(q)
      BY <2>1, <2>3 DEF HasCounted, total
    <2>5. Goes
      BY <2>1, <2>3, <2>4
    <2>6. QED  BY <2>1, <2>5
  <1>6. CASE CountCompleted(r)
    <2> DEFINE n  == Cardinality(DoneFor(p))
               at == IF Certifies(p, n) THEN "certify" ELSE "commit"
               q  == [p EXCEPT !.count = n, !.at = at]
    <2>1. p.at = "completed" /\ UNCHANGED db /\ req' = [req EXCEPT ![r] = q]
      BY <1>6 DEF CountCompleted, TypeOK, DoneFor
    <2>2. n \in Nat /\ at \in {"certify", "commit"}
      BY LessonsAreFinite DEF DoneFor
    <2> HIDE DEF n, at
    <2>3. /\ q \in Request /\ q.at = at /\ q.lesson = p.lesson /\ q.enrollment = p.enrollment
          /\ q.kind = p.kind /\ q.row = p.row /\ q.want = p.want
          /\ q.total = p.total /\ q.count = n
      BY <1>1, <2>2 DEF Request, Stage
    <2> HIDE DEF q
    <2>4. DoneFor(q) = DoneFor(p) /\ (Recomputes(q) <=> Recomputes(p))
      BY <2>3 DEF DoneFor, Seen, Written, Recomputes
    <2>5. HasCounted(q)
      BY <2>1, <2>2, <2>3, <2>4 DEF HasCounted, n
    <2>6. Goes
      BY <2>1, <2>2, <2>3, <2>5
    <2>7. QED  BY <2>1, <2>6
  <1>7. CASE Certify(r)
    <2> DEFINE q == [p EXCEPT !.issue = NoneIssued, !.at = "commit"]
    <2>1. p.at = "certify" /\ UNCHANGED db /\ req' = [req EXCEPT ![r] = q]
      BY <1>7 DEF Certify, TypeOK
    <2>2. /\ q \in Request /\ q.at = "commit" /\ q.lesson = p.lesson /\ q.enrollment = p.enrollment
          /\ q.kind = p.kind /\ q.row = p.row /\ q.want = p.want
          /\ q.total = p.total /\ q.count = p.count
      BY <1>1 DEF Request, Stage, NoneIssued
    <2> HIDE DEF q
    <2>3. DoneFor(q) = DoneFor(p) /\ (Recomputes(q) <=> Recomputes(p))
      BY <2>2 DEF DoneFor, Seen, Written, Recomputes
    <2>4. HasCounted(q)
      BY <2>1, <2>2, <2>3 DEF HasCounted
    <2>5. Goes
      BY <2>1, <2>2, <2>4
    <2>6. QED  BY <2>1, <2>5
  <1>8. QED  BY <1>2, <1>3, <1>4, <1>5, <1>6, <1>7

\* Of the other requests none is under way.
LEMMA OthersAreIdle ==
  ASSUME AloneInv, NEW r \in Req, req[r] # Idle, NEW s \in Req \ {r}
  PROVE  req[s] = Idle
  BY DEF AloneInv, OneRequest

LEMMA AloneFacts ==
  ASSUME AloneInv, NEW r \in Req
  PROVE  /\ req[r] \in Request /\ AloneOK(req[r]) /\ HasCounted(req[r])
         /\ req[r].at # "idle" => req[r] # Idle
  BY DEF AloneInv, TypeOK, AloneOK, Idle

LEMMA AloneEnds ==
  ASSUME AloneInv, UNCHANGED db, NEW r \in Req, Finish(r),
         Cardinality({s \in Req : req'[s] # Idle}) <= 1
  PROVE  AloneInv'
  <1>1. AloneOK(Idle)
    BY RequestIdleOK DEF AloneOK, Idle
  <1>2. QED  BY <1>1, RequestIdleOK, AloneStep DEF Finish

LEMMA AloneCalls ==
  ASSUME AloneInv, NEW r \in Req, NEW l \in Lesson, NEW w \in Want, NEW k \in Kind,
         Call(r, k, l, w), Cardinality({s \in Req : req'[s] # Idle}) <= 1
  PROVE  AloneInv'
  <1> DEFINE q == [Idle EXCEPT !.at = "progress", !.kind = k, !.lesson = l, !.want = w,
                               !.enrollment = enrollment]
  <1>1. /\ q \in Request /\ q.at = "progress" /\ q.lesson = l /\ q.enrollment = enrollment
    BY RequestIdleOK DEF Idle, Request, Stage, AloneInv, TypeOK
  <1>2. req' = [req EXCEPT ![r] = q] /\ lesson[l] = "live" /\ UNCHANGED db
    BY DEF Call
  <1> HIDE DEF q
  <1>3. AloneOK(q)
    BY <1>1, <1>2 DEF AloneOK, HasCounted
  <1>4. QED  BY <1>1, <1>2, <1>3, AloneStep

LEMMA AloneGoesOn ==
  ASSUME AloneInv, NEW r \in Req, Cardinality({s \in Req : req'[s] # Idle}) <= 1,
         \/ LoadProgress(r) \/ LockEnrollment(r) \/ Flush(r)
         \/ CountLessons(r) \/ CountCompleted(r) \/ Certify(r)
  PROVE  AloneInv'
  <1>1. TypeOK /\ HasCounted(req[r]) /\ AloneOK(req[r])
    BY AloneFacts DEF AloneInv
  <1>2. /\ UNCHANGED db /\ req[r].at # "idle"
        /\ \/ Finish(r)
           \/ \E q \in Request : /\ HasCounted(q) /\ q.at # "idle"
                                 /\ q.enrollment = req[r].enrollment
                                 /\ req' = [req EXCEPT ![r] = q]
    BY <1>1, GoesOn
  <1>3. CASE Finish(r)
    BY <1>2, <1>3, AloneEnds
  <1>4. ASSUME NEW q \in Request, HasCounted(q), q.at # "idle",
               q.enrollment = req[r].enrollment, req' = [req EXCEPT ![r] = q]
        PROVE  AloneInv'
    <2>1. AloneOK(q)
      BY <1>1, <1>2, <1>4 DEF AloneOK
    <2>2. QED  BY <1>2, <1>4, <2>1, AloneStep
  <1>5. QED  BY <1>2, <1>3, <1>4

\* When no request is left, what is stored need only have its type.
LEMMA AllIdle ==
  ASSUME \A s \in Req : req'[s] = Idle, TypeOK', RowsAreLive'
  PROVE  AloneInv'
  <1>1. ASSUME NEW s \in Req
        PROVE  AloneOK(req[s])'
    BY DEF AloneOK, HasCounted, Idle
  <1>2. OneRequest'
    BY DEF OneRequest
  <1>3. QED  BY <1>1, <1>2 DEF AloneInv

LEMMA AloneCommits ==
  ASSUME AloneInv, NEW r \in Req, Commit(r)
  PROVE  AloneInv'
  <1> DEFINE q == req[r]
  <1>1. /\ q \in Request /\ AloneOK(q) /\ HasCounted(q) /\ q.at = "commit"
        /\ q.lesson \in Lesson /\ lesson[q.lesson] = "live" /\ Finish(r)
        /\ TypeOK /\ RowsAreLive
    BY AloneFacts DEF Commit, HasCounted, AloneInv
  <1>2. \A s \in Req : req'[s] = Idle
    BY <1>1, OthersAreIdle, AloneFacts DEF Finish, TypeOK
  <1>3. /\ progress' = [l \in Lesson |-> Seen(q, l)] /\ lesson' = lesson
        /\ certificates' = certificates + IF q.issue THEN 1 ELSE 0
        /\ enrollment' \in Enrollment
    <2>1. CASE Recomputes(q)
      <3> DEFINE percent == Percent(Cardinality(Done'), Cardinality(Live))
      <3>1. /\ Done' \in SUBSET Live /\ lesson' = lesson
            /\ enrollment' = [percent |-> Changed(enrollment.percent, q.enrollment.percent,
                                                  percent),
                              completed |-> Changed(enrollment.completed,
                                                    q.enrollment.completed, Finished')]
            /\ progress' = [l \in Lesson |-> Seen(q, l)]
            /\ certificates' = certificates + IF q.issue THEN 1 ELSE 0
        BY <1>1, <2>1, CommitCounts
      <3>2. percent \in 0 .. 100 /\ Finished' \in BOOLEAN
        BY <3>1, CountsAgree DEF Finished
      <3>3. enrollment.percent \in 0 .. 100 /\ enrollment.completed \in BOOLEAN
        BY <1>1 DEF TypeOK, Enrollment
      <3> HIDE DEF percent
      <3>4. enrollment' \in Enrollment
        BY <3>1, <3>2, <3>3 DEF Enrollment, Changed
      <3>5. QED  BY <3>1, <3>4
    <2>2. CASE ~Recomputes(q)
      <3>1. /\ progress' = IF Written(q) = "none" THEN progress
                           ELSE [progress EXCEPT ![q.lesson] = Written(q)]
            /\ certificates' = certificates + IF q.issue THEN 1 ELSE 0
            /\ enrollment' = enrollment /\ lesson' = lesson
        BY <2>2 DEF Commit
      <3>2. progress' = [l \in Lesson |-> Seen(q, l)]
        BY <1>1, <3>1 DEF TypeOK, Seen
      <3>3. QED  BY <1>1, <3>1, <3>2 DEF TypeOK
    <2>3. QED  BY <2>1, <2>2
  <1>4. progress' \in [Lesson -> ProgressRow]
    <2>1. \A l \in Lesson : Seen(q, l) \in ProgressRow
      BY <1>1 DEF TypeOK, Seen, Written, ProgressRow
    <2>2. QED  BY <1>3, <2>1
  <1>5. req' \in [Req -> Request]
    BY <1>1, RequestIdleOK DEF Finish, TypeOK
  <1>6. certificates' \in Nat
    BY <1>1, <1>3 DEF TypeOK
  <1>7. TypeOK'
    BY <1>1, <1>3, <1>4, <1>5, <1>6 DEF TypeOK
  <1>8. RowsAreLive'
    <2>1. \A l \in Lesson : progress'[l] = Seen(q, l)
      BY <1>3
    <2>2. QED  BY <1>1, <1>3, <2>1 DEF RowsAreLive, Seen
  <1>9. QED  BY <1>2, <1>7, <1>8, AllIdle

LEMMA AloneNextInv ==
  ASSUME AloneInv, Alone \/ UNCHANGED vars
  PROVE  AloneInv'
  <1>1. CASE UNCHANGED vars
    <2>1. TypeOK' /\ RowsAreLive' /\ OneRequest'
      BY <1>1 DEF vars, AloneInv, TypeOK, RowsAreLive, OneRequest
    <2>2. (\A r \in Req : AloneOK(req[r]))'
      BY <1>1 DEF vars, AloneInv, AloneOK, HasCounted, DoneFor, Seen, Live
    <2>3. QED  BY <2>1, <2>2 DEF AloneInv
  <1>2. CASE Alone
    <2>1. /\ Next /\ Cardinality({s \in Req : req'[s] # Idle}) <= 1
          /\ lesson' # lesson => \A s \in Req : req[s] = Idle
      BY <1>2 DEF Alone
    <2>2. ASSUME NEW r \in Req, NEW l \in Lesson, NEW w \in Want, NEW k \in Kind, Call(r, k, l, w)
          PROVE  AloneInv'
      BY <2>1, <2>2, AloneCalls
    <2>3. ASSUME NEW r \in Req, NEW s \in Req, BreakDeadlock(r, s)
          PROVE  AloneInv'
      BY <2>1, <2>3, AloneEnds DEF BreakDeadlock
    <2>4. ASSUME NEW r \in Req, Continue(r)
          PROVE  AloneInv'
      BY <2>1, <2>3, <2>4, AloneGoesOn, AloneCommits DEF Continue
    <2>5. ASSUME NEW r \in Req, Abort(r)
          PROVE  AloneInv'
      BY <2>1, <2>5, AloneEnds DEF Abort
    <2>6. ASSUME NEW r \in Req, NEW l \in Lesson, CreateLesson(r, l) \/ DeleteLesson(r, l)
          PROVE  AloneInv'
      <3>1. /\ UNCHANGED <<enrollment, certificates, req>>
            /\ \/ /\ lesson[l] = "absent" /\ lesson' = [lesson EXCEPT ![l] = "live"]
                  /\ UNCHANGED progress
               \/ /\ lesson[l] = "live" /\ lesson' = [lesson EXCEPT ![l] = "deleted"]
                  /\ progress' = [progress EXCEPT ![l] = "absent"]
        BY <2>6 DEF CreateLesson, DeleteLesson
      <3>2. \A s \in Req : req'[s] = Idle
        <4>1. lesson'[l] # lesson[l]
          BY <3>1 DEF AloneInv, TypeOK
        <4>2. QED  BY <2>1, <3>1, <4>1
      <3>3. TypeOK' /\ RowsAreLive'
        BY <3>1 DEF AloneInv, TypeOK, RowsAreLive, LessonState, ProgressRow
      <3>4. QED  BY <3>2, <3>3, AllIdle
    <2>7. QED  BY <2>1, <2>2, <2>4, <2>5, <2>6 DEF Next
  <1>3. QED  BY <1>1, <1>2

\* A recomputation that nothing overlaps stores what its lessons tell.
LEMMA RecomputationAgrees ==
  ASSUME AloneInv
  PROVE  RecomputeAgrees
  <1> SUFFICES ASSUME NEW r \in Req, Commit(r), Recomputes(req[r])
               PROVE  enrollment' = [percent |-> Percent(Cardinality(Done'), Cardinality(Live)),
                                     completed |-> Finished']
    BY DEF RecomputeAgrees
  <1> DEFINE percent == Percent(Cardinality(Done'), Cardinality(Live))
  <1>1. TypeOK /\ RowsAreLive /\ HasCounted(req[r]) /\ req[r].enrollment = enrollment
    BY AloneFacts DEF AloneInv, AloneOK, Commit
  <1>2. enrollment' = [percent |-> Changed(enrollment.percent, req[r].enrollment.percent,
                                           percent),
                       completed |-> Changed(enrollment.completed,
                                             req[r].enrollment.completed, Finished')]
    BY <1>1, CommitCounts
  <1> HIDE DEF percent
  <1>3. \A old, new : Changed(old, old, new) = new
    BY DEF Changed
  <1>4. /\ Changed(enrollment.percent, req[r].enrollment.percent, percent) = percent
        /\ Changed(enrollment.completed, req[r].enrollment.completed, Finished') = Finished'
    BY <1>1, <1>3, Zenon
  <1>5. enrollment' = [percent |-> percent, completed |-> Finished']
    BY <1>2, <1>4, Zenon
  <1>6. QED  BY <1>5 DEF percent

-----------------------------------------------------------------------------
(* The parts together *)

\* A behaviour of one part keeps the invariant of that part, and the others leave
\* its variables alone.  The gate comes last, because it assumes OneFetch.
MCInv ==
    /\ part = "updates" => UpdateInv
    /\ part = "alone" => AloneInv
    /\ part = "packaging" => PackInv

LEMMA MCInitInv == MCInit => MCInv
  BY UpdateInitInv, AloneInitInv, PackInitInv DEF MCInit, MCInv

LEMMA MCNextInv == MCInv /\ [MCNext]_all => MCInv'
  <1> SUFFICES ASSUME MCInv, [MCNext]_all
               PROVE  MCInv'
    OBVIOUS
  <1>1. part' = part
    BY DEF MCNext, all
  <1>2. ASSUME part = "updates"
        PROVE  UpdateInv'
    <2>1. UpdateInv
      BY <1>2 DEF MCInv
    <2>2. Updates \/ UNCHANGED vars
      BY <1>2 DEF MCNext, all
    <2>3. QED  BY <2>1, <2>2, UpdateNextInv
  <1>3. ASSUME part = "alone"
        PROVE  AloneInv'
    <2>1. AloneInv
      BY <1>3 DEF MCInv
    <2>2. Alone \/ UNCHANGED vars
      BY <1>3 DEF MCNext, all
    <2>3. QED  BY <2>1, <2>2, AloneNextInv
  <1>4. ASSUME part = "packaging"
        PROVE  PackInv'
    <2>1. PackInv
      BY <1>4 DEF MCInv
    <2>2. [P!Next]_packagingVars
      BY <1>4 DEF MCNext, all
    <2>3. QED  BY <2>1, <2>2, PackNextInv
  <1>5. QED  BY <1>1, <1>2, <1>3, <1>4 DEF MCInv

LEMMA MCInvariance == MCSpec => []MCInv
  BY MCInitInv, MCNextInv, PTL DEF MCSpec

\* recompute_enrollment_progress: for any course and any number of progress calls,
\* which may overlap unless one of them clears a completion, once none is in flight
\* the stored percentage and completion are those of the lessons.
THEOREM ProgressAgrees == MCSpec => []UpdatesAgree
  <1>1. MCInv => UpdatesAgree
    BY DEF MCInv, UpdatesAgree, UpdateInv, Agrees, AgreesWhenQuiet
  <1>2. QED  BY <1>1, MCInvariance, PTL

\* _ensure_certificate: such progress calls issue one certificate at most, although
\* each looks for one before it inserts its own.
THEOREM CertificatesAreSingle == MCSpec => []CertificateIsOne
  <1>1. MCInv => CertificateIsOne
    BY DEF MCInv, CertificateIsOne, UpdateInv
  <1>2. QED  BY <1>1, MCInvariance, PTL

\* recompute_enrollment_progress: a recomputation that nothing overlaps stores what
\* the lessons tell, whatever the instructor did to the course before it.
THEOREM RecomputationIsRight == MCSpec => RecomputedIsRight
  <1>1. MCInv /\ [MCNext]_all => [part = "alone" => RecomputeAgrees]_all
    BY RecomputationAgrees DEF MCInv
  <1>2. QED  BY <1>1, MCInvariance, PTL DEF MCSpec, RecomputedIsRight

\* package_lesson_hls: every stored segment was encrypted with the key that
\* lesson_hls_key serves, for any number of uploads, and of tasks that overlap,
\* fail and die with the process.
THEOREM SegmentsCanBeDecrypted == MCSpec => []Decryptable
  <1>1. MCInv => Decryptable
    BY DEF MCInv, Decryptable, PackInv
  <1>2. QED  BY <1>1, MCInvariance, PTL

\* package_lesson_hls: unless two uploads were packaged at the same time, READY means
\* all the segments of one upload, with its count and its manifest.
THEOREM ReadyVideosAreWhole == MCSpec => []ReadyIsWhole
  <1>1. MCInv => ReadyIsWhole
    BY DEF MCInv, ReadyIsWhole, PackInv
  <1>2. QED  BY <1>1, MCInvariance, PTL

\* gate_segment_fetch: a player that makes one fetch at a time, and has been served
\* segment w, began watching long enough ago to have played, at the highest rate,
\* all but the look-ahead; however the fetches are timed and broken off.
THEOREM LearnersHaveWatched ==
  ASSUME OneFetch
  PROVE  MCSpec => []WatchedLongEnough
  <1> DEFINE Inv == part = "gate" => GateInv
  <1>1. MCInit => Inv
    BY GateInitInv DEF MCInit
  <1>2. Inv /\ [MCNext]_all => Inv'
    <2> SUFFICES ASSUME Inv, [MCNext]_all
                 PROVE  Inv'
      OBVIOUS
    <2>1. part' = part
      BY DEF MCNext, all
    <2>2. ASSUME part = "gate"
          PROVE  GateInv'
      <3>1. [S!Next]_gateVars
        BY <2>2 DEF MCNext, all
      <3>2. QED  BY <2>2, <3>1, GateNextInv
    <2>3. QED  BY <2>1, <2>2
  <1>3. Inv => WatchedLongEnough
    BY PaidIsWatched DEF WatchedLongEnough, GateInv
  <1> HIDE DEF Inv
  <1>4. QED  BY <1>1, <1>2, <1>3, PTL DEF MCSpec

=============================================================================
