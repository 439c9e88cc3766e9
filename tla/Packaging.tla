----------------------------- MODULE Packaging -----------------------------
(***************************************************************************)
(* Uploading a lesson's video and packaging it for HLS: upload_lesson_video *)
(* of app/api/v1/instructor.py, set_lesson_video, and the background task  *)
(* package_lesson_hls of app/utils/hls.py.                                 *)
(*                                                                         *)
(* A task loads the lesson once and works from what it loaded.  Tasks of   *)
(* two uploads overlap, and write the same storage keys: the manifest and  *)
(* the segments of a lesson have names that do not tell uploads apart.     *)
(* The manifest is written before the segments (the files are sorted by    *)
(* name), and files of an earlier, longer video stay.                      *)
(*                                                                         *)
(* The content key is stored wrapped with MEDIA_KEK, which a process reads *)
(* once, when it starts, and which may be unset or another one than the    *)
(* key row was wrapped with: the task then dies outside its try, and the   *)
(* lesson stays PENDING, as when the process dies.                         *)
(***************************************************************************)
EXTENDS Naturals, FiniteSets

CONSTANTS
    Task,      \* background task slots
    MaxUpload, \* bound on the uploads of the lesson; 1 .. MaxUpload name them
    Length,    \* [1 .. MaxUpload -> Nat]: how many segments each video has
    Key,       \* content keys os.urandom may return
    Kek,       \* values of MEDIA_KEK
    None

VARIABLES
    video,      \* the upload Lesson.video_url names, 0 if none
    status,     \* Lesson.hls_status
    count,      \* Lesson.hls_segments_count
    contentKey, \* the row of media_keys of the lesson
    wrappedBy,  \* the MEDIA_KEK that row is wrapped with
    kek,        \* the MEDIA_KEK of the process, None if it is not set
    manifest,   \* the upload whose master.m3u8 is stored, 0 if none
    segment,    \* [1 .. MaxSegment -> Stored]: the stored seg_NNNN.ts
    task,       \* [Task -> TaskState]
    overlapped, \* ghost: two tasks have been in flight at once
    stranded    \* ghost: a task died with the process, of a key it could not unwrap
                \* or of its session, and nothing has been uploaded since

vars == <<video, status, count, contentKey, wrappedBy, kek, manifest, segment, task,
          overlapped, stranded>>
lesson == <<video, status, count>>
keys   == <<contentKey, wrappedBy, kek>>
store  == <<manifest, segment>>
ghosts == <<overlapped, stranded>>

Upload     == 1 .. MaxUpload
MaxSegment == CHOOSE n \in {Length[u] : u \in Upload} :
                  \A m \in {Length[u] : u \in Upload} : m <= n
Status     == {"pending", "ready", "failed"}

Stored == [upload : Upload \cup {0}, key : Key \cup {None}]

TaskState == [at : {"idle", "load", "key", "insert", "source", "manifest",
                    "segments", "finish"},
              upload : Upload \cup {0},    \* the video_url it loaded
              count : Nat \cup {None},     \* hls_segments_count as loaded
              key : Key \cup {None},       \* the content key it encrypts with
              written : Nat]               \* segments written so far

\* What the theorems assume of the constants: None is no key, no KEK, no status.
PackagingConstants ==
    /\ MaxUpload \in Nat /\ Length \in [Upload -> Nat]
    /\ None \notin Key \cup Kek \cup Status

Idle == [at |-> "idle", upload |-> 0, count |-> None, key |-> None, written |-> 0]

Init ==
    /\ video = 0
    /\ status = None
    /\ count = None
    /\ contentKey = None
    /\ wrappedBy = None
    /\ kek \in Kek \cup {None}
    /\ manifest = 0
    /\ segment = [n \in 1 .. MaxSegment |-> [upload |-> 0, key |-> None]]
    /\ task = [t \in Task |-> Idle]
    /\ overlapped = FALSE
    /\ stranded = FALSE

InFlight == {t \in Task : task[t] # Idle}

Go(t, at)  == task' = [task EXCEPT ![t].at = at]
Finish(t)  == task' = [task EXCEPT ![t] = Idle]

-----------------------------------------------------------------------------
\* upload_lesson_video: the object is stored, video_url committed, and a task
\* added that runs once the response has been sent.  hls_status stays.
UploadVideo(t) ==
    /\ video < MaxUpload
    /\ task[t] = Idle
    /\ video' = video + 1
    /\ task' = [task EXCEPT ![t].at = "load"]
    /\ overlapped' = (overlapped \/ InFlight # {})
    /\ stranded' = FALSE
    /\ UNCHANGED <<status, count, keys, store>>

\* The lesson is loaded and hls_status set to PENDING; without ffmpeg, FAILED.
LoadLesson(t) ==
    /\ task[t].at = "load"
    /\ \/ /\ task' = [task EXCEPT ![t].at = "key", ![t].upload = video,
                                  ![t].count = count]
          /\ status' = "pending"
       \/ /\ Finish(t)
          /\ status' = "failed"
    /\ UNCHANGED <<video, count, keys, store, ghosts>>

KeyMissing == contentKey = None

\* wrap_content_key needs a MEDIA_KEK, unwrap_content_key the one that wrapped.
KeyOpens == IF KeyMissing THEN kek # None ELSE kek = wrappedBy

\* get_or_create_lesson_key: the key row, or a fresh key to insert.  Its
\* RuntimeError is raised outside the try, and the task dies of it.
FindKey(t) ==
    /\ task[t].at = "key"
    /\ \/ /\ KeyOpens /\ KeyMissing
          /\ \E k \in Key : task' = [task EXCEPT ![t].at = "insert", ![t].key = k]
          /\ UNCHANGED stranded
       \/ /\ KeyOpens /\ ~KeyMissing
          /\ task' = [task EXCEPT ![t].at = "source", ![t].key = contentKey]
          /\ UNCHANGED stranded
       \/ /\ ~KeyOpens
          /\ Finish(t)
          /\ stranded' = TRUE
    /\ UNCHANGED <<lesson, keys, store, overlapped>>

\* Mutant: media_keys.lesson_id is not unique, the last key counts.
KeyAcceptedAlways == TRUE

KeyAccepted == contentKey = None

\* The unique constraint refuses a second key, and the task dies of it.
InsertKey(t) ==
    /\ task[t].at = "insert"
    /\ \/ /\ KeyAccepted
          /\ contentKey' = task[t].key
          /\ wrappedBy' = kek
          /\ Go(t, "source")
       \/ ~KeyAccepted /\ Finish(t) /\ UNCHANGED <<contentKey, wrappedBy>>
    /\ UNCHANGED <<lesson, kek, store, ghosts>>

\* Mutant: the failure of one step is not recorded.
FailedQuietly(t) == status' = status /\ Finish(t)

\* The status an exception leaves behind.
Failed(t) == status' = "failed" /\ Finish(t)

\* read_object returns the upload, or nothing: the storage lost it.
ReadSource(t) ==
    /\ task[t].at = "source"
    /\ \/ Go(t, "manifest") /\ UNCHANGED status
       \/ Failed(t)
    /\ UNCHANGED <<video, count, keys, store, ghosts>>

\* ffmpeg or the storage raises: the lesson is marked FAILED.
FailPackaging(t) ==
    /\ task[t].at \in {"manifest", "segments"}
    /\ Failed(t)
    /\ UNCHANGED <<video, count, keys, store, ghosts>>

WriteManifest(t) ==
    /\ task[t].at = "manifest"
    /\ manifest' = task[t].upload
    /\ Go(t, "segments")
    /\ UNCHANGED <<lesson, keys, segment, ghosts>>

\* Mutant: the last segment is not shipped.
AllWrittenEarly(q) == q.written >= Length[q.upload] - 1

AllWritten(q) == q.written = Length[q.upload]

WriteSegment(t) ==
    LET q == task[t] IN
    /\ q.at = "segments"
    /\ IF AllWritten(q)
       THEN Go(t, "finish") /\ UNCHANGED segment
       ELSE /\ segment' = [segment EXCEPT ![q.written + 1] =
                              [upload |-> q.upload, key |-> q.key]]
            /\ task' = [task EXCEPT ![t].written = @ + 1]
    /\ UNCHANGED <<lesson, keys, manifest, ghosts>>

\* READY, with the count (and the durations): written if it is not the loaded one.
FinishPackaging(t) ==
    LET q == task[t] IN
    /\ q.at = "finish"
    /\ status' = "ready"
    /\ count' = IF Length[q.upload] = q.count THEN count ELSE Length[q.upload]
    /\ Finish(t)
    /\ UNCHANGED <<video, keys, store, ghosts>>

\* Its session raises, at a commit or when the connection is lost: outside the try,
\* or in the handler that would have marked the lesson FAILED.
Abort(t) ==
    /\ task[t] # Idle
    /\ Finish(t)
    /\ stranded' = TRUE
    /\ UNCHANGED <<lesson, keys, store, overlapped>>

\* The process stops with its background tasks, which nothing starts again, and
\* the next one may have another MEDIA_KEK.
Restart ==
    /\ task' = [t \in Task |-> Idle]
    /\ kek' \in Kek \cup {None}
    /\ stranded' = (stranded \/ InFlight # {})
    /\ UNCHANGED <<lesson, contentKey, wrappedBy, store, overlapped>>

Step(t) ==
    \/ LoadLesson(t) \/ FindKey(t) \/ InsertKey(t) \/ ReadSource(t)
    \/ FailPackaging(t) \/ WriteManifest(t) \/ WriteSegment(t) \/ FinishPackaging(t)

Next == (\E t \in Task : UploadVideo(t) \/ Step(t) \/ Abort(t)) \/ Restart

Spec == Init /\ [][Next]_vars

\* The event loop and its worker threads run the tasks.
Fairness == \A t \in Task : WF_vars(Step(t))

FairSpec == Spec /\ Fairness

-----------------------------------------------------------------------------
(* Properties *)

TypeOK ==
    /\ video \in Upload \cup {0}
    /\ status \in Status \cup {None}
    /\ count \in Nat \cup {None}
    /\ contentKey \in Key \cup {None}
    /\ wrappedBy \in Kek \cup {None} /\ kek \in Kek \cup {None}
    /\ manifest \in Upload \cup {0}
    /\ segment \in [1 .. MaxSegment -> Stored]
    /\ task \in [Task -> TaskState]
    /\ overlapped \in BOOLEAN /\ stranded \in BOOLEAN

\* Every stored segment can be decrypted with the key lesson_hls_key serves,
\* although overlapping tasks mint keys, die and overwrite each other's files.
Decryptable ==
    \A n \in 1 .. MaxSegment : segment[n].upload # 0 => segment[n].key = contentKey

\* hls_status READY: unless two uploads were packaged at the same time, what is
\* stored is one video, whole, with the count the gate completes lessons by, and
\* it is the last one uploaded unless its task was stranded; a failure or a
\* restart in between is never taken for READY.
ReadyIsWhole ==
    status = "ready" /\ ~overlapped =>
        /\ manifest # 0
        /\ count = Length[manifest]
        /\ InFlight = {} => manifest = video \/ stranded
        /\ \A n \in 1 .. Length[manifest] : segment[n].upload = manifest

\* "the client should poll": a lesson stays PENDING only when a task died with the
\* process, of a key it could not unwrap or of its session, and an upload after
\* that is settled again; ffmpeg, the storage and the insert of a second key leave
\* no lesson so.
PackagingSettles == status = "pending" ~> status # "pending" \/ stranded

=============================================================================
