------------------------------ MODULE Recorder ------------------------------
(***************************************************************************)
(* One Recorder of server/app/services/recorder.py: the agent socket       *)
(* threads that feed it, the thread that stops it, its writer and watcher  *)
(* threads and the FFmpeg process between them.                            *)
(*                                                                         *)
(* A segment is a number, in the order FFmpeg opens them; the segment list *)
(* file holds the prefix 1..listed of the closed ones.  A frame is a token *)
(* without content.  Time advances by one each time a segment is taken up  *)
(* for processing: only the order of those instants matters.               *)
(***************************************************************************)
EXTENDS Naturals, Sequences, FiniteSets, Functions

CONSTANTS
    Feeders,        \* agent socket threads that feed this recorder
    QueueSize,      \* maxsize of the frame queue (300 in the code)
    MaxFrames,      \* bound: frames offered
    MaxSegments,    \* bound: segments FFmpeg may open
    MaxFaults,      \* bound: stores, removals and commits that fail
    FfmpegDies,     \* may FFmpeg die, or be killed after 15 s of flushing?
    ServerDies      \* may the server process end while the recorder runs?

ASSUME SizesAssumption == QueueSize \in Nat \ {0} /\ MaxFrames \in Nat /\ MaxSegments \in Nat
ASSUME FaultsAssumption ==
    MaxFaults \in Nat /\ FfmpegDies \in BOOLEAN /\ ServerDies \in BOOLEAN

VARIABLES
    running,        \* is the server process alive?
    queue,          \* self._queue
    stopping,       \* self._stopping
    stopper,        \* the thread in RecorderManager.stop
    feeder,         \* the threads in RecorderManager.feed
    offered,        \* frames offered so far
    writer,         \* _writer_loop
    stdin,          \* is FFmpeg's stdin open?
    ffmpeg,         \* is the FFmpeg process alive (poll() is None)?
    open,           \* the segment FFmpeg is writing, 0 when none
    listed,         \* segments in the list file: 1..listed
    opened,         \* segments FFmpeg has opened so far
    plain,          \* plaintext segment files in the work directory
    watcher,        \* _watcher_loop
    done,           \* its local `done`
    final,          \* is it in the final drain?
    seen,           \* its local `seen`
    todo,           \* what its last _read_new_segments returned, left to process
    job,            \* the segment _process_segment is at: number and time span
    segmentStart,   \* self._segment_start
    clock,          \* the time
    stored,         \* ciphertext files on the storage target
    rows,           \* recording_segments rows, in commit order
    faults          \* stores, removals and commits that failed

feedVars == <<queue, stopping, stopper, feeder, offered, writer, stdin>>
ffmpegVars == <<ffmpeg, open, listed, opened>>
watcherVars == <<watcher, done, final, seen, todo, job, segmentStart, clock, stored, rows, faults>>
vars == <<running, feedVars, ffmpegVars, plain, watcherVars>>

Frame == "frame"
Sentinel == "sentinel"

-----------------------------------------------------------------------------
(* Feeding and stopping                                                    *)

\* RecorderManager.feed finds the recorder in the registry (stop has not taken
\* it out yet) and Recorder.feed sees no stop.
FeedCheck(f) ==
    /\ running
    /\ feeder[f] = "idle" /\ stopper = "idle"
    /\ offered < MaxFrames
    /\ ~stopping
    /\ offered' = offered + 1
    /\ feeder' = [feeder EXCEPT ![f] = "put"]
    /\ UNCHANGED <<running, queue, stopping, stopper, writer, stdin, ffmpegVars, plain, watcherVars>>

\* Mutant of Offered: an unbounded queue.
OfferedAlways == Append(queue, Frame)

\* put_nowait: a full queue drops the frame.
Offered == IF Len(queue) < QueueSize THEN Append(queue, Frame) ELSE queue

FeedPut(f) ==
    /\ running
    /\ feeder[f] = "put"
    /\ feeder' = [feeder EXCEPT ![f] = "idle"]
    /\ queue' = Offered
    /\ UNCHANGED <<running, stopping, stopper, offered, writer, stdin, ffmpegVars, plain, watcherVars>>

\* RecorderManager.stop takes the recorder out of the registry ...
StopBegin ==
    /\ running
    /\ stopper = "idle"
    /\ stopper' = "set"
    /\ UNCHANGED <<running, queue, stopping, feeder, offered, writer, stdin, ffmpegVars, plain, watcherVars>>

\* ... and Recorder.stop raises the flag,
StopSet ==
    /\ running
    /\ stopper = "set"
    /\ stopping' = TRUE
    /\ stopper' = "put"
    /\ UNCHANGED <<running, queue, feeder, offered, writer, stdin, ffmpegVars, plain, watcherVars>>

\* puts the sentinel, waiting for room as long as it takes,
StopPut ==
    /\ running
    /\ stopper = "put"
    /\ Len(queue) < QueueSize
    /\ queue' = Append(queue, Sentinel)
    /\ stopper' = "join"
    /\ UNCHANGED <<running, stopping, feeder, offered, writer, stdin, ffmpegVars, plain, watcherVars>>

\* and joins the two threads, each for at most 15 seconds.
StopJoin ==
    /\ running
    /\ stopper = "join"
    /\ stopper' = "returned"
    /\ UNCHANGED <<running, queue, stopping, feeder, offered, writer, stdin, ffmpegVars, plain, watcherVars>>

-----------------------------------------------------------------------------
(* _writer_loop                                                            *)

\* Mutant of EndsWriter: the flag is polled instead of waiting for the sentinel.
EndsWriterByFlag(item) == stopping \/ ~ffmpeg

EndsWriter(item) == item = Sentinel \/ ~ffmpeg

\* One item: the sentinel, or a write that finds FFmpeg gone, ends the loop; a
\* frame that FFmpeg takes goes to the open segment, or opens one.
WriterGet ==
    /\ running
    /\ writer = "loop"
    /\ queue # <<>>
    /\ queue' = Tail(queue)
    /\ IF EndsWriter(Head(queue))
       THEN /\ writer' = "close"
            /\ UNCHANGED <<open, opened, plain>>
       ELSE /\ UNCHANGED writer
            /\ IF open = 0 /\ opened < MaxSegments
               THEN open' = opened + 1 /\ opened' = opened + 1 /\ plain' = plain \cup {opened + 1}
               ELSE UNCHANGED <<open, opened, plain>>
    /\ UNCHANGED <<running, stopping, stopper, feeder, offered, stdin, ffmpeg, listed, watcherVars>>

\* The finally block closes stdin ...
WriterClose ==
    /\ running
    /\ writer = "close"
    /\ stdin' = FALSE
    /\ writer' = "wait"
    /\ UNCHANGED <<running, queue, stopping, stopper, feeder, offered, ffmpegVars, plain, watcherVars>>

\* ... and waits for FFmpeg, or kills it after 15 seconds.
WriterWait ==
    /\ running
    /\ writer = "wait"
    /\ ~ffmpeg \/ FfmpegDies
    /\ ffmpeg' = FALSE
    /\ open' = IF ffmpeg THEN 0 ELSE open
    /\ writer' = "ended"
    /\ UNCHANGED <<running, queue, stopping, stopper, feeder, offered, stdin, listed, opened, plain, watcherVars>>

-----------------------------------------------------------------------------
(* FFmpeg                                                                  *)

\* A segment reaches its length: FFmpeg closes it and adds it to the list.
FfmpegSegment ==
    /\ ffmpeg
    /\ open # 0
    /\ listed' = open
    /\ open' = 0
    /\ UNCHANGED <<running, feedVars, ffmpeg, opened, plain, watcherVars>>

\* End of input: FFmpeg finalises the last segment and exits.
FfmpegExit ==
    /\ ffmpeg
    /\ ~stdin
    /\ ffmpeg' = FALSE
    /\ listed' = IF open # 0 THEN open ELSE listed
    /\ open' = 0
    /\ UNCHANGED <<running, feedVars, opened, plain, watcherVars>>

\* FFmpeg dies on its own; the segment it was writing is never listed.
FfmpegCrash ==
    /\ FfmpegDies
    /\ ffmpeg
    /\ ffmpeg' = FALSE
    /\ open' = 0
    /\ UNCHANGED <<running, feedVars, listed, opened, plain, watcherVars>>

-----------------------------------------------------------------------------
(* _watcher_loop                                                           *)

\* Mutant of Finished: FFmpeg's exit is not awaited.
FinishedByFlag == stopping

\* Mutant of Finished: the end of the stop is awaited too.
FinishedWithStop == stopper = "returned" /\ ~ffmpeg

Finished == stopping /\ ~ffmpeg

\* `done` is computed before the list is read.
WatcherCheck ==
    /\ running
    /\ watcher = "check"
    /\ done' = Finished
    /\ watcher' = "read"
    /\ UNCHANGED <<running, feedVars, ffmpegVars, plain, final, seen, todo, job, segmentStart, clock, stored, rows, faults>>

\* _read_new_segments returns the names it had not seen, and remembers them.
NewSegments == 1..listed \ seen
Remembered == seen \cup NewSegments

WatcherRead ==
    /\ running
    /\ watcher = "read"
    /\ todo' = NewSegments
    /\ seen' = Remembered
    /\ watcher' = "process"
    /\ UNCHANGED <<running, feedVars, ffmpegVars, plain, done, final, job, segmentStart, clock, stored, rows, faults>>

\* All that was read is processed: sleep, drain once more, or end.
WatcherTurn ==
    /\ running
    /\ watcher = "process" /\ todo = {}
    /\ watcher' = IF ~done THEN "check" ELSE IF ~final THEN "read" ELSE "ended"
    /\ final' = done
    /\ UNCHANGED <<running, feedVars, ffmpegVars, plain, done, seen, todo, job, segmentStart, clock, stored, rows, faults>>

\* A segment spans from the end of the previous one to now.
JobOf(seg) == [seg |-> seg, from |-> segmentStart, to |-> clock + 1]

\* _process_segment takes up the next segment of the file; whatever becomes of
\* it, the one after it starts now.
ProcessBegin ==
    /\ running
    /\ watcher = "process"
    /\ \E seg \in todo :
         /\ \A other \in todo : seg <= other
         /\ todo' = todo \ {seg}
         /\ IF seg \in plain
            THEN /\ clock' = clock + 1
                 /\ job' = JobOf(seg)
                 /\ segmentStart' = clock + 1
                 /\ watcher' = "store"
            ELSE UNCHANGED <<watcher, job, segmentStart, clock>>
    /\ UNCHANGED <<running, feedVars, ffmpegVars, plain, done, final, seen, stored, rows, faults>>

\* Mutant of AfterFailure: the finally block alone, and on to the index.
AfterFailureOn == "remove"

\* Where the exception handler of _process_segment goes: out, by way of the
\* finally block.
AfterFailure == "discard"

\* Encrypt and store_file, which may fail
ProcessStore ==
    /\ running
    /\ watcher = "store"
    /\ \/ stored' = stored \cup {job.seg} /\ watcher' = "remove" /\ UNCHANGED faults
       \/ /\ faults < MaxFaults
          /\ faults' = faults + 1
          /\ watcher' = AfterFailure
          /\ UNCHANGED stored
    /\ UNCHANGED <<running, feedVars, ffmpegVars, plain, done, final, seen, todo, job, segmentStart, clock, rows>>

\* Mutant of Kept: only the exception handler removes the plaintext.
KeptOnSuccess == IF watcher = "discard" THEN plain \ {job.seg} ELSE plain

Kept == plain \ {job.seg}

\* The finally block removes the plaintext, stored or not; an error is ignored.
ProcessRemove ==
    /\ running
    /\ watcher \in {"remove", "discard"}
    /\ \/ plain' = Kept /\ UNCHANGED faults
       \/ faults < MaxFaults /\ faults' = faults + 1 /\ UNCHANGED plain
    /\ watcher' = IF watcher = "remove" THEN "index" ELSE "process"
    /\ UNCHANGED <<running, feedVars, ffmpegVars, done, final, seen, todo, job, segmentStart, clock, stored, rows>>

\* _index_segment: a commit that fails is rolled back and forgotten.
ProcessIndex ==
    /\ running
    /\ watcher = "index"
    /\ \/ rows' = Append(rows, job) /\ UNCHANGED faults
       \/ faults < MaxFaults /\ faults' = faults + 1 /\ UNCHANGED rows
    /\ watcher' = "process"
    /\ UNCHANGED <<running, feedVars, ffmpegVars, plain, done, final, seen, todo, job, segmentStart, clock, stored>>

-----------------------------------------------------------------------------

\* The server process ends; the pipe to FFmpeg closes with it.
ServerExit ==
    /\ ServerDies
    /\ running
    /\ running' = FALSE
    /\ stdin' = FALSE
    /\ UNCHANGED <<queue, stopping, stopper, feeder, offered, writer, ffmpegVars, plain, watcherVars>>

Init ==
    /\ running = TRUE
    /\ queue = <<>>
    /\ stopping = FALSE
    /\ stopper = "idle"
    /\ feeder = [f \in Feeders |-> "idle"]
    /\ offered = 0
    /\ writer = "loop"
    /\ stdin = TRUE
    /\ ffmpeg = TRUE
    /\ open = 0
    /\ listed = 0
    /\ opened = 0
    /\ plain = {}
    /\ watcher = "check"
    /\ done = FALSE
    /\ final = FALSE
    /\ seen = {}
    /\ todo = {}
    /\ job = [seg |-> 0, from |-> 0, to |-> 0]
    /\ segmentStart = 0
    /\ clock = 0
    /\ stored = {}
    /\ rows = <<>>
    /\ faults = 0

Stop == StopSet \/ StopPut \/ StopJoin
Writer == WriterGet \/ WriterClose \/ WriterWait
Process == ProcessBegin \/ ProcessStore \/ ProcessRemove \/ ProcessIndex
Watcher == WatcherCheck \/ WatcherRead \/ WatcherTurn \/ Process
Ffmpeg == FfmpegSegment \/ FfmpegExit

Next ==
    \/ \E f \in Feeders : FeedCheck(f) \/ FeedPut(f)
    \/ StopBegin
    \/ Stop
    \/ Writer
    \/ Ffmpeg
    \/ FfmpegCrash
    \/ Watcher
    \/ ServerExit

Spec == Init /\ [][Next]_vars

\* The recorder's own threads, a stop once begun and FFmpeg's flush are
\* scheduled; frames, stops and failures come from outside.
Fairness ==
    /\ WF_vars(Stop)
    /\ WF_vars(Writer)
    /\ WF_vars(Watcher)
    /\ WF_vars(FfmpegExit)

FairSpec == Spec /\ Fairness

-----------------------------------------------------------------------------
(* Properties                                                              *)

Job == [seg: 0..MaxSegments, from: Nat, to: Nat]

FeedTypeOK ==
    /\ stopping \in BOOLEAN /\ stdin \in BOOLEAN
    /\ queue \in Seq({Frame, Sentinel}) /\ Len(queue) <= QueueSize
    /\ stopper \in {"idle", "set", "put", "join", "returned"}
    /\ feeder \in [Feeders -> {"idle", "put"}]
    /\ offered \in 0..MaxFrames
    /\ writer \in {"loop", "close", "wait", "ended"}

FfmpegTypeOK ==
    /\ running \in BOOLEAN /\ ffmpeg \in BOOLEAN
    /\ open \in 0..MaxSegments /\ listed \in 0..MaxSegments /\ opened \in 0..MaxSegments
    /\ plain \subseteq 1..MaxSegments

WatcherTypeOK ==
    /\ watcher \in {"check", "read", "process", "store", "remove", "discard", "index", "ended"}
    /\ done \in BOOLEAN /\ final \in BOOLEAN
    /\ seen \subseteq 1..MaxSegments /\ todo \subseteq seen /\ stored \subseteq 1..MaxSegments
    /\ job \in Job
    /\ watcher \in {"store", "remove", "discard", "index"} => job.seg \in seen
    /\ segmentStart \in Nat /\ clock \in Nat
    /\ rows \in Seq(Job)
    /\ faults \in 0..MaxFaults

\* Types, and the bounds of the queue and of the list file.
TypeOK == FeedTypeOK /\ FfmpegTypeOK /\ WatcherTypeOK

\* Nothing FFmpeg recorded is missed: when the watcher has ended and nothing
\* failed, every listed segment has its row, however the stop, FFmpeg's last
\* segment and the watcher's polling interleave (`done` is read before the list).
EverySegmentIndexed ==
    watcher = "ended" /\ faults = 0 => \A i \in 1..listed : \E r \in Range(rows) : r.seg = i

\* No segment is processed twice: rows are of different segments.
IndexedOnce == \A i, j \in DOMAIN rows : rows[i].seg = rows[j].seg => i = j

\* A row is committed only for ciphertext that is on the storage target, also
\* when the server ends between the two.
RowsHaveFiles == \A r \in Range(rows) : r.seg \in stored

\* The time spans of a run's rows do not overlap and follow the order of the
\* segments, even when segments in between fail: playback orders and selects
\* segments by their span.
SpansAreOrdered ==
    \A i, j \in DOMAIN rows : i < j => rows[i].seg < rows[j].seg /\ rows[i].to <= rows[j].from

\* A work directory "holds the plaintext segments briefly" (Recorder.start):
\* when the watcher has ended and nothing failed, no plaintext of a segment that
\* FFmpeg listed is left.
PlaintextHeldBriefly ==
    watcher = "ended" /\ faults = 0 => plain \cap 1..listed = {}

\* The recorder as a RecordingLog: one instant per segment taken up is enough.
Log == INSTANCE RecordingLog
       WITH Times <- 0..MaxSegments, closed <- listed, files <- stored, log <- rows,
            troubled <- faults > 0, over <- watcher = "ended"

\* The threads of a recorder make the recording RecordingLog promises ("a watcher
\* thread encrypts each completed segment, indexes it ... and deletes the
\* plaintext"): the file before its row, rows in order and never taken back, no
\* gap before the first failure, nothing after the end and nothing missing then.
KeepsLog == Log!Spec

\* FFmpeg went while its input was still open.
Crashed == ~ffmpeg /\ stdin

\* A stop returns: on_agent_disconnected, which calls it, goes on to unregister
\* the agent ("when the agent disconnects, recording stops").  It may wait for
\* ever when FFmpeg died before its input was closed: nobody then makes room
\* for the sentinel.
StopCompletes ==
    (stopper = "set" /\ ffmpeg) ~> (stopper = "returned" \/ Crashed \/ ~running)

\* After a stop the watcher drains the list and ends, also when FFmpeg died.
WatcherEnds == stopping ~> (watcher = "ended" \/ ~running)
=============================================================================
