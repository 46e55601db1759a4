--------------------------- MODULE RecorderProofs ---------------------------
(***************************************************************************)
(* Proofs about Recorder, for any queue size, any number of frames,        *)
(* segments, failures and feeding threads, with or without the death of    *)
(* FFmpeg or of the server.                                                *)
(***************************************************************************)
EXTENDS Recorder, TLAPS

\* The kinds of step.
LEMMA Steps ==
    ASSUME [Next]_vars
    PROVE  \/ \E f \in Feeders : FeedCheck(f) \/ FeedPut(f)
           \/ StopBegin \/ StopSet \/ StopPut \/ StopJoin
           \/ WriterGet \/ WriterClose \/ WriterWait
           \/ FfmpegSegment \/ FfmpegExit \/ FfmpegCrash \/ ServerExit
           \/ WatcherCheck \/ WatcherRead \/ WatcherTurn
           \/ ProcessBegin \/ ProcessStore \/ ProcessRemove \/ ProcessIndex
           \/ UNCHANGED vars
BY DEF Next, Stop, Writer, Ffmpeg, Watcher, Process

\* A step that is not the watcher's leaves its variables alone.
LEMMA WatcherSteps ==
    ASSUME [Next]_vars
    PROVE  \/ WatcherCheck \/ WatcherRead \/ WatcherTurn
           \/ ProcessBegin \/ ProcessStore \/ ProcessRemove \/ ProcessIndex
           \/ UNCHANGED watcherVars
BY Steps DEF FeedCheck, FeedPut, StopBegin, StopSet, StopPut, StopJoin, WriterGet,
   WriterClose, WriterWait, FfmpegSegment, FfmpegExit, FfmpegCrash, ServerExit, vars

-----------------------------------------------------------------------------
(* Types                                                                     *)

\* Every step keeps the types of the feeding side, and the bound of the queue.
LEMMA FeedTypeStep == ASSUME FeedTypeOK, [Next]_vars PROVE FeedTypeOK'
<1> USE SizesAssumption DEF FeedTypeOK
<1>1. ASSUME NEW f \in Feeders, FeedCheck(f) PROVE FeedTypeOK'
  BY <1>1 DEF FeedCheck
<1>2. ASSUME NEW f \in Feeders, FeedPut(f) PROVE FeedTypeOK'
  <2>1. Offered \in Seq({Frame, Sentinel}) /\ Len(Offered) <= QueueSize
    BY DEF Offered
  <2> QED BY <1>2, <2>1 DEF FeedPut
<1>3. CASE StopBegin \/ StopSet \/ StopJoin
  BY <1>3 DEF StopBegin, StopSet, StopJoin
<1>4. CASE StopPut
  <2>1. Append(queue, Sentinel) \in Seq({Frame, Sentinel})
    OBVIOUS
  <2>2. Len(Append(queue, Sentinel)) <= QueueSize
    BY <1>4 DEF StopPut
  <2> QED BY <1>4, <2>1, <2>2 DEF StopPut
<1>5. CASE WriterGet
  <2>1. Tail(queue) \in Seq({Frame, Sentinel}) /\ Len(Tail(queue)) <= QueueSize
    BY <1>5 DEF WriterGet
  <2> QED BY <1>5, <2>1 DEF WriterGet
<1>6. CASE WriterClose \/ WriterWait \/ ServerExit
  BY <1>6 DEF WriterClose, WriterWait, ServerExit
<1>7. CASE UNCHANGED feedVars
  BY <1>7 DEF feedVars
<1>8. CASE \/ FfmpegSegment \/ FfmpegExit \/ FfmpegCrash
           \/ WatcherCheck \/ WatcherRead \/ WatcherTurn
           \/ ProcessBegin \/ ProcessStore \/ ProcessRemove \/ ProcessIndex
           \/ UNCHANGED vars
  BY <1>7, <1>8 DEF FfmpegSegment, FfmpegExit, FfmpegCrash, WatcherCheck, WatcherRead,
     WatcherTurn, ProcessBegin, ProcessStore, ProcessRemove, ProcessIndex, vars
<1> QED BY <1>1, <1>2, <1>3, <1>4, <1>5, <1>6, <1>8, Steps

\* Every step keeps the types of FFmpeg's state and of the work directory.
LEMMA FfmpegTypeStep == ASSUME FfmpegTypeOK, [Next]_vars PROVE FfmpegTypeOK'
<1> USE SizesAssumption DEF FfmpegTypeOK
<1>1. CASE WriterGet
  <2>1. UNCHANGED <<running, ffmpeg, listed>>
    BY <1>1 DEF WriterGet
  <2>2. CASE UNCHANGED <<open, opened, plain>>
    BY <2>1, <2>2
  <2>3. CASE /\ opened < MaxSegments
             /\ open' = opened + 1 /\ opened' = opened + 1 /\ plain' = plain \cup {opened + 1}
    <3>1. opened + 1 \in 1..MaxSegments
      BY <2>3
    <3>2. plain' \subseteq 1..MaxSegments
      BY <2>3, <3>1
    <3> QED BY <2>1, <2>3, <3>1, <3>2
  <2> QED BY <1>1, <2>2, <2>3 DEF WriterGet
<1>2. CASE WriterWait \/ FfmpegSegment \/ FfmpegExit \/ FfmpegCrash
  <2>1. running' \in BOOLEAN /\ ffmpeg' \in BOOLEAN
    BY <1>2 DEF WriterWait, FfmpegSegment, FfmpegExit, FfmpegCrash
  <2>2. (open \in 0..MaxSegments /\ listed \in 0..MaxSegments /\ opened \in 0..MaxSegments)'
    BY <1>2 DEF WriterWait, FfmpegSegment, FfmpegExit, FfmpegCrash
  <2>3. (plain \subseteq 1..MaxSegments)'
    BY <1>2 DEF WriterWait, FfmpegSegment, FfmpegExit, FfmpegCrash
  <2> QED BY <2>1, <2>2, <2>3
<1>4. CASE ServerExit
  BY <1>4 DEF ServerExit, ffmpegVars
<1>5. CASE ProcessRemove
  BY <1>5 DEF ProcessRemove, Kept, ffmpegVars
<1>6. CASE UNCHANGED <<running, ffmpegVars, plain>>
  BY <1>6 DEF ffmpegVars
<1>7. CASE \/ \E f \in Feeders : FeedCheck(f) \/ FeedPut(f)
           \/ StopBegin \/ StopSet \/ StopPut \/ StopJoin \/ WriterClose
           \/ WatcherCheck \/ WatcherRead \/ WatcherTurn
           \/ ProcessBegin \/ ProcessStore \/ ProcessIndex \/ UNCHANGED vars
  BY <1>6, <1>7 DEF FeedCheck, FeedPut, StopBegin, StopSet, StopPut, StopJoin, WriterClose,
     WatcherCheck, WatcherRead, WatcherTurn, ProcessBegin, ProcessStore, ProcessIndex, vars
<1> QED BY <1>1, <1>2, <1>4, <1>5, <1>7, Steps

\* Every step keeps the types of the watcher, which works only on segments it
\* has seen.
LEMMA WatcherTypeStep ==
    ASSUME FfmpegTypeOK, WatcherTypeOK, [Next]_vars PROVE WatcherTypeOK'
<1> USE SizesAssumption, FaultsAssumption DEF WatcherTypeOK
<1>1. CASE WatcherCheck
  BY <1>1 DEF WatcherCheck, Finished, FfmpegTypeOK
<1>2. CASE WatcherRead
  BY <1>2 DEF WatcherRead, NewSegments, Remembered, FfmpegTypeOK
<1>3. CASE WatcherTurn
  BY <1>3 DEF WatcherTurn
<1>4. CASE ProcessBegin
  <2>1. PICK seg \in todo : /\ todo' = todo \ {seg}
                            /\ IF seg \in plain
                               THEN /\ clock' = clock + 1 /\ job' = JobOf(seg)
                                    /\ segmentStart' = clock + 1 /\ watcher' = "store"
                               ELSE UNCHANGED <<watcher, job, segmentStart, clock>>
    BY <1>4 DEF ProcessBegin
  <2>2. UNCHANGED <<done, final, seen, stored, rows, faults>> /\ watcher = "process"
    BY <1>4 DEF ProcessBegin
  <2>3. JobOf(seg) \in Job /\ JobOf(seg).seg = seg /\ seg \in seen
    BY DEF JobOf, Job
  <2>4. segmentStart' \in Nat /\ clock' \in Nat /\ job' \in Job /\ watcher' \in {"process", "store"}
    BY <2>1, <2>2, <2>3
  <2>5. watcher' = "store" => job'.seg \in seen'
    BY <2>1, <2>2, <2>3
  <2>6. done' \in BOOLEAN /\ final' \in BOOLEAN /\ rows' \in Seq(Job) /\ faults' \in 0..MaxFaults
    BY <2>2
  <2>7. seen' \subseteq 1..MaxSegments /\ todo' \subseteq seen' /\ stored' \subseteq 1..MaxSegments
    BY <2>1, <2>2
  <2> HIDE DEF WatcherTypeOK
  <2> QED BY <2>4, <2>5, <2>6, <2>7 DEF WatcherTypeOK
<1>5. CASE ProcessStore
  <2>1. stored' \subseteq 1..MaxSegments
    <3>1. job.seg \in 1..MaxSegments
      BY <1>5 DEF ProcessStore
    <3>2. stored' = stored \cup {job.seg} \/ stored' = stored
      BY <1>5 DEF ProcessStore
    <3> QED BY <3>1, <3>2
  <2>2. faults' \in 0..MaxFaults /\ watcher' \in {"remove", "discard"}
    BY <1>5 DEF ProcessStore, AfterFailure
  <2>3. watcher = "store" /\ UNCHANGED <<done, final, seen, todo, job, segmentStart, clock, rows>>
    BY <1>5 DEF ProcessStore
  <2> QED BY <2>1, <2>2, <2>3
<1>6. CASE ProcessRemove
  BY <1>6 DEF ProcessRemove
<1>7. CASE ProcessIndex
  <2>1. rows' \in Seq(Job)
    BY <1>7 DEF ProcessIndex
  <2>2. faults' \in 0..MaxFaults
    BY <1>7 DEF ProcessIndex
  <2>3. watcher' = "process" /\ UNCHANGED <<done, final, seen, todo, job, segmentStart, clock, stored>>
    BY <1>7 DEF ProcessIndex
  <2>4. done' \in BOOLEAN /\ final' \in BOOLEAN /\ job' \in Job
        /\ segmentStart' \in Nat /\ clock' \in Nat
    BY <2>3
  <2>5. seen' \subseteq 1..MaxSegments /\ todo' \subseteq seen' /\ stored' \subseteq 1..MaxSegments
    BY <2>3
  <2> HIDE DEF WatcherTypeOK
  <2> QED BY <2>1, <2>2, <2>3, <2>4, <2>5 DEF WatcherTypeOK
<1>8. CASE UNCHANGED watcherVars
  BY <1>8 DEF watcherVars
<1> QED BY <1>1, <1>2, <1>3, <1>4, <1>5, <1>6, <1>7, <1>8, WatcherSteps

\* Types hold throughout, and the queue never exceeds its size.
THEOREM TypeCorrect == Spec => []TypeOK
<1>1. ASSUME Init PROVE TypeOK
  <2>1. queue \in Seq({Frame, Sentinel}) /\ Len(queue) = 0
    BY <1>1 DEF Init
  <2>2. offered \in 0..MaxFrames /\ feeder \in [Feeders -> {"idle", "put"}]
    BY <1>1, SizesAssumption DEF Init
  <2>a. FeedTypeOK
    <3>1. Len(queue) <= QueueSize
      BY <2>1, SizesAssumption
    <3>2. stopping = FALSE /\ stdin = TRUE /\ stopper = "idle" /\ writer = "loop"
      BY <1>1 DEF Init
    <3> QED BY <2>1, <2>2, <3>1, <3>2 DEF FeedTypeOK
  <2>3. FfmpegTypeOK
    BY <1>1, SizesAssumption DEF Init, FfmpegTypeOK
  <2>4. job \in Job /\ rows \in Seq(Job) /\ faults \in 0..MaxFaults
    BY <1>1, SizesAssumption, FaultsAssumption DEF Init, Job
  <2>5. WatcherTypeOK
    BY <1>1, <2>4 DEF Init, WatcherTypeOK
  <2> QED BY <2>a, <2>3, <2>5 DEF TypeOK
<1>2. TypeOK /\ [Next]_vars => TypeOK'
  BY FeedTypeStep, FfmpegTypeStep, WatcherTypeStep DEF TypeOK
<1> QED BY <1>1, <1>2, PTL DEF Spec

-----------------------------------------------------------------------------
(* Rows have files                                                         *)

\* The job that is past its store, and every row, is of a stored segment.
FilesInv ==
    /\ watcher \in {"remove", "index"} => job.seg \in stored
    /\ RowsHaveFiles

\* Nothing deletes ciphertext, and only a stored job is indexed.
LEMMA FilesStep == ASSUME TypeOK, FilesInv, [Next]_vars PROVE FilesInv'
<1> USE DEF FilesInv, RowsHaveFiles
<1>1. CASE ProcessStore
  BY <1>1 DEF ProcessStore, AfterFailure
<1>2. CASE ProcessIndex
  <2>1. rows \in Seq(Job) /\ watcher' = "process" /\ stored' = stored /\ job.seg \in stored
    BY <1>2 DEF ProcessIndex, TypeOK, WatcherTypeOK
  <2>2. CASE rows' = Append(rows, job)
    <3>1. ASSUME NEW r \in Range(rows') PROVE r \in Range(rows) \/ r = job
      BY <2>1, <2>2, <3>1 DEF Range, TypeOK, WatcherTypeOK
    <3> QED BY <2>1, <3>1
  <2>3. CASE UNCHANGED rows
    BY <2>1, <2>3
  <2> QED BY <1>2, <2>2, <2>3 DEF ProcessIndex
<1>3. CASE ProcessRemove
  BY <1>3 DEF ProcessRemove
<1>4. CASE WatcherCheck \/ WatcherRead \/ WatcherTurn
  BY <1>4 DEF WatcherCheck, WatcherRead, WatcherTurn
<1>5. CASE ProcessBegin
  BY <1>5 DEF ProcessBegin
<1>6. CASE UNCHANGED watcherVars
  BY <1>6 DEF watcherVars
<1> QED BY <1>1, <1>2, <1>3, <1>4, <1>5, <1>6, WatcherSteps

\* A row is committed only for ciphertext that is on the storage target.
THEOREM RowsAreBacked == Spec => []RowsHaveFiles
<1>1. Init => FilesInv
  BY DEF Init, FilesInv, RowsHaveFiles, Range
<1>2. TypeOK /\ FilesInv /\ [Next]_vars => FilesInv'
  BY FilesStep
<1>3. FilesInv => RowsHaveFiles
  BY DEF FilesInv
<1> QED BY <1>1, <1>2, <1>3, TypeCorrect, PTL DEF Spec

-----------------------------------------------------------------------------
(* The order of segments                                                   *)

Working == watcher \in {"store", "remove", "discard", "index"}

\* What was seen is a prefix of the list, and nothing is left over when the
\* watcher goes to read the list again.
SeenInOrder ==
    /\ \A i \in seen : \A j \in 1..i : j \in seen
    /\ watcher \in {"check", "read", "ended"} => todo = {}

\* The rows are behind what is left to process, in number and in time.
RowsBehind ==
    \A k \in DOMAIN rows :
        /\ rows[k].seg \in seen
        /\ \A t \in todo : rows[k].seg < t
        /\ rows[k].to <= segmentStart

\* The current job is between the rows and what is left to process.
JobBetween ==
    Working =>
        /\ \A t \in todo : job.seg < t
        /\ job.from <= job.to /\ job.to <= segmentStart
        /\ \A k \in DOMAIN rows : rows[k].seg < job.seg /\ rows[k].to <= job.from

OrderInv ==
    /\ SeenInOrder
    /\ RowsBehind
    /\ JobBetween
    /\ segmentStart <= clock
    /\ SpansAreOrdered

\* Reading the list: the new segments are after everything seen before.
LEMMA OrderRead == ASSUME TypeOK, OrderInv, WatcherRead PROVE OrderInv'
<1> USE DEF TypeOK, FfmpegTypeOK, WatcherTypeOK
<1>1. /\ watcher = "read" /\ watcher' = "process"
      /\ todo' = NewSegments /\ seen' = seen \cup NewSegments
      /\ UNCHANGED <<job, segmentStart, clock, rows>>
  BY DEF WatcherRead, Remembered
<1>2. \A n \in NewSegments, s \in seen : s < n
  <2>1. SUFFICES ASSUME NEW n \in NewSegments, NEW s \in seen, ~(s < n) PROVE FALSE
    OBVIOUS
  <2>2. n \in 1..s
    BY <2>1 DEF NewSegments
  <2> QED BY <2>1, <2>2 DEF NewSegments, OrderInv, SeenInOrder
<1>3. SeenInOrder'
  <2>1. ASSUME NEW i \in seen', NEW j \in 1..i PROVE j \in seen'
    <3>1. CASE i \in seen
      BY <1>1, <2>1, <3>1 DEF OrderInv, SeenInOrder
    <3>2. CASE i \in 1..listed
      BY <1>1, <2>1, <3>2 DEF NewSegments
    <3> QED BY <1>1, <2>1, <3>1, <3>2 DEF NewSegments
  <2> QED BY <1>1, <2>1 DEF SeenInOrder
<1>4. RowsBehind'
  BY <1>1, <1>2 DEF RowsBehind, OrderInv
<1> QED BY <1>1, <1>3, <1>4 DEF OrderInv, JobBetween, Working, SpansAreOrdered

\* Taking up a segment: it is the least of those left, and its span starts
\* where the previous one ended.
LEMMA OrderBegin == ASSUME TypeOK, OrderInv, ProcessBegin PROVE OrderInv'
<1> USE DEF TypeOK, FfmpegTypeOK, WatcherTypeOK
<1>1. PICK seg \in todo : /\ \A other \in todo : seg <= other
                          /\ todo' = todo \ {seg}
                          /\ IF seg \in plain
                             THEN /\ clock' = clock + 1 /\ job' = JobOf(seg)
                                  /\ segmentStart' = clock + 1 /\ watcher' = "store"
                             ELSE UNCHANGED <<watcher, job, segmentStart, clock>>
  BY DEF ProcessBegin
<1>2. watcher = "process" /\ UNCHANGED <<seen, rows>>
  BY DEF ProcessBegin
<1>3. SeenInOrder' /\ SpansAreOrdered'
  BY <1>1, <1>2 DEF SeenInOrder, OrderInv, SpansAreOrdered
<1>4. segmentStart' <= clock' /\ segmentStart <= segmentStart'
  BY <1>1 DEF OrderInv
<1>5. \A k \in DOMAIN rows : rows[k] \in Job
  OBVIOUS
<1>6. RowsBehind'
  <2>1. segmentStart \in Nat /\ segmentStart' \in Nat
    BY <1>1
  <2>2. SUFFICES ASSUME NEW k \in DOMAIN rows
                 PROVE  /\ rows[k].seg \in seen
                        /\ \A t \in todo' : rows[k].seg < t
                        /\ rows[k].to <= segmentStart'
    BY <1>2 DEF RowsBehind
  <2>3. rows[k].seg \in seen /\ rows[k].to <= segmentStart /\ \A t \in todo : rows[k].seg < t
    BY DEF RowsBehind, OrderInv
  <2>4. rows[k].to \in Nat
    BY <1>5 DEF Job
  <2> QED BY <1>1, <1>4, <2>1, <2>3, <2>4
<1>7. JobBetween'
  <2>1. CASE seg \in plain
    <3>1. job'.seg = seg /\ job'.from = segmentStart /\ job'.to = clock + 1
      BY <1>1, <2>1 DEF JobOf
    <3>2. \A t \in todo' : seg < t
      BY <1>1
    <3> QED BY <1>1, <1>2, <2>1, <3>1, <3>2 DEF JobBetween, RowsBehind, OrderInv
  <2>2. CASE seg \notin plain
    BY <1>1, <1>2, <2>2 DEF JobBetween, Working
  <2> QED BY <2>1, <2>2
<1> QED BY <1>3, <1>4, <1>6, <1>7 DEF OrderInv

\* Committing a row appends the job, which is after every row.
LEMMA OrderIndex == ASSUME TypeOK, OrderInv, ProcessIndex PROVE OrderInv'
<1>1. /\ watcher = "index" /\ watcher' = "process"
      /\ UNCHANGED <<seen, todo, job, segmentStart, clock>>
  BY DEF ProcessIndex
<1>2. CASE UNCHANGED rows
  BY <1>1, <1>2 DEF OrderInv, SeenInOrder, RowsBehind, JobBetween, Working, SpansAreOrdered
<1>3. CASE rows' = Append(rows, job)
  <2>1. /\ rows \in Seq(Job) /\ Len(rows) \in Nat /\ job \in Job /\ job.seg \in seen
        /\ DOMAIN rows = 1..Len(rows)
    BY <1>1 DEF TypeOK, WatcherTypeOK
  <2>2. /\ DOMAIN rows' = 1..(Len(rows) + 1)
        /\ \A k \in DOMAIN rows : rows'[k] = rows[k]
        /\ rows'[Len(rows) + 1] = job
    BY <1>3, <2>1
  <2>3. \A k \in DOMAIN rows' : (k \in DOMAIN rows /\ rows'[k] = rows[k])
                                \/ (k = Len(rows) + 1 /\ rows'[k] = job)
    BY <2>1, <2>2
  <2>4. JobBetween /\ Working
    BY <1>1 DEF OrderInv, Working
  <2>5. RowsBehind'
    BY <1>1, <2>1, <2>3, <2>4 DEF RowsBehind, OrderInv, JobBetween
  <2>6. SpansAreOrdered'
    <3>1. SUFFICES ASSUME NEW i \in DOMAIN rows', NEW j \in DOMAIN rows', i < j
                   PROVE  rows'[i].seg < rows'[j].seg /\ rows'[i].to <= rows'[j].from
      BY DEF SpansAreOrdered
    <3>2. i \in DOMAIN rows /\ rows'[i] = rows[i]
      BY <2>1, <2>2, <3>1
    <3>3. CASE j \in DOMAIN rows
      BY <2>2, <3>1, <3>2, <3>3 DEF OrderInv, SpansAreOrdered
    <3>4. CASE j = Len(rows) + 1
      BY <2>2, <2>4, <3>2, <3>4 DEF JobBetween
    <3> QED BY <2>3, <3>3, <3>4
  <2>7. SeenInOrder' /\ JobBetween' /\ (segmentStart <= clock)'
    BY <1>1 DEF OrderInv, SeenInOrder, JobBetween, Working
  <2> QED BY <2>5, <2>6, <2>7 DEF OrderInv
<1> QED BY <1>2, <1>3 DEF ProcessIndex

\* Every step keeps the order of the segments.
LEMMA OrderStep == ASSUME TypeOK, OrderInv, [Next]_vars PROVE OrderInv'
<1> USE DEF OrderInv, SeenInOrder, RowsBehind, JobBetween, Working, SpansAreOrdered
<1>1. CASE WatcherCheck
  BY <1>1 DEF WatcherCheck
<1>2. CASE WatcherTurn
  BY <1>2 DEF WatcherTurn
<1>3. CASE ProcessStore
  BY <1>3 DEF ProcessStore, AfterFailure
<1>4. CASE ProcessRemove
  BY <1>4 DEF ProcessRemove
<1>5. CASE UNCHANGED watcherVars
  BY <1>5 DEF watcherVars
<1> HIDE DEF OrderInv
<1> QED BY <1>1, <1>2, <1>3, <1>4, <1>5, OrderRead, OrderBegin, OrderIndex, WatcherSteps

\* The order of the segments is an invariant.
LEMMA OrderHolds == Spec => []OrderInv
<1>1. Init => OrderInv
  BY DEF Init, OrderInv, SeenInOrder, RowsBehind, JobBetween, Working, SpansAreOrdered
<1>2. TypeOK /\ OrderInv /\ [Next]_vars => OrderInv'
  BY OrderStep
<1> QED BY <1>1, <1>2, TypeCorrect, PTL DEF Spec

\* The spans of the rows follow the order of the segments without overlap.
THEOREM SpansStayOrdered == Spec => []SpansAreOrdered
<1>1. OrderInv => SpansAreOrdered
  BY DEF OrderInv
<1> QED BY <1>1, OrderHolds, PTL

\* No segment is indexed twice.
THEOREM SegmentsIndexedOnce == Spec => []IndexedOnce
<1>1. TypeOK /\ OrderInv => IndexedOnce
  <2>1. SUFFICES ASSUME TypeOK, OrderInv, NEW i \in DOMAIN rows, NEW j \in DOMAIN rows,
                        rows[i].seg = rows[j].seg
                 PROVE  i = j
    BY DEF IndexedOnce
  <2>2. i \in Nat /\ j \in Nat /\ rows[i] \in Job /\ rows[j] \in Job
    BY <2>1 DEF TypeOK, WatcherTypeOK
  <2>3. ~(i < j) /\ ~(j < i)
    BY <2>1, <2>2 DEF OrderInv, SpansAreOrdered, Job
  <2> QED BY <2>2, <2>3
<1> QED BY <1>1, TypeCorrect, OrderHolds, PTL

-----------------------------------------------------------------------------
(* Nothing recorded is missed                                              *)

\* FFmpeg lists the segments in the order it opens them, one at a time.
ListFollows ==
    /\ listed <= opened
    /\ ffmpeg /\ open = 0 => listed = opened
    /\ ffmpeg /\ open # 0 => open = opened /\ open = listed + 1

\* The plaintext of a segment is there until the watcher takes the segment up.
PlainWaits ==
    /\ \A i \in 1..opened : i \in seen \/ i \in plain
    /\ \A t \in todo : t \in plain

ListInv == ListFollows /\ PlainWaits

\* FFmpeg adds to the list only the segment it has open, and only the current
\* job loses its plaintext.
LEMMA ListStep == ASSUME TypeOK, OrderInv, ListInv, [Next]_vars PROVE ListInv'
<1> USE DEF TypeOK, FfmpegTypeOK
<1>1. CASE WriterGet
  <2>1. UNCHANGED <<ffmpeg, listed, seen, todo>>
    BY <1>1 DEF WriterGet, watcherVars
  <2>2. CASE UNCHANGED <<open, opened, plain>>
    BY <2>1, <2>2 DEF ListInv, ListFollows, PlainWaits
  <2>3. CASE /\ ffmpeg /\ open = 0
             /\ open' = opened + 1 /\ opened' = opened + 1 /\ plain' = plain \cup {opened + 1}
    <3>1. ListFollows'
      BY <2>1, <2>3 DEF ListInv, ListFollows
    <3>2. PlainWaits'
      BY <2>1, <2>3 DEF ListInv, PlainWaits
    <3> QED BY <3>1, <3>2 DEF ListInv
  <2> QED BY <1>1, <2>2, <2>3 DEF WriterGet, EndsWriter
<1>2. CASE WriterWait
  BY <1>2 DEF WriterWait, watcherVars, ListInv, ListFollows, PlainWaits
<1>3. CASE FfmpegSegment \/ FfmpegExit \/ FfmpegCrash
  <2>1. UNCHANGED <<opened, plain, seen, todo>>
    BY <1>3 DEF FfmpegSegment, FfmpegExit, FfmpegCrash, watcherVars
  <2>2. ListFollows'
    BY <1>3, <2>1 DEF FfmpegSegment, FfmpegExit, FfmpegCrash, ListInv, ListFollows
  <2> QED BY <2>1, <2>2 DEF ListInv, PlainWaits
<1>4. CASE WatcherRead
  <2>1. /\ todo' = NewSegments /\ seen' = seen \cup NewSegments
        /\ UNCHANGED <<ffmpeg, open, listed, opened, plain>>
    BY <1>4 DEF WatcherRead, Remembered, ffmpegVars
  <2>2. \A t \in NewSegments : t \in plain
    BY DEF NewSegments, ListInv, ListFollows, PlainWaits
  <2> QED BY <2>1, <2>2 DEF ListInv, ListFollows, PlainWaits
<1>5. CASE ProcessBegin
  BY <1>5 DEF ProcessBegin, ffmpegVars, ListInv, ListFollows, PlainWaits
<1>6. CASE ProcessRemove
  <2>1. /\ UNCHANGED <<ffmpeg, open, listed, opened, seen, todo>>
        /\ plain' = plain \ {job.seg} \/ plain' = plain
    BY <1>6 DEF ProcessRemove, Kept, ffmpegVars
  <2>2. job.seg \in seen /\ \A t \in todo : job.seg < t
    BY <1>6 DEF ProcessRemove, WatcherTypeOK, OrderInv, JobBetween, Working
  <2>3. PlainWaits'
    <3>1. \A t \in todo : t # job.seg
      BY <2>2 DEF WatcherTypeOK, Job
    <3> QED BY <2>1, <2>2, <3>1 DEF ListInv, PlainWaits
  <2> QED BY <2>1, <2>3 DEF ListInv, ListFollows
<1>7. CASE UNCHANGED <<ffmpegVars, plain, seen, todo>>
  BY <1>7 DEF ffmpegVars, ListInv, ListFollows, PlainWaits
<1>8. CASE \/ \E f \in Feeders : FeedCheck(f) \/ FeedPut(f)
           \/ StopBegin \/ StopSet \/ StopPut \/ StopJoin \/ WriterClose \/ ServerExit
           \/ WatcherCheck \/ WatcherTurn \/ ProcessStore \/ ProcessIndex \/ UNCHANGED vars
  BY <1>7, <1>8 DEF FeedCheck, FeedPut, StopBegin, StopSet, StopPut, StopJoin, WriterClose,
     ServerExit, WatcherCheck, WatcherTurn, ProcessStore, ProcessIndex, vars, watcherVars
<1> QED BY <1>1, <1>2, <1>3, <1>4, <1>5, <1>6, <1>8, Steps

\* `done` stands for an FFmpeg that has exited; the list read after that is
\* complete.
DrainInv ==
    /\ done => ~ffmpeg
    /\ watcher = "ended" => done
    /\ done /\ watcher \notin {"check", "read"} => \A i \in 1..listed : i \in seen

\* Without FFmpeg the list does not grow, and `done` is true only without it.
LEMMA DrainStep == ASSUME TypeOK, DrainInv, [Next]_vars PROVE DrainInv'
<1> USE DEF DrainInv
<1>1. CASE WatcherCheck
  BY <1>1 DEF WatcherCheck, Finished, ffmpegVars
<1>2. CASE WatcherRead
  BY <1>2 DEF WatcherRead, Remembered, NewSegments, ffmpegVars
<1>3. CASE WatcherTurn
  BY <1>3 DEF WatcherTurn, ffmpegVars
<1>4. CASE ProcessBegin \/ ProcessStore \/ ProcessRemove \/ ProcessIndex
  BY <1>4 DEF ProcessBegin, ProcessStore, AfterFailure, ProcessRemove, ProcessIndex, ffmpegVars
<1>5. CASE FfmpegSegment \/ FfmpegExit \/ FfmpegCrash \/ WriterGet \/ WriterWait
  BY <1>5 DEF FfmpegSegment, FfmpegExit, FfmpegCrash, WriterGet, WriterWait, watcherVars
<1>6. CASE UNCHANGED <<ffmpegVars, watcherVars>>
  BY <1>6 DEF ffmpegVars, watcherVars
<1>7. CASE \/ \E f \in Feeders : FeedCheck(f) \/ FeedPut(f)
           \/ StopBegin \/ StopSet \/ StopPut \/ StopJoin \/ WriterClose \/ ServerExit
           \/ UNCHANGED vars
  BY <1>6, <1>7 DEF FeedCheck, FeedPut, StopBegin, StopSet, StopPut, StopJoin, WriterClose,
     ServerExit, vars
<1> QED BY <1>1, <1>2, <1>3, <1>4, <1>5, <1>7, Steps

\* Where a segment the watcher has seen can be while nothing fails.
Accounted(i) ==
    \/ i \in todo
    \/ watcher \in {"store", "remove", "index"} /\ job.seg = i
    \/ \E k \in DOMAIN rows : rows[k].seg = i

HandledInv ==
    faults = 0 => /\ watcher # "discard"
                  /\ \A i \in seen : Accounted(i)

\* Until something fails a seen segment moves from todo to the job to a row.
LEMMA HandledStep ==
    ASSUME TypeOK, OrderInv, ListInv, HandledInv, [Next]_vars PROVE HandledInv'
<1> USE DEF HandledInv, Accounted
<1>0. faults \in Nat
  BY DEF TypeOK, WatcherTypeOK
<1>1. CASE WatcherCheck \/ WatcherTurn
  BY <1>1 DEF WatcherCheck, WatcherTurn
<1>2. CASE WatcherRead
  BY <1>2 DEF WatcherRead, Remembered, NewSegments, OrderInv, SeenInOrder
<1>3. CASE ProcessBegin
  <2>1. PICK seg \in todo : /\ todo' = todo \ {seg}
                            /\ seg \in plain => job' = JobOf(seg) /\ watcher' = "store"
    BY <1>3 DEF ProcessBegin
  <2>2. job'.seg = seg /\ watcher' = "store"
    BY <2>1 DEF JobOf, ListInv, PlainWaits
  <2> QED BY <1>3, <2>1, <2>2 DEF ProcessBegin
<1>4. CASE ProcessStore
  BY <1>0, <1>4 DEF ProcessStore, AfterFailure
<1>5. CASE ProcessRemove
  BY <1>0, <1>5 DEF ProcessRemove
<1>6. CASE ProcessIndex
  <2>1. watcher = "index" /\ watcher' = "process" /\ UNCHANGED <<seen, todo, job>>
    BY <1>6 DEF ProcessIndex
  <2>2. CASE rows' = Append(rows, job) /\ UNCHANGED faults
    <3>1. /\ \A k \in DOMAIN rows : k \in DOMAIN rows' /\ rows'[k] = rows[k]
          /\ Len(rows) + 1 \in DOMAIN rows' /\ rows'[Len(rows) + 1] = job
      BY <2>2 DEF TypeOK, WatcherTypeOK
    <3> QED BY <2>1, <2>2, <3>1
  <2>3. CASE faults' = faults + 1
    BY <1>0, <2>3
  <2> QED BY <1>6, <2>2, <2>3 DEF ProcessIndex
<1>7. CASE UNCHANGED watcherVars
  BY <1>7 DEF watcherVars
<1> QED BY <1>1, <1>2, <1>3, <1>4, <1>5, <1>6, <1>7, WatcherSteps

\* When the watcher has ended and nothing failed, every segment FFmpeg listed
\* has its row.
THEOREM NothingIsMissed == Spec => []EverySegmentIndexed
<1> DEFINE IInv == ListInv /\ DrainInv /\ HandledInv
<1>1. Init => IInv
  BY DEF Init, ListInv, ListFollows, PlainWaits, DrainInv, HandledInv
<1>2. TypeOK /\ OrderInv /\ IInv /\ [Next]_vars => IInv'
  BY ListStep, DrainStep, HandledStep
<1>3. OrderInv /\ IInv => EverySegmentIndexed
  <2>1. SUFFICES ASSUME OrderInv, IInv, watcher = "ended", faults = 0, NEW i \in 1..listed
                 PROVE  \E r \in Range(rows) : r.seg = i
    BY DEF EverySegmentIndexed
  <2>2. i \in seen /\ todo = {}
    BY <2>1 DEF DrainInv, OrderInv, SeenInOrder
  <2>3. PICK k \in DOMAIN rows : rows[k].seg = i
    BY <2>1, <2>2 DEF HandledInv, Accounted
  <2> QED BY <2>3 DEF Range
<1> HIDE DEF IInv
<1> QED BY <1>1, <1>2, <1>3, TypeCorrect, OrderHolds, PTL DEF Spec

-----------------------------------------------------------------------------
(* Nothing recorded is left in the clear                                     *)

\* Where the plaintext of a segment the watcher has seen can still be there for.
AwaitsRemoval(i) ==
    \/ i \in todo
    \/ watcher \in {"store", "remove"} /\ job.seg = i

\* Nothing is seen before FFmpeg opened it, so FFmpeg never writes a seen segment
\* again; without faults the plaintext of a seen segment awaits its removal.
RemovalInv ==
    /\ \A i \in seen : i <= opened
    /\ faults = 0 => \A i \in seen \cap plain : AwaitsRemoval(i)

\* FFmpeg writes unseen segments only, and without faults the watcher takes no
\* segment out of its hands before the plaintext is gone.
LEMMA RemovalStep ==
    ASSUME TypeOK, OrderInv, ListInv, HandledInv, RemovalInv, [Next]_vars PROVE RemovalInv'
<1> USE DEF TypeOK, FfmpegTypeOK, RemovalInv, AwaitsRemoval
<1>0. faults \in Nat /\ seen \subseteq Nat
  BY DEF WatcherTypeOK
<1>1. CASE WriterGet
  <2>1. UNCHANGED <<seen, todo, watcher, job, faults>>
    BY <1>1 DEF WriterGet, watcherVars
  <2>2. CASE UNCHANGED <<opened, plain>>
    BY <2>1, <2>2
  <2>3. CASE opened' = opened + 1 /\ plain' = plain \cup {opened + 1}
    <3>1. \A i \in seen : i # opened + 1 /\ i <= opened + 1
      BY <1>0
    <3> QED BY <2>1, <2>3, <3>1
  <2> QED BY <1>1, <2>2, <2>3 DEF WriterGet
<1>2. CASE FfmpegSegment \/ FfmpegExit \/ FfmpegCrash \/ WriterWait
  BY <1>2 DEF FfmpegSegment, FfmpegExit, FfmpegCrash, WriterWait, watcherVars
<1>3. CASE WatcherRead
  <2>1. /\ todo' = NewSegments /\ seen' = seen \cup NewSegments
        /\ watcher = "read" /\ UNCHANGED <<opened, plain, job, faults>>
    BY <1>3 DEF WatcherRead, Remembered, ffmpegVars
  <2>2. \A i \in NewSegments : i <= opened
    BY DEF NewSegments, ListInv, ListFollows
  <2>3. faults = 0 => \A i \in seen : i \notin plain \/ i \in todo
    BY <2>1
  <2>4. todo = {}
    BY <2>1 DEF OrderInv, SeenInOrder
  <2> QED BY <2>1, <2>2, <2>3, <2>4
<1>4. CASE WatcherCheck \/ WatcherTurn
  BY <1>4 DEF WatcherCheck, WatcherTurn, ffmpegVars
<1>5. CASE ProcessBegin
  <2>1. PICK seg \in todo : /\ todo' = todo \ {seg} /\ watcher = "process"
                            /\ seg \in plain => job' = JobOf(seg) /\ watcher' = "store"
    BY <1>5 DEF ProcessBegin
  <2>2. job'.seg = seg /\ watcher' = "store"
    BY <2>1 DEF JobOf, ListInv, PlainWaits
  <2> QED BY <1>5, <2>1, <2>2 DEF ProcessBegin, ffmpegVars
<1>6. CASE ProcessStore
  BY <1>0, <1>6 DEF ProcessStore, AfterFailure, ffmpegVars
<1>7. CASE ProcessRemove
  BY <1>0, <1>7 DEF ProcessRemove, Kept, HandledInv, ffmpegVars
<1>8. CASE ProcessIndex
  BY <1>0, <1>8 DEF ProcessIndex, ffmpegVars
<1>9. CASE UNCHANGED <<ffmpegVars, plain, watcherVars>>
  BY <1>9 DEF ffmpegVars, watcherVars
<1>10. CASE \/ \E f \in Feeders : FeedCheck(f) \/ FeedPut(f)
            \/ StopBegin \/ StopSet \/ StopPut \/ StopJoin \/ WriterClose \/ ServerExit
            \/ UNCHANGED vars
  BY <1>9, <1>10 DEF FeedCheck, FeedPut, StopBegin, StopSet, StopPut, StopJoin, WriterClose,
     ServerExit, vars
<1> QED BY <1>1, <1>2, <1>3, <1>4, <1>5, <1>6, <1>7, <1>8, <1>10, Steps

\* When the watcher has ended and nothing failed, no plaintext of a listed segment
\* is left: all were seen, and none awaits its removal any more.
THEOREM NothingStaysInTheClear == Spec => []PlaintextHeldBriefly
<1> DEFINE IInv == ListInv /\ DrainInv /\ HandledInv /\ RemovalInv
<1>1. Init => IInv
  BY DEF Init, ListInv, ListFollows, PlainWaits, DrainInv, HandledInv, RemovalInv
<1>2. TypeOK /\ OrderInv /\ IInv /\ [Next]_vars => IInv'
  BY ListStep, DrainStep, HandledStep, RemovalStep
<1>3. OrderInv /\ IInv => PlaintextHeldBriefly
  BY DEF DrainInv, RemovalInv, AwaitsRemoval, OrderInv, SeenInOrder, PlaintextHeldBriefly
<1> HIDE DEF IInv
<1> QED BY <1>1, <1>2, <1>3, TypeCorrect, OrderHolds, PTL DEF Spec
-----------------------------------------------------------------------------
(* The recorder makes the recording RecordingLog promises                    *)

\* Only listed segments are seen; there is one instant per segment, so that the
\* clock is behind the segments left; and a job takes time.
ClockInv ==
    /\ \A i \in seen : i <= listed
    /\ clock <= MaxSegments
    /\ \A t \in todo : clock < t
    /\ clock = 0 \/ clock \in seen
    /\ Working => job.from < job.to

\* Reading brings segments after all seen, and taking one up advances the clock by
\* one, at most to that segment.
LEMMA ClockStep == ASSUME TypeOK, OrderInv, ListInv, ClockInv, [Next]_vars PROVE ClockInv'
<1> USE DEF TypeOK, FfmpegTypeOK, WatcherTypeOK, ClockInv, Working
<1>1. CASE WatcherRead
  <2>1. /\ todo' = NewSegments /\ seen' = seen \cup NewSegments /\ watcher' = "process"
        /\ UNCHANGED <<listed, job, clock>>
    BY <1>1 DEF WatcherRead, Remembered, ffmpegVars
  <2>2. ASSUME NEW t \in NewSegments PROVE clock < t
    <3>1. t \in 1..listed /\ t \notin seen
      BY DEF NewSegments
    <3>2. CASE clock \in seen
      <4>1. ~(t \in 1..clock)
        BY <3>1, <3>2 DEF OrderInv, SeenInOrder
      <4> QED BY <3>1, <4>1
    <3> QED BY <3>1, <3>2
  <2> QED BY <2>1, <2>2 DEF NewSegments
<1>2. CASE ProcessBegin
  <2>1. PICK seg \in todo : /\ \A other \in todo : seg <= other
                            /\ todo' = todo \ {seg}
                            /\ seg \in plain => /\ clock' = clock + 1 /\ job' = JobOf(seg)
                                                /\ watcher' = "store"
    BY <1>2 DEF ProcessBegin
  <2>2. /\ clock' = clock + 1 /\ job'.from = segmentStart /\ job'.to = clock + 1
        /\ UNCHANGED <<listed, seen>>
    BY <1>2, <2>1 DEF ProcessBegin, JobOf, ListInv, PlainWaits, ffmpegVars
  <2>3. clock < seg /\ seg \in seen
    OBVIOUS
  <2>4. clock' \in seen /\ clock' <= MaxSegments
    BY <2>2, <2>3 DEF OrderInv, SeenInOrder
  <2>5. \A t \in todo' : clock' < t
    BY <2>1, <2>2, <2>3
  <2>6. job'.from < job'.to
    BY <2>2 DEF OrderInv
  <2> QED BY <2>2, <2>4, <2>5, <2>6
<1>3. CASE WatcherCheck \/ WatcherTurn
  BY <1>3 DEF WatcherCheck, WatcherTurn, ffmpegVars
<1>4. CASE ProcessStore \/ ProcessRemove \/ ProcessIndex
  BY <1>4 DEF ProcessStore, AfterFailure, ProcessRemove, ProcessIndex, ffmpegVars
<1>5. CASE FfmpegSegment \/ FfmpegExit
  <2>1. UNCHANGED watcherVars /\ listed <= listed' /\ listed' \in Nat
    BY <1>5 DEF FfmpegSegment, FfmpegExit, ListInv, ListFollows
  <2> QED BY <2>1 DEF watcherVars
<1>6. CASE UNCHANGED <<listed, watcherVars>>
  BY <1>6 DEF watcherVars
<1>7. CASE \/ \E f \in Feeders : FeedCheck(f) \/ FeedPut(f)
           \/ StopBegin \/ StopSet \/ StopPut \/ StopJoin
           \/ WriterGet \/ WriterClose \/ WriterWait \/ FfmpegCrash \/ ServerExit
           \/ UNCHANGED vars
  BY <1>6, <1>7 DEF FeedCheck, FeedPut, StopBegin, StopSet, StopPut, StopJoin, WriterGet,
     WriterClose, WriterWait, FfmpegCrash, ServerExit, vars, ffmpegVars
<1> QED BY <1>1, <1>2, <1>3, <1>4, <1>5, <1>7, Steps

LogInv == OrderInv /\ ListInv /\ DrainInv /\ HandledInv /\ FilesInv /\ ClockInv

\* What was seen is listed.
LEMMA SeenAreListed == ASSUME TypeOK, LogInv PROVE seen \subseteq 1..listed
<1>1. seen \subseteq 1..MaxSegments /\ listed \in Nat
  BY DEF TypeOK, FfmpegTypeOK, WatcherTypeOK
<1>2. \A i \in seen : i <= listed
  BY DEF LogInv, ClockInv
<1>3. ASSUME NEW i \in seen PROVE i \in 1..listed
  <2>1. i \in Nat /\ 1 <= i
    BY <1>1, SizesAssumption
  <2> QED BY <1>1, <1>2, <2>1
<1> QED BY <1>3

\* The job in hand is behind the last row in number and in time.
LEMMA JobIsNext ==
    ASSUME TypeOK, LogInv, Working
    PROVE  /\ job.seg \in 1..listed /\ Log!LastSegment < job.seg
           /\ Log!LastEnd <= job.from
<1>1. job.seg \in 1..listed /\ job \in Job
  BY SeenAreListed DEF TypeOK, WatcherTypeOK, Working
<1>2. rows # <<>> => Len(rows) \in DOMAIN rows
  BY DEF TypeOK, WatcherTypeOK
<1> QED BY <1>1, <1>2 DEF Log!LastSegment, Log!LastEnd, LogInv, OrderInv, JobBetween, Job

\* The rows are of seen segments, the last of the greatest.
LEMMA LastIsGreatest ==
    ASSUME TypeOK, LogInv
    PROVE  /\ Log!LastSegment \in 0..listed
           /\ \A k \in DOMAIN rows : rows[k].seg <= Log!LastSegment
<1>1. rows \in Seq(Job) /\ listed \in Nat
  BY DEF TypeOK, WatcherTypeOK, FfmpegTypeOK
<1>2. ASSUME NEW k \in DOMAIN rows PROVE rows[k].seg \in 1..listed
  BY SeenAreListed DEF LogInv, OrderInv, RowsBehind
<1>3. CASE rows = <<>>
  BY <1>1, <1>3 DEF Log!LastSegment
<1>4. CASE rows # <<>>
  <2>1. Len(rows) \in DOMAIN rows /\ \A k \in DOMAIN rows : k = Len(rows) \/ k < Len(rows)
    BY <1>1, <1>4
  <2>2. Log!LastSegment = rows[Len(rows)].seg
    BY <1>4 DEF Log!LastSegment
  <2>3. \A k \in DOMAIN rows : k < Len(rows) => rows[k].seg < rows[Len(rows)].seg
    BY <2>1 DEF LogInv, OrderInv, SpansAreOrdered
  <2> QED BY <1>2, <2>1, <2>2, <2>3
<1> QED BY <1>3, <1>4

\* Until something fails the job about to be listed is the one after the last row:
\* those before it have been seen, are not left to do, and so have rows.
LEMMA NoGap ==
    ASSUME TypeOK, LogInv, watcher = "index", faults = 0
    PROVE  job.seg = Log!LastSegment + 1
<1>1. /\ job.seg \in 1..listed /\ Log!LastSegment < job.seg /\ Log!LastSegment \in 0..listed
      /\ job.seg \in seen /\ listed \in Nat
  BY JobIsNext, LastIsGreatest DEF Working, TypeOK, WatcherTypeOK, FfmpegTypeOK
<1>2. SUFFICES ASSUME Log!LastSegment + 1 < job.seg PROVE FALSE
  BY <1>1
<1> DEFINE i == Log!LastSegment + 1
<1>3. i \in 1..job.seg /\ i # job.seg
  BY <1>1, <1>2
<1>4. i \in seen
  BY <1>1, <1>3 DEF LogInv, OrderInv, SeenInOrder
<1>5. i \notin todo
  <2>1. \A t \in todo : t \in Nat
    <3>1. todo \subseteq seen /\ seen \subseteq 1..MaxSegments
      BY DEF TypeOK, WatcherTypeOK
    <3> QED BY <3>1
  <2>2. Working
    BY DEF Working
  <2>3. \A t \in todo : job.seg < t
    BY <2>2 DEF LogInv, OrderInv, JobBetween
  <2> QED BY <1>1, <1>2, <2>1, <2>3
<1>6. PICK k \in DOMAIN rows : rows[k].seg = i
  BY <1>3, <1>4, <1>5 DEF LogInv, HandledInv, Accounted
<1> QED BY <1>1, <1>6, LastIsGreatest

\* Nothing is missing when the watcher ends and nothing failed.
LEMMA EndsComplete ==
    ASSUME TypeOK, LogInv, watcher = "process", todo = {}, done, faults = 0
    PROVE  Log!LastSegment = listed
<1>1. listed \in Nat /\ Log!LastSegment \in 0..listed
  BY LastIsGreatest DEF TypeOK, FfmpegTypeOK
<1>2. CASE listed # 0
  <2>1. listed \in 1..listed
    BY <1>1, <1>2
  <2>2. listed \in seen
    BY <2>1 DEF LogInv, DrainInv
  <2>3. PICK k \in DOMAIN rows : rows[k].seg = listed
    BY <2>2 DEF LogInv, HandledInv, Accounted
  <2> QED BY <1>1, <2>3, LastIsGreatest
<1> QED BY <1>1, <1>2

\* Each step of the recorder is one of the log or leaves it alone.
LEMMA LogStep ==
    ASSUME TypeOK, LogInv, [Next]_vars PROVE [Log!Next]_(Log!vars)
<1>0. faults \in Nat
  BY DEF TypeOK, WatcherTypeOK
<1>1. CASE ProcessStore
  <2>1. CASE stored' = stored \cup {job.seg} /\ watcher' = "remove" /\ UNCHANGED faults
    <3>1. job.seg \in 1..listed /\ job.seg > Log!LastSegment
      BY <1>1, JobIsNext, LastIsGreatest DEF ProcessStore, Working, TypeOK, FfmpegTypeOK
    <3> QED BY <1>1, <2>1, <3>1 DEF ProcessStore, ffmpegVars, Log!Next, Log!Store
  <2>2. CASE faults' = faults + 1 /\ watcher' = AfterFailure /\ UNCHANGED stored
    BY <1>0, <1>1, <2>2 DEF ProcessStore, AfterFailure, ffmpegVars, Log!Next, Log!Fail
  <2> QED BY <1>1, <2>1, <2>2 DEF ProcessStore
<1>2. CASE ProcessRemove
  BY <1>0, <1>2 DEF ProcessRemove, ffmpegVars, Log!Next, Log!Fail, Log!vars
<1>3. CASE ProcessIndex
  <2>1. watcher = "index" /\ watcher' = "process" /\ UNCHANGED <<listed, stored>>
    BY <1>3 DEF ProcessIndex, ffmpegVars
  <2>2. CASE rows' = Append(rows, job) /\ UNCHANGED faults
    <3>1. job = [seg |-> job.seg, from |-> job.from, to |-> job.to]
      BY DEF TypeOK, WatcherTypeOK, Job
    <3>2. job.seg \in stored /\ Log!LastSegment < job.seg /\ Log!LastEnd <= job.from
      BY <2>1, JobIsNext DEF LogInv, FilesInv, Working
    <3>3. ~(faults > 0) => job.seg = Log!LastSegment + 1
      BY <1>0, <2>1, NoGap
    <3>4. job.from \in 0..MaxSegments /\ job.to \in 0..MaxSegments /\ job.from < job.to
      BY <2>1, SizesAssumption
         DEF LogInv, ClockInv, OrderInv, JobBetween, Working, TypeOK, WatcherTypeOK, Job
    <3>5. job.seg > Log!LastSegment
      BY <3>2, LastIsGreatest DEF TypeOK, WatcherTypeOK, FfmpegTypeOK, Job
    <3> QED BY <2>1, <2>2, <3>1, <3>2, <3>3, <3>4, <3>5 DEF Log!Next, Log!List
  <2>3. CASE faults' = faults + 1 /\ UNCHANGED rows
    BY <1>0, <2>1, <2>3 DEF Log!Next, Log!Fail
  <2> QED BY <1>3, <2>2, <2>3 DEF ProcessIndex
<1>4. CASE WatcherTurn
  <2>1. /\ watcher = "process" /\ todo = {}
        /\ watcher' = IF ~done THEN "check" ELSE IF ~final THEN "read" ELSE "ended"
        /\ UNCHANGED <<listed, stored, rows, faults>>
    BY <1>4 DEF WatcherTurn, ffmpegVars
  <2>2. CASE watcher' = "ended"
    <3>1. ~(faults > 0) => Log!LastSegment = listed
      BY <1>0, <2>1, <2>2, EndsComplete
    <3> QED BY <2>1, <2>2, <3>1 DEF Log!Next, Log!End
  <2> QED BY <2>1, <2>2 DEF Log!vars
<1>5. CASE FfmpegSegment \/ FfmpegExit
  <2>1. UNCHANGED <<watcher, stored, rows, faults>> /\ watcher # "ended"
    BY <1>5 DEF FfmpegSegment, FfmpegExit, watcherVars, LogInv, DrainInv
  <2>2. listed' = listed + 1 \/ listed' = listed
    BY <1>5 DEF FfmpegSegment, FfmpegExit, LogInv, ListInv, ListFollows
  <2> QED BY <2>1, <2>2 DEF Log!Next, Log!Close, Log!vars
<1>6. CASE WatcherCheck \/ WatcherRead \/ ProcessBegin
  BY <1>6 DEF WatcherCheck, WatcherRead, ProcessBegin, ffmpegVars, Log!vars
<1>7. CASE UNCHANGED <<listed, watcherVars>>
  BY <1>7 DEF watcherVars, Log!vars
<1>8. CASE \/ \E f \in Feeders : FeedCheck(f) \/ FeedPut(f)
           \/ StopBegin \/ StopSet \/ StopPut \/ StopJoin
           \/ WriterGet \/ WriterClose \/ WriterWait \/ FfmpegCrash \/ ServerExit
           \/ UNCHANGED vars
  BY <1>7, <1>8 DEF FeedCheck, FeedPut, StopBegin, StopSet, StopPut, StopJoin, WriterGet,
     WriterClose, WriterWait, FfmpegCrash, ServerExit, vars, ffmpegVars
<1> QED BY <1>1, <1>2, <1>3, <1>4, <1>5, <1>6, <1>8, Steps

\* The recorder implements RecordingLog: whatever its threads and FFmpeg do, its
\* recording is one in order, without gaps before the first failure, and complete
\* when it is over and nothing failed.
THEOREM RecorderKeepsLog == Spec => KeepsLog
<1>1. Init => LogInv /\ Log!Init
  <2>1. Init => OrderInv /\ ListInv /\ DrainInv /\ HandledInv
    BY DEF Init, OrderInv, SeenInOrder, RowsBehind, JobBetween, Working, SpansAreOrdered,
       ListInv, ListFollows, PlainWaits, DrainInv, HandledInv
  <2>2. Init => FilesInv /\ ClockInv
    BY SizesAssumption DEF Init, FilesInv, RowsHaveFiles, Range, ClockInv, Working
  <2>3. Init => Log!Init
    BY DEF Init, Log!Init
  <2> QED BY <2>1, <2>2, <2>3 DEF LogInv
<1>2. TypeOK /\ LogInv /\ [Next]_vars => LogInv'
  BY OrderStep, ListStep, DrainStep, HandledStep, FilesStep, ClockStep DEF LogInv
<1>3. TypeOK /\ LogInv /\ [Next]_vars => [Log!Next]_(Log!vars)
  BY LogStep
<1> QED BY <1>1, <1>2, <1>3, TypeCorrect, PTL DEF Spec, KeepsLog, Log!Spec
=============================================================================
