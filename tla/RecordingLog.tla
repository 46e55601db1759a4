---------------------------- MODULE RecordingLog ----------------------------
(***************************************************************************)
(* What a recorder promises of the recording it makes                      *)
(* (server/app/services/recorder.py): the segments FFmpeg closes are put   *)
(* on the storage target and then listed, in their order and each with a   *)
(* time span after all earlier ones.  Until something fails no segment is  *)
(* skipped, and what is listed stays listed.  When the recording is over,  *)
(* all of it is there, or something failed.                                *)
(***************************************************************************)
EXTENDS Naturals, Sequences

CONSTANT Times      \* instants, as numbers

VARIABLES
    closed,     \* segments FFmpeg has closed: 1..closed
    files,      \* segments on the storage target
    log,        \* the rows: segment and time span, in commit order
    troubled,   \* has anything failed?
    over        \* is the recording over?

vars == <<closed, files, log, troubled, over>>

Init ==
    /\ closed = 0
    /\ files = {}
    /\ log = <<>>
    /\ troubled = FALSE
    /\ over = FALSE

\* The last segment listed, and when it ended.
LastSegment == IF log = <<>> THEN 0 ELSE log[Len(log)].seg
LastEnd == IF log = <<>> THEN 0 ELSE log[Len(log)].to

Close ==
    /\ ~over
    /\ closed' = closed + 1
    /\ UNCHANGED <<files, log, troubled, over>>

Store ==
    /\ ~over
    /\ \E seg \in 1..closed : seg > LastSegment /\ files' = files \cup {seg}
    /\ UNCHANGED <<closed, log, troubled, over>>

List ==
    /\ ~over
    /\ \E seg \in files, from, to \in Times :
         /\ seg > LastSegment
         /\ ~troubled => seg = LastSegment + 1
         /\ LastEnd <= from /\ from < to
         /\ log' = Append(log, [seg |-> seg, from |-> from, to |-> to])
    /\ UNCHANGED <<closed, files, troubled, over>>

Fail ==
    /\ ~over
    /\ troubled' = TRUE
    /\ UNCHANGED <<closed, files, log, over>>

End ==
    /\ ~over
    /\ over' = TRUE
    /\ ~troubled => LastSegment = closed
    /\ UNCHANGED <<closed, files, log, troubled>>

Next == Close \/ Store \/ List \/ Fail \/ End

Spec == Init /\ [][Next]_vars
=============================================================================
