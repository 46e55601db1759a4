--------------------------- MODULE RecordingStore ---------------------------
(***************************************************************************)
(* Where recordings and screenshots are kept (services/storage), how they  *)
(* are found again (api/recordings.py, api/screenshots.py,                 *)
(* services/recording_export.py) and how they go (services/retention.py),  *)
(* with the administration of the storage targets (api/storage.py).  A     *)
(* segment's target is its policy's, a screenshot's the default one.       *)
(*                                                                         *)
(* The file is put first and its row is committed later; removal too       *)
(* deletes the file first.  A target is a row that names a host, and a     *)
(* file's row names the target, not the host.                              *)
(***************************************************************************)
EXTENDS Naturals, FiniteSets

CONSTANTS
    Files,          \* segments and screenshots
    Targets,        \* rows of the storage_targets table
    Hosts,          \* NAS hosts
    Threads,        \* server threads, the recorder, the sweeper
    MaxMishaps,     \* bound: unreachable hosts and refused commits
    Local,          \* the server's disk
    None

ASSUME StoreAssumption ==
    /\ Local \notin Targets \cup Hosts /\ None \notin Targets \cup {Local}
    /\ MaxMishaps \in Nat

VARIABLES
    targets,        \* targets that exist
    is_default,     \* targets flagged default
    host,           \* per target, its host
    policy,         \* the target of the recording policy, Local, or None
    rows,           \* files that are indexed
    location,       \* per file, the location its row names or named
    expired,        \* files past their retention
    stored,         \* pairs of a file and the place that holds it
    thread,         \* per thread, the work it is in
    marred,         \* files a mishap befell: an unreachable host, a refused commit
    moved,          \* targets that were deleted or given another host
    mishaps         \* bounded count of mishaps

configVars == <<targets, is_default, host, policy, moved>>
fileVars == <<rows, location, expired, stored, marred, mishaps>>
vars == <<configVars, fileVars, thread>>

Locations == Targets \cup {Local}
Places == Hosts \cup {Local}

\* The last three are of an export: what it was asked for, has and lacks.
Work(op, F, t, S) ==
    [op |-> op, files |-> F, at |-> t, selected |-> S, segments |-> {}, missing |-> {}]

Idle == Work("idle", {}, None, {})

TypeOK ==
    /\ targets \in SUBSET Targets /\ is_default \in SUBSET Targets
    /\ host \in [Targets -> Hosts]
    /\ policy \in Locations \cup {None}
    /\ rows \in SUBSET Files /\ location \in [Files -> Locations \cup {None}]
    /\ expired \in SUBSET Files
    /\ stored \in SUBSET (Files \X Places)
    /\ thread \in [Threads -> [op: {"idle", "put", "index", "remove", "unindex", "save_policy",
                                    "export"},
                               files: SUBSET Files, at: Locations \cup {None},
                               selected: SUBSET Files, segments: SUBSET Files,
                               missing: SUBSET Files]]
    /\ marred \in SUBSET Files /\ moved \in SUBSET Targets
    /\ mishaps \in 0..MaxMishaps

Init ==
    /\ targets = {} /\ is_default = {} /\ host \in [Targets -> Hosts]
    /\ policy = None
    /\ rows = {} /\ location = [f \in Files |-> None] /\ expired = {} /\ stored = {}
    /\ thread = [h \in Threads |-> Idle]
    /\ marred = {} /\ moved = {}
    /\ mishaps = 0

Begin(h, work) ==
    /\ thread[h] = Idle
    /\ thread' = [thread EXCEPT ![h] = work]

Finish(h) == thread' = [thread EXCEPT ![h] = Idle]

\* What befalls the files F, once more within the bound.
Mishap(F) ==
    /\ mishaps < MaxMishaps
    /\ mishaps' = mishaps + 1
    /\ marred' = marred \cup F

Smooth == UNCHANGED <<marred, mishaps>>

\* The files that are being stored or removed.
Held == UNION {thread[h].files : h \in {g \in Threads : thread[g].op # "export"}}

-----------------------------------------------------------------------------
(* Targets and policies                                                    *)

_make_sole_default(t) == {t}

\* create_target and update_target, whose writes the database serialises; ids
\* are not reused.
save_target(t) ==
    /\ t \in targets \/ t \notin moved
    /\ targets' = targets \cup {t}
    /\ \/ is_default' = _make_sole_default(t)
       \/ is_default' = is_default \ {t}
    /\ \E x \in Hosts :
         /\ host' = [host EXCEPT ![t] = x]
         /\ moved' = IF t \in targets /\ x # host[t] THEN moved \cup {t} ELSE moved
    /\ UNCHANGED <<policy, fileVars, thread>>

\* delete_target: refused while a policy uses the target; files are not asked.
delete_target(t) ==
    /\ t \in targets
    /\ policy # t
    /\ targets' = targets \ {t}
    /\ is_default' = is_default \ {t}
    /\ moved' = moved \cup {t}
    /\ UNCHANGED <<host, policy, fileVars, thread>>

\* create_policy and update_policy: the storage target is validated first.
save_policy(h) ==
    /\ \E t \in targets \cup {Local} : Begin(h, Work("save_policy", {}, t, {}))
    /\ UNCHANGED <<configVars, fileVars>>

commit_policy(h) ==
    /\ thread[h].op = "save_policy"
    /\ policy' = thread[h].at
    /\ Finish(h)
    /\ UNCHANGED <<targets, is_default, host, moved, fileVars>>

delete_policy ==
    /\ policy # None
    /\ policy' = None
    /\ UNCHANGED <<targets, is_default, host, moved, fileVars, thread>>

-----------------------------------------------------------------------------
(* Storing                                                                 *)

\* backend_for_target: where a location leads to now, for one that exists.
backend_for_target(l) == IF l = Local THEN Local ELSE host[l]

\* Any of the flagged targets, or the local disk.
default_target_id == IF is_default = {} THEN {Local} ELSE is_default

\* A new file, and the target that was read for it.
BeginPut(h, f, t) ==
    /\ location[f] = None /\ f \notin Held /\ \A p \in Places : <<f, p>> \notin stored
    /\ Begin(h, Work("put", {f}, t, {}))
    /\ UNCHANGED <<configVars, fileVars>>

_process_segment(h, f) == policy # None /\ BeginPut(h, f, policy)

capture_screenshot(h, f) == \E t \in default_target_id : BeginPut(h, f, t)

\* Mutant of Landed: the location is the target also when the upload failed.
LandedUnchecked(target, uploaded) == target

Landed(target, uploaded) == IF uploaded THEN target ELSE Local

\* store_file: to the target, or locally if there is none, it is gone, or the
\* upload fails, which may leave a copy on the host.
store_file(h) ==
    /\ thread[h].op = "put"
    /\ LET t == thread[h].at
           PutAt(copies, uploaded) ==
               /\ stored' = stored \cup copies
               /\ thread' = [thread EXCEPT ![h].op = "index", ![h].at = Landed(t, uploaded)]
           At(p) == thread[h].files \X {p}
       IN \/ t \in targets /\ PutAt(At(backend_for_target(t)), TRUE) /\ Smooth
          \/ t = Local /\ PutAt(At(Local), TRUE) /\ Smooth
          \/ t \notin targets \cup {Local} /\ PutAt(At(Local), FALSE) /\ Smooth
          \/ t \in targets /\ PutAt(At(Local), FALSE) /\ Mishap({})
          \/ t \in targets /\ PutAt(At(Local) \cup At(backend_for_target(t)), FALSE) /\ Mishap(thread[h].files)
    /\ UNCHANGED <<configVars, rows, location, expired>>

\* The row is committed, or the commit is refused and the file has none.
commit_row(h) ==
    /\ thread[h].op = "index"
    /\ \/ /\ rows' = rows \cup thread[h].files
          /\ location' = [f \in Files |-> IF f \in thread[h].files THEN thread[h].at ELSE location[f]]
          /\ Smooth
       \/ Mishap(thread[h].files) /\ UNCHANGED <<rows, location>>
    /\ Finish(h)
    /\ UNCHANGED <<configVars, expired, stored>>

-----------------------------------------------------------------------------
(* Finding and removing                                                    *)

load_file(f) ==
    /\ location[f] \in targets \cup {Local}
    /\ <<f, backend_for_target(location[f])>> \in stored

expire(f) ==
    /\ f \in rows \ expired
    /\ expired' = expired \cup {f}
    /\ UNCHANGED <<configVars, rows, location, stored, marred, mishaps, thread>>

\* sweep_expired, sweep_expired_screenshots: every expired row.
sweep_expired(h) ==
    /\ expired \cap rows # {}
    /\ Begin(h, Work("remove", expired \cap rows, None, {}))
    /\ UNCHANGED <<configVars, fileVars>>

delete_screenshot(h, f) ==
    /\ f \in rows
    /\ Begin(h, Work("remove", {f}, None, {}))
    /\ UNCHANGED <<configVars, fileVars>>

\* Mutant of removed_copies: the target is not asked, only the local disk.
local_copies(F) == F \X {Local}

removed_copies(F) ==
    {<<f, backend_for_target(location[f])>> : f \in {g \in F : location[g] \in targets \cup {Local}}}

\* remove_file, for each: an unreachable host keeps its copies, and nobody is told.
remove_file(h) ==
    /\ thread[h].op = "remove"
    /\ LET F == thread[h].files IN
         \/ stored' = stored \ removed_copies(F) /\ Smooth
         \/ \E away \in SUBSET {f \in F : location[f] \in targets} :
              /\ away # {}
              /\ stored' = stored \ removed_copies(F \ away)
              /\ Mishap(away)
    /\ thread' = [thread EXCEPT ![h].op = "unindex"]
    /\ UNCHANGED <<configVars, rows, location, expired>>

\* The rows are deleted, another removal's too; or the commit is refused, the
\* rows stay and their files are gone.
commit_removal(h) ==
    /\ thread[h].op = "unindex"
    /\ \/ rows' = rows \ thread[h].files /\ Smooth
       \/ Mishap(thread[h].files) /\ UNCHANGED rows
    /\ Finish(h)
    /\ UNCHANGED <<configVars, location, expired, stored>>

-----------------------------------------------------------------------------
(* Exporting                                                               *)

\* export_segments: refused unless every selected row is there.
export_segments(h) ==
    /\ \E S \in (SUBSET rows) \ {{}} :
         Begin(h, Work("export", S, None, S))
    /\ UNCHANGED <<configVars, fileVars>>

\* Mutant of unreadable: a file that cannot be read is passed over.
passed_over(h, f) == thread' = [thread EXCEPT ![h].files = @ \ {f}]

unreadable(h, f) ==
    thread' = [thread EXCEPT ![h].files = @ \ {f}, ![h].missing = @ \cup {f}]

\* stream_export, one file: read, or -- swept, its host unreachable, not
\* decrypted by today's key -- missing.
stream_export(h) ==
    /\ thread[h].op = "export"
    /\ \E f \in thread[h].files :
         \/ /\ load_file(f)
            /\ thread' = [thread EXCEPT ![h].files = @ \ {f}, ![h].segments = @ \cup {f}]
         \/ unreadable(h, f)
    /\ UNCHANGED <<configVars, fileVars>>

\* The manifest is written and the archive is complete.
write_manifest(h) ==
    /\ thread[h].op = "export" /\ thread[h].files = {}
    /\ Finish(h)
    /\ UNCHANGED <<configVars, fileVars>>

-----------------------------------------------------------------------------

Next ==
    \/ \E h \in Threads :
         \/ save_policy(h)
         \/ commit_policy(h)
         \/ \E f \in Files :
              \/ _process_segment(h, f)
              \/ capture_screenshot(h, f)
              \/ delete_screenshot(h, f)
         \/ store_file(h)
         \/ commit_row(h)
         \/ sweep_expired(h)
         \/ remove_file(h)
         \/ commit_removal(h)
         \/ export_segments(h)
         \/ stream_export(h)
         \/ write_manifest(h)
    \/ \E t \in Targets : save_target(t) \/ delete_target(t)
    \/ delete_policy
    \/ \E f \in Files : expire(f)

Spec == Init /\ [][Next]_vars

-----------------------------------------------------------------------------

\* A file whose row is there can be read (services/storage: "a NAS outage never
\* loses a file"), unless its removal is under way or was refused half-way, or
\* an administrator deleted its target or gave it another host.
RowsAreReadable ==
    \A f \in rows :
        \/ load_file(f)
        \/ location[f] \in moved \/ f \in Held \cup marred

\* A file that has no row is not kept anywhere (services/retention.py), unless
\* it is being stored or removed, a mishap befell it, or its target was deleted
\* or moved.
NothingOutlivesItsRow ==
    \A f \in Files \ rows :
        \/ \A p \in Places : <<f, p>> \notin stored
        \/ location[f] \in moved \/ f \in Held \cup marred

\* What an archive holds and what its manifest lists as missing are together
\* what was selected, whatever was swept or moved while it was streamed.
ExportAccountsForAll ==
    \A h \in Threads :
        thread[h].op = "export" /\ thread[h].files = {}
        => thread[h].segments \cup thread[h].missing = thread[h].selected
=============================================================================
