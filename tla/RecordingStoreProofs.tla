------------------------ MODULE RecordingStoreProofs ------------------------
(***************************************************************************)
(* Proofs about RecordingStore, for any numbers of files, targets, hosts,  *)
(* threads and mishaps.                                                    *)
(***************************************************************************)
EXTENDS RecordingStore, TLAPS

Ops == {"idle", "put", "index", "remove", "unindex", "save_policy", "export"}

\* The parts of TypeOK that the proofs need.
ConfigTypes ==
    /\ targets \in SUBSET Targets /\ is_default \in SUBSET Targets
    /\ host \in [Targets -> Hosts]
    /\ policy \in Locations \cup {None}
    /\ moved \in SUBSET Targets

FileTypes ==
    /\ rows \in SUBSET Files /\ location \in [Files -> Locations \cup {None}]
    /\ marred \in SUBSET Files

ThreadTypes ==
    thread \in [Threads -> [op: Ops, files: SUBSET Files, at: Locations \cup {None},
                            selected: SUBSET Files, segments: SUBSET Files,
                            missing: SUBSET Files]]

Types == ConfigTypes /\ FileTypes /\ ThreadTypes

In(f, p) == <<f, p>> \in stored
Holds(h, f) == f \in thread[h].files /\ thread[h].op # "export"
Exempt(f) == f \in marred \/ location[f] \in moved

\* A target that a row names exists or is known to have gone.
LocationInv ==
    \A f \in Files :
        /\ f \in rows => location[f] # None
        /\ location[f] \in Targets => location[f] \in targets \cup moved

\* What was indexed once has its one copy where its location leads, while it has its row.
CopyInv ==
    \A f \in Files : location[f] # None /\ ~Exempt(f) =>
        \A p \in Places : In(f, p) => f \in rows /\ p = backend_for_target(location[f])

PresentInv ==
    \A f \in rows :
        Exempt(f) \/ In(f, backend_for_target(location[f])) \/ \E h \in Threads : Holds(h, f)

\* What was never indexed has no copy but the one a thread has just put.
FreshInv ==
    \A f \in Files : location[f] = None /\ f \notin marred =>
        \/ \A p \in Places : ~In(f, p)
        \/ \E h \in Threads : Holds(h, f)

\* What a thread knows of the files it works on.
WorkInv ==
    \A h \in Threads :
        /\ thread[h].op \in {"idle", "save_policy"} => thread[h].files = {}
        /\ thread[h].op = "index" =>
             /\ thread[h].at \in Locations
             /\ thread[h].at \in Targets => thread[h].at \in targets \cup moved
        /\ \A f \in thread[h].files :
             /\ thread[h].op \in {"put", "index"} => location[f] = None
             /\ thread[h].op = "put" => \A p \in Places : ~In(f, p)
             /\ thread[h].op = "index" =>
                  \/ thread[h].at \in moved \/ f \in marred
                  \/ \A p \in Places : In(f, p) <=> p = backend_for_target(thread[h].at)
             /\ thread[h].op \in {"remove", "unindex"} => location[f] # None
             /\ thread[h].op = "unindex" => Exempt(f) \/ \A p \in Places : ~In(f, p)

\* A file is put by one thread.
AloneInv ==
    \A g, h \in Threads : \A f \in Files :
        Holds(g, f) /\ Holds(h, f) /\ thread[g].op \in {"put", "index"} => g = h

\* What an export has, what it lacks and what it has still to read are what was selected.
ExportInv ==
    \A h \in Threads : thread[h].op = "export" =>
        thread[h].segments \cup thread[h].missing \cup thread[h].files = thread[h].selected

StoreInv == LocationInv /\ CopyInv /\ PresentInv /\ FreshInv /\ WorkInv /\ AloneInv /\ ExportInv

Inv == Types /\ StoreInv

-----------------------------------------------------------------------------
(* What the steps are                                                      *)

ConfigStep ==
    \/ \E t \in Targets : save_target(t) \/ delete_target(t)
    \/ delete_policy

\* A thread begins a piece of work: it changes nothing else.
Beginning(h) ==
    \/ save_policy(h)
    \/ \E f \in Files, t \in Locations : BeginPut(h, f, t)
    \/ sweep_expired(h)
    \/ \E f \in Files : delete_screenshot(h, f)
    \/ export_segments(h)

\* Every step is one of these.
LEMMA Steps ==
    ASSUME Types, [Next]_vars
    PROVE  \/ ConfigStep
           \/ \E h \in Threads :
                \/ Beginning(h)
                \/ commit_policy(h)
                \/ store_file(h)
                \/ commit_row(h)
                \/ remove_file(h)
                \/ commit_removal(h)
                \/ stream_export(h)
                \/ write_manifest(h)
           \/ \E f \in Files : expire(f)
           \/ UNCHANGED vars
<1>1. ASSUME NEW h \in Threads, NEW f \in Files, _process_segment(h, f) PROVE Beginning(h)
  BY <1>1 DEF _process_segment, Beginning, Types, ConfigTypes
<1>2. ASSUME NEW h \in Threads, NEW f \in Files, capture_screenshot(h, f) PROVE Beginning(h)
  BY <1>2 DEF capture_screenshot, default_target_id, Beginning, Types, ConfigTypes, Locations
<1> QED
  BY <1>1, <1>2 DEF Next, ConfigStep, Beginning

\* A thread begins with what it read.
BegunWith(h, op, F, t, S) ==
    /\ thread[h] = Idle
    /\ thread' = [thread EXCEPT ![h] = Work(op, F, t, S)]
    /\ UNCHANGED <<configVars, fileVars>>

\* What a thread begins with fits what is stored: a put has a new file, a removal
\* files that are indexed, an export its selection.
LEMMA Begun ==
    ASSUME Types, NEW h \in Threads, Beginning(h)
    PROVE  \E op \in {"put", "remove", "save_policy", "export"}, F \in SUBSET Files,
              t \in Locations \cup {None}, S \in SUBSET Files :
             /\ BegunWith(h, op, F, t, S)
             /\ op = "put" => \A f \in F : /\ location[f] = None
                                           /\ \A p \in Places : ~In(f, p)
                                           /\ \A g \in Threads : ~Holds(g, f)
             /\ op = "remove" => F \subseteq rows
             /\ op = "save_policy" => F = {}
             /\ op = "export" => F = S
<1> DEFINE Fit(op, F, t, S) ==
             /\ BegunWith(h, op, F, t, S)
             /\ op = "put" => \A f \in F : /\ location[f] = None
                                           /\ \A p \in Places : ~In(f, p)
                                           /\ \A g \in Threads : ~Holds(g, f)
             /\ op = "remove" => F \subseteq rows
             /\ op = "save_policy" => F = {}
             /\ op = "export" => F = S
           Found == \E op \in {"put", "remove", "save_policy", "export"}, F \in SUBSET Files,
                       t \in Locations \cup {None}, S \in SUBSET Files : Fit(op, F, t, S)
<1>1. ASSUME save_policy(h) PROVE Found
  <2>1. PICK t \in targets \cup {Local} : BegunWith(h, "save_policy", {}, t, {})
    BY <1>1 DEF save_policy, Begin, BegunWith
  <2>2. Fit("save_policy", {}, t, {}) /\ t \in Locations \cup {None} /\ {} \in SUBSET Files
    BY <2>1 DEF Types, ConfigTypes, Locations
  <2> HIDE DEF Fit
  <2> QED BY <2>2
<1>2. ASSUME NEW f \in Files, NEW t \in Locations, BeginPut(h, f, t) PROVE Found
  <2>1. BegunWith(h, "put", {f}, t, {})
    BY <1>2 DEF BeginPut, Begin, BegunWith
  <2>2. location[f] = None /\ (\A p \in Places : ~In(f, p)) /\ \A g \in Threads : ~Holds(g, f)
    BY <1>2 DEF BeginPut, In, Holds, Held
  <2>3. Fit("put", {f}, t, {}) /\ t \in Locations \cup {None} /\ {} \in SUBSET Files
        /\ {f} \in SUBSET Files
    BY <2>1, <2>2
  <2> HIDE DEF Fit
  <2> QED BY <2>3
<1>3. ASSUME NEW F \in SUBSET rows, BegunWith(h, "remove", F, None, {}) PROVE Found
  <2>1. Fit("remove", F, None, {}) /\ None \in Locations \cup {None} /\ {} \in SUBSET Files
        /\ F \in SUBSET Files
    BY <1>3 DEF Types, FileTypes
  <2> HIDE DEF Fit
  <2> QED BY <2>1
<1>4. ASSUME sweep_expired(h) PROVE Found
  <2>1. BegunWith(h, "remove", expired \cap rows, None, {})
    BY <1>4 DEF sweep_expired, Begin, BegunWith
  <2> QED BY <2>1, <1>3
<1>5. ASSUME NEW f \in Files, delete_screenshot(h, f) PROVE Found
  <2>1. BegunWith(h, "remove", {f}, None, {}) /\ {f} \in SUBSET rows
    BY <1>5 DEF delete_screenshot, Begin, BegunWith
  <2> QED BY <2>1, <1>3
<1>6. ASSUME export_segments(h) PROVE Found
  <2>1. PICK S \in SUBSET rows : BegunWith(h, "export", S, None, S)
    BY <1>6 DEF export_segments, Begin, BegunWith
  <2>2. Fit("export", S, None, S) /\ S \in SUBSET Files /\ None \in Locations \cup {None}
    BY <2>1 DEF Types, FileTypes
  <2> HIDE DEF Fit
  <2> QED BY <2>2
<1> QED BY <1>1, <1>2, <1>4, <1>5, <1>6 DEF Beginning

-----------------------------------------------------------------------------

\* Every step keeps the types.
LEMMA TypeStep ==
    ASSUME Types, WorkInv, [Next]_vars PROVE Types'
<1> USE DEF Types, ConfigTypes, FileTypes, ThreadTypes, Ops
<1>1. CASE ConfigStep
  BY <1>1 DEF ConfigStep, save_target, delete_target, delete_policy, fileVars, Locations,
     _make_sole_default
<1>2. ASSUME NEW h \in Threads, Beginning(h) PROVE Types'
  <2>1. PICK op \in {"put", "remove", "save_policy", "export"}, F \in SUBSET Files,
              t \in Locations \cup {None}, S \in SUBSET Files : BegunWith(h, op, F, t, S)
    BY <1>2, Begun
  <2> QED BY <2>1 DEF BegunWith, Work, configVars, fileVars
<1>3. ASSUME NEW h \in Threads, commit_policy(h) PROVE Types'
  BY <1>3 DEF commit_policy, Finish, Idle, Work, fileVars
<1>4. ASSUME NEW h \in Threads, store_file(h) PROVE Types'
  <2>1. PICK t \in Locations \cup {None} :
          thread' = [thread EXCEPT ![h].op = "index", ![h].at = t]
    BY <1>4 DEF store_file, Landed, Locations
  <2>2. marred' \in SUBSET Files /\ UNCHANGED <<configVars, rows, location>>
    BY <1>4 DEF store_file, Mishap, Smooth
  <2>3. [thread[h] EXCEPT !.op = "index", !.at = t]
          \in [op: Ops, files: SUBSET Files, at: Locations \cup {None},
              selected: SUBSET Files, segments: SUBSET Files, missing: SUBSET Files]
    OBVIOUS
  <2>4. thread' = [thread EXCEPT ![h] = [thread[h] EXCEPT !.op = "index", !.at = t]]
    BY <2>1
  <2>5. ThreadTypes'
    BY <2>3, <2>4
  <2>6. ConfigTypes' /\ FileTypes'
    BY <2>2 DEF configVars
  <2> QED BY <2>5, <2>6
<1>5. ASSUME NEW h \in Threads, commit_row(h) PROVE Types'
  <2>1. thread' = [thread EXCEPT ![h] = Idle] /\ UNCHANGED configVars
    BY <1>5 DEF commit_row, Finish
  <2>2. rows' \in SUBSET Files /\ marred' \in SUBSET Files
    BY <1>5 DEF commit_row, Mishap, Smooth
  <2>3. location' \in [Files -> Locations \cup {None}]
    BY <1>5 DEF commit_row
  <2> QED BY <2>1, <2>2, <2>3 DEF configVars, Idle, Work
<1>6. ASSUME NEW h \in Threads, remove_file(h) PROVE Types'
  <2>1. thread' = [thread EXCEPT ![h].op = "unindex"] /\ UNCHANGED <<configVars, rows, location>>
    BY <1>6 DEF remove_file
  <2>2. marred' \in SUBSET Files
    BY <1>6 DEF remove_file, Mishap, Smooth
  <2> QED BY <2>1, <2>2 DEF configVars
<1>7. ASSUME NEW h \in Threads, commit_removal(h) PROVE Types'
  <2>1. thread' = [thread EXCEPT ![h] = Idle] /\ UNCHANGED <<configVars, location>>
    BY <1>7 DEF commit_removal, Finish
  <2>2. rows' \in SUBSET Files /\ marred' \in SUBSET Files
    BY <1>7 DEF commit_removal, Mishap, Smooth
  <2> QED BY <2>1, <2>2 DEF configVars, Idle, Work
<1>8. ASSUME NEW h \in Threads, stream_export(h) PROVE Types'
  <2>1. PICK f \in Files :
          \/ thread' = [thread EXCEPT ![h].files = @ \ {f}, ![h].segments = @ \cup {f}]
          \/ thread' = [thread EXCEPT ![h].files = @ \ {f}, ![h].missing = @ \cup {f}]
    BY <1>8 DEF stream_export, unreadable
  <2>2. ThreadTypes'
    BY <2>1
  <2>3. ConfigTypes' /\ FileTypes'
    BY <1>8 DEF stream_export, configVars, fileVars
  <2> QED BY <2>2, <2>3
<1>9. ASSUME NEW h \in Threads, write_manifest(h) PROVE Types'
  BY <1>9 DEF write_manifest, Finish, Idle, Work, configVars, fileVars
<1>10. CASE (\E f \in Files : expire(f)) \/ UNCHANGED vars
  BY <1>10 DEF expire, vars, configVars, fileVars
<1> QED
  BY <1>1, <1>2, <1>3, <1>4, <1>5, <1>6, <1>7, <1>8, <1>9, <1>10, Steps

-----------------------------------------------------------------------------

\* Steps that leave files, copies and what threads hold alone, and lose no target silently.
LEMMA ConfigKeeps ==
    ASSUME Types, StoreInv, ConfigStep PROVE StoreInv'
<1>1. /\ UNCHANGED <<rows, location, stored, marred, thread>>
      /\ moved \subseteq moved' /\ targets \subseteq targets' \cup moved'
      /\ \A t \in (targets \cup moved) \ moved' : host'[t] = host[t]
  BY DEF ConfigStep, save_target, delete_target, delete_policy, fileVars, Types, ConfigTypes
<1>2. \A l \in Locations : l \notin moved' /\ (l \in Targets => l \in targets \cup moved)
         => backend_for_target(l)' = backend_for_target(l)
  BY <1>1 DEF backend_for_target, Locations
<1>3. LocationInv'
  BY <1>1 DEF StoreInv, LocationInv, Types, FileTypes
<1>4. CopyInv'
  BY <1>1, <1>2 DEF StoreInv, LocationInv, CopyInv, Exempt, In, Types, FileTypes, Locations
<1>5. PresentInv'
  BY <1>1, <1>2 DEF StoreInv, LocationInv, PresentInv, Exempt, In, Holds, Types, FileTypes, Locations
<1>6. FreshInv' /\ AloneInv' /\ ExportInv'
  BY <1>1 DEF StoreInv, FreshInv, AloneInv, ExportInv, In, Holds
<1>7. WorkInv'
  BY <1>1, <1>2 DEF StoreInv, WorkInv, Exempt, In, Types, ThreadTypes, Locations
<1> QED BY <1>3, <1>4, <1>5, <1>6, <1>7 DEF StoreInv

\* A thread begins only with files that are free for that work.
LEMMA BeginningKeeps ==
    ASSUME Types, StoreInv, NEW h \in Threads, Beginning(h) PROVE StoreInv'
<1>1. PICK op \in {"put", "remove", "save_policy", "export"}, F \in SUBSET Files,
              t \in Locations \cup {None}, S \in SUBSET Files :
             /\ BegunWith(h, op, F, t, S)
             /\ op = "put" => \A f \in F : /\ location[f] = None
                                           /\ \A p \in Places : ~In(f, p)
                                           /\ \A g \in Threads : ~Holds(g, f)
             /\ op = "remove" => F \subseteq rows
             /\ op = "save_policy" => F = {}
             /\ op = "export" => F = S
  BY Begun
<1>2. /\ thread' = [thread EXCEPT ![h] = Work(op, F, t, S)]
      /\ UNCHANGED <<rows, location, stored, marred, targets, moved, host>>
      /\ thread[h].files = {}
  BY <1>1 DEF BegunWith, configVars, fileVars, Idle, Work
<1>3. /\ thread'[h] = Work(op, F, t, S)
      /\ \A g \in Threads \ {h} : thread'[g] = thread[g]
  BY <1>2 DEF Types, ThreadTypes
<1>4. LocationInv' /\ CopyInv'
  BY <1>2 DEF StoreInv, LocationInv, CopyInv, Exempt, In, backend_for_target
<1>5. \A g \in Threads, f \in Files : Holds(g, f) => Holds(g, f)'
  BY <1>2, <1>3 DEF Holds
<1>6. PresentInv' /\ FreshInv'
  BY <1>2, <1>5 DEF StoreInv, PresentInv, FreshInv, Exempt, In, backend_for_target, Types, FileTypes
<1>7. WorkInv'
  BY <1>1, <1>2, <1>3 DEF StoreInv, WorkInv, LocationInv, Exempt, In, backend_for_target, Work
<1>8. AloneInv'
  BY <1>1, <1>2, <1>3 DEF StoreInv, AloneInv, WorkInv, LocationInv, Holds, Work
<1>9. ExportInv'
  BY <1>1, <1>3 DEF StoreInv, ExportInv, Work
<1> QED BY <1>4, <1>6, <1>7, <1>8, <1>9 DEF StoreInv

\* A put leaves one copy where the location leads, unless a mishap befell the files.
LEMMA Stores ==
    ASSUME Types, NEW h \in Threads, store_file(h)
    PROVE  \E l \in Locations, C \in SUBSET Places :
             /\ stored' = stored \cup (thread[h].files \X C)
             /\ thread' = [thread EXCEPT ![h].op = "index", ![h].at = l]
             /\ l \in Targets => l \in targets
             /\ C = {backend_for_target(l)} \/ thread[h].files \subseteq marred'
<1> DEFINE F == thread[h].files
           t == thread[h].at
           Found == \E l \in Locations, C \in SUBSET Places :
             /\ stored' = stored \cup (F \X C)
             /\ thread' = [thread EXCEPT ![h].op = "index", ![h].at = l]
             /\ l \in Targets => l \in targets
             /\ C = {backend_for_target(l)} \/ F \subseteq marred'
<1> USE StoreAssumption DEF Types, ConfigTypes, Locations, Places
<1>1. ASSUME t \in targets, stored' = stored \cup (F \X {backend_for_target(t)}),
             thread' = [thread EXCEPT ![h].op = "index", ![h].at = t]
      PROVE  Found
  <2>1. backend_for_target(t) \in Places /\ t \in Locations /\ t \in Targets
    BY <1>1 DEF backend_for_target
  <2> QED BY <1>1, <2>1
<1>2. ASSUME stored' = stored \cup (F \X {Local}),
             thread' = [thread EXCEPT ![h].op = "index", ![h].at = Local]
      PROVE  Found
  BY <1>2 DEF backend_for_target
<1>3. ASSUME t \in targets, stored' = stored \cup ((F \X {Local}) \cup (F \X {backend_for_target(t)})),
             thread' = [thread EXCEPT ![h].op = "index", ![h].at = Local], F \subseteq marred'
      PROVE  Found
  <2>1. {Local, backend_for_target(t)} \in SUBSET Places
    BY <1>3 DEF backend_for_target
  <2>2. (F \X {Local}) \cup (F \X {backend_for_target(t)}) = F \X {Local, backend_for_target(t)}
    OBVIOUS
  <2> QED BY <1>3, <2>1, <2>2
<1> QED BY <1>1, <1>2, <1>3 DEF store_file, Landed, Mishap

\* A put leaves its copies in the hands of the thread that put them.
LEMMA StoreKeeps ==
    ASSUME Types, StoreInv, NEW h \in Threads, store_file(h) PROVE StoreInv'
<1>1. PICK l \in Locations, C \in SUBSET Places :
             /\ stored' = stored \cup (thread[h].files \X C)
             /\ thread' = [thread EXCEPT ![h].op = "index", ![h].at = l]
             /\ l \in Targets => l \in targets
             /\ C = {backend_for_target(l)} \/ thread[h].files \subseteq marred'
  BY Stores
<1>2. /\ UNCHANGED <<rows, location, targets, moved, host>>
      /\ marred \subseteq marred' /\ thread[h].op = "put"
  BY DEF store_file, configVars, Mishap, Smooth
<1>3. /\ thread'[h].op = "index" /\ thread'[h].at = l /\ thread'[h].files = thread[h].files
      /\ \A g \in Threads \ {h} : thread'[g] = thread[g]
  BY <1>1 DEF Types, ThreadTypes
<1>4. \A f \in Files, p \in Places : In(f, p)' <=> (In(f, p) \/ (f \in thread[h].files /\ p \in C))
  <2> DEFINE F == thread[h].files
  <2>1. stored' = stored \cup (F \X C)
    BY <1>1
  <2>2. \A f, p : <<f, p>> \in F \X C <=> f \in F /\ p \in C
    OBVIOUS
  <2> HIDE DEF F
  <2>3. \A f, p : <<f, p>> \in stored' <=> <<f, p>> \in stored \/ (f \in F /\ p \in C)
    BY <2>1, <2>2
  <2> QED BY <2>3 DEF In, F
<1>5. \A g \in Threads, f \in Files : Holds(g, f)' <=> Holds(g, f)
  BY <1>2, <1>3 DEF Holds
<1>6. \A f \in thread[h].files : location[f] = None /\ f \in Files
  BY <1>2 DEF StoreInv, WorkInv, Types, ThreadTypes
<1>7. LocationInv'
  BY <1>2 DEF StoreInv, LocationInv
<1>8. CopyInv'
  BY <1>2, <1>4, <1>6 DEF StoreInv, CopyInv, Exempt, backend_for_target
<1>9. PresentInv'
  BY <1>1, <1>2, <1>5 DEF StoreInv, PresentInv, Exempt, backend_for_target, In, Types, FileTypes
<1>10. FreshInv'
  BY <1>2, <1>3, <1>4, <1>5 DEF StoreInv, FreshInv, Holds
<1>11. WorkInv'
  <2>1. \A f \in thread[h].files : f \in marred' \/ \A p \in Places : In(f, p)' <=> p = backend_for_target(l)
    BY <1>1, <1>2, <1>4, <1>6 DEF StoreInv, WorkInv
  <2>2. \A g \in Threads \ {h} : \A f \in thread[g].files :
           thread[g].op # "export" => f \notin thread[h].files
    BY <1>2, <1>6 DEF StoreInv, AloneInv, Holds
  <2>3. \A g \in Threads \ {h} : \A f \in thread[g].files : f \in Files
    BY DEF Types, ThreadTypes
  <2>4. \A g \in Threads \ {h} : \A f \in thread[g].files : \A p \in Places :
           thread[g].op # "export" => (In(f, p)' <=> In(f, p))
    <3> SUFFICES ASSUME NEW g \in Threads \ {h}, NEW f \in thread[g].files, NEW p \in Places,
                        thread[g].op # "export"
                 PROVE  In(f, p)' <=> In(f, p)
      OBVIOUS
    <3>1. f \in Files /\ f \notin thread[h].files
      BY <2>2, <2>3
    <3> QED BY <1>4, <3>1
  <2>5. ASSUME NEW g \in Threads \ {h} PROVE
          /\ thread'[g] = thread[g]
          /\ \A f \in thread[g].files : Exempt(f) => Exempt(f)'
    BY <1>2, <1>3 DEF Exempt
  <2>6. \A g \in Threads \ {h} :
          /\ thread'[g].op \in {"idle", "save_policy"} => thread'[g].files = {}
          /\ thread'[g].op = "index" =>
               /\ thread'[g].at \in Locations
               /\ thread'[g].at \in Targets => thread'[g].at \in targets' \cup moved'
    BY <1>2, <2>5 DEF StoreInv, WorkInv
  <2>7. ASSUME NEW g \in Threads \ {h}, NEW f \in thread'[g].files
        PROVE  /\ thread'[g].op \in {"put", "index"} => location'[f] = None
               /\ thread'[g].op = "put" => \A p \in Places : ~In(f, p)'
               /\ thread'[g].op = "index" =>
                    \/ thread'[g].at \in moved' \/ f \in marred'
                    \/ \A p \in Places : In(f, p)' <=> p = backend_for_target(thread[g].at)'
               /\ thread'[g].op \in {"remove", "unindex"} => location'[f] # None
               /\ thread'[g].op = "unindex" => Exempt(f)' \/ \A p \in Places : ~In(f, p)'
    <3>1. f \in thread[g].files /\ thread'[g] = thread[g]
      BY <2>5
    <3>2. /\ thread[g].op \in {"put", "index"} => location[f] = None
          /\ thread[g].op = "put" => \A p \in Places : ~In(f, p)
          /\ thread[g].op = "index" =>
               \/ thread[g].at \in moved \/ f \in marred
               \/ \A p \in Places : In(f, p) <=> p = backend_for_target(thread[g].at)
          /\ thread[g].op \in {"remove", "unindex"} => location[f] # None
          /\ thread[g].op = "unindex" => Exempt(f) \/ \A p \in Places : ~In(f, p)
      BY <3>1 DEF StoreInv, WorkInv
    <3>3. \A p \in Places : thread[g].op # "export" => (In(f, p)' <=> In(f, p))
      BY <2>4, <3>1
    <3>4. backend_for_target(thread[g].at)' = backend_for_target(thread[g].at)
      BY <1>2, <3>1 DEF backend_for_target
    <3>5. Exempt(f) => Exempt(f)'
      BY <1>2 DEF Exempt
    <3> QED BY <1>2, <3>1, <3>2, <3>3, <3>4, <3>5
  <2>8. \A f \in thread'[h].files :
          /\ location'[f] = None
          /\ f \in marred' \/ \A p \in Places : In(f, p)' <=> p = backend_for_target(l)'
    BY <1>2, <1>3, <1>6, <2>1 DEF backend_for_target
  <2> DEFINE Knows(g) ==
               /\ thread[g].op \in {"idle", "save_policy"} => thread[g].files = {}
               /\ thread[g].op = "index" =>
                    /\ thread[g].at \in Locations
                    /\ thread[g].at \in Targets => thread[g].at \in targets \cup moved
             KnowsOf(g, f) ==
               /\ thread[g].op \in {"put", "index"} => location[f] = None
               /\ thread[g].op = "put" => \A p \in Places : ~In(f, p)
               /\ thread[g].op = "index" =>
                    \/ thread[g].at \in moved \/ f \in marred
                    \/ \A p \in Places : In(f, p) <=> p = backend_for_target(thread[g].at)
               /\ thread[g].op \in {"remove", "unindex"} => location[f] # None
               /\ thread[g].op = "unindex" => Exempt(f) \/ \A p \in Places : ~In(f, p)
  <2>9. \A g \in Threads : Knows(g)'
    <3>1. Knows(h)'
      BY <1>1, <1>2, <1>3
    <3>2. \A g \in Threads \ {h} : Knows(g)'
      BY <2>6
    <3> QED BY <3>1, <3>2
  <2>10. \A f \in thread'[h].files : KnowsOf(h, f)'
    BY <1>3, <2>8
  <2>11. \A g \in Threads : \A f \in thread'[g].files : KnowsOf(g, f)'
    <3> SUFFICES ASSUME NEW g \in Threads, NEW f \in thread'[g].files PROVE KnowsOf(g, f)'
      OBVIOUS
    <3>1. CASE g = h
      BY <2>10, <3>1
    <3>2. CASE g \in Threads \ {h}
      BY <2>7, <3>2
    <3> QED BY <3>1, <3>2
  <2> QED BY <2>9, <2>11 DEF WorkInv
<1>12. AloneInv'
  BY <1>2, <1>3, <1>5 DEF StoreInv, AloneInv
<1>13. ExportInv'
  BY <1>1, <1>3 DEF StoreInv, ExportInv
<1> QED BY <1>7, <1>8, <1>9, <1>10, <1>11, <1>12, <1>13 DEF StoreInv

\* The row names where the copy is, or the commit was refused.
LEMMA CommitRowKeeps ==
    ASSUME Types, StoreInv, NEW h \in Threads, commit_row(h) PROVE StoreInv'
<1> DEFINE F == thread[h].files
           l == thread[h].at
<1>1. /\ thread[h].op = "index" /\ thread' = [thread EXCEPT ![h] = Idle]
      /\ UNCHANGED <<stored, targets, moved, host>> /\ marred \subseteq marred'
  BY DEF commit_row, Finish, configVars, Mishap, Smooth
<1>2. \/ /\ rows' = rows \cup F /\ marred' = marred
         /\ location' = [f \in Files |-> IF f \in F THEN l ELSE location[f]]
      \/ marred' = marred \cup F /\ UNCHANGED <<rows, location>>
  BY DEF commit_row, Mishap, Smooth
<1>3. thread'[h] = Idle /\ \A g \in Threads \ {h} : thread'[g] = thread[g]
  BY <1>1 DEF Types, ThreadTypes
<1>4. /\ F \subseteq Files /\ l \in Locations /\ (l \in Targets => l \in targets \cup moved)
      /\ \A f \in F : location[f] = None
      /\ \A f \in F : l \in moved \/ f \in marred \/ \A p \in Places : In(f, p) <=> p = backend_for_target(l)
  BY <1>1 DEF StoreInv, WorkInv, Types, ThreadTypes
<1>5. l # None /\ backend_for_target(l) \in Places
  BY <1>4, StoreAssumption DEF Locations, Places, backend_for_target, Types, ConfigTypes
<1>6. \A g \in Threads \ {h} : \A f \in F : ~Holds(g, f)
  BY <1>1, <1>4 DEF StoreInv, AloneInv, Holds
<1>7. \A f \in Files, g \in Threads : Holds(g, f)' <=> g # h /\ Holds(g, f)
  BY <1>3 DEF Holds, Idle, Work
<1>8. \A f \in Files : f \notin F => location'[f] = location[f]
  BY <1>2 DEF Types, FileTypes
<1>9. ASSUME NEW f \in F PROVE f \in marred' \/ (f \in rows' /\ location'[f] = l)
  <2>1. f \in Files
    BY <1>4
  <2> QED BY <1>2, <2>1
<1>10. LocationInv'
  BY <1>1, <1>2, <1>4, <1>5 DEF StoreInv, LocationInv
<1>11. CopyInv'
  BY <1>1, <1>2, <1>4, <1>8, <1>9 DEF StoreInv, CopyInv, Exempt, In, backend_for_target
<1>12. PresentInv'
  <2> SUFFICES ASSUME NEW f \in rows' PROVE \/ Exempt(f)' \/ In(f, backend_for_target(location[f]))'
                                            \/ \E g \in Threads : Holds(g, f)'
    BY DEF PresentInv
  <2>1. f \in Files
    BY <1>2, <1>4 DEF Types, FileTypes
  <2>2. CASE f \in F
    BY <1>1, <1>4, <1>5, <1>9, <2>2 DEF Exempt, In, backend_for_target
  <2>3. CASE f \notin F
    BY <1>1, <1>2, <1>7, <1>8, <2>1, <2>3 DEF StoreInv, PresentInv, Exempt, In, backend_for_target, Holds
  <2> QED BY <2>2, <2>3
<1>13. FreshInv'
  <2> SUFFICES ASSUME NEW f \in Files, location'[f] = None, f \notin marred'
               PROVE  (\A p \in Places : ~In(f, p)') \/ \E g \in Threads : Holds(g, f)'
    BY DEF FreshInv
  <2>1. f \notin F
    BY <1>5, <1>9
  <2>2. \A p \in Places : In(f, p)' <=> In(f, p)
    BY <1>1 DEF In
  <2>3. \A g \in Threads : Holds(g, f) => Holds(g, f)'
    BY <1>7, <2>1 DEF Holds
  <2> QED BY <1>1, <1>8, <2>1, <2>2, <2>3 DEF StoreInv, FreshInv
<1>14. WorkInv'
  <2>1. \A g \in Threads \ {h} : \A f \in thread[g].files :
           thread[g].op # "export" => f \in Files \ F
    BY <1>6 DEF Holds, Types, ThreadTypes
  <2> QED BY <1>1, <1>3, <1>8, <2>1 DEF StoreInv, WorkInv, Exempt, In, backend_for_target, Idle, Work
<1>15. AloneInv'
  BY <1>3, <1>7 DEF StoreInv, AloneInv
<1>16. ExportInv'
  BY <1>3 DEF StoreInv, ExportInv, Idle, Work
<1> QED BY <1>10, <1>11, <1>12, <1>13, <1>14, <1>15, <1>16 DEF StoreInv

\* The copies that rows lead to go, but those on a host that was away.
LEMMA RemoveKeeps ==
    ASSUME Types, StoreInv, NEW h \in Threads, remove_file(h) PROVE StoreInv'
<1> DEFINE F == thread[h].files
<1>1. PICK away \in SUBSET F :
        stored' = stored \ removed_copies(F \ away) /\ marred' = marred \cup away
  <2>1. CASE stored' = stored \ removed_copies(F) /\ Smooth
    <3>1. F \ {} = F /\ {} \in SUBSET F
      OBVIOUS
    <3> QED BY <2>1, <3>1 DEF Smooth
  <2>2. ASSUME NEW away \in SUBSET {f \in F : location[f] \in targets},
               stored' = stored \ removed_copies(F \ away), Mishap(away)
        PROVE  \E a \in SUBSET F :
                 stored' = stored \ removed_copies(F \ a) /\ marred' = marred \cup a
    BY <2>2 DEF Mishap
  <2> QED BY <2>1, <2>2 DEF remove_file
<1>2. /\ thread[h].op = "remove" /\ thread' = [thread EXCEPT ![h].op = "unindex"]
      /\ UNCHANGED <<rows, location, targets, moved, host>>
  BY DEF remove_file, configVars
<1>3. /\ thread'[h].op = "unindex" /\ thread'[h].files = F
      /\ \A g \in Threads \ {h} : thread'[g] = thread[g]
  BY <1>2 DEF Types, ThreadTypes
<1>4. \A f \in F : f \in Files /\ location[f] # None
  BY <1>2 DEF StoreInv, WorkInv, Types, ThreadTypes
<1>5. \A f \in Files : \A p : In(f, p)' => In(f, p)
  BY <1>1 DEF In
<1>6. \A f \in Files \ F : \A p : In(f, p)' <=> In(f, p)
  BY <1>1 DEF In, removed_copies
<1>7. \A f \in F : Exempt(f)' \/ \A p \in Places : ~In(f, p)'
  <2> SUFFICES ASSUME NEW f \in F, ~Exempt(f)', NEW p \in Places, In(f, p)' PROVE FALSE
    OBVIOUS
  <2>1. f \notin marred /\ f \notin away /\ location[f] \notin moved
    BY <1>1, <1>2 DEF Exempt
  <2>2. location[f] \in targets \cup {Local}
    BY <1>4, <2>1 DEF StoreInv, LocationInv, Types, FileTypes, Locations
  <2>3. p = backend_for_target(location[f])
    BY <1>4, <1>5, <2>1 DEF StoreInv, CopyInv, Exempt
  <2>4. <<f, p>> \in removed_copies(F \ away)
    BY <2>1, <2>2, <2>3 DEF removed_copies
  <2> QED BY <1>1, <2>4 DEF In
<1>8. \A g \in Threads, f \in Files : Holds(g, f)' <=> Holds(g, f)
  BY <1>2, <1>3 DEF Holds
<1>9. LocationInv'
  BY <1>2 DEF StoreInv, LocationInv
<1>10. CopyInv'
  BY <1>1, <1>2, <1>5 DEF StoreInv, CopyInv, Exempt, backend_for_target
<1>11. PresentInv'
  <2> SUFFICES ASSUME NEW f \in rows PROVE \/ Exempt(f)' \/ In(f, backend_for_target(location[f]))'
                                           \/ \E g \in Threads : Holds(g, f)'
    BY <1>2 DEF PresentInv
  <2>1. f \in Files
    BY DEF Types, FileTypes
  <2>2. CASE f \in F
    BY <1>2, <1>8, <2>1, <2>2 DEF Holds
  <2>3. CASE f \notin F
    BY <1>1, <1>2, <1>6, <1>8, <2>1, <2>3 DEF StoreInv, PresentInv, Exempt, backend_for_target
  <2> QED BY <2>2, <2>3
<1>12. FreshInv'
  BY <1>1, <1>2, <1>5, <1>8 DEF StoreInv, FreshInv
<1>13. WorkInv'
  <2>1. \A g \in Threads : thread[g].files \subseteq Files
    BY DEF Types, ThreadTypes
  <2>2. \A g \in Threads \ {h} : \A f \in thread[g].files :
          thread[g].op \in {"put", "index"} => \A p \in Places : In(f, p)' <=> In(f, p)
    BY <1>4, <1>6, <2>1 DEF StoreInv, WorkInv
  <2>3. marred \subseteq marred'
    BY <1>1
  <2> QED BY <1>2, <1>3, <1>4, <1>5, <1>7, <2>1, <2>2, <2>3
         DEF StoreInv, WorkInv, Exempt, backend_for_target
<1>14. AloneInv'
  BY <1>3, <1>8 DEF StoreInv, AloneInv
<1>15. ExportInv'
  BY <1>3 DEF StoreInv, ExportInv
<1> QED BY <1>9, <1>10, <1>11, <1>12, <1>13, <1>14, <1>15 DEF StoreInv

\* The rows that go had their copies removed.
LEMMA CommitRemovalKeeps ==
    ASSUME Types, StoreInv, NEW h \in Threads, commit_removal(h) PROVE StoreInv'
<1> DEFINE F == thread[h].files
<1>1. /\ thread[h].op = "unindex" /\ thread' = [thread EXCEPT ![h] = Idle]
      /\ UNCHANGED <<location, stored, targets, moved, host>>
      /\ \/ rows' = rows \ F /\ marred' = marred
         \/ rows' = rows /\ marred' = marred \cup F
  BY DEF commit_removal, Finish, configVars, Mishap, Smooth
<1>2. thread'[h] = Idle /\ \A g \in Threads \ {h} : thread'[g] = thread[g]
  BY <1>1 DEF Types, ThreadTypes
<1>3. \A f \in F : f \in Files /\ location[f] # None /\ (Exempt(f) \/ \A p \in Places : ~In(f, p))
  BY <1>1 DEF StoreInv, WorkInv, Types, ThreadTypes
<1>4. \A f \in Files, g \in Threads : Holds(g, f)' <=> g # h /\ Holds(g, f)
  BY <1>2 DEF Holds, Idle, Work
<1>5. LocationInv'
  BY <1>1 DEF StoreInv, LocationInv
<1>6. CopyInv'
  BY <1>1, <1>3 DEF StoreInv, CopyInv, Exempt, In, backend_for_target
<1>7. PresentInv'
  <2> SUFFICES ASSUME NEW f \in rows' PROVE \/ Exempt(f)' \/ In(f, backend_for_target(location[f]))'
                                            \/ \E g \in Threads : Holds(g, f)'
    BY DEF PresentInv
  <2>1. f \in rows /\ f \in Files
    BY <1>1 DEF Types, FileTypes
  <2>2. CASE f \in F
    BY <1>1, <2>2 DEF Exempt
  <2>3. CASE f \notin F
    BY <1>1, <1>4, <2>1, <2>3 DEF StoreInv, PresentInv, Exempt, In, backend_for_target, Holds
  <2> QED BY <2>2, <2>3
<1>8. FreshInv'
  <2> SUFFICES ASSUME NEW f \in Files, location[f] = None, f \notin marred'
               PROVE  (\A p \in Places : ~In(f, p)') \/ \E g \in Threads : Holds(g, f)'
    BY <1>1 DEF FreshInv
  <2>1. f \notin F /\ f \notin marred
    BY <1>1, <1>3
  <2> QED BY <1>1, <1>4, <2>1 DEF StoreInv, FreshInv, In, Holds
<1>9. WorkInv'
  BY <1>1, <1>2 DEF StoreInv, WorkInv, Exempt, In, backend_for_target, Idle, Work
<1>10. AloneInv'
  BY <1>2, <1>4 DEF StoreInv, AloneInv
<1>11. ExportInv'
  BY <1>2 DEF StoreInv, ExportInv, Idle, Work
<1> QED BY <1>5, <1>6, <1>7, <1>8, <1>9, <1>10, <1>11 DEF StoreInv

\* Steps that touch neither files nor rows.
LEMMA OthersKeep ==
    ASSUME Types, StoreInv, NEW h \in Threads,
           commit_policy(h) \/ stream_export(h) \/ write_manifest(h)
    PROVE  StoreInv'
<1>1. UNCHANGED <<rows, location, stored, marred, targets, moved, host>>
  BY DEF commit_policy, stream_export, write_manifest, configVars, fileVars
<1>2. /\ thread[h].op \in {"save_policy", "export"}
      /\ \A g \in Threads \ {h} : thread'[g] = thread[g]
      /\ \/ thread'[h] = Idle
         \/ /\ thread'[h].op = "export" /\ thread[h].op = "export"
            /\ thread'[h].segments \cup thread'[h].missing \cup thread'[h].files
                 = thread[h].segments \cup thread[h].missing \cup thread[h].files
            /\ thread'[h].selected = thread[h].selected
  <2>1. CASE commit_policy(h) \/ write_manifest(h)
    BY <2>1 DEF commit_policy, write_manifest, Finish, Types, ThreadTypes
  <2>2. CASE stream_export(h)
    BY <2>2 DEF stream_export, unreadable, Types, ThreadTypes
  <2> QED BY <2>1, <2>2
<1>3. \A g \in Threads : \A f : Holds(g, f)' <=> Holds(g, f)
  BY <1>2 DEF Holds, Idle, Work, StoreInv, WorkInv
<1>4. LocationInv' /\ CopyInv' /\ PresentInv' /\ FreshInv'
  BY <1>1, <1>3 DEF StoreInv, LocationInv, CopyInv, PresentInv, FreshInv, Exempt, In, backend_for_target
<1>5. WorkInv'
  BY <1>1, <1>2 DEF StoreInv, WorkInv, Exempt, In, backend_for_target, Idle, Work
<1>6. AloneInv' /\ ExportInv'
  BY <1>2, <1>3 DEF StoreInv, AloneInv, ExportInv, Idle, Work
<1> QED BY <1>4, <1>5, <1>6 DEF StoreInv

\* Steps that change nothing the invariant speaks of.
LEMMA StoreStutters ==
    ASSUME StoreInv, UNCHANGED <<rows, location, stored, marred, targets, moved, host, thread>>
    PROVE  StoreInv'
<1>1. LocationInv' /\ CopyInv' /\ PresentInv' /\ FreshInv'
  BY DEF StoreInv, LocationInv, CopyInv, PresentInv, FreshInv, Exempt, In, Holds,
     backend_for_target
<1>2. WorkInv'
  BY DEF StoreInv, WorkInv, Exempt, In, backend_for_target
<1>3. AloneInv' /\ ExportInv'
  BY DEF StoreInv, AloneInv, ExportInv, Holds
<1> QED BY <1>1, <1>2, <1>3 DEF StoreInv

-----------------------------------------------------------------------------

\* Nothing is stored at first.
LEMMA InitInv ==
    Init => Inv
<1> SUFFICES ASSUME Init PROVE Inv
  OBVIOUS
<1>1. Types
  BY DEF Init, Types, ConfigTypes, FileTypes, ThreadTypes, Ops, Idle, Work
<1>2. LocationInv /\ CopyInv /\ PresentInv /\ FreshInv
  BY StoreAssumption DEF Init, LocationInv, CopyInv, PresentInv, FreshInv, In
<1>3. WorkInv /\ AloneInv /\ ExportInv
  BY DEF Init, WorkInv, AloneInv, ExportInv, Holds, Idle, Work
<1> QED BY <1>1, <1>2, <1>3 DEF Inv, StoreInv

\* Every step keeps the invariant.
LEMMA StepInv ==
    Inv /\ [Next]_vars => Inv'
<1> SUFFICES ASSUME Types, StoreInv, [Next]_vars PROVE Types' /\ StoreInv'
  BY DEF Inv
<1>1. Types'
  BY TypeStep DEF StoreInv
<1>2. ASSUME ConfigStep PROVE StoreInv'
  BY <1>2, ConfigKeeps
<1>3. ASSUME NEW h \in Threads, Beginning(h) PROVE StoreInv'
  BY <1>3, BeginningKeeps
<1>4. ASSUME NEW h \in Threads, store_file(h) PROVE StoreInv'
  BY <1>4, StoreKeeps
<1>5. ASSUME NEW h \in Threads, commit_row(h) PROVE StoreInv'
  BY <1>5, CommitRowKeeps
<1>6. ASSUME NEW h \in Threads, remove_file(h) PROVE StoreInv'
  BY <1>6, RemoveKeeps
<1>7. ASSUME NEW h \in Threads, commit_removal(h) PROVE StoreInv'
  BY <1>7, CommitRemovalKeeps
<1>8. ASSUME NEW h \in Threads,
             commit_policy(h) \/ stream_export(h) \/ write_manifest(h)
      PROVE  StoreInv'
  BY <1>8, OthersKeep
<1>9. ASSUME (\E f \in Files : expire(f)) \/ UNCHANGED vars PROVE StoreInv'
  BY <1>9, StoreStutters DEF expire, vars, configVars, fileVars
<1>10. StoreInv'
  BY <1>2, <1>3, <1>4, <1>5, <1>6, <1>7, <1>8, <1>9, Steps
<1> QED BY <1>1, <1>10

\* The invariant.
LEMMA Invariance ==
    Spec => []Inv
<1> QED BY InitInv, StepInv, PTL DEF Spec

\* Held is what threads hold.
LEMMA HeldIsHeld ==
    ASSUME NEW f, NEW h \in Threads, Holds(h, f) PROVE f \in Held
BY DEF Holds, Held

\* A NAS outage loses no file: what has a row is read from where the row says,
\* but for what was moved, is being removed, or had a removal refused half-way
\* (services/storage, services/retention.py).
THEOREM ReadableRows ==
    Spec => []RowsAreReadable
<1>1. Inv => RowsAreReadable
  <2> SUFFICES ASSUME Inv, NEW f \in rows, location[f] \notin moved, f \notin Held \cup marred
               PROVE  load_file(f)
    BY DEF RowsAreReadable
  <2>1. f \in Files /\ location[f] \in targets \cup {Local}
    BY DEF Inv, Types, FileTypes, StoreInv, LocationInv, Locations
  <2>2. In(f, backend_for_target(location[f]))
    BY HeldIsHeld DEF Inv, StoreInv, PresentInv, Exempt
  <2> QED BY <2>1, <2>2 DEF load_file, In
<1> QED BY <1>1, Invariance, PTL

\* Removal takes the file before its row, and a put that gets no row leaves its
\* file: but for those mishaps and moved targets, what has no row is nowhere
\* (services/retention.py, services/storage).
THEOREM NoOrphans ==
    Spec => []NothingOutlivesItsRow
<1>1. Inv => NothingOutlivesItsRow
  <2> SUFFICES ASSUME Inv, NEW f \in Files \ rows, location[f] \notin moved,
                      f \notin Held \cup marred, NEW p \in Places
               PROVE  ~In(f, p)
    BY DEF NothingOutlivesItsRow, In
  <2>1. CASE location[f] = None
    BY <2>1, HeldIsHeld DEF Inv, StoreInv, FreshInv
  <2>2. CASE location[f] # None
    BY <2>2 DEF Inv, StoreInv, CopyInv, Exempt
  <2> QED BY <2>1, <2>2
<1> QED BY <1>1, Invariance, PTL

\* What an archive has and what its manifest reports missing are what was
\* selected (services/recording_export.py).
THEOREM CompleteExports ==
    Spec => []ExportAccountsForAll
<1>1. Inv => ExportAccountsForAll
  BY DEF Inv, StoreInv, ExportInv, ExportAccountsForAll
<1> QED BY <1>1, Invariance, PTL
=============================================================================
