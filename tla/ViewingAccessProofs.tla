------------------------ MODULE ViewingAccessProofs ------------------------
(***************************************************************************)
(* Proofs about ViewingAccess, for any numbers of endpoints, groups,       *)
(* sessions, threads and restarts, the refinement of ViewingSessions among *)
(* them.                                                                   *)
(***************************************************************************)
EXTENDS ViewingAccess, TLAPS

\* The parts of TypeOK.
ScopeTypes ==
    /\ groups \in SUBSET Groups
    /\ members \in [Groups -> SUBSET Endpoints]
    /\ assigned \in SUBSET Groups
    /\ includes \in SUBSET Endpoints /\ excludes \in SUBSET Endpoints
    /\ request \in [Threads -> [op: Ops, group: Groups \cup {None}, add: SUBSET Endpoints,
                                remove: SUBSET Endpoints, groups: SUBSET Groups]]
    /\ strayed \in [{"members", "assigned"} -> SUBSET Groups]

ViewTypes ==
    /\ row \in [Sessions -> [endpoint: Endpoints \cup {None}, ended: BOOLEAN]]
    /\ place \in [Sessions -> Places]
    /\ socket \in [Sessions -> Endpoints \cup {None}]
    /\ restarts \in 0..MaxRestarts

\* A change of a group's members is of a group.
RequestInv == \A h \in Threads :
    request[h].op = "set_group_members" => request[h].group \in Groups

\* What a group keeps after its deletion was written by a request that had read before it.
StrayInv ==
    \A g \in Groups \ groups :
        /\ members[g] # {} => g \in strayed["members"]
        /\ g \in assigned => g \in strayed["assigned"]

\* A session that was issued names its endpoint, a socket is of a session that
\* is watched, and an end is stamped last.
SessionInv ==
    \A s \in Sessions :
        /\ place[s] = "none" <=> row[s].endpoint = None
        /\ socket[s] # None => place[s] = "watching" /\ socket[s] = row[s].endpoint
        /\ row[s].ended => place[s] = "gone"

Inv == TypeOK /\ RequestInv /\ StrayInv /\ SessionInv

-----------------------------------------------------------------------------

\* A step is one of the scope or one of viewing, or the restart.
ScopeStep ==
    \/ \E g \in Groups : create_group(g) \/ delete_group(g)
    \/ \E h \in Threads :
         \/ \E g \in Groups : set_group_members(h, g)
         \/ set_admin_scope(h)
         \/ commit_set_group_members(h)
         \/ commit_set_admin_scope(h)

ViewStep ==
    \E s \in Sessions :
         \/ \E e \in Endpoints : issue_ticket(s, e)
         \/ tickets_issue(s)
         \/ \E e \in Endpoints : viewer_socket(s, e)
         \/ _prune_locked(s)
         \/ unregister_viewer(s)
         \/ _close_session(s)

\* The two halves of the state have little to do with each other, ...
LEMMA ScopeApart == ScopeStep => UNCHANGED viewVars
BY DEF ScopeStep, create_group, delete_group, set_group_members, set_admin_scope, Read,
       commit_set_group_members, commit_set_admin_scope, Written

\* ... except that what may be watched depends on the scope.
LEMMA ViewApart == ViewStep => UNCHANGED <<scopeVars, request>>
BY DEF ViewStep, issue_ticket, tickets_issue, viewer_socket, _prune_locked,
       unregister_viewer, _close_session

\* What a request wants is a set of endpoints, or of groups.
LEMMA ReadStep ==
    ASSUME ScopeTypes, RequestInv, NEW h \in Threads, NEW op \in Ops, NEW g \in Groups \cup {None},
           NEW a \in SUBSET Endpoints, NEW d \in SUBSET Endpoints, NEW v \in SUBSET Groups,
           op = "set_group_members" => g \in Groups,
           Read(h, [op |-> op, group |-> g, add |-> a, remove |-> d, groups |-> v])
    PROVE  ScopeTypes' /\ RequestInv'
BY DEF ScopeTypes, RequestInv, Read, scopeVars

\* The steps of the scope keep its types.
LEMMA ScopeTypeStep ==
    ASSUME ScopeTypes, RequestInv, [Next]_vars PROVE ScopeTypes' /\ RequestInv'
<1>1. ASSUME NEW g \in Groups, create_group(g) \/ delete_group(g)
      PROVE  ScopeTypes' /\ RequestInv'
  BY <1>1 DEF create_group, delete_group, ScopeTypes, RequestInv
<1>2. ASSUME NEW h \in Threads, NEW g \in Groups, set_group_members(h, g)
      PROVE  ScopeTypes' /\ RequestInv'
  <2>1. PICK w \in SUBSET Endpoints :
          Read(h, [op |-> "set_group_members", group |-> g, add |-> w \ members[g],
                   remove |-> members[g] \ w, groups |-> {}])
    BY <1>2 DEF set_group_members
  <2>2. members[g] \in SUBSET Endpoints
    BY DEF ScopeTypes
  <2>3. w \ members[g] \in SUBSET Endpoints /\ members[g] \ w \in SUBSET Endpoints
    BY <2>2
  <2> QED BY <2>1, <2>3, ReadStep DEF Ops
<1>3. ASSUME NEW h \in Threads, set_admin_scope(h)
      PROVE  ScopeTypes' /\ RequestInv'
  <2>1. PICK v \in SUBSET groups, e \in SUBSET Endpoints, i \in SUBSET Endpoints :
          Read(h, [op |-> "set_admin_scope", group |-> None, add |-> i \ e,
                   remove |-> e, groups |-> v])
    BY <1>3 DEF set_admin_scope
  <2>2. v \in SUBSET Groups /\ i \ e \in SUBSET Endpoints
    BY DEF ScopeTypes
  <2> QED BY <2>1, <2>2, ReadStep DEF Ops
<1>4. ASSUME NEW h \in Threads, commit_set_group_members(h)
      PROVE  ScopeTypes' /\ RequestInv'
  <2> DEFINE r == request[h]
  <2>1. /\ r.group \in Groups /\ r.add \in SUBSET Endpoints /\ r.remove \in SUBSET Endpoints
        /\ members[r.group] \in SUBSET Endpoints
    BY <1>4 DEF commit_set_group_members, ScopeTypes, RequestInv
  <2>2. members' = [members EXCEPT ![r.group] = (members[r.group] \cup r.add) \ r.remove]
    BY <1>4 DEF commit_set_group_members
  <2>3. strayed' = [strayed EXCEPT !["members"] = strayed["members"] \cup ({r.group} \ groups)]
    BY <1>4 DEF commit_set_group_members
  <2>4. request' = [request EXCEPT ![h] = Idle] /\ UNCHANGED <<groups, assigned, includes, excludes>>
    BY <1>4 DEF commit_set_group_members, Written
  <2>5. members' \in [Groups -> SUBSET Endpoints]
    BY <2>1, <2>2 DEF ScopeTypes
  <2>6. strayed' \in [{"members", "assigned"} -> SUBSET Groups]
    BY <2>1, <2>3 DEF ScopeTypes
  <2> QED BY <2>4, <2>5, <2>6 DEF ScopeTypes, RequestInv, Idle, Ops
<1>5. ASSUME NEW h \in Threads, commit_set_admin_scope(h)
      PROVE  ScopeTypes' /\ RequestInv'
  BY <1>5 DEF commit_set_admin_scope, Written, Idle, Ops, ScopeTypes, RequestInv
<1>6. CASE restart
  BY <1>6 DEF restart, Idle, Ops, scopeVars, ScopeTypes, RequestInv
<1>7. CASE UNCHANGED <<scopeVars, request>>
  BY <1>7 DEF scopeVars, ScopeTypes, RequestInv
<1> QED
  BY <1>1, <1>2, <1>3, <1>4, <1>5, <1>6, <1>7, ViewApart DEF Next, ViewStep, vars

\* The steps of viewing keep theirs.
LEMMA ViewTypeStep ==
    ASSUME ViewTypes, [Next]_vars PROVE ViewTypes'
<1> USE ViewingAssumption DEF ViewTypes, Places
<1>1. ASSUME NEW s \in Sessions, NEW e \in Endpoints, issue_ticket(s, e) PROVE ViewTypes'
  BY <1>1 DEF issue_ticket
<1>2. ASSUME NEW s \in Sessions, tickets_issue(s) \/ _prune_locked(s) PROVE ViewTypes'
  BY <1>2 DEF tickets_issue, _prune_locked
<1>3. ASSUME NEW s \in Sessions, NEW e \in Endpoints, viewer_socket(s, e) PROVE ViewTypes'
  BY <1>3 DEF viewer_socket
<1>4. ASSUME NEW s \in Sessions, unregister_viewer(s) PROVE ViewTypes'
  BY <1>4 DEF unregister_viewer
<1>5. ASSUME NEW s \in Sessions, _close_session(s) PROVE ViewTypes'
  BY <1>5 DEF _close_session
<1>6. CASE restart
  BY <1>6 DEF restart
<1>7. CASE UNCHANGED viewVars
  BY <1>7 DEF viewVars
<1> QED
  BY <1>1, <1>2, <1>3, <1>4, <1>5, <1>6, <1>7, ScopeApart DEF Next, ScopeStep, vars

\* Only a request that read a group before its deletion gives it anything after.
LEMMA StrayStep ==
    ASSUME ScopeTypes, RequestInv, StrayInv, [Next]_vars PROVE StrayInv'
<1> USE DEF ScopeTypes, StrayInv
<1>1. ASSUME NEW g \in Groups, create_group(g) PROVE StrayInv'
  BY <1>1 DEF create_group
<1>2. ASSUME NEW g \in Groups, delete_group(g) PROVE StrayInv'
  BY <1>2 DEF delete_group
<1>3. ASSUME NEW h \in Threads, commit_set_group_members(h) PROVE StrayInv'
  BY <1>3 DEF commit_set_group_members
<1>4. ASSUME NEW h \in Threads, commit_set_admin_scope(h) PROVE StrayInv'
  BY <1>4 DEF commit_set_admin_scope
<1>5. CASE UNCHANGED scopeVars
  BY <1>5 DEF scopeVars
<1> QED
  BY <1>1, <1>2, <1>3, <1>4, <1>5, ViewApart
     DEF Next, ViewStep, set_group_members, set_admin_scope, Read, restart, vars

\* Tickets are committed before they exist and are redeemed once, for their endpoint.
LEMMA SessionStep ==
    ASSUME ViewTypes, SessionInv, [Next]_vars PROVE SessionInv'
<1> USE ViewingAssumption DEF ViewTypes, SessionInv
<1>1. ASSUME NEW s \in Sessions, NEW e \in Endpoints, issue_ticket(s, e) PROVE SessionInv'
  BY <1>1 DEF issue_ticket
<1>2. ASSUME NEW s \in Sessions, tickets_issue(s) \/ _prune_locked(s) PROVE SessionInv'
  BY <1>2 DEF tickets_issue, _prune_locked
<1>3. ASSUME NEW s \in Sessions, NEW e \in Endpoints, viewer_socket(s, e) PROVE SessionInv'
  BY <1>3 DEF viewer_socket, redeem
<1>4. ASSUME NEW s \in Sessions, unregister_viewer(s) PROVE SessionInv'
  BY <1>4 DEF unregister_viewer
<1>5. ASSUME NEW s \in Sessions, _close_session(s) PROVE SessionInv'
  BY <1>5 DEF _close_session
<1>6. CASE restart
  BY <1>6 DEF restart
<1>7. CASE UNCHANGED viewVars
  BY <1>7 DEF viewVars
<1> QED
  BY <1>1, <1>2, <1>3, <1>4, <1>5, <1>6, <1>7, ScopeApart DEF Next, ScopeStep, vars

\* TypeOK by its parts.
LEMMA TypeParts == TypeOK <=> ScopeTypes /\ ViewTypes
BY Zenon DEF TypeOK, ScopeTypes, ViewTypes

\* The invariant holds in every reachable state.
LEMMA Invariance == Spec => []Inv
<1>1. Init => Inv
  <2>1. Init => ScopeTypes /\ RequestInv
    BY DEF Init, ScopeTypes, RequestInv, Idle, Ops
  <2>2. Init => ViewTypes
    BY ViewingAssumption DEF Init, ViewTypes, Places
  <2>3. Init => StrayInv /\ SessionInv
    BY DEF Init, StrayInv, SessionInv
  <2> QED BY <2>1, <2>2, <2>3, TypeParts DEF Inv
<1>2. Inv /\ [Next]_vars => Inv'
  <2>1. ASSUME Inv, [Next]_vars 
        PROVE  ScopeTypes' /\ RequestInv' /\ ViewTypes' /\ StrayInv' /\ SessionInv'
    BY <2>1, TypeParts, ScopeTypeStep, ViewTypeStep, StrayStep, SessionStep DEF Inv
  <2>2. ASSUME ScopeTypes', ViewTypes' PROVE TypeOK'
    BY <2>2, Zenon DEF TypeOK, ScopeTypes, ViewTypes
  <2> QED BY <2>1, <2>2 DEF Inv
<1> QED
  BY <1>1, <1>2, PTL DEF Spec

\* Rows, tickets, requests and the tables of scope stay in their types.
THEOREM TypeCorrect == Spec => []TypeOK
BY Invariance, PTL DEF Inv

\* A deleted group shows nobody anything, unless two requests that had read it
\* both wrote after it was gone.
THEOREM DeletedGroups == Spec => []DeletedGroupGrantsNothing
<1>1. Inv => DeletedGroupGrantsNothing
  BY TypeParts DEF Inv, StrayInv, DeletedGroupGrantsNothing, ScopeTypes
<1> QED
  BY <1>1, Invariance, PTL

\* A socket shows what the audit trail says it shows, while the session is open.
THEOREM AuditedViews == Spec => []ShowsWhatWasAudited
<1>1. Inv => ShowsWhatWasAudited
  BY DEF Inv, SessionInv, ShowsWhatWasAudited
<1> QED
  BY <1>1, Invariance, PTL

-----------------------------------------------------------------------------

\* Steps that leave the views alone leave what ViewingSessions sees alone.
LEMMA PromiseStutters == UNCHANGED viewVars => UNCHANGED Promise!vars
BY DEF viewVars, Promise!vars, PhaseOf

\* Every step is one of ViewingSessions, or one it does not see.
LEMMA PromiseStep ==
    ASSUME ViewTypes, SessionInv, [Next]_vars
    PROVE  [Promise!Next]_(Promise!vars)
<1> DEFINE phase == [s \in Sessions |-> PhaseOf(s)]
           shows == [s \in Sessions |-> row[s].endpoint]
<1> USE ViewingAssumption DEF ViewTypes, SessionInv
<1>1. ASSUME NEW s \in Sessions, NEW e \in Endpoints, issue_ticket(s, e)
      PROVE  Promise!Announce(s)
  <2>1. phase[s] = "none"
    BY <1>1 DEF issue_ticket, PhaseOf
  <2>2. shows' = [shows EXCEPT ![s] = e]
    BY <1>1 DEF issue_ticket
  <2>3. phase' = [phase EXCEPT ![s] = "announced"]
    BY <1>1 DEF issue_ticket, PhaseOf
  <2> QED BY <2>1, <2>2, <2>3 DEF Promise!Announce
<1>2. ASSUME NEW s \in Sessions, tickets_issue(s) \/ _close_session(s)
      PROVE  UNCHANGED Promise!vars
  <2>1. shows' = shows
    BY <1>2 DEF tickets_issue, _close_session
  <2>2. phase' = phase
    BY <1>2 DEF tickets_issue, _close_session, PhaseOf
  <2> QED BY <2>1, <2>2 DEF Promise!vars
<1>3. ASSUME NEW s \in Sessions, NEW e \in Endpoints, viewer_socket(s, e), e = row[s].endpoint
      PROVE  Promise!Watch(s)
  <2>1. phase[s] = "announced" /\ shows' = shows
    BY <1>3 DEF viewer_socket, redeem, PhaseOf
  <2>2. phase' = [phase EXCEPT ![s] = "watching"]
    BY <1>3 DEF viewer_socket, redeem, PhaseOf
  <2> QED BY <2>1, <2>2 DEF Promise!Watch
<1>4. ASSUME NEW s \in Sessions,
             \/ \E e \in Endpoints : viewer_socket(s, e) /\ e # row[s].endpoint
             \/ _prune_locked(s) \/ unregister_viewer(s)
      PROVE  Promise!End
  <2>1. shows' = shows
    BY <1>4 DEF viewer_socket, _prune_locked, unregister_viewer
  <2>2. s \in {q \in Sessions : phase[q] \in {"announced", "watching"}}
    BY <1>4 DEF viewer_socket, redeem, _prune_locked, unregister_viewer, PhaseOf
  <2>3. phase' = [q \in Sessions |-> IF q \in {s} THEN "over" ELSE phase[q]]
    BY <1>4 DEF viewer_socket, redeem, _prune_locked, unregister_viewer, PhaseOf
  <2>4. {s} \in SUBSET {q \in Sessions : phase[q] \in {"announced", "watching"}}
    BY <2>2
  <2> HIDE DEF phase, shows
  <2> QED BY <2>1, <2>3, <2>4, Zenon DEF Promise!End, phase, shows
<1>5. CASE restart
  <2> DEFINE open == {q \in Sessions : phase[q] \in {"announced", "watching"}}
  <2>1. shows' = shows
    BY <1>5 DEF restart
  <2>2. phase' = [q \in Sessions |-> IF q \in open THEN "over" ELSE phase[q]]
    BY <1>5 DEF restart, PhaseOf
  <2>3. open \in SUBSET open
    OBVIOUS
  <2>4. Promise!End
    BY <2>1, <2>2, <2>3, Zenon DEF Promise!End
  <2> QED BY <2>4 DEF Promise!Next
<1>6. CASE ScopeStep \/ UNCHANGED vars
  BY <1>6, ScopeApart, PromiseStutters DEF vars
<1> QED
  BY <1>1, <1>2, <1>3, <1>4, <1>5, <1>6 DEF Next, ScopeStep, Promise!Next

\* The sessions keep what ViewingSessions promises: announced before anything
\* is seen, of one endpoint, to one viewer, and over when they are over.
THEOREM PromiseKept == Spec => SessionsKeepPromise
<1>1. Init => Promise!Init
  BY DEF Init, Promise!Init, PhaseOf
<1>2. Inv /\ [Next]_vars => [Promise!Next]_(Promise!vars)
  BY PromiseStep, TypeParts DEF Inv
<1> QED
  BY <1>1, <1>2, Invariance, PTL DEF Spec, SessionsKeepPromise, Promise!Spec
=============================================================================
