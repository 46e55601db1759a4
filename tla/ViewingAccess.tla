--------------------------- MODULE ViewingAccess ---------------------------
(***************************************************************************)
(* Which endpoints an administrator may see (security/rbac.py,             *)
(* api/groups.py) and the sessions in which one is watched (api/screen.py, *)
(* services/screen_tickets.py, viewer_socket of api/screen_ws.py), for one *)
(* administrator with role ADMIN.                                          *)
(*                                                                         *)
(* A request reads, and writes what it decided on later.  The database as  *)
(* shipped, SQLite, makes the writes of a request atomic and enforces no   *)
(* foreign key.  Tickets and sockets live in the server's memory.          *)
(***************************************************************************)
EXTENDS Naturals

CONSTANTS
    Endpoints, Groups,
    Sessions,           \* rows of the screen_sessions table, with their tickets
    Threads,            \* server threads
    MaxRestarts,        \* bound: restarts of the server
    None

ASSUME ViewingAssumption ==
    /\ None \notin Endpoints \cup Groups
    /\ MaxRestarts \in Nat

VARIABLES
    groups,             \* the endpoint_groups table
    members,            \* the endpoint_group_members table, per group
    assigned,           \* the administrator's group assignments
    includes, excludes, \* the administrator's individual exceptions
    request,            \* per thread, the change of scope it read for and will write
    strayed,            \* groups a request wrote members or an assignment of after they were gone
    row,                \* per session, its endpoint and whether its end is stamped
    place,              \* per session, where it is in the server's memory
    socket,             \* per session, the endpoint its viewer is registered with
    restarts            \* bounded count of restarts

scopeVars == <<groups, members, assigned, includes, excludes, strayed>>
viewVars == <<row, place, socket, restarts>>
vars == <<scopeVars, viewVars, request>>

Idle == [op |-> "idle", group |-> None, add |-> {}, remove |-> {}, groups |-> {}]
Ops == {"idle", "set_group_members", "set_admin_scope"}
Places == {"none", "committed", "ticket", "watching", "leaving", "gone"}

TypeOK ==
    /\ groups \in SUBSET Groups
    /\ members \in [Groups -> SUBSET Endpoints]
    /\ assigned \in SUBSET Groups
    /\ includes \in SUBSET Endpoints /\ excludes \in SUBSET Endpoints
    /\ request \in [Threads -> [op: Ops, group: Groups \cup {None}, add: SUBSET Endpoints,
                                remove: SUBSET Endpoints, groups: SUBSET Groups]]
    /\ strayed \in [{"members", "assigned"} -> SUBSET Groups]
    /\ row \in [Sessions -> [endpoint: Endpoints \cup {None}, ended: BOOLEAN]]
    /\ place \in [Sessions -> Places]
    /\ socket \in [Sessions -> Endpoints \cup {None}]
    /\ restarts \in 0..MaxRestarts

Init ==
    /\ groups = {} /\ members = [g \in Groups |-> {}]
    /\ assigned = {} /\ includes = {} /\ excludes = {}
    /\ request = [h \in Threads |-> Idle]
    /\ strayed = [kind \in {"members", "assigned"} |-> {}]
    /\ row = [s \in Sessions |-> [endpoint |-> None, ended |-> FALSE]]
    /\ place = [s \in Sessions |-> "none"]
    /\ socket = [s \in Sessions |-> None]
    /\ restarts = 0

-----------------------------------------------------------------------------
(* Scope                                                                   *)

endpoint_ids_in_scope ==
    (UNION {members[g] : g \in assigned} \cup includes) \ excludes

Read(h, r) ==
    /\ request[h] = Idle
    /\ request' = [request EXCEPT ![h] = r]
    /\ UNCHANGED <<scopeVars, viewVars>>

\* A group's id is not used again.
create_group(g) ==
    /\ g \notin groups /\ members[g] = {} /\ g \notin assigned
    /\ \A kind \in DOMAIN strayed : g \notin strayed[kind]
    /\ \A h \in Threads : request[h].group # g /\ g \notin request[h].groups
    /\ groups' = groups \cup {g}
    /\ UNCHANGED <<members, assigned, includes, excludes, strayed, request, viewVars>>

\* Mutant of delete_group: its members and its assignments are left.
delete_group_only(g) ==
    /\ g \in groups
    /\ groups' = groups \ {g}
    /\ UNCHANGED <<members, assigned, includes, excludes, strayed, request, viewVars>>

delete_group(g) ==
    /\ g \in groups
    /\ groups' = groups \ {g}
    /\ members' = [members EXCEPT ![g] = {}]
    /\ assigned' = assigned \ {g}
    /\ UNCHANGED <<includes, excludes, strayed, request, viewVars>>

\* The difference between what is wanted and what is there now.
set_group_members(h, g) ==
    /\ g \in groups
    /\ \E wanted \in SUBSET Endpoints :
         Read(h, [op |-> "set_group_members", group |-> g, add |-> wanted \ members[g],
                  remove |-> members[g] \ wanted, groups |-> {}])

set_admin_scope(h) ==
    /\ \E valid \in SUBSET groups, e \in SUBSET Endpoints, i \in SUBSET Endpoints :
         Read(h, [op |-> "set_admin_scope", group |-> None, add |-> i \ e,
                  remove |-> e, groups |-> valid])

Written(h) ==
    /\ request' = [request EXCEPT ![h] = Idle]
    /\ UNCHANGED viewVars

commit_set_group_members(h) ==
    /\ request[h].op = "set_group_members"
    /\ LET r == request[h] IN
         /\ members' = [members EXCEPT ![r.group] = (@ \cup r.add) \ r.remove]
         /\ strayed' = [strayed EXCEPT !["members"] = @ \cup ({r.group} \ groups)]
    /\ UNCHANGED <<groups, assigned, includes, excludes>>
    /\ Written(h)

commit_set_admin_scope(h) ==
    /\ request[h].op = "set_admin_scope"
    /\ assigned' = request[h].groups
    /\ includes' = request[h].add
    /\ excludes' = request[h].remove
    /\ strayed' = [strayed EXCEPT !["assigned"] = @ \cup (request[h].groups \ groups)]
    /\ UNCHANGED <<groups, members>>
    /\ Written(h)

-----------------------------------------------------------------------------
(* Viewing                                                                 *)

\* The session's row and the audit entry are committed before there is a ticket.
issue_ticket(s, e) ==
    /\ e \in endpoint_ids_in_scope
    /\ place[s] = "none"
    /\ row' = [row EXCEPT ![s].endpoint = e]
    /\ place' = [place EXCEPT ![s] = "committed"]
    /\ UNCHANGED <<scopeVars, request, socket, restarts>>

tickets_issue(s) ==
    /\ place[s] = "committed"
    /\ place' = [place EXCEPT ![s] = "ticket"]
    /\ UNCHANGED <<scopeVars, request, row, socket, restarts>>

\* Mutant of redeem: a ticket is looked up and stays.
redeem_again(s) == place[s] \in {"ticket", "watching", "leaving"}

redeem(s) == place[s] = "ticket"

\* Mutant of viewer_socket: the ticket's endpoint is not compared.
viewer_socket_unbound(s, e) ==
    /\ redeem(s)
    /\ place' = [place EXCEPT ![s] = "watching"]
    /\ socket' = [socket EXCEPT ![s] = e]
    /\ UNCHANGED <<scopeVars, request, row, restarts>>

\* A ticket is consumed by the first socket that brings it, also by one of
\* another endpoint.
viewer_socket(s, e) ==
    /\ redeem(s)
    /\ place' = [place EXCEPT ![s] = IF e = row[s].endpoint THEN "watching" ELSE "gone"]
    /\ socket' = IF e = row[s].endpoint THEN [socket EXCEPT ![s] = e] ELSE socket
    /\ UNCHANGED <<scopeVars, request, row, restarts>>

_prune_locked(s) ==
    /\ place[s] = "ticket"
    /\ place' = [place EXCEPT ![s] = "gone"]
    /\ UNCHANGED <<scopeVars, request, row, socket, restarts>>

unregister_viewer(s) ==
    /\ place[s] = "watching"
    /\ place' = [place EXCEPT ![s] = "leaving"]
    /\ socket' = [socket EXCEPT ![s] = None]
    /\ UNCHANGED <<scopeVars, request, row, restarts>>

\* The end is stamped, unless the database refuses.
_close_session(s) ==
    /\ place[s] = "leaving"
    /\ place' = [place EXCEPT ![s] = "gone"]
    /\ row' = [row EXCEPT ![s].ended = TRUE] \/ UNCHANGED row
    /\ UNCHANGED <<scopeVars, request, socket, restarts>>

\* Tickets, sockets and requests go with the process; rows stay as they are.
restart ==
    /\ restarts < MaxRestarts
    /\ restarts' = restarts + 1
    /\ request' = [h \in Threads |-> Idle]
    /\ place' = [s \in Sessions |-> IF place[s] = "none" THEN "none" ELSE "gone"]
    /\ socket' = [s \in Sessions |-> None]
    /\ UNCHANGED <<scopeVars, row>>

Next ==
    \/ \E g \in Groups : create_group(g) \/ delete_group(g)
    \/ \E h \in Threads :
         \/ \E g \in Groups : set_group_members(h, g)
         \/ set_admin_scope(h)
         \/ commit_set_group_members(h)
         \/ commit_set_admin_scope(h)
    \/ \E s \in Sessions :
         \/ \E e \in Endpoints : issue_ticket(s, e)
         \/ tickets_issue(s)
         \/ \E e \in Endpoints : viewer_socket(s, e)
         \/ _prune_locked(s)
         \/ unregister_viewer(s)
         \/ _close_session(s)
    \/ restart

Spec == Init /\ [][Next]_vars

-----------------------------------------------------------------------------

\* A deleted group shows nobody anything (api/groups.py: "admins would keep a
\* dangling grant"), unless two requests, one for its members and one for the
\* administrator's scope, both wrote after it was gone.
DeletedGroupGrantsNothing ==
    \A g \in Groups \ groups :
        members[g] = {} \/ g \notin assigned \/ g \in strayed["members"] \cap strayed["assigned"]

\* A socket shows the endpoint its session's row and audit entry name
\* (api/screen.py), while the row is open.
ShowsWhatWasAudited ==
    \A s \in Sessions :
        socket[s] # None => socket[s] = row[s].endpoint /\ ~row[s].ended

\* A session as its viewer and its auditor see it.
PhaseOf(s) ==
    CASE row[s].endpoint = None -> "none"
      [] place[s] \in {"committed", "ticket"} -> "announced"
      [] place[s] = "watching" -> "watching"
      [] OTHER -> "over"

Promise == INSTANCE ViewingSessions WITH
    phase <- [s \in Sessions |-> PhaseOf(s)],
    shows <- [s \in Sessions |-> row[s].endpoint]

\* The sessions keep what ViewingSessions promises of them.
SessionsKeepPromise == Promise!Spec
=============================================================================
