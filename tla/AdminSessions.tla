--------------------------- MODULE AdminSessions ---------------------------
(***************************************************************************)
(* The administrators' accounts and sessions (server/app/security/         *)
(* tokens.py, security/authn.py, api/auth.py, api/users.py, cli.py).       *)
(*                                                                         *)
(* An access token is stateless: it carries the epoch its user had and is  *)
(* good as long as that has not changed.  A refresh token is a row that is *)
(* exchanged once; the rows that descend from one login are a family.  A   *)
(* request reads what it decides on, hashes passwords meanwhile, and       *)
(* commits later; what it writes, an epoch too, is what it computed from   *)
(* its read.                                                               *)
(***************************************************************************)
EXTENDS Naturals, FiniteSets

CONSTANTS
    Users,              \* accounts
    Tokens,             \* rows of the refresh_tokens table
    Threads,            \* server threads and shells of the operator
    MaxInvalidations,   \* bound: invalidations that are committed per account
    None

ASSUME SessionsAssumption == MaxInvalidations \in Nat /\ None \notin Users \cup Tokens

VARIABLES
    user,               \* the users table
    refresh,            \* the refresh_tokens table
    access,             \* access tokens that are out and have not expired
    thread,             \* per thread, the request it serves
    invalidated,        \* per account, how often its sessions were all ended
    burned,             \* families a reuse was detected in
    raced               \* accounts two conflicting requests were busy with at once

vars == <<user, refresh, access, thread, invalidated, burned, raced>>

Roles == {"none", "SUPER_ADMIN", "ADMIN"}
Epochs == 0..MaxInvalidations

\* Requests that end every session of an account, and those that start or
\* continue one.
Invalidations == {"change_password", "suspend", "change_role", "delete_user"}
SessionOps == {"login", "refresh", "reuse"}
Ops == Invalidations \cup SessionOps \cup {"logout", "activate", "create_user", "bootstrap"}

NoUser == [role |-> "none", status |-> "ACTIVE", deleted |-> FALSE, epoch |-> 0]
NoToken == [user |-> None, family |-> None, state |-> "none", gen |-> 0]
Idle ==
    [op |-> "idle", user |-> None, role |-> "none", token |-> None, rows |-> {}, epoch |-> 0,
     gen |-> 0]

\* gen is the number of invalidations of the account before the login the
\* token descends from; it is not in the code.
TypeOK ==
    /\ user \in [Users -> [role: Roles, status: {"ACTIVE", "SUSPENDED"}, deleted: BOOLEAN,
                           epoch: Epochs]]
    /\ refresh \in [Tokens -> [user: Users \cup {None}, family: Tokens \cup {None},
                               state: {"none", "live", "used", "revoked"}, gen: Epochs]]
    /\ access \in SUBSET [user: Users, epoch: Epochs, gen: Epochs]
    /\ thread \in [Threads -> [op: Ops \cup {"idle"}, user: Users \cup {None},
                               role: Roles, token: Tokens \cup {None}, rows: SUBSET Tokens,
                               epoch: Epochs, gen: Epochs]]
    /\ invalidated \in [Users -> Epochs]
    /\ burned \in SUBSET Tokens
    /\ raced \in SUBSET (Users \cup {None})

Init ==
    /\ user = [u \in Users |-> NoUser]
    /\ refresh = [t \in Tokens |-> NoToken]
    /\ access = {}
    /\ thread = [h \in Threads |-> Idle]
    /\ invalidated = [u \in Users |-> 0]
    /\ burned = {}
    /\ raced = {}

-----------------------------------------------------------------------------
(* Reading                                                                 *)

exists(u) == user[u].role # "none" /\ ~user[u].deleted
is_active(u) == exists(u) /\ user[u].status = "ACTIVE"
is_super_admin(u) == user[u].role = "SUPER_ADMIN"

LiveTokens(u) == {t \in Tokens : refresh[t].user = u /\ refresh[t].state = "live"}
LiveFamily(f) == {t \in Tokens : refresh[t].family = f /\ refresh[t].state = "live"}

\* _load_authenticated_user
Accepted(token) == is_active(token.user) /\ token.epoch = user[token.user].epoch
Authenticated(u) == \E token \in access : token.user = u /\ Accepted(token)

count_active_super_admins == Cardinality({u \in Users : is_active(u) /\ is_super_admin(u)})

would_orphan_system(u) ==
    is_super_admin(u) /\ ~\E v \in Users \ {u} : is_active(v) /\ is_super_admin(v)

can_manage_user(actor, u) == is_super_admin(actor) \/ ~is_super_admin(u)

can_reset_password(actor, u) == actor = u \/ is_super_admin(actor)

\* Mutant of can_assign_role: a SUPER_ADMIN may make another.
can_assign_any_role(actor, role) == is_super_admin(actor) \/ role = "ADMIN"

can_assign_role(actor, role) == role = "ADMIN"

\* Two requests about one account conflict when one ends its sessions, or both
\* exchange its tokens; two operators' bootstraps conflict over the install.
Conflict(op1, op2) ==
    \/ op1 \in Invalidations /\ op2 \in Invalidations \cup SessionOps
    \/ op2 \in Invalidations /\ op1 \in SessionOps
    \/ op1 \in {"refresh", "reuse"} /\ op2 \in {"refresh", "reuse"}
    \/ op1 = "bootstrap" /\ op2 = "bootstrap"

Request(op, u) == [Idle EXCEPT !.op = op, !.user = u, !.epoch = user[u].epoch]

Account(req) == IF req.op = "bootstrap" THEN None ELSE req.user

\* A request read what it decides on; conflicts are noted.
Read(h, req) ==
    /\ thread[h] = Idle
    /\ thread' = [thread EXCEPT ![h] = req]
    /\ raced' = IF \E g \in Threads : /\ Conflict(thread[g].op, req.op)
                                      /\ Account(thread[g]) = Account(req)
                THEN raced \cup {Account(req)} ELSE raced
    /\ UNCHANGED <<user, refresh, access, invalidated, burned>>

login(h, u) ==
    /\ is_active(u)
    /\ Read(h, [Request("login", u) EXCEPT !.gen = invalidated[u]])

\* rotate_refresh_token: a token that was used already means theft.
present(h, t) ==
    \/ /\ refresh[t].state = "used"
       /\ Read(h, [Request("reuse", refresh[t].user) EXCEPT
                     !.token = t, !.rows = LiveFamily(refresh[t].family)])
    \/ /\ refresh[t].state = "live"
       /\ is_active(refresh[t].user)
       /\ Read(h, [Request("refresh", refresh[t].user) EXCEPT
                     !.token = t, !.gen = refresh[t].gen])

\* logout: of one session, or of all of them.
logout(h, u) ==
    /\ Authenticated(u)
    /\ \E rows \in {LiveTokens(u)} \cup {{t} : t \in LiveTokens(u)} :
         Read(h, [Request("logout", u) EXCEPT !.rows = rows])

\* invalidate_all_sessions, up to the commit.
invalidate_all_sessions(h, op, u) ==
    /\ exists(u)
    /\ invalidated[u] + Cardinality({g \in Threads : /\ thread[g].op \in Invalidations
                                                     /\ thread[g].user = u}) < MaxInvalidations
    /\ Read(h, [Request(op, u) EXCEPT !.rows = LiveTokens(u)])

\* An administrator acts on another's account, not on their own.
Managed(u) == \E actor \in Users \ {u} : Authenticated(actor) /\ can_manage_user(actor, u)

suspend(h, u) ==
    /\ Managed(u)
    /\ user[u].status = "ACTIVE" /\ ~would_orphan_system(u)
    /\ invalidate_all_sessions(h, "suspend", u)

change_role(h, u) ==
    /\ user[u].role # "ADMIN" /\ ~would_orphan_system(u)
    /\ \E actor \in Users \ {u} : /\ Authenticated(actor) /\ can_manage_user(actor, u)
                                  /\ can_assign_role(actor, "ADMIN")
    /\ invalidate_all_sessions(h, "change_role", u)

activate(h, u) ==
    /\ exists(u) /\ user[u].status = "SUSPENDED"
    /\ Managed(u)
    /\ Read(h, Request("activate", u))

change_password(h, u) ==
    /\ \E actor \in Users : /\ Authenticated(actor)
                            /\ can_reset_password(actor, u) /\ can_manage_user(actor, u)
    /\ invalidate_all_sessions(h, "change_password", u)

delete_user(h, u) ==
    /\ \E actor \in Users \ {u} : Authenticated(actor) /\ is_super_admin(actor)
    /\ ~would_orphan_system(u)
    /\ invalidate_all_sessions(h, "delete_user", u)

\* The operator's command needs no administrator.
reset_password(h, u) == invalidate_all_sessions(h, "change_password", u)

create_user(h, u) ==
    /\ user[u] = NoUser
    /\ \E actor \in Users, role \in Roles \ {"none"} :
         /\ Authenticated(actor)
         /\ can_assign_role(actor, role)
         /\ Read(h, [Request("create_user", u) EXCEPT !.role = role])

bootstrap_super_admin(h, u) ==
    /\ count_active_super_admins = 0
    /\ user[u] = NoUser
    /\ Read(h, [Request("bootstrap", u) EXCEPT !.role = "SUPER_ADMIN"])

-----------------------------------------------------------------------------
(* Committing                                                              *)

Revoked(rows) ==
    [t \in Tokens |-> IF t \in rows THEN [refresh[t] EXCEPT !.state = "revoked"] ELSE refresh[t]]

\* issue_token_pair, or what rotate_refresh_token issues.
Issue(r, old) ==
    /\ \E t \in Tokens :
         /\ refresh[t] = NoToken
         /\ refresh' = [old EXCEPT ![t] =
              [user |-> r.user, state |-> "live", gen |-> r.gen,
               family |-> IF r.token = None THEN t ELSE refresh[r.token].family]]
    /\ access' = access \cup {[user |-> r.user, epoch |-> r.epoch, gen |-> r.gen]}

commit_login(r) ==
    /\ r.op = "login"
    /\ Issue(r, refresh)
    /\ UNCHANGED <<user, invalidated, burned>>

commit_refresh(r) ==
    /\ r.op = "refresh"
    /\ Issue(r, [refresh EXCEPT ![r.token].state = "used"])
    /\ UNCHANGED <<user, invalidated, burned>>

\* Mutant of revoke_family: only the token that was presented.
revoke_presented(r) == Revoked({r.token})

revoke_family(r) == Revoked(r.rows)

commit_reuse(r) ==
    /\ r.op = "reuse"
    /\ refresh' = revoke_family(r)
    /\ burned' = burned \cup {refresh[r.token].family}
    /\ UNCHANGED <<user, access, invalidated>>

commit_logout(r) ==
    /\ r.op = "logout"
    /\ refresh' = Revoked(r.rows)
    /\ UNCHANGED <<user, access, invalidated, burned>>

\* Mutant of bumped_epoch: access tokens are forgotten.
unbumped_epoch(r) == r.epoch

\* The account's row: the epoch the request read, plus one.
bumped_epoch(r) == r.epoch + 1

commit_invalidation(r) ==
    /\ r.op \in Invalidations
    /\ user' = [user EXCEPT ![r.user] =
         [role |-> IF r.op = "change_role" THEN "ADMIN" ELSE @.role,
          status |-> IF r.op = "suspend" THEN "SUSPENDED" ELSE @.status,
          deleted |-> r.op = "delete_user" \/ @.deleted,
          epoch |-> bumped_epoch(r)]]
    /\ refresh' = Revoked(r.rows)
    /\ invalidated' = [invalidated EXCEPT ![r.user] = @ + 1]
    /\ UNCHANGED <<access, burned>>

commit_account(r) ==
    /\ \/ /\ r.op = "activate"
          /\ user' = [user EXCEPT ![r.user].status = "ACTIVE"]
       \/ /\ r.op \in {"create_user", "bootstrap"}
          /\ user[r.user] = NoUser
          /\ user' = [user EXCEPT ![r.user].role = r.role]
    /\ UNCHANGED <<refresh, access, invalidated, burned>>

commit(h) ==
    /\ \/ commit_login(thread[h])
       \/ commit_refresh(thread[h])
       \/ commit_reuse(thread[h])
       \/ commit_logout(thread[h])
       \/ commit_invalidation(thread[h])
       \/ commit_account(thread[h])
    /\ thread' = [thread EXCEPT ![h] = Idle]
    /\ UNCHANGED raced

\* The request fails: the username was taken meanwhile, the server restarts.
roll_back(h) ==
    /\ thread[h] # Idle
    /\ thread' = [thread EXCEPT ![h] = Idle]
    /\ UNCHANGED <<user, refresh, access, invalidated, burned, raced>>

Next ==
    \E h \in Threads :
      \/ \E u \in Users :
           \/ login(h, u)
           \/ logout(h, u)
           \/ suspend(h, u)
           \/ change_role(h, u)
           \/ activate(h, u)
           \/ change_password(h, u)
           \/ delete_user(h, u)
           \/ reset_password(h, u)
           \/ create_user(h, u)
           \/ bootstrap_super_admin(h, u)
      \/ \E t \in Tokens : present(h, t)
      \/ commit(h)
      \/ roll_back(h)

Spec == Init /\ [][Next]_vars

-----------------------------------------------------------------------------

\* invalidate_all_sessions ends every session: a refresh token that can be
\* exchanged and an access token that is accepted both come from a login after
\* the last invalidation of the account (security/tokens.py) -- unless two
\* conflicting requests about the account overlapped.
SessionsEnd ==
    \A u \in Users \ raced :
        /\ \A t \in LiveTokens(u) : refresh[t].gen = invalidated[u]
        /\ \A token \in access :
             token.user = u /\ Accepted(token) => token.gen = invalidated[u]

\* A login has one refresh token that can be exchanged, and none once one of
\* its tokens was presented twice (security/tokens.py), under the same proviso.
OneTokenPerFamily ==
    \A f \in Tokens :
        refresh[f].user \in raced
        \/ Cardinality(LiveFamily(f)) <= (IF f \in burned THEN 0 ELSE 1)

\* Once the first account was bootstrapped there is exactly one active
\* SUPER_ADMIN (security/rbac.py), unless two bootstraps overlapped.
OneSuperAdmin ==
    \/ None \in raced
    \/ \A u \in Users : ~is_super_admin(u)
    \/ count_active_super_admins = 1
=============================================================================
