------------------------ MODULE AdminSessionsProofs ------------------------
(***************************************************************************)
(* Proofs about AdminSessions, for any numbers of accounts, tokens,        *)
(* threads and invalidations.                                              *)
(***************************************************************************)
EXTENDS AdminSessions, FiniteSetTheorems, TLAPS

AccountRow == [role: Roles, status: {"ACTIVE", "SUSPENDED"}, deleted: BOOLEAN, epoch: Nat]
TokenRow == [user: Users \cup {None}, family: Tokens \cup {None},
           state: {"none", "live", "used", "revoked"}, gen: Nat]
RequestRecord == [op: Ops \cup {"idle"}, user: Users \cup {None}, role: Roles,
             token: Tokens \cup {None}, rows: SUBSET Tokens, epoch: Nat, gen: Nat]

\* TypeOK without its bounds.
Types ==
    /\ user \in [Users -> AccountRow]
    /\ refresh \in [Tokens -> TokenRow]
    /\ access \in SUBSET [user: Users, epoch: Nat, gen: Nat]
    /\ thread \in [Threads -> RequestRecord]
    /\ invalidated \in [Users -> Nat]
    /\ burned \in SUBSET Tokens

Issued(t) == refresh[t].state # "none"

\* A token belongs to a family that a login founded for its user.
TokenInv ==
    /\ \A t \in Tokens : Issued(t) =>
         /\ refresh[t].user \in Users /\ refresh[t].family \in Tokens
         /\ Issued(refresh[t].family)
         /\ refresh[refresh[t].family].user = refresh[t].user
    /\ \A f \in burned : Issued(f)

FamilyInv ==
    \A f \in Tokens : refresh[f].user \notin raced =>
        /\ \A s, t \in LiveFamily(f) : s = t
        /\ f \in burned => LiveFamily(f) = {}

\* Where no requests conflicted the epoch counts the invalidations.
EpochInv ==
    \A u \in Users \ raced :
        /\ user[u].epoch = invalidated[u]
        /\ \A t \in LiveTokens(u) : refresh[t].gen = invalidated[u]
        /\ \A token \in access : token.user = u => token.gen = token.epoch

\* What a request read is still so when it commits.
Sound(r) ==
    /\ r.op # "idle" => r.user \in Users
    /\ \A t \in r.rows : Issued(t)
    /\ r.op = "login" => r.token = None
    /\ r.op \in {"refresh", "reuse"} =>
         r.token \in Tokens /\ Issued(r.token) /\ refresh[r.token].user = r.user

Current(r) ==
    r.user \notin raced =>
        /\ r.op \in Invalidations \cup {"login", "refresh"} => r.epoch = user[r.user].epoch
        /\ r.op \in {"login", "refresh"} => r.gen = r.epoch
        /\ r.op \in Invalidations => LiveTokens(r.user) \subseteq r.rows
        /\ r.op = "refresh" => /\ LiveFamily(refresh[r.token].family) \subseteq {r.token}
                               /\ refresh[r.token].family \notin burned
        /\ r.op = "reuse" => LiveFamily(refresh[r.token].family) \subseteq r.rows

RequestInv == \A h \in Threads : Sound(thread[h]) /\ Current(thread[h])

RaceInv ==
    \A g, h \in Threads :
        /\ g # h
        /\ Conflict(thread[g].op, thread[h].op)
        /\ Account(thread[g]) = Account(thread[h])
        => Account(thread[h]) \in raced

SessionInv == TokenInv /\ FamilyInv /\ EpochInv /\ RequestInv /\ RaceInv

Demotions == {"suspend", "change_role", "delete_user"}

\* The one SUPER_ADMIN is active, and nothing under way changes that.
RoleInv ==
    \A h \in Threads :
        /\ thread[h].op = "create_user" => thread[h].role = "ADMIN"
        /\ thread[h].op \in Invalidations \cup {"activate"} => user[thread[h].user].role # "none"

Sole(u) ==
    /\ is_super_admin(u) /\ is_active(u)
    /\ \A v \in Users : is_super_admin(v) => v = u
    /\ \A h \in Threads : /\ thread[h].op # "bootstrap"
                          /\ thread[h].op \in Demotions => thread[h].user # u

SuperInv ==
    None \notin raced => (\A u \in Users : ~is_super_admin(u)) \/ \E u \in Users : Sole(u)

Inv == Types /\ SessionInv /\ RoleInv /\ SuperInv

-----------------------------------------------------------------------------
(* Reads                                                                   *)

Reading(h) ==
    \/ \E u \in Users :
         \/ login(h, u)
         \/ logout(h, u)
         \/ suspend(h, u)
         \/ change_role(h, u)
         \/ activate(h, u)
         \/ change_password(h, u)
         \/ delete_user(h, u)
         \/ reset_password(h, u)
         \/ create_user(h, u)
         \/ bootstrap_super_admin(h, u)
    \/ \E t \in Tokens : present(h, t)

\* What a request rests on when it was read.
Fit(r) ==
    /\ r \in RequestRecord /\ r.op \in Ops /\ r.user \in Users
    /\ r.epoch = user[r.user].epoch
    /\ \A t \in r.rows : refresh[t].state = "live"
    /\ r.op = "login" => r.token = None /\ r.gen = invalidated[r.user]
    /\ r.op = "refresh" => /\ r.token \in Tokens /\ refresh[r.token].state = "live"
                           /\ r.user = refresh[r.token].user /\ r.gen = refresh[r.token].gen
    /\ r.op = "reuse" => /\ r.token \in Tokens /\ refresh[r.token].state = "used"
                         /\ r.user = refresh[r.token].user
                         /\ r.rows = LiveFamily(refresh[r.token].family)
    /\ r.op \in Invalidations => exists(r.user) /\ r.rows = LiveTokens(r.user)
    /\ r.op \in Demotions => ~would_orphan_system(r.user)
    /\ r.op = "activate" => exists(r.user)
    /\ r.op = "create_user" => r.role = "ADMIN"
    /\ r.op = "bootstrap" => count_active_super_admins = 0

\* A request is made of what is in the database.
LEMMA RequestFits ==
    ASSUME Types, NEW op \in Ops, NEW u \in Users
    PROVE  /\ Request(op, u) \in RequestRecord /\ Request(op, u).op = op /\ Request(op, u).user = u
           /\ Request(op, u).epoch = user[u].epoch /\ Request(op, u).rows = {}
           /\ Request(op, u).token = None
<1>1. user[u].epoch \in Nat /\ {} \in SUBSET Tokens /\ "none" \in Roles
  BY DEF Types, AccountRow, Roles
<1>2. Idle \in RequestRecord
  BY DEF Idle, RequestRecord, Types, AccountRow, Roles
<1>3. Idle.rows = {} /\ Idle.token = None
  BY DEF Idle
<1> QED BY <1>1, <1>2, <1>3 DEF RequestRecord, Request

\* The operations are what they are named for.
LEMMA Kinds ==
    /\ \A op \in Invalidations : op \in Ops /\ op \notin SessionOps \cup
                                {"logout", "activate", "create_user", "bootstrap"}
    /\ SessionOps \cup {"logout", "activate", "create_user", "bootstrap"} \subseteq Ops
    /\ Demotions \subseteq Invalidations /\ "idle" \notin Ops
<1> QED BY DEF Ops, Invalidations, SessionOps, Demotions

\* Every handler reads before it writes, and what it reads is of the account it is about.
LEMMA ReadsFit ==
    ASSUME Types, TokenInv, NEW h \in Threads, Reading(h)
    PROVE  \E r \in RequestRecord : Fit(r) /\ Read(h, r)
<1> DEFINE Found == \E r \in RequestRecord : Fit(r) /\ Read(h, r)
<1>1. ASSUME NEW r \in RequestRecord, Fit(r), Read(h, r) PROVE Found
  BY <1>1
<1> HIDE DEF Found
<1>2. ASSUME NEW u \in Users, login(h, u) PROVE Found
  <2> DEFINE r == [Request("login", u) EXCEPT !.gen = invalidated[u]]
  <2>1. Read(h, r) /\ invalidated[u] \in Nat
    BY <1>2 DEF login, Types
  <2>2. /\ r \in RequestRecord /\ r.op = "login" /\ r.user = u /\ r.rows = {} /\ r.token = None
        /\ r.epoch = user[u].epoch /\ r.gen = invalidated[u]
    BY <2>1, RequestFits, Kinds DEF SessionOps, RequestRecord
  <2>3. Fit(r)
    BY <2>2, Kinds DEF Fit, SessionOps
  <2> QED BY <1>1, <2>1, <2>2, <2>3
<1>3. ASSUME NEW u \in Users, logout(h, u) PROVE Found
  <2>1. PICK rows \in SUBSET LiveTokens(u) :
          Read(h, [Request("logout", u) EXCEPT !.rows = rows])
    BY <1>3 DEF logout
  <2> DEFINE r == [Request("logout", u) EXCEPT !.rows = rows]
  <2>2. rows \in SUBSET Tokens /\ \A t \in rows : refresh[t].state = "live"
    BY DEF LiveTokens
  <2>3. /\ r \in RequestRecord /\ r.op = "logout" /\ r.user = u /\ r.rows = rows
        /\ r.epoch = user[u].epoch
    BY <2>2, RequestFits, Kinds DEF RequestRecord
  <2>4. Fit(r)
    BY <2>2, <2>3, Kinds DEF Fit
  <2> QED BY <1>1, <2>1, <2>3, <2>4
<1>4. ASSUME NEW u \in Users, NEW op \in Invalidations, invalidate_all_sessions(h, op, u),
             op \in Demotions => ~would_orphan_system(u)
      PROVE  Found
  <2> DEFINE r == [Request(op, u) EXCEPT !.rows = LiveTokens(u)]
  <2>1. Read(h, r) /\ exists(u)
    BY <1>4 DEF invalidate_all_sessions
  <2>2. op \in Ops /\ op \notin SessionOps \cup {"activate", "create_user", "bootstrap"}
    BY DEF Ops, Invalidations, SessionOps
  <2>3. LiveTokens(u) \in SUBSET Tokens /\ \A t \in LiveTokens(u) : refresh[t].state = "live"
    BY DEF LiveTokens
  <2>4. r \in RequestRecord /\ r.op = op /\ r.user = u /\ r.rows = LiveTokens(u)
        /\ r.epoch = user[u].epoch
    BY <2>2, <2>3, RequestFits DEF RequestRecord
  <2>5. Fit(r)
    BY <1>4, <2>1, <2>2, <2>3, <2>4 DEF Fit, SessionOps
  <2> QED BY <1>1, <2>1, <2>4, <2>5
<1>5. ASSUME NEW u \in Users,
             \/ suspend(h, u) \/ change_role(h, u) \/ delete_user(h, u)
             \/ change_password(h, u) \/ reset_password(h, u)
      PROVE  Found
  BY <1>4, <1>5 DEF suspend, change_role, delete_user, change_password, reset_password,
     Invalidations, Demotions
<1>6. ASSUME NEW u \in Users, activate(h, u) PROVE Found
  <2>1. Read(h, Request("activate", u)) /\ exists(u)
    BY <1>6 DEF activate
  <2> DEFINE r == Request("activate", u)
  <2>2. /\ r \in RequestRecord /\ r.op = "activate" /\ r.user = u /\ r.rows = {}
        /\ r.epoch = user[u].epoch
    BY RequestFits, Kinds
  <2>3. Read(h, r)
    BY <2>1
  <2> HIDE DEF r
  <2>4. Fit(r)
    BY <2>1, <2>2, Kinds DEF Fit
  <2> QED BY <1>1, <2>2, <2>3, <2>4
<1>7. ASSUME NEW u \in Users, NEW op \in {"create_user", "bootstrap"}, NEW role \in Roles,
             Read(h, [Request(op, u) EXCEPT !.role = role]),
             op = "create_user" => role = "ADMIN",
             op = "bootstrap" => count_active_super_admins = 0
      PROVE  Found
  <2> DEFINE r == [Request(op, u) EXCEPT !.role = role]
  <2>1. r \in RequestRecord /\ r.op = op /\ r.user = u /\ r.rows = {} /\ r.epoch = user[u].epoch
        /\ r.role = role
    BY RequestFits DEF Ops, RequestRecord
  <2>2. Fit(r)
    BY <1>7, <2>1 DEF Fit, Ops, Invalidations, Demotions
  <2> QED BY <1>1, <1>7, <2>1, <2>2
<1>8. ASSUME NEW u \in Users, create_user(h, u) \/ bootstrap_super_admin(h, u) PROVE Found
  BY <1>7, <1>8 DEF create_user, bootstrap_super_admin, can_assign_role, Roles
<1>9. ASSUME NEW t \in Tokens, present(h, t) PROVE Found
  <2>1. PICK u \in Users : refresh[t].user = u
    BY <1>9 DEF present, TokenInv, Issued
  <2>2. refresh[t].gen \in Nat
    BY DEF Types, TokenRow
  <2>3. CASE refresh[t].state = "used" /\ ~refresh[t].state = "live"
    <3> DEFINE R == LiveFamily(refresh[t].family)
               q == Request("reuse", u)
               r == [q EXCEPT !.token = t, !.rows = R]
    <3>1. Read(h, r)
      BY <1>9, <2>1, <2>3 DEF present
    <3>2. R \in SUBSET Tokens /\ \A s \in R : refresh[s].state = "live"
      BY DEF LiveFamily
    <3>3. /\ q \in RequestRecord /\ q.op = "reuse" /\ q.user = u /\ q.epoch = user[u].epoch
      BY RequestFits, Kinds DEF SessionOps
    <3> HIDE DEF R, q
    <3>4. /\ r \in RequestRecord /\ r.op = "reuse" /\ r.user = u /\ r.token = t /\ r.rows = R
          /\ r.epoch = user[u].epoch
      BY <3>2, <3>3 DEF RequestRecord
    <3> HIDE DEF r
    <3>5. Fit(r)
      BY <2>1, <2>3, <3>2, <3>4, Kinds DEF Fit, SessionOps, R
    <3> QED BY <1>1, <3>1, <3>4, <3>5
  <2>4. CASE refresh[t].state = "live"
    <3> DEFINE g == refresh[t].gen
               q == Request("refresh", u)
               r == [q EXCEPT !.token = t, !.gen = g]
    <3>1. Read(h, r)
      BY <1>9, <2>1, <2>4 DEF present
    <3>2. /\ q \in RequestRecord /\ q.op = "refresh" /\ q.user = u /\ q.epoch = user[u].epoch
          /\ q.rows = {} /\ g \in Nat
      BY <2>2, RequestFits, Kinds DEF SessionOps
    <3> HIDE DEF g, q
    <3>3. /\ r \in RequestRecord /\ r.op = "refresh" /\ r.user = u /\ r.token = t
          /\ r.rows = {} /\ r.gen = g /\ r.epoch = user[u].epoch
      BY <3>2 DEF RequestRecord
    <3> HIDE DEF r
    <3>4. Fit(r)
      BY <2>1, <2>4, <3>3, Kinds DEF Fit, SessionOps, g
    <3> QED BY <1>1, <3>1, <3>3, <3>4
  <2> QED BY <1>9, <2>3, <2>4 DEF present
<1> QED BY <1>2, <1>3, <1>5, <1>6, <1>8, <1>9 DEF Reading, Found

\* Conflicts are mutual.
LEMMA Mutual ==
    ASSUME NEW op1, NEW op2, Conflict(op1, op2) PROVE Conflict(op2, op1)
BY DEF Conflict

\* A family that has a token to exchange has only that one, and is not burned.
LEMMA OnlyToken ==
    ASSUME TokenInv, FamilyInv, NEW t \in Tokens, refresh[t].state = "live",
           refresh[t].user \notin raced
    PROVE  /\ LiveFamily(refresh[t].family) \subseteq {t}
           /\ refresh[t].family \notin burned
<1>1. /\ refresh[t].family \in Tokens /\ refresh[refresh[t].family].user \notin raced
      /\ t \in LiveFamily(refresh[t].family)
  BY DEF TokenInv, Issued, LiveFamily
<1> QED BY <1>1 DEF FamilyInv

\* A request that was just read is current, and its conflicts are noted.
LEMMA ReadKeeps ==
    ASSUME Types, SessionInv, NEW h \in Threads, NEW r \in RequestRecord, Fit(r), Read(h, r)
    PROVE  Types' /\ SessionInv'
<1>1. /\ thread[h] = Idle /\ thread' = [thread EXCEPT ![h] = r]
      /\ UNCHANGED <<user, refresh, access, invalidated, burned>> /\ raced \subseteq raced'
      /\ \A g \in Threads : Conflict(thread[g].op, r.op) /\ Account(thread[g]) = Account(r)
                            => Account(r) \in raced'
  BY DEF Read
<1>2. /\ thread'[h] = r /\ \A g \in Threads \ {h} : thread'[g] = thread[g]
      /\ Types'
  BY <1>1 DEF Types
<1>3. TokenInv' /\ FamilyInv' /\ EpochInv'
  BY <1>1 DEF SessionInv, TokenInv, FamilyInv, EpochInv, Issued, LiveFamily, LiveTokens
<1>4. Sound(r) /\ Current(r)
  <2>1. Sound(r)
    BY DEF Fit, Sound, SessionInv, TokenInv, Issued
  <2>2. ASSUME r.user \notin raced PROVE
          r.op \in {"login", "refresh"} => r.gen = r.epoch
    BY <2>2 DEF Fit, SessionInv, EpochInv, LiveTokens
  <2>3. ASSUME r.user \notin raced PROVE
          r.op = "refresh" => /\ LiveFamily(refresh[r.token].family) \subseteq {r.token}
                              /\ refresh[r.token].family \notin burned
    BY <2>3, OnlyToken DEF Fit, SessionInv
  <2>4. Current(r)
    BY <2>2, <2>3 DEF Fit, Current
  <2> QED BY <2>1, <2>4
<1>5. Sound(r)' /\ Current(r)'
  BY <1>1, <1>4 DEF Sound, Current, Issued, LiveTokens, LiveFamily
<1>6. ASSUME NEW g \in Threads \ {h} PROVE Sound(thread[g])' /\ Current(thread[g])'
  BY <1>1, <1>2 DEF SessionInv, RequestInv, Sound, Current, Issued, LiveTokens, LiveFamily
<1>7. RequestInv'
  <2>1. Sound(thread[h])' /\ Current(thread[h])'
    BY <1>2, <1>5 DEF Sound, Current
  <2> QED BY <1>6, <2>1 DEF RequestInv
<1>8. RaceInv'
  <2> SUFFICES ASSUME NEW f \in Threads, NEW g \in Threads, f # g,
                      Conflict(thread'[f].op, thread'[g].op),
                      Account(thread'[f]) = Account(thread'[g])
               PROVE  Account(thread'[g]) \in raced'
    BY DEF RaceInv, Account
  <2>1. CASE f = h
    BY <1>1, <1>2, <2>1, Mutual
  <2>2. CASE g = h
    BY <1>1, <1>2, <2>2
  <2>3. CASE f # h /\ g # h
    BY <1>1, <1>2, <2>3 DEF SessionInv, RaceInv
  <2> QED BY <2>1, <2>2, <2>3
<1> QED BY <1>2, <1>3, <1>7, <1>8 DEF SessionInv

\* A request that ends, committed or not, is in nobody's way.
LEMMA EndingKeepsRaces ==
    ASSUME Types, RaceInv, NEW h \in Threads, thread' = [thread EXCEPT ![h] = Idle],
           raced' = raced
    PROVE  RaceInv' /\ thread' \in [Threads -> RequestRecord]
<1>1. thread'[h] = Idle /\ \A g \in Threads \ {h} : thread'[g] = thread[g]
  BY DEF Types
<1>2. \A op : ~Conflict("idle", op) /\ ~Conflict(op, "idle")
  BY DEF Conflict, Invalidations, SessionOps
<1>3. RaceInv'
  <2> SUFFICES ASSUME NEW f \in Threads, NEW g \in Threads, f # g,
                      Conflict(thread'[f].op, thread'[g].op),
                      Account(thread'[f]) = Account(thread'[g])
               PROVE  Account(thread'[g]) \in raced'
    BY DEF RaceInv, Account
  <2>1. f # h /\ g # h
    BY <1>1, <1>2 DEF Idle
  <2> QED BY <1>1, <2>1 DEF RaceInv
<1>4. Idle \in RequestRecord
  BY DEF Idle, RequestRecord, Roles
<1> QED BY <1>3, <1>4 DEF Types

-----------------------------------------------------------------------------
(* Commits                                                                 *)

\* Revoking changes nothing of a token but that it is no longer live.
LEMMA RevokedTokens ==
    ASSUME Types, NEW R \in SUBSET Tokens, \A t \in R : Issued(t), refresh' = Revoked(R)
    PROVE  /\ refresh' \in [Tokens -> TokenRow]
           /\ \A t \in Tokens : /\ refresh'[t].user = refresh[t].user
                                /\ refresh'[t].family = refresh[t].family
                                /\ refresh'[t].gen = refresh[t].gen
                                /\ Issued(t)' <=> Issued(t)
           /\ \A f : LiveFamily(f)' = LiveFamily(f) \ R
           /\ \A u : LiveTokens(u)' = LiveTokens(u) \ R
<1>1. \A t \in Tokens : refresh'[t] = IF t \in R THEN [refresh[t] EXCEPT !.state = "revoked"]
                                               ELSE refresh[t]
  BY DEF Revoked
<1>2. \A t \in Tokens : refresh[t] \in TokenRow
  BY DEF Types
<1>3. \A t \in Tokens : /\ refresh'[t] \in TokenRow
                        /\ refresh'[t].user = refresh[t].user
                        /\ refresh'[t].family = refresh[t].family
                        /\ refresh'[t].gen = refresh[t].gen
                        /\ refresh'[t].state = IF t \in R THEN "revoked" ELSE refresh[t].state
  BY <1>1, <1>2 DEF TokenRow
<1>4. refresh' \in [Tokens -> TokenRow]
  BY <1>3 DEF Revoked
<1>5. \A t \in Tokens : Issued(t)' <=> Issued(t)
  BY <1>3 DEF Issued
<1>6. \A f : LiveFamily(f)' = LiveFamily(f) \ R
  BY <1>3 DEF LiveFamily
<1>7. \A u : LiveTokens(u)' = LiveTokens(u) \ R
  BY <1>3 DEF LiveTokens
<1> QED BY <1>3, <1>4, <1>5, <1>6, <1>7

\* What a request leaves to another about the same account.
LEMMA Others ==
    ASSUME Types, SessionInv, NEW g \in Threads, NEW h \in Threads, g # h,
           thread[g].user = thread[h].user, thread[h].user \notin raced,
           thread[h].op \in Ops \ {"bootstrap"}, thread[g].op # "bootstrap"
    PROVE  ~Conflict(thread[g].op, thread[h].op)
BY DEF SessionInv, RaceInv, Account

\* Logout, reuse and invalidation revoke what they read.
LEMMA RevokingKeeps ==
    ASSUME Types, SessionInv, NEW h \in Threads,
           \/ commit_logout(thread[h]) \/ commit_reuse(thread[h])
           \/ commit_invalidation(thread[h]),
           thread' = [thread EXCEPT ![h] = Idle], raced' = raced
    PROVE  Types' /\ SessionInv'
<1> DEFINE r == thread[h]
           R == r.rows
           u == r.user
<1>1. /\ r \in RequestRecord /\ R \in SUBSET Tokens /\ (\A t \in R : Issued(t))
      /\ refresh' = Revoked(R) /\ access' = access
      /\ r.op \in Invalidations \cup {"reuse", "logout"} /\ r.op \in Ops \ {"bootstrap"}
      /\ u \in Users /\ Sound(r) /\ Current(r)
  BY DEF commit_logout, commit_reuse, revoke_family, commit_invalidation, SessionInv,
     RequestInv, Sound, Types, RequestRecord, Ops, Invalidations, SessionOps
<1>2. /\ refresh' \in [Tokens -> TokenRow]
      /\ \A t \in Tokens : /\ refresh'[t].user = refresh[t].user
                           /\ refresh'[t].family = refresh[t].family
                           /\ refresh'[t].gen = refresh[t].gen
                           /\ Issued(t)' <=> Issued(t)
      /\ \A f : LiveFamily(f)' = LiveFamily(f) \ R
      /\ \A v : LiveTokens(v)' = LiveTokens(v) \ R
  BY <1>1, RevokedTokens
<1>3. RaceInv' /\ thread' \in [Threads -> RequestRecord]
  BY EndingKeepsRaces DEF SessionInv
<1>4. thread'[h] = Idle /\ \A g \in Threads \ {h} : thread'[g] = thread[g]
  BY DEF Types
<1>5. \/ /\ r.op \in Invalidations /\ burned' = burned
         /\ invalidated' = [invalidated EXCEPT ![u] = @ + 1]
         /\ user' \in [Users -> AccountRow] /\ user'[u].epoch = r.epoch + 1
         /\ \A v \in Users \ {u} : user'[v] = user[v]
      \/ /\ r.op = "reuse" /\ UNCHANGED <<user, invalidated>>
         /\ burned' = burned \cup {refresh[r.token].family}
      \/ /\ r.op = "logout" /\ UNCHANGED <<user, invalidated, burned>>
  <2>1. CASE commit_invalidation(r)
    <3> DEFINE new == [role |-> IF r.op = "change_role" THEN "ADMIN" ELSE user[u].role,
                       status |-> IF r.op = "suspend" THEN "SUSPENDED" ELSE user[u].status,
                       deleted |-> r.op = "delete_user" \/ user[u].deleted,
                       epoch |-> r.epoch + 1]
    <3>1. user' = [user EXCEPT ![u] = new]
      BY <2>1 DEF commit_invalidation, bumped_epoch
    <3>2. user[u] \in AccountRow /\ r.epoch \in Nat
      BY <1>1 DEF Types, RequestRecord
    <3>3. new \in AccountRow /\ new.epoch = r.epoch + 1
      BY <3>2 DEF AccountRow, Roles
    <3> HIDE DEF new
    <3>4. /\ user' \in [Users -> AccountRow] /\ user'[u].epoch = r.epoch + 1
          /\ \A v \in Users \ {u} : user'[v] = user[v]
      BY <1>1, <3>1, <3>3 DEF Types
    <3> QED BY <2>1, <3>4 DEF commit_invalidation
  <2>2. CASE commit_reuse(r)
    BY <2>2 DEF commit_reuse
  <2>3. CASE commit_logout(r)
    BY <2>3 DEF commit_logout
  <2> QED BY <2>1, <2>2, <2>3
<1>6. \A f \in burned' : f \in burned \/ (r.op = "reuse" /\ f = refresh[r.token].family)
  BY <1>5
<1>7. Types'
  <2>1. burned' \in SUBSET Tokens
    BY <1>1, <1>5 DEF Types, Sound, SessionInv, TokenInv
  <2>2. invalidated' \in [Users -> Nat]
    BY <1>5 DEF Types
  <2>3. user' \in [Users -> AccountRow]
    BY <1>5 DEF Types
  <2> QED BY <1>1, <1>2, <1>3, <2>1, <2>2, <2>3 DEF Types
<1>8. TokenInv'
  BY <1>1, <1>2, <1>6 DEF SessionInv, TokenInv, Sound, Types
<1>9. FamilyInv'
  <2> SUFFICES ASSUME NEW f \in Tokens, refresh[f].user \notin raced
               PROVE  /\ \A s, t \in LiveFamily(f)' : s = t
                      /\ f \in burned' => LiveFamily(f)' = {}
    BY <1>2 DEF FamilyInv
  <2>1. (\A s, t \in LiveFamily(f) : s = t) /\ (f \in burned => LiveFamily(f) = {})
    BY DEF SessionInv, FamilyInv
  <2>2. ASSUME r.op = "reuse", f = refresh[r.token].family PROVE LiveFamily(f)' = {}
    <3>1. u = refresh[f].user
      BY <1>1, <2>2 DEF Sound, SessionInv, TokenInv
    <3>2. LiveFamily(f) \subseteq R
      BY <1>1, <2>2, <3>1 DEF Current
    <3> QED BY <1>2, <3>2
  <2> QED BY <1>2, <1>6, <2>1, <2>2
<1>10. EpochInv'
  <2> SUFFICES ASSUME NEW v \in Users \ raced
               PROVE  /\ user'[v].epoch = invalidated'[v]
                      /\ \A t \in LiveTokens(v)' : refresh'[t].gen = invalidated'[v]
                      /\ \A token \in access : token.user = v => token.gen = token.epoch
    BY <1>1 DEF EpochInv
  <2>1. /\ user[v].epoch = invalidated[v]
        /\ \A t \in LiveTokens(v) : refresh[t].gen = invalidated[v] /\ t \in Tokens
        /\ \A token \in access : token.user = v => token.gen = token.epoch
    BY DEF SessionInv, EpochInv, LiveTokens
  <2>2. CASE user'[v] = user[v] /\ invalidated'[v] = invalidated[v]
    BY <1>2, <2>1, <2>2
  <2>3. CASE r.op \in Invalidations /\ v = u
    <3>1. r.epoch = invalidated[v] /\ LiveTokens(v) \subseteq R
      BY <1>1, <2>1, <2>3 DEF Current
    <3>2. LiveTokens(v)' = {}
      BY <1>2, <3>1
    <3>3. user'[v].epoch = r.epoch + 1 /\ invalidated'[v] = invalidated[v] + 1
      BY <1>5, <2>3 DEF Invalidations, Types
    <3> QED BY <2>1, <3>1, <3>2, <3>3
  <2> QED BY <1>5, <2>2, <2>3 DEF Types
<1>11. RequestInv'
  <2>1. ASSUME NEW g \in Threads \ {h} PROVE Sound(thread[g])' /\ Current(thread[g])'
    <3>1. Sound(thread[g]) /\ Current(thread[g]) /\ thread[g] \in RequestRecord
          /\ thread'[g] = thread[g]
      BY <1>4 DEF SessionInv, RequestInv, Types
    <3>2. Sound(thread[g])'
      BY <1>2, <3>1 DEF Sound, RequestRecord
    <3>3. ASSUME thread[g].user \notin raced PROVE Current(thread[g])'
      <4>1. CASE thread[g].user = u
        <5>1. thread[g].op = "bootstrap" \/ ~Conflict(thread[g].op, r.op)
          BY <1>1, <3>3, <4>1, Others
        <5>2. CASE r.op \in Invalidations \/ thread[g].op \notin Invalidations \cup SessionOps
          <6>1. thread[g].op \notin Invalidations \cup SessionOps
            BY <5>1, <5>2 DEF Conflict, Invalidations, SessionOps
          <6> QED BY <3>1, <6>1 DEF Current, SessionOps
        <5>3. CASE r.op = "reuse" /\ thread[g].op \in Invalidations \cup SessionOps
          <6>1. thread[g].op = "login"
            BY <5>1, <5>3 DEF Conflict, Invalidations, SessionOps
          <6>2. user' = user
            BY <1>5, <5>3 DEF Invalidations
          <6> QED BY <3>1, <3>3, <6>1, <6>2 DEF Current, Invalidations
        <5>4. CASE r.op = "logout"
          <6>1. UNCHANGED <<user, burned>>
            BY <1>5, <5>4 DEF Invalidations
          <6> QED BY <1>2, <3>1, <3>3, <6>1 DEF Current, Sound
        <5> QED BY <1>1, <5>2, <5>3, <5>4
      <4>2. CASE thread[g].user # u
        <5>1. thread[g].op # "idle" => user'[thread[g].user] = user[thread[g].user]
          BY <1>5, <3>1, <4>2 DEF Sound
        <5>2. thread[g].op = "refresh" => refresh[thread[g].token].family \notin burned'
          <6> SUFFICES ASSUME thread[g].op = "refresh",
                              refresh[thread[g].token].family \in burned'
                       PROVE  FALSE
            OBVIOUS
          <6>1. refresh[thread[g].token].family = refresh[r.token].family /\ r.op = "reuse"
            BY <1>6, <3>1, <3>3 DEF Current
          <6> QED BY <1>1, <3>1, <4>2, <6>1 DEF Sound, SessionInv, TokenInv
        <5>3. thread[g].op \in Invalidations \cup SessionOps => thread[g].op # "idle"
          BY DEF Invalidations, SessionOps
        <5> QED BY <1>2, <3>1, <3>3, <5>1, <5>2, <5>3 DEF Current, Sound, SessionOps
      <4> QED BY <4>1, <4>2
    <3>4. Current(thread[g])'
      BY <3>1, <3>3 DEF Current
    <3> QED BY <3>2, <3>4
  <2>2. Sound(thread[h])' /\ Current(thread[h])'
    BY <1>4 DEF Sound, Current, Idle, Invalidations
  <2> QED BY <2>1, <2>2 DEF RequestInv
<1> QED BY <1>3, <1>7, <1>8, <1>9, <1>10, <1>11 DEF SessionInv

Spent(r) == IF r.op = "refresh" THEN {r.token} ELSE {}

\* A login founds a family, a refresh puts a new token in the place of the one it spends.
LEMMA IssuedTokens ==
    ASSUME Types, TokenInv, NEW r \in RequestRecord, Sound(r),
           commit_login(r) \/ commit_refresh(r)
    PROVE  \E t \in Tokens, f \in Tokens :
             /\ ~Issued(t) /\ f = (IF r.op = "login" THEN t ELSE refresh[r.token].family)
             /\ refresh' \in [Tokens -> TokenRow]
             /\ refresh'[t] = [user |-> r.user, state |-> "live", gen |-> r.gen, family |-> f]
             /\ \A s \in Tokens \ {t} : /\ refresh'[s].user = refresh[s].user
                                        /\ refresh'[s].family = refresh[s].family
                                        /\ refresh'[s].gen = refresh[s].gen
                                        /\ Issued(s)' <=> Issued(s)
             /\ \A g : LiveFamily(g)' = (LiveFamily(g) \ Spent(r)) \cup (IF g = f THEN {t} ELSE {})
             /\ \A v : LiveTokens(v)' = (LiveTokens(v) \ Spent(r))
                                          \cup (IF v = r.user THEN {t} ELSE {})
<1>1. /\ r.op \in {"login", "refresh"} /\ r.user \in Users /\ r.gen \in Nat
      /\ r.op = "login" <=> r.token = None
      /\ r.op = "refresh" => /\ r.token \in Tokens /\ Issued(r.token)
                             /\ refresh[r.token].family \in Tokens
  BY SessionsAssumption DEF commit_login, commit_refresh, Sound, RequestRecord, TokenInv
<1>2. PICK old \in [Tokens -> TokenRow] :
        /\ Issue(r, old)
        /\ \A s \in Tokens : /\ old[s].user = refresh[s].user
                             /\ old[s].family = refresh[s].family
                             /\ old[s].gen = refresh[s].gen
                             /\ old[s].state = IF s \in Spent(r) THEN "used" ELSE refresh[s].state
  <2>1. CASE commit_login(r)
    BY <2>1 DEF commit_login, Types, Spent
  <2>2. CASE commit_refresh(r)
    <3> DEFINE old == [refresh EXCEPT ![r.token].state = "used"]
    <3>1. Issue(r, old) /\ r.token \in Tokens /\ Spent(r) = {r.token}
      BY <1>1, <2>2 DEF commit_refresh, Spent
    <3>2. refresh[r.token] \in TokenRow
      BY <3>1 DEF Types
    <3>3. /\ old \in [Tokens -> TokenRow]
          /\ \A s \in Tokens : old[s] = IF s = r.token THEN [refresh[s] EXCEPT !.state = "used"]
                                                     ELSE refresh[s]
      BY <3>1, <3>2 DEF Types, TokenRow
    <3>4. [refresh[r.token] EXCEPT !.state = "used"].user = refresh[r.token].user
          /\ [refresh[r.token] EXCEPT !.state = "used"].family = refresh[r.token].family
          /\ [refresh[r.token] EXCEPT !.state = "used"].gen = refresh[r.token].gen
          /\ [refresh[r.token] EXCEPT !.state = "used"].state = "used"
      BY <3>2 DEF TokenRow
    <3> HIDE DEF old
    <3>5. \A s \in Tokens : /\ old[s].user = refresh[s].user
                            /\ old[s].family = refresh[s].family
                            /\ old[s].gen = refresh[s].gen
                            /\ old[s].state = IF s \in Spent(r) THEN "used" ELSE refresh[s].state
      BY <3>1, <3>3, <3>4
    <3> QED BY <3>1, <3>3, <3>5
  <2> QED BY <2>1, <2>2
<1>3. PICK t \in Tokens :
        /\ refresh[t] = NoToken
        /\ refresh' = [old EXCEPT ![t] =
             [user |-> r.user, state |-> "live", gen |-> r.gen,
              family |-> IF r.token = None THEN t ELSE refresh[r.token].family]]
  BY <1>2 DEF Issue
<1> DEFINE f == IF r.op = "login" THEN t ELSE refresh[r.token].family
           new == [user |-> r.user, state |-> "live", gen |-> r.gen, family |-> f]
<1>4. f \in Tokens /\ new \in TokenRow /\ refresh' = [old EXCEPT ![t] = new]
  BY <1>1, <1>3 DEF TokenRow
<1>5. new.user = r.user /\ new.state = "live" /\ new.family = f
  OBVIOUS
<1>6. ~Issued(t) /\ t \notin Spent(r)
  BY <1>1, <1>3 DEF Issued, NoToken, Spent
<1> HIDE DEF new, f
<1>7. /\ refresh' \in [Tokens -> TokenRow] /\ refresh'[t] = new
      /\ \A s \in Tokens \ {t} : refresh'[s] = old[s]
  BY <1>2, <1>4
<1>8. \A s \in Tokens \ {t} : /\ refresh'[s].user = refresh[s].user
                              /\ refresh'[s].family = refresh[s].family
                              /\ refresh'[s].gen = refresh[s].gen
                              /\ refresh'[s].state = IF s \in Spent(r) THEN "used" ELSE refresh[s].state
  BY <1>2, <1>7
<1>9. \A s \in Tokens \ {t} : Issued(s)' <=> Issued(s)
  BY <1>1, <1>8 DEF Issued, Spent
<1>10. \A g : LiveFamily(g)' = (LiveFamily(g) \ Spent(r)) \cup (IF g = f THEN {t} ELSE {})
  BY <1>5, <1>6, <1>7, <1>8 DEF LiveFamily, Issued
<1>11. \A v : LiveTokens(v)' = (LiveTokens(v) \ Spent(r)) \cup (IF v = r.user THEN {t} ELSE {})
  BY <1>5, <1>6, <1>7, <1>8 DEF LiveTokens, Issued
<1> QED BY <1>4, <1>6, <1>7, <1>8, <1>9, <1>10, <1>11 DEF new, f

\* Login and refresh issue what they read is good.
LEMMA IssuingKeeps ==
    ASSUME Types, SessionInv, NEW h \in Threads,
           commit_login(thread[h]) \/ commit_refresh(thread[h]),
           thread' = [thread EXCEPT ![h] = Idle], raced' = raced
    PROVE  Types' /\ SessionInv'
<1> DEFINE r == thread[h]
           u == r.user
           issued == [user |-> u, epoch |-> r.epoch, gen |-> r.gen]
<1>1. /\ r \in RequestRecord /\ r.op \in {"login", "refresh"} /\ u \in Users /\ Sound(r) /\ Current(r)
      /\ r.op \in Ops \ {"bootstrap"} /\ r.op \in SessionOps
  BY DEF commit_login, commit_refresh, SessionInv, RequestInv, Sound, Types, Ops, SessionOps
<1>2. /\ UNCHANGED <<user, invalidated, burned>>
      /\ access' = access \cup {issued}
  BY DEF commit_login, commit_refresh, Issue
<1>3. PICK t \in Tokens, f \in Tokens :
        /\ ~Issued(t) /\ f = (IF r.op = "login" THEN t ELSE refresh[r.token].family)
        /\ refresh' \in [Tokens -> TokenRow]
        /\ refresh'[t] = [user |-> u, state |-> "live", gen |-> r.gen, family |-> f]
        /\ \A s \in Tokens \ {t} : /\ refresh'[s].user = refresh[s].user
                                   /\ refresh'[s].family = refresh[s].family
                                   /\ refresh'[s].gen = refresh[s].gen
                                   /\ Issued(s)' <=> Issued(s)
        /\ \A g : LiveFamily(g)' = (LiveFamily(g) \ Spent(r)) \cup (IF g = f THEN {t} ELSE {})
        /\ \A v : LiveTokens(v)' = (LiveTokens(v) \ Spent(r)) \cup (IF v = u THEN {t} ELSE {})
  BY <1>1, IssuedTokens DEF SessionInv
<1>4. RaceInv' /\ thread' \in [Threads -> RequestRecord]
  BY EndingKeepsRaces DEF SessionInv
<1>5. thread'[h] = Idle /\ \A g \in Threads \ {h} : thread'[g] = thread[g]
  BY DEF Types
<1>6. Types'
  <2>1. issued \in [user: Users, epoch: Nat, gen: Nat]
    BY <1>1 DEF RequestRecord
  <2> HIDE DEF issued
  <2> QED BY <1>2, <1>3, <1>4, <2>1 DEF Types
<1>7. Issued(t)' /\ refresh'[t].user = u /\ refresh'[t].family = f /\ refresh'[t].gen = r.gen
  BY <1>3 DEF Issued
<1>8. Issued(f)' /\ refresh'[f].user = u /\ (f # t => Issued(f) /\ refresh[f].user = u)
  BY <1>1, <1>3, <1>7 DEF Sound, SessionInv, TokenInv
<1>9. TokenInv'
  <2>1. ASSUME NEW s \in Tokens, Issued(s)'
        PROVE  /\ refresh'[s].user \in Users /\ refresh'[s].family \in Tokens
               /\ Issued(refresh[s].family)'
               /\ (refresh[refresh[s].family].user)' = refresh'[s].user
    <3>1. CASE s = t
      BY <1>1, <1>3, <1>7, <1>8, <3>1 DEF Issued
    <3>2. CASE s # t
      <4>1. Issued(s) /\ refresh[s].family # t
        BY <1>3, <2>1, <3>2 DEF SessionInv, TokenInv
      <4> QED BY <1>3, <3>2, <4>1 DEF SessionInv, TokenInv, Issued
    <3> QED BY <3>1, <3>2
  <2>2. \A g \in burned' : Issued(g)'
    BY <1>2, <1>3 DEF SessionInv, TokenInv, Types
  <2> QED BY <2>1, <2>2 DEF TokenInv
<1>10. \A g \in Tokens : ~Issued(g) => LiveFamily(g) = {} /\ g \notin burned
  BY DEF SessionInv, TokenInv, LiveFamily, Issued
<1>11. FamilyInv'
  <2> SUFFICES ASSUME NEW g \in Tokens, refresh'[g].user \notin raced
               PROVE  /\ \A s, x \in LiveFamily(g)' : s = x
                      /\ g \in burned => LiveFamily(g)' = {}
    BY <1>2 DEF FamilyInv
  <2>1. CASE g = f /\ r.op = "login"
    BY <1>3, <1>10, <2>1
  <2>2. CASE g = f /\ r.op = "refresh"
    <3>1. u \notin raced /\ f = refresh[r.token].family
      BY <1>3, <1>8, <2>2
    <3>2. LiveFamily(g) \subseteq Spent(r) /\ g \notin burned
      BY <1>1, <2>2, <3>1 DEF Current, Spent
    <3> QED BY <1>3, <2>2, <3>2
  <2>3. CASE g # f /\ g # t
    <3>1. refresh[g].user \notin raced
      BY <1>3, <2>3
    <3>2. (\A s, x \in LiveFamily(g) : s = x) /\ (g \in burned => LiveFamily(g) = {})
      BY <3>1 DEF SessionInv, FamilyInv
    <3> QED BY <1>3, <2>3, <3>2
  <2>4. CASE g # f /\ g = t
    BY <1>3, <1>10, <2>4
  <2> QED BY <1>1, <2>1, <2>2, <2>3, <2>4
<1>12. EpochInv'
  <2> SUFFICES ASSUME NEW v \in Users \ raced
               PROVE  /\ user[v].epoch = invalidated[v]
                      /\ \A s \in LiveTokens(v)' : refresh'[s].gen = invalidated[v]
                      /\ \A token \in access' : token.user = v => token.gen = token.epoch
    BY <1>2 DEF EpochInv
  <2>1. /\ user[v].epoch = invalidated[v]
        /\ \A s \in LiveTokens(v) : refresh[s].gen = invalidated[v] /\ s \in Tokens /\ s # t
        /\ \A token \in access : token.user = v => token.gen = token.epoch
    BY <1>3 DEF SessionInv, EpochInv, LiveTokens, Issued
  <2>2. v = u => r.gen = r.epoch /\ r.epoch = user[v].epoch
    BY <1>1 DEF Current
  <2>3. \A s \in LiveTokens(v)' : refresh'[s].gen = invalidated[v]
    BY <1>3, <1>7, <2>1, <2>2
  <2>4. issued.user = u /\ issued.gen = r.gen /\ issued.epoch = r.epoch
    OBVIOUS
  <2> HIDE DEF issued
  <2>5. \A token \in access' : token.user = v => token.gen = token.epoch
    BY <1>2, <2>1, <2>2, <2>4
  <2> QED BY <2>1, <2>3, <2>5
<1>13. RequestInv'
  <2>1. ASSUME NEW g \in Threads \ {h} PROVE Sound(thread[g])' /\ Current(thread[g])'
    <3>1. Sound(thread[g]) /\ Current(thread[g]) /\ thread[g] \in RequestRecord
          /\ thread'[g] = thread[g]
      BY <1>5 DEF SessionInv, RequestInv, Types
    <3>2. Sound(thread[g])'
      BY <1>3, <1>7, <3>1 DEF Sound, RequestRecord
    <3>3. ASSUME thread[g].user \notin raced PROVE Current(thread[g])'
      <4> DEFINE x == thread[g].token
      <4>1. thread[g].op \in {"refresh", "reuse"} =>
              /\ x \in Tokens /\ x # t /\ Issued(x) /\ refresh'[x].family = refresh[x].family
              /\ refresh[x].user = thread[g].user /\ refresh[x].family \in Tokens
              /\ refresh[refresh[x].family].user = thread[g].user /\ refresh[x].family # t
        BY <1>3, <3>1 DEF Sound, SessionInv, TokenInv
      <4>2. thread[g].user # u \/ ~Conflict(thread[g].op, r.op) \/ thread[g].op = "bootstrap"
        BY <1>1, <3>3, Others
      <4>3. thread[g].op \in Invalidations => thread[g].user # u
        BY <1>1, <4>2 DEF Conflict, Invalidations, SessionOps
      <4>4. thread[g].op \in {"refresh", "reuse"} => refresh[x].family # f
        <5> SUFFICES ASSUME thread[g].op \in {"refresh", "reuse"}, refresh[x].family = f
                     PROVE  FALSE
          OBVIOUS
        <5>1. f # t /\ r.op = "refresh" /\ thread[g].user = u
          BY <1>1, <1>3, <1>8, <4>1
        <5> QED BY <4>2, <5>1 DEF Conflict
      <4>5. thread[g].op \in Invalidations => LiveTokens(thread[g].user)' \subseteq thread[g].rows
        BY <1>3, <3>1, <3>3, <4>3 DEF Current
      <4>6. thread'[g] = thread[g] /\ UNCHANGED <<user, burned, raced>>
        BY <1>2, <3>1
      <4>7. ASSUME thread[g].op \in {"refresh", "reuse"}
            PROVE  LiveFamily(refresh[x].family)' \subseteq LiveFamily(refresh[x].family)
        <5>1. PICK k \in Tokens : k = refresh[x].family /\ k # f
          BY <4>1, <4>4, <4>7
        <5>2. LiveFamily(k)' \subseteq LiveFamily(k)
          BY <1>3, <5>1
        <5>3. LiveFamily(refresh[x].family)' = LiveFamily(k)'
          BY <4>1, <4>6, <4>7, <5>1 DEF LiveFamily
        <5> QED BY <5>1, <5>2, <5>3
      <4> QED BY <3>1, <3>3, <4>1, <4>5, <4>6, <4>7 DEF Current
    <3>4. Current(thread[g])'
      BY <3>1, <3>3 DEF Current
    <3> QED BY <3>2, <3>4
  <2>2. Sound(thread[h])' /\ Current(thread[h])'
    BY <1>5 DEF Sound, Current, Idle, Invalidations
  <2> QED BY <2>1, <2>2 DEF RequestInv
<1> QED BY <1>4, <1>6, <1>9, <1>11, <1>12, <1>13 DEF SessionInv

\* Creation and activation leave epochs and tokens alone, and so does a rollback.
LEMMA AccountsKeep ==
    ASSUME Types, SessionInv, NEW h \in Threads,
           commit_account(thread[h])
             \/ UNCHANGED <<user, refresh, access, invalidated, burned>>,
           thread' = [thread EXCEPT ![h] = Idle], raced' = raced
    PROVE  Types' /\ SessionInv'
<1>1. RaceInv' /\ thread' \in [Threads -> RequestRecord]
  BY EndingKeepsRaces DEF SessionInv
<1>2. thread'[h] = Idle /\ \A g \in Threads \ {h} : thread'[g] = thread[g]
  BY DEF Types
<1>3. UNCHANGED <<refresh, access, invalidated, burned>>
  BY DEF commit_account
<1>4. /\ user' \in [Users -> AccountRow]
      /\ \A u \in Users : user'[u].epoch = user[u].epoch
  <2>1. CASE user' = user
    BY <2>1 DEF Types
  <2>2. CASE user' = [user EXCEPT ![thread[h].user].status = "ACTIVE"]
    BY <2>2, ZenonT(30) DEF Types, AccountRow
  <2>3. CASE user' = [user EXCEPT ![thread[h].user].role = thread[h].role]
    <3>1. thread[h].role \in Roles
      BY DEF Types, RequestRecord
    <3> QED BY <2>3, <3>1, ZenonT(30) DEF Types, AccountRow
  <2> QED BY <2>1, <2>2, <2>3 DEF commit_account
<1>5. Types'
  BY <1>1, <1>3, <1>4 DEF Types
<1>6. TokenInv' /\ FamilyInv'
  BY <1>3 DEF SessionInv, TokenInv, FamilyInv, Issued, LiveFamily
<1>7. EpochInv'
  BY <1>3, <1>4 DEF SessionInv, EpochInv, LiveTokens
<1>8. RequestInv'
  <2>1. ASSUME NEW g \in Threads \ {h} PROVE Sound(thread[g])' /\ Current(thread[g])'
    <3>1. Sound(thread[g]) /\ Current(thread[g]) /\ thread'[g] = thread[g]
      BY <1>2 DEF SessionInv, RequestInv
    <3>2. thread[g].op \in Invalidations \cup {"login", "refresh"} => thread[g].user \in Users
      BY <3>1 DEF Sound, Invalidations
    <3> QED BY <1>3, <1>4, <3>1, <3>2 DEF Sound, Current, Issued, LiveTokens, LiveFamily
  <2>2. Sound(thread[h])' /\ Current(thread[h])'
    BY <1>2 DEF Sound, Current, Idle, Invalidations
  <2> QED BY <2>1, <2>2 DEF RequestInv
<1> QED BY <1>1, <1>5, <1>6, <1>7, <1>8 DEF SessionInv

-----------------------------------------------------------------------------

\* Every step is a read or the end of a request.
LEMMA Steps ==
    ASSUME Types, TokenInv, Next
    PROVE  \E h \in Threads :
             \/ \E r \in RequestRecord : Fit(r) /\ Read(h, r)
             \/ commit(h)
             \/ roll_back(h)
<1>1. PICK h \in Threads : Reading(h) \/ commit(h) \/ roll_back(h)
  BY DEF Next, Reading
<1> QED BY <1>1, ReadsFit

\* Every step keeps the types and what is known of sessions.
LEMMA SessionStep ==
    ASSUME Types, SessionInv, [Next]_vars PROVE Types' /\ SessionInv'
<1>1. ASSUME NEW h \in Threads, NEW r \in RequestRecord, Fit(r), Read(h, r)
      PROVE  Types' /\ SessionInv'
  BY <1>1, ReadKeeps
<1>2. ASSUME NEW h \in Threads, commit(h) PROVE Types' /\ SessionInv'
  <2>1. thread' = [thread EXCEPT ![h] = Idle] /\ raced' = raced
    BY <1>2 DEF commit
  <2>2. CASE commit_login(thread[h]) \/ commit_refresh(thread[h])
    BY <2>1, <2>2, IssuingKeeps
  <2>3. CASE commit_logout(thread[h]) \/ commit_reuse(thread[h]) \/ commit_invalidation(thread[h])
    BY <2>1, <2>3, RevokingKeeps
  <2>4. CASE commit_account(thread[h])
    BY <2>1, <2>4, AccountsKeep
  <2> QED BY <1>2, <2>2, <2>3, <2>4 DEF commit
<1>3. ASSUME NEW h \in Threads, roll_back(h) PROVE Types' /\ SessionInv'
  BY <1>3, AccountsKeep DEF roll_back
<1>4. CASE UNCHANGED vars
  <2>1. Types' /\ TokenInv' /\ FamilyInv' /\ EpochInv'
    BY <1>4 DEF vars, Types, SessionInv, TokenInv, FamilyInv, EpochInv, Issued, LiveFamily, LiveTokens
  <2>2. RaceInv'
    BY <1>4 DEF vars, SessionInv, RaceInv, Account
  <2>3. RequestInv'
    BY <1>4 DEF vars, SessionInv, RequestInv, Sound, Current, Issued, LiveFamily, LiveTokens
  <2> QED BY <2>1, <2>2, <2>3 DEF SessionInv
<1>5. CASE Next
  BY <1>1, <1>2, <1>3, <1>5, Steps DEF SessionInv
<1> QED BY <1>4, <1>5

-----------------------------------------------------------------------------
(* The SUPER_ADMIN                                                         *)

\* With one SUPER_ADMIN the count is one.
LEMMA SoleCounts ==
    ASSUME Types, NEW u \in Users, Sole(u) PROVE count_active_super_admins = 1
<1>1. {v \in Users : is_active(v) /\ is_super_admin(v)} = {u}
  BY DEF Sole
<1> QED BY <1>1, FS_Singleton DEF count_active_super_admins

\* No request that is read while there is one SUPER_ADMIN would take it away.
LEMMA ReadKeepsRoles ==
    ASSUME Types, RoleInv, SuperInv, NEW h \in Threads, NEW r \in RequestRecord, Fit(r), Read(h, r)
    PROVE  RoleInv' /\ SuperInv'
<1>1. /\ user' = user /\ raced \subseteq raced'
      /\ thread'[h] = r /\ \A g \in Threads \ {h} : thread'[g] = thread[g]
  BY DEF Read, Types
<1>2. RoleInv'
  BY <1>1, Kinds DEF RoleInv, Fit, exists
<1>3. SuperInv'
  <2> SUFFICES ASSUME None \notin raced', ~\A v \in Users : ~is_super_admin(v)
               PROVE  \E u \in Users : Sole(u)'
    BY <1>1 DEF SuperInv, is_super_admin
  <2>1. PICK u \in Users : Sole(u)
    BY <1>1 DEF SuperInv
  <2>2. r.op # "bootstrap"
    BY <2>1, SoleCounts DEF Fit
  <2>3. r.op \in Demotions => r.user # u
    BY <2>1 DEF Sole, Fit, would_orphan_system
  <2>4. Sole(u)'
    BY <1>1, <2>1, <2>2, <2>3 DEF Sole, is_super_admin, is_active, exists
  <2> QED BY <2>4
<1> QED BY <1>2, <1>3

\* Who will be the one SUPER_ADMIN after a step.
LEMMA SoleNext ==
    ASSUME NEW s \in Users,
           user'[s].role = "SUPER_ADMIN", user'[s].status = "ACTIVE", ~user'[s].deleted,
           \A x \in Users : user'[x].role = "SUPER_ADMIN" => x = s,
           \A g \in Threads : /\ thread'[g].op # "bootstrap"
                              /\ thread'[g].op \in Demotions => thread'[g].user # s
    PROVE  Sole(s)'
BY DEF Sole, is_super_admin, is_active, exists

\* A commit makes the first SUPER_ADMIN or takes none away.
LEMMA CommitKeepsRoles ==
    ASSUME Types, SessionInv, RoleInv, SuperInv, NEW h \in Threads, commit(h) \/ roll_back(h)
    PROVE  RoleInv' /\ SuperInv'
<1> DEFINE r == thread[h]
           u == r.user
<1>1. /\ raced' = raced /\ r \in RequestRecord
      /\ thread'[h] = Idle /\ \A g \in Threads \ {h} : thread'[g] = thread[g]
  BY DEF commit, roll_back, Types
<1>2. \A v \in Users : user[v] \in AccountRow
  BY DEF Types
<1>3. \/ UNCHANGED user
      \/ /\ r.op \in Invalidations /\ u \in Users
         /\ user'[u].role = IF r.op = "change_role" THEN "ADMIN" ELSE user[u].role
         /\ r.op = "change_password" => /\ user'[u].status = user[u].status
                                        /\ user'[u].deleted = user[u].deleted
         /\ \A v \in Users \ {u} : user'[v] = user[v]
      \/ /\ r.op = "activate" /\ u \in Users
         /\ user'[u].role = user[u].role /\ user'[u].status = "ACTIVE"
         /\ user'[u].deleted = user[u].deleted
         /\ \A v \in Users \ {u} : user'[v] = user[v]
      \/ /\ r.op \in {"create_user", "bootstrap"} /\ u \in Users /\ user[u] = NoUser
         /\ user'[u].role = r.role /\ user'[u].status = "ACTIVE" /\ ~user'[u].deleted
         /\ \A v \in Users \ {u} : user'[v] = user[v]
  <2>1. r.op # "idle" => u \in Users
    BY DEF SessionInv, RequestInv, Sound
  <2>2. CASE commit_invalidation(r)
    <3> DEFINE new == [role |-> IF r.op = "change_role" THEN "ADMIN" ELSE user[u].role,
                       status |-> IF r.op = "suspend" THEN "SUSPENDED" ELSE user[u].status,
                       deleted |-> r.op = "delete_user" \/ user[u].deleted,
                       epoch |-> r.epoch + 1]
    <3>1. /\ u \in Users /\ user' = [user EXCEPT ![u] = new] /\ r.op \in Invalidations
      BY <2>1, <2>2 DEF commit_invalidation, bumped_epoch, Invalidations
    <3>2. user'[u] = new /\ \A v \in Users \ {u} : user'[v] = user[v]
      BY <3>1 DEF Types
    <3>3. /\ new.role = IF r.op = "change_role" THEN "ADMIN" ELSE user[u].role
          /\ r.op = "change_password" => new.status = user[u].status
      OBVIOUS
    <3>4. r.op = "change_password" => new.deleted = user[u].deleted
      <4>1. user[u].deleted \in BOOLEAN
        BY <1>2, <3>1 DEF AccountRow
      <4> QED BY <4>1
    <3> HIDE DEF new
    <3> QED BY <3>1, <3>2, <3>3, <3>4
  <2>3. CASE commit_account(r)
    <3>1. u \in Users
      BY <2>1, <2>3 DEF commit_account
    <3>2. CASE r.op = "activate"
      BY <1>2, <2>3, <3>1, <3>2 DEF commit_account, Types, AccountRow
    <3>3. CASE r.op \in {"create_user", "bootstrap"}
      BY <1>2, <2>3, <3>1, <3>3 DEF commit_account, Types, AccountRow, NoUser
    <3> QED BY <2>3, <3>2, <3>3 DEF commit_account
  <2>4. CASE commit_login(r) \/ commit_refresh(r) \/ commit_reuse(r) \/ commit_logout(r) \/ roll_back(h)
    BY <2>4 DEF commit_login, commit_refresh, commit_reuse, commit_logout, roll_back
  <2> QED BY <2>2, <2>3, <2>4 DEF commit
<1>4. \A v \in Users : user[v].role # "none" => user'[v].role # "none"
  BY <1>3 DEF Invalidations, NoUser
<1>5. \A g \in Threads : thread[g].op \in Invalidations \cup {"activate"} => thread[g].user \in Users
  BY DEF SessionInv, RequestInv, Sound, Invalidations
<1>6. RoleInv'
  <2>1. \A g \in Threads \ {h} :
          /\ thread'[g].op = "create_user" => thread'[g].role = "ADMIN"
          /\ thread'[g].op \in Invalidations \cup {"activate"}
               => user'[thread'[g].user].role # "none"
    BY <1>1, <1>4, <1>5 DEF RoleInv
  <2>2. Idle.op \notin Invalidations \cup {"activate", "create_user"}
    BY DEF Idle, Invalidations
  <2>3. \A g \in Threads : thread'[g].op \in Invalidations \cup {"activate"}
               => (user[thread[g].user].role)' # "none"
    BY <1>1, <2>1, <2>2
  <2> QED BY <1>1, <2>1, <2>2, <2>3 DEF RoleInv
<1>7. SuperInv'
  <2> SUFFICES ASSUME None \notin raced, NEW w \in Users, user'[w].role = "SUPER_ADMIN"
               PROVE  \E v \in Users : Sole(v)'
    BY <1>1 DEF SuperInv, is_super_admin
  <2>1. CASE \E v \in Users : Sole(v)
    <3>1. PICK v \in Users : Sole(v)
      BY <2>1
    <3>2. r.op # "bootstrap" /\ (r.op \in Demotions => u # v)
      BY <3>1 DEF Sole
    <3>3. /\ user[v].role = "SUPER_ADMIN" /\ user[v].status = "ACTIVE" /\ ~user[v].deleted
          /\ \A x \in Users : user[x].role = "SUPER_ADMIN" => x = v
      BY <3>1 DEF Sole, is_super_admin, is_active, exists
    <3>4. r.op \in Invalidations \ Demotions => r.op = "change_password"
      BY DEF Invalidations, Demotions
    <3>5. user'[v].role = "SUPER_ADMIN" /\ user'[v].status = "ACTIVE" /\ ~user'[v].deleted
      BY <1>3, <3>2, <3>3, <3>4 DEF NoUser, Demotions
    <3>6. \A x \in Users : user'[x].role = "SUPER_ADMIN" => x = v
      BY <1>3, <3>2, <3>3 DEF RoleInv
    <3>7. \A g \in Threads : /\ thread'[g].op # "bootstrap"
                             /\ thread'[g].op \in Demotions => thread'[g].user # v
      BY <1>1, <3>1 DEF Sole, Idle, Demotions
    <3> QED BY <3>5, <3>6, <3>7, SoleNext
  <2>2. CASE \A v \in Users : ~is_super_admin(v)
    <3>1. \A v \in Users : user[v].role # "SUPER_ADMIN"
      BY <2>2 DEF is_super_admin
    <3>2. /\ w = u /\ r.op = "bootstrap" /\ user'[w].status = "ACTIVE" /\ ~user'[w].deleted
          /\ user[w] = NoUser /\ \A v \in Users \ {w} : user'[v] = user[v]
      BY <1>3, <3>1 DEF RoleInv
    <3>3. \A g \in Threads \ {h} : thread[g].op # "bootstrap"
      BY <3>2 DEF SessionInv, RaceInv, Conflict, Account
    <3>4. \A g \in Threads : thread[g].op \in Demotions => thread[g].user # w
      BY <3>2, Kinds DEF RoleInv, NoUser
    <3>5. Sole(w)'
      <4>1. \A g \in Threads : /\ thread'[g].op # "bootstrap"
                               /\ thread'[g].op \in Demotions => thread'[g].user # w
        BY <1>1, <3>3, <3>4 DEF Idle, Demotions
      <4>2. \A v \in Users : user'[v].role = "SUPER_ADMIN" => v = w
        BY <3>1, <3>2
      <4> QED BY <3>2, <4>1, <4>2, SoleNext
    <3> QED BY <3>5
  <2> QED BY <2>1, <2>2 DEF SuperInv
<1> QED BY <1>6, <1>7

-----------------------------------------------------------------------------

\* There is no account and no token at first.
LEMMA InitInv ==
    Init => Inv
<1> SUFFICES ASSUME Init PROVE Inv
  OBVIOUS
<1>1. NoUser \in AccountRow /\ NoToken \in TokenRow /\ Idle \in RequestRecord
  BY DEF NoUser, NoToken, Idle, AccountRow, TokenRow, RequestRecord, Roles
<1>2. Types
  BY <1>1 DEF Init, Types
<1>3. TokenInv /\ FamilyInv
  BY DEF Init, TokenInv, FamilyInv, Issued, LiveFamily, NoToken
<1>4. EpochInv
  BY DEF Init, EpochInv, LiveTokens, NoToken, NoUser
<1>5. RequestInv /\ RaceInv
  BY DEF Init, RequestInv, RaceInv, Sound, Current, Idle, Conflict, Invalidations, SessionOps
<1>6. RoleInv /\ SuperInv
  BY DEF Init, RoleInv, SuperInv, Idle, Invalidations, is_super_admin, NoUser
<1> QED BY <1>2, <1>3, <1>4, <1>5, <1>6 DEF Inv, SessionInv

\* Every step keeps the invariant.
LEMMA StepInv ==
    Inv /\ [Next]_vars => Inv'
<1> SUFFICES ASSUME Types, SessionInv, RoleInv, SuperInv, [Next]_vars
             PROVE  Types' /\ SessionInv' /\ RoleInv' /\ SuperInv'
  BY DEF Inv
<1>1. Types' /\ SessionInv'
  BY SessionStep
<1>2. ASSUME UNCHANGED vars PROVE RoleInv' /\ SuperInv'
  BY <1>2 DEF vars, RoleInv, SuperInv, Sole, is_super_admin, is_active, exists
<1>3. ASSUME Next PROVE RoleInv' /\ SuperInv'
  BY <1>3, Steps, ReadKeepsRoles, CommitKeepsRoles DEF SessionInv
<1> QED BY <1>1, <1>2, <1>3

\* The invariant.
LEMMA Invariance ==
    Spec => []Inv
<1> QED BY InitInv, StepInv, PTL DEF Spec

\* A password change, suspension, demotion or deletion ends what came before
\* it: no older token is exchanged or accepted, where no requests about the
\* account conflicted (security/tokens.py, invalidate_all_sessions).
THEOREM EndedSessions ==
    Spec => []SessionsEnd
<1>1. Inv => SessionsEnd
  <2> SUFFICES ASSUME Inv, NEW u \in Users \ raced
               PROVE  /\ \A t \in LiveTokens(u) : refresh[t].gen = invalidated[u]
                      /\ \A token \in access :
                           token.user = u /\ Accepted(token) => token.gen = invalidated[u]
    BY DEF SessionsEnd
  <2> QED BY DEF Inv, SessionInv, EpochInv, Accepted
<1> QED BY <1>1, Invariance, PTL

\* A login has one token to exchange, and none after a reuse, where no two
\* requests conflicted (security/tokens.py, rotate_refresh_token).
THEOREM SingleToken ==
    Spec => []OneTokenPerFamily
<1>1. Inv => OneTokenPerFamily
  <2> SUFFICES ASSUME Inv, NEW f \in Tokens, refresh[f].user \notin raced
               PROVE  Cardinality(LiveFamily(f)) <= (IF f \in burned THEN 0 ELSE 1)
    BY DEF OneTokenPerFamily
  <2>1. (\A s, t \in LiveFamily(f) : s = t) /\ (f \in burned => LiveFamily(f) = {})
    BY DEF Inv, SessionInv, FamilyInv
  <2>2. CASE LiveFamily(f) = {}
    BY <2>2, FS_EmptySet
  <2>3. CASE LiveFamily(f) # {}
    <3>1. PICK t : LiveFamily(f) = {t}
      BY <2>1, <2>3
    <3> QED BY <2>1, <3>1, FS_Singleton
  <2> QED BY <2>2, <2>3
<1> QED BY <1>1, Invariance, PTL

\* No sequence of suspensions, demotions and deletions takes the last active
\* SUPER_ADMIN away or makes a second, unless two bootstraps overlapped
\* (security/rbac.py, cli.py).
THEOREM LoneSuperAdmin ==
    Spec => []OneSuperAdmin
<1>1. Inv => OneSuperAdmin
  BY SoleCounts DEF Inv, SuperInv, OneSuperAdmin
<1> QED BY <1>1, Invariance, PTL
=============================================================================
