--------------------------- MODULE DeviceIdentity ---------------------------
(***************************************************************************)
(* The server's side of device identity: enrollment tokens, endpoints and  *)
(* device credentials (server/app/models/endpoint.py), the agent requests  *)
(* that exchange one for the other (server/app/api/agent.py,               *)
(* security/authn.py) and the administrators who take them away again      *)
(* (server/app/api/endpoints.py, enrollment.py).                           *)
(*                                                                         *)
(* A request reads rows first and writes them later in one transaction,    *)
(* which begins with its first UPDATE or INSERT and holds the database's   *)
(* write lock until the commit (SQLite, the default database).  So a       *)
(* request is a read step and a commit step, and others may commit in      *)
(* between.  Row ids are random, hence any unused one.                     *)
(***************************************************************************)
EXTENDS Naturals, FiniteSets

CONSTANTS
    Tokens,         \* enrollment tokens
    EndpointIds,    \* ids an endpoint may be given
    CredentialIds,  \* secrets a device credential may be given
    Workers,        \* server threads that serve agents
    Admins,         \* server threads that serve administrators
    UseLimits,      \* values of max_uses; 0 is unlimited
    None            \* no token, no endpoint, no credential

ASSUME UseLimitsAssumption == UseLimits \subseteq Nat
ASSUME NoneAssumption == None \notin Tokens \cup EndpointIds \cup CredentialIds

VARIABLES
    max_uses,       \* per token
    use_count,      \* per token
    revokedTokens,  \* tokens with a revoked_at
    expiredTokens,  \* tokens whose expires_at has passed
    via,            \* endpoint.enrolled_via_token_id, None for an id not in use
    disabled,       \* endpoints in state DISABLED
    deleted,        \* endpoints with a deleted_at
    owner,          \* credential.endpoint_id, None for a secret never issued
    revoked,        \* credentials with a revoked_at
    expired,        \* credentials whose expires_at has passed
    req,            \* per worker, the agent's request and how far it is
    admin           \* per administrator's thread, the request it has read for

tokenVars == <<max_uses, use_count, revokedTokens, expiredTokens>>
endpointVars == <<via, disabled, deleted>>
credentialVars == <<owner, revoked, expired>>
rowVars == <<tokenVars, endpointVars, credentialVars>>
vars == <<rowVars, req, admin>>

-----------------------------------------------------------------------------
(* Requests                                                                *)

Stages == {"idle", "enroll", "claim", "heartbeat", "rotate", "rotating", "reply"}
Results == {"none", "rejected", "enrolled", "ok", "rotated",
            "unknown_credential", "revoked", "expired", "disabled"}
Requests ==
    {r \in [stage: Stages, token: Tokens \cup {None},
            cred: CredentialIds \cup {None}, result: Results] :
        /\ r.stage \in {"enroll", "claim"} => r.token \in Tokens
        /\ r.stage \in {"heartbeat", "rotate", "rotating"} => r.cred \in CredentialIds}

Idle == [stage |-> "idle", token |-> None, cred |-> None, result |-> "none"]
EnrollRequest(t) == [Idle EXCEPT !.stage = "enroll", !.token = t]
AgentRequest(op, c) == [Idle EXCEPT !.stage = op, !.cred = c]
Reply(result, c) == [Idle EXCEPT !.stage = "reply", !.result = result, !.cred = c]

AdminOps == {"disable", "enable", "revoke_credentials", "delete"}
NoAdminRequest == [op |-> "idle", endpoint |-> None, live |-> {}]
AdminRequests ==
    {NoAdminRequest} \cup [op: AdminOps, endpoint: EndpointIds, live: SUBSET CredentialIds]

Become(w, r) == req' = [req EXCEPT ![w] = r]

\* A request arrives at an idle worker.
Receive(w, r) ==
    /\ req[w] = Idle
    /\ Become(w, r)
    /\ UNCHANGED <<rowVars, admin>>

\* The worker has answered.
Answered(w) ==
    /\ req[w].stage = "reply"
    /\ Become(w, Idle)
    /\ UNCHANGED <<rowVars, admin>>

-----------------------------------------------------------------------------
(* enroll                                                                  *)

HasUsesLeft(t) == max_uses[t] = 0 \/ use_count[t] < max_uses[t]

\* unusable_reason is None
Usable(t) == t \notin revokedTokens /\ HasUsesLeft(t) /\ t \notin expiredTokens

enroll_check(w) ==
    /\ req[w].stage = "enroll"
    /\ Become(w, IF Usable(req[w].token) THEN [req[w] EXCEPT !.stage = "claim"]
                 ELSE Reply("rejected", None))
    /\ UNCHANGED <<rowVars, admin>>

\* Mutants of Claimable: the UPDATE without one of its conditions.
ClaimableAtLimit(t) == t \notin revokedTokens
ClaimableRevoked(t) == HasUsesLeft(t)

\* The WHERE clause of the UPDATE that claims a use; expiry is not in it.
Claimable(t) == t \notin revokedTokens /\ HasUsesLeft(t)

\* A claim that matched no row is rolled back.
RolledBack(t) == use_count

\* The claim, the new endpoint and its credential commit together.
enroll_claim(w) ==
    /\ req[w].stage = "claim"
    /\ LET t == req[w].token IN
       \/ /\ Claimable(t)
          /\ \E e \in EndpointIds, c \in CredentialIds :
               /\ via[e] = None /\ owner[c] = None
               /\ use_count' = [use_count EXCEPT ![t] = @ + 1]
               /\ via' = [via EXCEPT ![e] = t]
               /\ owner' = [owner EXCEPT ![c] = e]
               /\ Become(w, Reply("enrolled", c))
       \/ /\ ~Claimable(t)
          /\ use_count' = RolledBack(t)
          /\ Become(w, Reply("rejected", None))
          /\ UNCHANGED <<via, owner>>
    /\ UNCHANGED <<max_uses, revokedTokens, expiredTokens, disabled, deleted, revoked, expired, admin>>

-----------------------------------------------------------------------------
(* heartbeat and credential rotation                                       *)

\* authenticate_agent_credential: "ok", or why the credential is refused.
authenticate(c) ==
    CASE owner[c] = None -> "unknown_credential"
      [] owner[c] # None /\ c \in revoked -> "revoked"
      [] owner[c] # None /\ c \notin revoked /\ c \in expired -> "expired"
      [] OTHER -> CASE owner[c] \in deleted -> "revoked"
                    [] owner[c] \in disabled \ deleted -> "disabled"
                    [] OTHER -> "ok"

heartbeat(w) ==
    /\ req[w].stage = "heartbeat"
    /\ Become(w, Reply(authenticate(req[w].cred), None))
    /\ UNCHANGED <<rowVars, admin>>

rotate_check(w) ==
    /\ req[w].stage = "rotate"
    /\ LET result == authenticate(req[w].cred) IN
       Become(w, IF result = "ok" THEN [req[w] EXCEPT !.stage = "rotating"]
                 ELSE Reply(result, None))
    /\ UNCHANGED <<rowVars, admin>>

\* Mutant of RotatedOut: the old credential goes on working.
RotatedOutNone(c) == {}

\* Every credential of the endpoint that the rotation finds.
RotatedOut(c) == {d \in CredentialIds : owner[d] = owner[c]}

\* rotate_credential: revoke them and issue a new one, in one transaction.
rotate_commit(w) ==
    /\ req[w].stage = "rotating"
    /\ \E new \in CredentialIds :
         /\ owner[new] = None
         /\ revoked' = revoked \cup RotatedOut(req[w].cred)
         /\ owner' = [owner EXCEPT ![new] = owner[req[w].cred]]
         /\ Become(w, Reply("rotated", new))
    /\ UNCHANGED <<tokenVars, endpointVars, expired, admin>>

-----------------------------------------------------------------------------
(* Administrators                                                          *)

Live(e) == {c \in CredentialIds : owner[c] = e /\ c \notin revoked}

\* _load_endpoint finds the endpoint; revoke_credentials has also read the live
\* credentials before its transaction begins.
admin_load(a) ==
    /\ admin[a].op = "idle"
    /\ \E op \in AdminOps, e \in EndpointIds :
         /\ via[e] # None /\ e \notin deleted
         /\ admin' = [admin EXCEPT ![a] = [op |-> op, endpoint |-> e, live |-> Live(e)]]
    /\ UNCHANGED <<rowVars, req>>

Commits(a, op) == admin[a].op = op /\ admin' = [admin EXCEPT ![a] = NoAdminRequest]

\* disable_endpoint and delete_endpoint change the row before they look for live
\* credentials, so they look inside their transaction.
disable_commit(a) ==
    /\ Commits(a, "disable")
    /\ disabled' = disabled \cup {admin[a].endpoint}
    /\ revoked' = revoked \cup Live(admin[a].endpoint)
    /\ UNCHANGED <<tokenVars, via, deleted, owner, expired, req>>

delete_commit(a) ==
    /\ Commits(a, "delete")
    /\ deleted' = deleted \cup {admin[a].endpoint}
    /\ disabled' = disabled \cup {admin[a].endpoint}
    /\ revoked' = revoked \cup Live(admin[a].endpoint)
    /\ UNCHANGED <<tokenVars, via, owner, expired, req>>

enable_commit(a) ==
    /\ Commits(a, "enable")
    /\ disabled' = disabled \ {admin[a].endpoint}
    /\ UNCHANGED <<tokenVars, via, deleted, credentialVars, req>>

revoke_commit(a) ==
    /\ Commits(a, "revoke_credentials")
    /\ revoked' = revoked \cup admin[a].live
    /\ UNCHANGED <<tokenVars, endpointVars, owner, expired, req>>

revoke_token(t) ==
    /\ t \notin revokedTokens
    /\ revokedTokens' = revokedTokens \cup {t}
    /\ UNCHANGED <<max_uses, use_count, expiredTokens, endpointVars, credentialVars, req, admin>>

-----------------------------------------------------------------------------
(* Time                                                                    *)

TokenExpires(t) ==
    /\ t \notin expiredTokens
    /\ expiredTokens' = expiredTokens \cup {t}
    /\ UNCHANGED <<max_uses, use_count, revokedTokens, endpointVars, credentialVars, req, admin>>

CredentialExpires(c) ==
    /\ owner[c] # None /\ c \notin expired
    /\ expired' = expired \cup {c}
    /\ UNCHANGED <<tokenVars, endpointVars, owner, revoked, req, admin>>

-----------------------------------------------------------------------------

Init ==
    /\ max_uses \in [Tokens -> UseLimits]
    /\ use_count = [t \in Tokens |-> 0]
    /\ revokedTokens = {}
    /\ expiredTokens = {}
    /\ via = [e \in EndpointIds |-> None]
    /\ disabled = {}
    /\ deleted = {}
    /\ owner = [c \in CredentialIds |-> None]
    /\ revoked = {}
    /\ expired = {}
    /\ req = [w \in Workers |-> Idle]
    /\ admin = [a \in Admins |-> NoAdminRequest]

Serve(w) ==
    \/ enroll_check(w)
    \/ enroll_claim(w)
    \/ heartbeat(w)
    \/ rotate_check(w)
    \/ rotate_commit(w)

Administer(a) ==
    \/ admin_load(a)
    \/ disable_commit(a)
    \/ delete_commit(a)
    \/ enable_commit(a)
    \/ revoke_commit(a)

\* Whoever holds a token or a secret may present it.
Present(w) ==
    \/ \E t \in Tokens : Receive(w, EnrollRequest(t))
    \/ \E op \in {"heartbeat", "rotate"}, c \in CredentialIds : Receive(w, AgentRequest(op, c))

Next ==
    \/ \E w \in Workers : Present(w) \/ Serve(w) \/ Answered(w)
    \/ \E a \in Admins : Administer(a)
    \/ \E t \in Tokens : revoke_token(t) \/ TokenExpires(t)
    \/ \E c \in CredentialIds : CredentialExpires(c)

Spec == Init /\ [][Next]_vars

-----------------------------------------------------------------------------
(* Properties                                                              *)

\* Types of the rows and of the requests in progress.
TypeOK ==
    /\ max_uses \in [Tokens -> Nat]
    /\ use_count \in [Tokens -> Nat]
    /\ revokedTokens \subseteq Tokens /\ expiredTokens \subseteq Tokens
    /\ via \in [EndpointIds -> Tokens \cup {None}]
    /\ disabled \subseteq EndpointIds /\ deleted \subseteq EndpointIds
    /\ owner \in [CredentialIds -> EndpointIds \cup {None}]
    /\ revoked \subseteq CredentialIds /\ expired \subseteq CredentialIds
    /\ req \in [Workers -> Requests]
    /\ admin \in [Admins -> AdminRequests]

EnrolledWith(t) == {e \in EndpointIds : via[e] = t}

\* A token of n uses never registers more than n endpoints, however many
\* installers present it at once: "Claim one use atomically so two installers
\* racing on a single-use token cannot both succeed" (agent.py).
EnrollmentsWithinLimit ==
    \A t \in Tokens : max_uses[t] > 0 => Cardinality(EnrolledWith(t)) <= max_uses[t]

\* "revocation is immediate" (EnrollmentToken): once a revocation has committed
\* no endpoint is registered with the token, not even by a request that had
\* found it usable before.
NoEnrollmentAfterRevocation ==
    [][\A t \in revokedTokens : EnrolledWith(t)' = EnrolledWith(t)]_vars

\* An endpoint never has two credentials that are not revoked, whatever
\* rotations overlap: "Issue a fresh device credential and revoke the presented
\* one" (rotate_credential).
OneLiveCredential ==
    \A e \in EndpointIds : \A c, d \in Live(e) : c = d

\* "Credentials stay revoked: the agent must enroll again to get a new one"
\* (enable_endpoint): an endpoint that comes back from DISABLED has no live
\* credential.
EnabledNeedsEnrollment ==
    [][\A e \in disabled \ disabled' : Live(e)' = {}]_vars
=============================================================================
