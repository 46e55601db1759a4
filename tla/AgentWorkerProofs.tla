------------------------- MODULE AgentWorkerProofs -------------------------
(***************************************************************************)
(* Proofs about DeviceIdentity, for any number of tokens, installers,      *)
(* server threads and administrators, and then about AgentWorker: the      *)
(* agent is a client the identity server allows for, and a device that was *)
(* turned away stays out, whatever is lost, crashes or is installed, and   *)
(* in any number.                                                          *)
(***************************************************************************)
EXTENDS AgentWorker, FiniteSetTheorems, TLAPS

-----------------------------------------------------------------------------
(* DeviceIdentity: the server with an arbitrary client.                      *)

\* A reply is a request record.
LEMMA ReplyType ==
    ASSUME NEW r \in Results, NEW c \in CredentialIds \cup {None}
    PROVE  Reply(r, c) \in Requests
BY DEF Reply, Idle, Requests, Stages, Results

\* What authentication answers is a result.
LEMMA AuthenticateType ==
    ASSUME NEW c PROVE authenticate(c) \in Results
BY DEF authenticate, Results

\* Every step keeps the rows and the requests in progress in their types.
LEMMA TypeStep == TypeOK /\ [Next]_vars => TypeOK'
<1> SUFFICES ASSUME TypeOK, [Next]_vars PROVE TypeOK'
  OBVIOUS
<1> USE DEF TypeOK
<1>1. ASSUME NEW w \in Workers, Present(w) PROVE TypeOK'
  <2>1. PICK r \in Requests : Receive(w, r)
    BY <1>1 DEF Present, EnrollRequest, AgentRequest, Idle, Requests, Stages, Results
  <2> QED BY <2>1 DEF Receive, Become, rowVars, tokenVars, endpointVars, credentialVars
<1>2. ASSUME NEW w \in Workers, Answered(w) PROVE TypeOK'
  <2>1. Idle \in Requests
    BY DEF Idle, Requests, Stages, Results
  <2> QED BY <1>2, <2>1 DEF Answered, Become, rowVars, tokenVars, endpointVars, credentialVars
<1>3. ASSUME NEW w \in Workers, enroll_check(w) PROVE TypeOK'
  <2>1. Reply("rejected", None) \in Requests
    BY ReplyType DEF Results
  <2>2. [req[w] EXCEPT !.stage = "claim"] \in Requests
    BY <1>3 DEF enroll_check, Requests, Stages
  <2> QED BY <1>3, <2>1, <2>2 DEF enroll_check, Become, rowVars, tokenVars, endpointVars, credentialVars
<1>4. ASSUME NEW w \in Workers, enroll_claim(w) PROVE TypeOK'
  <2> DEFINE t == req[w].token
  <2>1. UNCHANGED <<max_uses, revokedTokens, expiredTokens, disabled, deleted, revoked, expired, admin>>
    BY <1>4 DEF enroll_claim
  <2>2. CASE \E e \in EndpointIds, c \in CredentialIds :
               /\ use_count' = [use_count EXCEPT ![t] = @ + 1]
               /\ via' = [via EXCEPT ![e] = t]
               /\ owner' = [owner EXCEPT ![c] = e]
               /\ Become(w, Reply("enrolled", c))
    <3>1. PICK e \in EndpointIds, c \in CredentialIds :
               /\ use_count' = [use_count EXCEPT ![t] = @ + 1]
               /\ via' = [via EXCEPT ![e] = t]
               /\ owner' = [owner EXCEPT ![c] = e]
               /\ Become(w, Reply("enrolled", c))
      BY <2>2
    <3>2. Reply("enrolled", c) \in Requests
      BY ReplyType DEF Results
    <3>3. t \in Tokens
      BY <1>4 DEF enroll_claim, Requests
    <3>4. use_count' \in [Tokens -> Nat]
      BY <3>1, <3>3
    <3>5. via' \in [EndpointIds -> Tokens \cup {None}] /\ owner' \in [CredentialIds -> EndpointIds \cup {None}]
      BY <3>1, <3>3
    <3>6. req' \in [Workers -> Requests]
      BY <3>1, <3>2 DEF Become
    <3> QED BY <2>1, <3>4, <3>5, <3>6
  <2>3. CASE use_count' = RolledBack(t) /\ Become(w, Reply("rejected", None)) /\ UNCHANGED <<via, owner>>
    <3>1. Reply("rejected", None) \in Requests
      BY ReplyType DEF Results
    <3> QED BY <2>1, <2>3, <3>1 DEF RolledBack, Become
  <2> QED BY <1>4, <2>2, <2>3 DEF enroll_claim
<1>5. ASSUME NEW w \in Workers, heartbeat(w) PROVE TypeOK'
  <2>1. Reply(authenticate(req[w].cred), None) \in Requests
    BY ReplyType, AuthenticateType
  <2> QED BY <1>5, <2>1 DEF heartbeat, Become, rowVars, tokenVars, endpointVars, credentialVars
<1>6. ASSUME NEW w \in Workers, rotate_check(w) PROVE TypeOK'
  <2>1. Reply(authenticate(req[w].cred), None) \in Requests
    BY ReplyType, AuthenticateType
  <2>2. [req[w] EXCEPT !.stage = "rotating"] \in Requests
    BY <1>6 DEF rotate_check, Requests, Stages
  <2> QED BY <1>6, <2>1, <2>2 DEF rotate_check, Become, rowVars, tokenVars, endpointVars, credentialVars
<1>7. ASSUME NEW w \in Workers, rotate_commit(w) PROVE TypeOK'
  <2>1. PICK new \in CredentialIds :
           /\ owner[new] = None
           /\ revoked' = revoked \cup RotatedOut(req[w].cred)
           /\ owner' = [owner EXCEPT ![new] = owner[req[w].cred]]
           /\ Become(w, Reply("rotated", new))
    BY <1>7 DEF rotate_commit
  <2>2. Reply("rotated", new) \in Requests
    BY ReplyType DEF Results
  <2>3. req' \in [Workers -> Requests]
    BY <2>1, <2>2 DEF Become
  <2>4. req[w].cred \in CredentialIds
    BY <1>7 DEF rotate_commit, Requests
  <2>5. owner' \in [CredentialIds -> EndpointIds \cup {None}]
    BY <2>1, <2>4
  <2> QED BY <1>7, <2>1, <2>3, <2>5 DEF rotate_commit, RotatedOut, tokenVars, endpointVars
<1>8. ASSUME NEW a \in Admins, Administer(a) PROVE TypeOK'
  <2> USE DEF AdminRequests, NoAdminRequest, AdminOps, Commits, Live,
              rowVars, tokenVars, endpointVars, credentialVars
  <2>1. CASE admin_load(a)
    BY <2>1 DEF admin_load
  <2>2. CASE disable_commit(a)
    BY <2>2 DEF disable_commit
  <2>3. CASE delete_commit(a)
    BY <2>3 DEF delete_commit
  <2>4. CASE enable_commit(a)
    BY <2>4 DEF enable_commit
  <2>5. CASE revoke_commit(a)
    BY <2>5 DEF revoke_commit
  <2> QED BY <1>8, <2>1, <2>2, <2>3, <2>4, <2>5 DEF Administer
<1>9. ASSUME NEW t \in Tokens, revoke_token(t) \/ TokenExpires(t) PROVE TypeOK'
  BY <1>9 DEF revoke_token, TokenExpires, endpointVars, credentialVars
<1>10. ASSUME NEW c \in CredentialIds, CredentialExpires(c) PROVE TypeOK'
  BY <1>10 DEF CredentialExpires, tokenVars, endpointVars
<1>11. CASE UNCHANGED vars
  BY <1>11 DEF vars, rowVars, tokenVars, endpointVars, credentialVars
<1> QED
  BY <1>1, <1>2, <1>3, <1>4, <1>5, <1>6, <1>7, <1>8, <1>9, <1>10, <1>11 DEF Next, Serve

\* Types hold initially.
LEMMA InitType == Init => TypeOK
<1> SUFFICES ASSUME Init PROVE TypeOK
  OBVIOUS
<1>1. Idle \in Requests
  BY DEF Idle, Requests, Stages, Results
<1>2. max_uses \in [Tokens -> Nat]
  BY UseLimitsAssumption DEF Init
<1> QED BY <1>1, <1>2 DEF Init, TypeOK, AdminRequests

\* Types hold throughout.
THEOREM TypeCorrect == Spec => []TypeOK
BY InitType, TypeStep, PTL DEF Spec

-----------------------------------------------------------------------------
(* The use count of a token is the number of endpoints it registered, so the *)
(* bound the claim keeps on the one is a bound on the other.                 *)

CountsEndpoints ==
    \A t \in Tokens : /\ IsFiniteSet(EnrolledWith(t))
                      /\ use_count[t] = Cardinality(EnrolledWith(t))

LimitKept == \A t \in Tokens : max_uses[t] > 0 => use_count[t] <= max_uses[t]

\* Every step but a successful claim leaves the tokens' counts and the
\* endpoints as they are.
LEMMA ClaimOnly ==
    ASSUME [Next]_vars, \A w \in Workers : ~enroll_claim(w)
    PROVE  UNCHANGED <<max_uses, use_count, via>>
<1>1. ASSUME NEW w \in Workers, Present(w) \/ Serve(w) \/ Answered(w)
      PROVE  UNCHANGED <<max_uses, use_count, via>>
  BY <1>1 DEF Present, Serve, Answered, Receive, enroll_check, heartbeat, rotate_check,
              rotate_commit, rowVars, tokenVars, endpointVars
<1>2. ASSUME NEW a \in Admins, Administer(a) PROVE UNCHANGED <<max_uses, use_count, via>>
  BY <1>2 DEF Administer, admin_load, disable_commit, delete_commit, enable_commit,
              revoke_commit, rowVars, tokenVars, endpointVars
<1>3. ASSUME NEW t \in Tokens, revoke_token(t) \/ TokenExpires(t)
      PROVE  UNCHANGED <<max_uses, use_count, via>>
  BY <1>3 DEF revoke_token, TokenExpires, endpointVars
<1>4. ASSUME NEW c \in CredentialIds, CredentialExpires(c)
      PROVE  UNCHANGED <<max_uses, use_count, via>>
  BY <1>4 DEF CredentialExpires, tokenVars, endpointVars
<1>5. CASE UNCHANGED vars
  BY <1>5 DEF vars, rowVars, tokenVars, endpointVars
<1> QED BY <1>1, <1>2, <1>3, <1>4, <1>5 DEF Next

\* What a claim does to the tokens and the endpoints.
LEMMA ClaimEffect ==
    ASSUME TypeOK, NEW w \in Workers, enroll_claim(w)
    PROVE  /\ max_uses' = max_uses
           /\ \/ UNCHANGED <<use_count, via>>
              \/ \E t \in Tokens, e \in EndpointIds :
                   /\ Claimable(t) /\ via[e] = None
                   /\ use_count' = [use_count EXCEPT ![t] = @ + 1]
                   /\ via' = [via EXCEPT ![e] = t]
<1>1. req[w].token \in Tokens
  BY DEF enroll_claim, TypeOK, Requests
<1> QED BY <1>1 DEF enroll_claim, RolledBack

\* Every step keeps the counts right and within the limits.
LEMMA CountStep ==
    ASSUME TypeOK, CountsEndpoints, LimitKept, [Next]_vars
    PROVE  CountsEndpoints' /\ LimitKept'
<1>1. CASE UNCHANGED <<max_uses, use_count, via>>
  BY <1>1 DEF CountsEndpoints, LimitKept, EnrolledWith
<1>2. ASSUME NEW t \in Tokens, NEW e \in EndpointIds,
             max_uses' = max_uses,
             Claimable(t), via[e] = None,
             use_count' = [use_count EXCEPT ![t] = @ + 1],
             via' = [via EXCEPT ![e] = t]
      PROVE  CountsEndpoints' /\ LimitKept'
  <2>1. ASSUME NEW u \in Tokens
        PROVE  /\ IsFiniteSet(EnrolledWith(u)')
               /\ use_count'[u] = Cardinality(EnrolledWith(u)')
               /\ max_uses'[u] > 0 => use_count'[u] <= max_uses'[u]
    <3>1. CASE u = t
      <4>1. EnrolledWith(t)' = EnrolledWith(t) \cup {e} /\ e \notin EnrolledWith(t)
        BY <1>2, NoneAssumption DEF EnrolledWith, TypeOK
      <4>2. IsFiniteSet(EnrolledWith(t)') /\ Cardinality(EnrolledWith(t)') = Cardinality(EnrolledWith(t)) + 1
        BY <4>1, FS_AddElement DEF CountsEndpoints
      <4>3. use_count'[t] = use_count[t] + 1
        BY <1>2 DEF TypeOK
      <4>4. max_uses[t] > 0 => use_count[t] + 1 <= max_uses[t]
        BY <1>2 DEF Claimable, HasUsesLeft, TypeOK
      <4> QED BY <1>2, <3>1, <4>2, <4>3, <4>4 DEF CountsEndpoints
    <3>2. CASE u # t
      <4>1. EnrolledWith(u)' = EnrolledWith(u)
        BY <1>2, <3>2, NoneAssumption DEF EnrolledWith, TypeOK
      <4>2. use_count'[u] = use_count[u]
        BY <1>2, <3>2 DEF TypeOK
      <4> QED BY <1>2, <4>1, <4>2 DEF CountsEndpoints, LimitKept
    <3> QED BY <3>1, <3>2
  <2> QED BY <2>1 DEF CountsEndpoints, LimitKept
<1>3. CASE \E w \in Workers : enroll_claim(w)
  BY <1>1, <1>2, <1>3, ClaimEffect
<1> QED BY <1>1, <1>3, ClaimOnly

\* The claim is atomic: no interleaving of installers, revocations and other
\* requests registers more endpoints with a token than it has uses.
THEOREM EnrollmentsAreLimited == Spec => []EnrollmentsWithinLimit
<1>1. Init => CountsEndpoints /\ LimitKept
  <2> SUFFICES ASSUME Init, NEW t \in Tokens
               PROVE  /\ IsFiniteSet(EnrolledWith(t))
                      /\ use_count[t] = Cardinality(EnrolledWith(t))
                      /\ max_uses[t] > 0 => use_count[t] <= max_uses[t]
    BY DEF CountsEndpoints, LimitKept
  <2>1. EnrolledWith(t) = {}
    BY NoneAssumption DEF Init, EnrolledWith
  <2>2. IsFiniteSet(EnrolledWith(t)) /\ Cardinality(EnrolledWith(t)) = 0
    BY <2>1, FS_EmptySet
  <2>3. use_count[t] = 0 /\ max_uses[t] \in Nat
    BY UseLimitsAssumption DEF Init
  <2> QED BY <2>2, <2>3
<1>2. CountsEndpoints /\ LimitKept => EnrollmentsWithinLimit
  BY DEF CountsEndpoints, LimitKept, EnrollmentsWithinLimit
<1>3. TypeOK /\ CountsEndpoints /\ LimitKept /\ [Next]_vars => CountsEndpoints' /\ LimitKept'
  BY CountStep
<1> QED BY <1>1, <1>2, <1>3, TypeCorrect, PTL DEF Spec

-----------------------------------------------------------------------------
(* Revocation of a token.                                                    *)

\* A revoked token registers nothing, also for requests that had read it before.
THEOREM RevocationIsImmediate == Spec => NoEnrollmentAfterRevocation
<1>1. ASSUME TypeOK, [Next]_vars
      PROVE  \A t \in revokedTokens : EnrolledWith(t)' = EnrolledWith(t)
  <2>1. CASE UNCHANGED via
    BY <2>1 DEF EnrolledWith
  <2>2. ASSUME NEW t \in Tokens, NEW e \in EndpointIds, Claimable(t), via[e] = None,
               via' = [via EXCEPT ![e] = t], NEW u \in revokedTokens
        PROVE  EnrolledWith(u)' = EnrolledWith(u)
    BY <1>1, <2>2, NoneAssumption DEF Claimable, EnrolledWith, TypeOK
  <2>3. CASE \E w \in Workers : enroll_claim(w)
    BY <1>1, <2>1, <2>2, <2>3, ClaimEffect
  <2> QED BY <1>1, <2>1, <2>3, ClaimOnly
<1> QED BY <1>1, TypeCorrect, PTL DEF Spec, NoEnrollmentAfterRevocation

-----------------------------------------------------------------------------
(* Device credentials.                                                       *)

\* A credential that was issued belongs to an endpoint that was registered, and
\* a rotation in progress is of a credential that was issued.
CredentialsOwned ==
    /\ \A c \in CredentialIds : owner[c] # None => via[owner[c]] # None
    /\ \A w \in Workers : req[w].stage = "rotating" => owner[req[w].cred] # None

\* Every step keeps the ownership of credentials.
LEMMA OwnedStep ==
    ASSUME TypeOK, CredentialsOwned, [Next]_vars
    PROVE  CredentialsOwned'
<1> USE DEF CredentialsOwned
<1>1. ASSUME NEW w \in Workers, enroll_claim(w) PROVE CredentialsOwned'
  <2>1. CASE \E e \in EndpointIds, c \in CredentialIds :
               /\ via[e] = None /\ owner[c] = None
               /\ via' = [via EXCEPT ![e] = req[w].token]
               /\ owner' = [owner EXCEPT ![c] = e]
               /\ Become(w, Reply("enrolled", c))
    <3>1. req[w].token \in Tokens
      BY <1>1 DEF enroll_claim, TypeOK, Requests
    <3> QED BY <2>1, <3>1, NoneAssumption DEF Become, Reply, Idle, TypeOK
  <2>2. CASE Become(w, Reply("rejected", None)) /\ UNCHANGED <<via, owner>>
    BY <2>2 DEF Become, Reply, Idle, TypeOK
  <2> QED BY <1>1, <2>1, <2>2 DEF enroll_claim
<1>2. ASSUME NEW w \in Workers, rotate_commit(w) PROVE CredentialsOwned'
  <2>1. req[w].cred \in CredentialIds /\ owner[req[w].cred] # None
    BY <1>2 DEF rotate_commit, TypeOK, Requests
  <2> QED BY <1>2, <2>1 DEF rotate_commit, Become, Reply, Idle, endpointVars, TypeOK
<1>3. ASSUME NEW w \in Workers, rotate_check(w) PROVE CredentialsOwned'
  <2>1. req[w].cred \in CredentialIds
    BY <1>3 DEF rotate_check, TypeOK, Requests
  <2>2. authenticate(req[w].cred) = "ok" => owner[req[w].cred] # None
    BY DEF authenticate
  <2> QED BY <1>3, <2>1, <2>2
       DEF rotate_check, Become, Reply, Idle, rowVars, endpointVars, credentialVars, TypeOK
<1>4. ASSUME NEW w \in Workers, Present(w) \/ enroll_check(w) \/ heartbeat(w) \/ Answered(w)
      PROVE  CredentialsOwned'
  <2>1. UNCHANGED <<via, owner>>
    BY <1>4 DEF Present, Receive, Answered, enroll_check, heartbeat,
                rowVars, endpointVars, credentialVars
  <2>2. \E r : r.stage # "rotating" /\ req' = [req EXCEPT ![w] = r]
    <3>1. CASE Present(w)
      BY <3>1 DEF Present, Receive, Become, EnrollRequest, AgentRequest, Idle
    <3>2. CASE enroll_check(w)
      <4>1. [req[w] EXCEPT !.stage = "claim"].stage = "claim"
        BY DEF TypeOK, Requests
      <4> QED BY <3>2, <4>1 DEF enroll_check, Become, Reply, Idle
    <3>3. CASE heartbeat(w)
      BY <3>3 DEF heartbeat, Become, Reply, Idle
    <3>4. CASE Answered(w)
      BY <3>4 DEF Answered, Become, Idle
    <3> QED BY <1>4, <3>1, <3>2, <3>3, <3>4
  <2> QED BY <2>1, <2>2 DEF TypeOK
<1>5. ASSUME UNCHANGED <<via, owner, req>> PROVE CredentialsOwned'
  BY <1>5
<1>6. ASSUME NEW a \in Admins, Administer(a) PROVE CredentialsOwned'
  BY <1>5, <1>6 DEF Administer, admin_load, disable_commit, delete_commit, enable_commit,
                    revoke_commit, rowVars, endpointVars, credentialVars
<1>7. ASSUME NEW t \in Tokens, revoke_token(t) \/ TokenExpires(t) PROVE CredentialsOwned'
  BY <1>5, <1>7 DEF revoke_token, TokenExpires, endpointVars, credentialVars
<1>8. ASSUME NEW c \in CredentialIds, CredentialExpires(c) PROVE CredentialsOwned'
  BY <1>5, <1>8 DEF CredentialExpires, endpointVars
<1>9. CASE UNCHANGED vars
  BY <1>5, <1>9 DEF vars, rowVars, endpointVars, credentialVars
<1> QED BY <1>1, <1>2, <1>3, <1>4, <1>6, <1>7, <1>8, <1>9 DEF Next, Serve

\* Every step keeps the live credentials of an endpoint at one.
LEMMA LiveStep ==
    ASSUME TypeOK, CredentialsOwned, OneLiveCredential, [Next]_vars
    PROVE  OneLiveCredential'
<1>1. ASSUME owner' = owner, revoked \subseteq revoked' PROVE OneLiveCredential'
  BY <1>1 DEF OneLiveCredential, Live
<1>2. ASSUME NEW w \in Workers, enroll_claim(w) PROVE OneLiveCredential'
  <2>1. CASE owner' = owner
    BY <1>1, <1>2, <2>1 DEF enroll_claim
  <2>2. CASE \E e \in EndpointIds, c \in CredentialIds :
               via[e] = None /\ owner' = [owner EXCEPT ![c] = e]
    <3>1. PICK e \in EndpointIds, c \in CredentialIds :
                 via[e] = None /\ owner' = [owner EXCEPT ![c] = e]
      BY <2>2
    <3>2. \A d \in CredentialIds : owner[d] # e
      BY <3>1, NoneAssumption DEF CredentialsOwned
    <3> QED BY <1>2, <3>1, <3>2 DEF enroll_claim, OneLiveCredential, Live, TypeOK
  <2> QED BY <1>2, <2>1, <2>2 DEF enroll_claim
<1>3. ASSUME NEW w \in Workers, rotate_commit(w) PROVE OneLiveCredential'
  <2>1. PICK new \in CredentialIds :
           /\ owner[new] = None
           /\ revoked' = revoked \cup RotatedOut(req[w].cred)
           /\ owner' = [owner EXCEPT ![new] = owner[req[w].cred]]
    BY <1>3 DEF rotate_commit
  <2>2. owner[req[w].cred] # None
    BY <1>3 DEF rotate_commit, CredentialsOwned
  <2>3. ASSUME NEW e \in EndpointIds, NEW c \in Live(e)', NEW d \in Live(e)' PROVE c = d
    BY <2>1, <2>2, <2>3 DEF Live, RotatedOut, OneLiveCredential, TypeOK
  <2> QED BY <2>3 DEF OneLiveCredential
<1>4. ASSUME NEW w \in Workers, Present(w) \/ Serve(w) \/ Answered(w) PROVE OneLiveCredential'
  BY <1>1, <1>2, <1>3, <1>4
     DEF Present, Receive, Serve, Answered, enroll_check, heartbeat, rotate_check, rowVars, credentialVars
<1>5. ASSUME NEW a \in Admins, Administer(a) PROVE OneLiveCredential'
  BY <1>1, <1>5 DEF Administer, admin_load, disable_commit, delete_commit, enable_commit,
                    revoke_commit, rowVars, credentialVars
<1>6. ASSUME NEW t \in Tokens, revoke_token(t) \/ TokenExpires(t) PROVE OneLiveCredential'
  BY <1>1, <1>6 DEF revoke_token, TokenExpires, credentialVars
<1>7. ASSUME NEW c \in CredentialIds, CredentialExpires(c) PROVE OneLiveCredential'
  BY <1>1, <1>7 DEF CredentialExpires
<1>8. CASE UNCHANGED vars
  BY <1>1, <1>8 DEF vars, rowVars, credentialVars
<1> QED BY <1>4, <1>5, <1>6, <1>7, <1>8 DEF Next

\* However rotations of an endpoint's credential overlap each other, enrollments
\* and administrators, at most one credential of it is not revoked.
THEOREM AtMostOneLiveCredential == Spec => []OneLiveCredential
<1>1. Init => CredentialsOwned /\ OneLiveCredential
  BY NoneAssumption DEF Init, CredentialsOwned, OneLiveCredential, Live, Idle
<1>2. TypeOK /\ CredentialsOwned /\ OneLiveCredential /\ [Next]_vars
        => CredentialsOwned' /\ OneLiveCredential'
  BY OwnedStep, LiveStep
<1> QED BY <1>1, <1>2, TypeCorrect, PTL DEF Spec

\* What is revoked, or read to be revoked, was issued.
RevokedWereIssued ==
    /\ \A c \in revoked : owner[c] # None
    /\ \A a \in Admins : \A c \in admin[a].live : owner[c] # None

\* A revocation is never taken back, and a credential keeps its owner.
LEMMA RevocationStays ==
    ASSUME TypeOK, [Next]_vars
    PROVE  /\ revoked \subseteq revoked'
           /\ \A c \in CredentialIds : owner[c] # None => owner'[c] = owner[c]
<1>1. ASSUME NEW w \in Workers, enroll_claim(w) \/ rotate_commit(w)
      PROVE  /\ revoked \subseteq revoked'
             /\ \A c \in CredentialIds : owner[c] # None => owner'[c] = owner[c]
  BY <1>1 DEF enroll_claim, rotate_commit, TypeOK
<1>2. CASE owner' = owner /\ revoked \subseteq revoked'
  BY <1>2
<1>3. ASSUME NEW w \in Workers,
             Present(w) \/ Answered(w) \/ enroll_check(w) \/ heartbeat(w) \/ rotate_check(w)
      PROVE  owner' = owner /\ revoked \subseteq revoked'
  BY <1>3 DEF Present, Receive, Answered, enroll_check, heartbeat, rotate_check, rowVars, credentialVars
<1>4. ASSUME NEW a \in Admins, Administer(a) PROVE owner' = owner /\ revoked \subseteq revoked'
  BY <1>4 DEF Administer, admin_load, disable_commit, delete_commit, enable_commit,
              revoke_commit, rowVars, credentialVars
<1>5. ASSUME NEW t \in Tokens, revoke_token(t) \/ TokenExpires(t)
      PROVE  owner' = owner /\ revoked \subseteq revoked'
  BY <1>5 DEF revoke_token, TokenExpires, credentialVars
<1>6. ASSUME NEW c \in CredentialIds, CredentialExpires(c)
      PROVE  owner' = owner /\ revoked \subseteq revoked'
  BY <1>6 DEF CredentialExpires
<1>7. CASE UNCHANGED vars
  BY <1>2, <1>7 DEF vars, rowVars, credentialVars
<1> QED BY <1>1, <1>2, <1>3, <1>4, <1>5, <1>6, <1>7 DEF Next, Serve

\* Every step keeps revocations to issued credentials.
LEMMA IssuedStep ==
    ASSUME TypeOK, CredentialsOwned, RevokedWereIssued, [Next]_vars
    PROVE  RevokedWereIssued'
<1> USE DEF RevokedWereIssued
<1>a. \A c \in CredentialIds : owner[c] # None => owner'[c] # None
  BY RevocationStays
<1>b. ASSUME NEW e \in EndpointIds PROVE \A c \in Live(e) : c \in CredentialIds /\ owner[c] # None
  BY NoneAssumption DEF Live
<1>c. revoked \subseteq CredentialIds
      /\ \A a \in Admins : admin[a].live \subseteq CredentialIds
  BY DEF TypeOK, AdminRequests, NoAdminRequest
<1>1. ASSUME \A c \in revoked' : c \in CredentialIds /\ owner[c] # None,
             \A a \in Admins : \A c \in admin'[a].live : c \in CredentialIds /\ owner[c] # None
      PROVE  RevokedWereIssued'
  BY <1>1, <1>a
<1>2. CASE revoked' = revoked /\ admin' = admin
  BY <1>1, <1>2, <1>c
<1>3. ASSUME NEW w \in Workers, rotate_commit(w) PROVE RevokedWereIssued'
  <2>1. owner[req[w].cred] # None
    BY <1>3 DEF rotate_commit, CredentialsOwned
  <2> QED BY <1>1, <1>3, <1>c, <2>1 DEF rotate_commit, RotatedOut
<1>4. ASSUME NEW w \in Workers, Present(w) \/ Answered(w) \/ enroll_check(w) \/ enroll_claim(w)
                                 \/ heartbeat(w) \/ rotate_check(w)
      PROVE  revoked' = revoked /\ admin' = admin
  BY <1>4 DEF Present, Receive, Answered, enroll_check, enroll_claim, heartbeat, rotate_check,
              rowVars, credentialVars
<1>5. ASSUME NEW a \in Admins, admin_load(a) PROVE RevokedWereIssued'
  <2>1. PICK op \in AdminOps, e \in EndpointIds :
           admin' = [admin EXCEPT ![a] = [op |-> op, endpoint |-> e, live |-> Live(e)]]
    BY <1>5 DEF admin_load
  <2>2. revoked' = revoked
    BY <1>5 DEF admin_load, rowVars, credentialVars
  <2> QED BY <2>1, <2>2, <1>1, <1>b, <1>c DEF TypeOK
<1>6. ASSUME NEW a \in Admins,
             disable_commit(a) \/ delete_commit(a) \/ enable_commit(a) \/ revoke_commit(a)
      PROVE  RevokedWereIssued'
  <2>1. admin' = [admin EXCEPT ![a] = NoAdminRequest]
    BY <1>6 DEF disable_commit, delete_commit, enable_commit, revoke_commit, Commits
  <2>2. admin[a].op # "idle" => admin[a].endpoint \in EndpointIds
    BY DEF TypeOK, AdminRequests, NoAdminRequest
  <2>3. admin[a].endpoint \in EndpointIds
    BY <1>6, <2>2 DEF disable_commit, delete_commit, enable_commit, revoke_commit, Commits
  <2>4. \A c \in revoked' : c \in CredentialIds /\ owner[c] # None
    BY <1>6, <2>3, <1>b, <1>c
       DEF disable_commit, delete_commit, enable_commit, revoke_commit, credentialVars
  <2>5. \A b \in Admins : \A c \in admin'[b].live : c \in CredentialIds /\ owner[c] # None
    BY <2>1, <1>c DEF TypeOK, NoAdminRequest
  <2> QED BY <2>4, <2>5, <1>1
<1>7. ASSUME NEW t \in Tokens, revoke_token(t) \/ TokenExpires(t)
      PROVE  revoked' = revoked /\ admin' = admin
  BY <1>7 DEF revoke_token, TokenExpires, credentialVars
<1>8. ASSUME NEW c \in CredentialIds, CredentialExpires(c)
      PROVE  revoked' = revoked /\ admin' = admin
  BY <1>8 DEF CredentialExpires
<1>9. CASE UNCHANGED vars
  BY <1>2, <1>9 DEF vars, rowVars, credentialVars
<1> QED BY <1>2, <1>3, <1>4, <1>5, <1>6, <1>7, <1>8, <1>9 DEF Next, Serve, Administer

\* Only credentials that were issued are ever revoked: the server never calls
\* revoked what it does not know.
THEOREM OnlyIssuedRevoked == Spec => []RevokedWereIssued
<1>1. Init => CredentialsOwned /\ RevokedWereIssued
  BY NoneAssumption DEF Init, CredentialsOwned, RevokedWereIssued, Idle, NoAdminRequest
<1>2. TypeOK /\ CredentialsOwned /\ RevokedWereIssued /\ [Next]_vars
        => CredentialsOwned' /\ RevokedWereIssued'
  BY OwnedStep, IssuedStep
<1> QED BY <1>1, <1>2, TypeCorrect, PTL DEF Spec

-----------------------------------------------------------------------------
(* What the server does to a request.                                        *)

Verdicts == {"ok", "unknown_credential", "revoked", "expired", "disabled"}

\* Authentication answers with a verdict.
LEMMA AuthenticateVerdict ==
    ASSUME NEW c PROVE authenticate(c) \in Verdicts
BY DEF authenticate, Verdicts

\* How a request q may become r when a thread serves it.
Served(q, r) ==
    \/ q.stage = "enroll" /\ r.stage = "claim"
    \/ /\ q.stage \in {"enroll", "claim"}
       /\ r.stage = "reply" /\ r.result = "rejected" /\ r.cred = None
    \/ /\ q.stage = "claim"
       /\ r.stage = "reply" /\ r.result = "enrolled" /\ r.cred \in CredentialIds
    \/ q.stage = "rotate" /\ r.stage = "rotating"
    \/ /\ q.stage \in {"heartbeat", "rotate"}
       /\ r.stage = "reply" /\ r.result = authenticate(q.cred) /\ r.cred = None
    \/ /\ q.stage = "rotating"
       /\ r.stage = "reply" /\ r.result = "rotated" /\ r.cred \in CredentialIds

Advances(w) == \E r : req' = [req EXCEPT ![w] = r] /\ Served(req[w], r)

\* A server thread advances its own request.
LEMMA ServeEffect ==
    ASSUME TypeOK, NEW w \in Workers, Serve(w)
    PROVE  Advances(w)
<1>a. ASSUME NEW result, NEW c
      PROVE  /\ Reply(result, c).stage = "reply"
             /\ Reply(result, c).result = result
             /\ Reply(result, c).cred = c
  BY DEF Reply, Idle
<1>b. ASSUME NEW stage PROVE [req[w] EXCEPT !.stage = stage].stage = stage
  BY DEF TypeOK, Requests
<1>c. ASSUME NEW r, Become(w, r), Served(req[w], r) PROVE Advances(w)
  BY <1>c DEF Become, Advances
<1>1. CASE enroll_check(w)
  <2>1. CASE Become(w, [req[w] EXCEPT !.stage = "claim"])
    <3>1. Served(req[w], [req[w] EXCEPT !.stage = "claim"])
      BY <1>1, <1>b DEF enroll_check, Served
    <3> QED BY <2>1, <3>1, <1>c
  <2>2. CASE Become(w, Reply("rejected", None))
    <3>1. Served(req[w], Reply("rejected", None))
      BY <1>1, <1>a DEF enroll_check, Served
    <3> QED BY <2>2, <3>1, <1>c
  <2> QED BY <1>1, <2>1, <2>2 DEF enroll_check
<1>2. CASE enroll_claim(w)
  <2>1. ASSUME NEW c \in CredentialIds, Become(w, Reply("enrolled", c)) PROVE Advances(w)
    <3>1. Served(req[w], Reply("enrolled", c))
      BY <1>2, <1>a DEF enroll_claim, Served
    <3> QED BY <2>1, <3>1, <1>c
  <2>2. CASE Become(w, Reply("rejected", None))
    <3>1. Served(req[w], Reply("rejected", None))
      BY <1>2, <1>a DEF enroll_claim, Served
    <3> QED BY <2>2, <3>1, <1>c
  <2> QED BY <1>2, <2>1, <2>2 DEF enroll_claim
<1>3. CASE heartbeat(w)
  <2>1. Served(req[w], Reply(authenticate(req[w].cred), None))
    BY <1>3, <1>a DEF heartbeat, Served
  <2> QED BY <1>3, <2>1, <1>c DEF heartbeat
<1>4. CASE rotate_check(w)
  <2>1. Served(req[w], Reply(authenticate(req[w].cred), None))
    BY <1>4, <1>a DEF rotate_check, Served
  <2>2. Served(req[w], [req[w] EXCEPT !.stage = "rotating"])
    BY <1>4, <1>b DEF rotate_check, Served
  <2> QED BY <1>4, <2>1, <2>2, <1>c DEF rotate_check
<1>5. CASE rotate_commit(w)
  <2>1. ASSUME NEW c \in CredentialIds, Become(w, Reply("rotated", c)) PROVE Advances(w)
    <3>1. Served(req[w], Reply("rotated", c))
      BY <1>5, <1>a DEF rotate_commit, Served
    <3> QED BY <2>1, <3>1, <1>c
  <2> QED BY <1>5, <2>1 DEF rotate_commit
<1> QED BY <1>1, <1>2, <1>3, <1>4, <1>5 DEF Serve

-----------------------------------------------------------------------------
(* The agent's types, with what it may expect of the call in progress.       *)

Call == req[worker]

CallsFit ==
    /\ at = "enrolling" =>
         \/ Call.stage \in {"enroll", "claim"}
         \/ Call.stage = "reply" /\ Call.result = "rejected" /\ Call.cred = None
         \/ Call.stage = "reply" /\ Call.result = "enrolled" /\ Call.cred \in CredentialIds
    /\ at = "beating" =>
         \/ Call.stage = "heartbeat" /\ Call.cred = credential
         \/ Call.stage = "reply" /\ Call.result \in Verdicts
    /\ at = "rotating" =>
         \/ Call.stage \in {"rotate", "rotating"}
         \/ Call.stage = "reply" /\ Call.result \in Verdicts /\ Call.cred = None
         \/ Call.stage = "reply" /\ Call.result = "rotated" /\ Call.cred \in CredentialIds

AgentInv == AgentTypeOK /\ CallsFit

\* A call leaves the agent waiting for the thread that took it.
LEMMA CallStep ==
    ASSUME TypeOK, AgentInv, NEW place, NEW r, CallServer(r, place),
           \/ place = "enrolling" /\ at = "enroll" /\ r.stage = "enroll"
           \/ place = "beating" /\ at = "beat" /\ r.stage = "heartbeat" /\ r.cred = credential
           \/ place = "rotating" /\ at = "rotate" /\ r.stage = "rotate"
    PROVE  AgentInv'
<1>1. PICK w \in Workers : req' = [req EXCEPT ![w] = r] /\ worker' = w
  BY DEF CallServer, Receive, Become
<1>2. req'[worker'] = r
  BY <1>1 DEF TypeOK
<1>3. AgentTypeOK'
  BY <1>1, WorkersAssumption DEF CallServer, AgentInv, AgentTypeOK, Places, disk, history
<1>4. CallsFit'
  BY <1>2 DEF CallServer, CallsFit, Call
<1> QED BY <1>3, <1>4 DEF AgentInv

\* The server works on, and replies get lost.
LEMMA ServerKeepsAgent ==
    ASSUME TypeOK, AgentInv, UNCHANGED agentVars,
           \/ \E w \in Workers : Serve(w)
           \/ \E w \in Workers \ {worker} : Answered(w)
           \/ req' = req
    PROVE  AgentInv'
<1>1. AgentTypeOK'
  BY DEF AgentInv, AgentTypeOK, agentVars, memory, disk, history
<1>2. worker # None => worker \in Workers
  BY DEF AgentInv, AgentTypeOK
<1>3. CASE req' = req
  <2>1. CallsFit'
    BY <1>3 DEF AgentInv, CallsFit, Call, agentVars, memory
  <2> QED BY <1>1, <2>1 DEF AgentInv
<1>4. CASE \E w \in Workers \ {worker} : Answered(w)
  <2>1. worker \in Workers => req'[worker] = req[worker]
    BY <1>4 DEF Answered, Become, TypeOK
  <2>2. CallsFit'
    BY <1>2, <2>1 DEF AgentInv, AgentTypeOK, CallsFit, Call, agentVars, memory
  <2> QED BY <1>1, <2>2 DEF AgentInv
<1>5. ASSUME NEW w \in Workers, Serve(w) PROVE AgentInv'
  <2>1. PICK r : req' = [req EXCEPT ![w] = r] /\ Served(req[w], r)
    BY <1>5, ServeEffect DEF Advances
  <2>2. CASE w # worker
    <3>1. worker \in Workers => req'[worker] = req[worker]
      BY <2>1, <2>2 DEF TypeOK
    <3>2. CallsFit'
      BY <1>2, <3>1 DEF AgentInv, AgentTypeOK, CallsFit, Call, agentVars, memory
    <3> QED BY <1>1, <3>2 DEF AgentInv
  <2>3. CASE w = worker
    <3>1. req'[worker] = r
      BY <2>1, <2>3 DEF TypeOK
    <3>2. authenticate(req[w].cred) \in Verdicts
      BY AuthenticateVerdict
    <3>3. CallsFit'
      BY <2>1, <2>3, <3>1, <3>2 DEF AgentInv, CallsFit, Call, Served, agentVars, memory
    <3> QED BY <1>1, <3>3 DEF AgentInv
  <2> QED BY <2>2, <2>3
<1> QED BY <1>3, <1>4, <1>5

-----------------------------------------------------------------------------
(* The agent and the server together.                                        *)

\* Every step of the agent and the server keeps AgentInv.
LEMMA AgentInvStep ==
    ASSUME TypeOK, AgentInv, [AgentNext]_allVars
    PROVE  AgentInv'
<1>a. token \in Tokens \cup {None} /\ credential \in CredentialIds \cup {None}
  BY DEF AgentInv, AgentTypeOK
<1>1. CASE EnrollSend
  BY <1>1, CallStep DEF EnrollSend, EnrollRequest, Idle
<1>2. CASE BeatSend
  <2>1. AgentRequest("heartbeat", credential).stage = "heartbeat"
        /\ AgentRequest("heartbeat", credential).cred = credential
    BY DEF AgentRequest, Idle
  <2> QED BY <1>2, <2>1, CallStep DEF BeatSend
<1>3. CASE RotateSend
  BY <1>3, CallStep DEF RotateSend, AgentRequest, Idle
<1>4. CASE EnrollAnswer \/ RotateAnswer
  <2>1. AgentTypeOK'
    <3>1. CASE EnrollAnswer
      <4>1. \/ Answer.result = "rejected" /\ Answer.cred = None
            \/ Answer.result = "enrolled" /\ Answer.cred \in CredentialIds
        BY <3>1 DEF EnrollAnswer, AnswerTo, Answered, Answer, AgentInv, CallsFit, Call
      <4> QED BY <3>1, <4>1, NoneAssumption
              DEF EnrollAnswer, AnswerTo, AgentInv, AgentTypeOK, Places, disk, history
    <3>2. CASE RotateAnswer
      <4>1. \/ Answer.result # "rotated" /\ Answer.cred = None
            \/ Answer.result = "rotated" /\ Answer.cred \in CredentialIds
        BY <3>2 DEF RotateAnswer, AnswerTo, Answered, Answer, AgentInv, CallsFit, Call, Verdicts
      <4> QED BY <3>2, <4>1, NoneAssumption
              DEF RotateAnswer, AnswerTo, AgentInv, AgentTypeOK, Places, disk, history
    <3> QED BY <1>4, <3>1, <3>2
  <2>2. at' \notin {"enrolling", "beating", "rotating"}
    BY <1>4 DEF EnrollAnswer, RotateAnswer
  <2> QED BY <2>1, <2>2 DEF AgentInv, CallsFit
<1>5. CASE BeatOk \/ BeatRenews \/ BeatRefused
  <2>1. AgentTypeOK'
    BY <1>5 DEF BeatOk, BeatRenews, BeatRefused, Refused, AnswerTo, AgentInv, AgentTypeOK,
                Places, disk, history
  <2>2. at' \notin {"enrolling", "beating", "rotating"}
    BY <1>5 DEF BeatOk, BeatRenews, BeatRefused
  <2> QED BY <2>1, <2>2 DEF AgentInv, CallsFit
<1>6. CASE Start \/ SaveCredential \/ SaveConfig \/ SaveRefused \/ SaveRotated
  <2>1. AgentTypeOK'
    BY <1>6 DEF Start, SaveCredential, SaveConfig, SaveRefused, SaveRotated, AgentInv, AgentTypeOK,
                Places, disk, history
  <2>2. at' \notin {"enrolling", "beating", "rotating"}
    BY <1>6 DEF Start, SaveCredential, SaveConfig, SaveRefused, SaveRotated
  <2> QED BY <2>1, <2>2 DEF AgentInv, CallsFit
<1>7. CASE CallLost \/ SaveFails
  <2>1. AgentTypeOK'
    BY <1>7, BoundsAssumption
       DEF CallLost, SaveFails, Mishap, Retry, Writing, AgentInv, AgentTypeOK, Places, disk
  <2>2. at' \notin {"enrolling", "beating", "rotating"}
    BY <1>7 DEF CallLost, SaveFails, Retry
  <2> QED BY <2>1, <2>2 DEF AgentInv, CallsFit
<1>8. CASE Stops \/ Crash
  <2>1. AgentTypeOK'
    BY <1>8, BoundsAssumption DEF Stops, Crash, Dies, Mishap, Waiting, AgentInv, AgentTypeOK, Places, disk
  <2>2. at' \notin {"enrolling", "beating", "rotating"}
    BY <1>8 DEF Stops, Crash, Dies
  <2> QED BY <2>1, <2>2 DEF AgentInv, CallsFit
<1>9. ASSUME NEW t \in Tokens \cup {configToken}, Upgrade(t) \/ Reinstall(t) PROVE AgentInv'
  <2>1. AgentTypeOK'
    BY <1>9, BoundsAssumption DEF Upgrade, Reinstall, Deploys, AgentInv, AgentTypeOK, Places, memory
  <2>2. at' \notin {"enrolling", "beating", "rotating"}
    BY <1>9 DEF Upgrade, Reinstall, Deploys, memory
  <2> QED BY <2>1, <2>2 DEF AgentInv, CallsFit
<1>10. CASE ServerStep
  <2>1. UNCHANGED agentVars
    BY <1>10 DEF ServerStep
  <2>2. (\E w \in Workers : Serve(w)) \/ req' = req
    BY <1>10 DEF ServerStep, Administer, admin_load, disable_commit, delete_commit, enable_commit,
                 revoke_commit, revoke_token, TokenExpires, CredentialExpires
  <2> QED BY <2>1, <2>2, ServerKeepsAgent
<1>11. CASE AnswerLost
  BY <1>11, ServerKeepsAgent DEF AnswerLost
<1>12. CASE UNCHANGED allVars
  BY <1>12, ServerKeepsAgent DEF allVars, vars
<1> QED BY <1>1, <1>2, <1>3, <1>4, <1>5, <1>6, <1>7, <1>8, <1>9, <1>10, <1>11, <1>12
        DEF AgentNext, AgentStep

\* Every step of the agent is one the server allows for, or leaves it alone.
LEMMA AgentStepsAreServerSteps ==
    ASSUME AgentInv, [AgentNext]_allVars
    PROVE  [Next]_vars
<1>a. token \in Tokens \cup {None} /\ credential \in CredentialIds \cup {None}
  BY DEF AgentInv, AgentTypeOK
<1>b. at \in {"enrolling", "beating", "rotating"} => worker \in Workers
  BY DEF AgentInv, AgentTypeOK
<1>c. at \in {"beat", "rotate"} => credential \in CredentialIds
  BY DEF AgentInv, AgentTypeOK
<1>1. CASE EnrollSend \/ BeatSend \/ RotateSend
  <2>1. \E w \in Workers : Present(w)
    BY <1>1, <1>a, <1>c DEF EnrollSend, BeatSend, RotateSend, CallServer, Present
  <2> QED BY <2>1 DEF Next
<1>2. CASE EnrollAnswer \/ RotateAnswer \/ BeatOk \/ BeatRenews \/ BeatRefused \/ AnswerLost
  <2>1. \E w \in Workers : Answered(w)
    BY <1>2, <1>b
       DEF EnrollAnswer, RotateAnswer, BeatOk, BeatRenews, BeatRefused, Refused, AnswerTo, AnswerLost
  <2> QED BY <2>1 DEF Next
<1>3. CASE ServerStep
  BY <1>3 DEF ServerStep, Next
<1>4. CASE Start \/ SaveCredential \/ SaveConfig \/ SaveRefused \/ SaveRotated
           \/ CallLost \/ SaveFails \/ Stops \/ Crash
  BY <1>4 DEF Start, SaveCredential, SaveConfig, SaveRefused, SaveRotated, CallLost, SaveFails,
              Stops, Crash, Dies
<1>5. ASSUME NEW t, Upgrade(t) \/ Reinstall(t) PROVE UNCHANGED vars
  BY <1>5 DEF Upgrade, Reinstall, Deploys
<1>6. CASE UNCHANGED allVars
  BY <1>6 DEF allVars
<1> QED BY <1>1, <1>2, <1>3, <1>4, <1>5, <1>6 DEF AgentNext, AgentStep

\* Initially the agent is down and the server has no request.
LEMMA AgentStarts == AgentInit => Init /\ TypeOK /\ AgentInv
<1> SUFFICES ASSUME AgentInit PROVE Init /\ TypeOK /\ AgentInv
  OBVIOUS
<1>1. Init /\ TypeOK
  BY InitType DEF AgentInit
<1>2. AgentInv
  BY BoundsAssumption DEF AgentInit, AgentInv, AgentTypeOK, CallsFit, Places
<1> QED BY <1>1, <1>2

\* The agent and the server together only do what the server does with arbitrary
\* clients, so all that is proved of the one holds for the other: the agent
\* implements a client of DeviceIdentity, through lost calls and restarts.
THEOREM AgentImplementsClient == AgentSpec => Spec /\ []TypeOK /\ []AgentInv
<1>1. TypeOK /\ AgentInv /\ [AgentNext]_allVars => TypeOK' /\ AgentInv' /\ [Next]_vars
  BY AgentInvStep, AgentStepsAreServerSteps, TypeStep
<1>2. AgentSpec => [](TypeOK /\ AgentInv)
  BY <1>1, AgentStarts, PTL DEF AgentSpec
<1> QED BY <1>1, <1>2, AgentStarts, PTL DEF AgentSpec, Spec

\* The types of the agent's state hold throughout.
THEOREM AgentTypeCorrect == AgentSpec => []AgentTypeOK
<1>1. AgentInv => AgentTypeOK
  BY DEF AgentInv
<1> QED BY <1>1, AgentImplementsClient, PTL

-----------------------------------------------------------------------------
(* A device that was turned away.                                            *)

\* What is in use is what is on disk, and a device that was turned away keeps a
\* revoked credential there, which the server will call revoked again.
OnDisk ==
    /\ at \in {"beat", "beating", "rotate", "rotating", "save_rotated", "save_refused"} =>
         credFile = credential
    /\ at = "save_config" => credFile = got

KeptOut ==
    turnedAway = "credential" =>
        /\ credFile \in revoked
        /\ at \in {"down", "ended", "beat", "beating", "save_refused"}
        /\ at = "beating" => \/ Call.stage = "heartbeat"
                             \/ Call.stage = "reply" /\ Call.result = "revoked"

\* The server calls an issued and revoked credential revoked.
LEMMA RevokedVerdict ==
    ASSUME RevokedWereIssued, NEW c \in revoked
    PROVE  authenticate(c) = "revoked"
BY DEF RevokedWereIssued, authenticate

\* Every step keeps OnDisk.
LEMMA OnDiskStep ==
    ASSUME AgentInv, OnDisk, [AgentNext]_allVars
    PROVE  OnDisk'
<1> USE DEF OnDisk, disk
<1>1. CASE Start
  BY <1>1 DEF Start
<1>2. CASE EnrollSend \/ BeatSend \/ RotateSend
  BY <1>2 DEF EnrollSend, BeatSend, RotateSend, CallServer
<1>3. CASE EnrollAnswer \/ RotateAnswer \/ BeatOk \/ BeatRenews \/ BeatRefused
  BY <1>3 DEF EnrollAnswer, RotateAnswer, BeatOk, BeatRenews, BeatRefused, Refused, AnswerTo
<1>4. CASE SaveCredential \/ SaveConfig \/ SaveRefused \/ SaveRotated
  BY <1>4 DEF SaveCredential, SaveConfig, SaveRefused, SaveRotated
<1>5. CASE CallLost \/ SaveFails
  BY <1>5 DEF CallLost, SaveFails, Retry, Writing
<1>6. CASE Stops \/ Crash
  BY <1>6 DEF Stops, Crash, Dies
<1>7. ASSUME NEW t, Upgrade(t) \/ Reinstall(t) PROVE OnDisk'
  BY <1>7 DEF Upgrade, Reinstall, Deploys, memory
<1>8. CASE ServerStep \/ AnswerLost \/ UNCHANGED allVars
  BY <1>8 DEF ServerStep, AnswerLost, allVars, agentVars, memory
<1> QED BY <1>1, <1>2, <1>3, <1>4, <1>5, <1>6, <1>7, <1>8 DEF AgentNext, AgentStep

\* Every step keeps a device out that was turned away.
LEMMA KeptOutStep ==
    ASSUME TypeOK, RevokedWereIssued, AgentInv, OnDisk, KeptOut, [AgentNext]_allVars
    PROVE  KeptOut'
<1>a. revoked \subseteq revoked'
  BY AgentStepsAreServerSteps, RevocationStays
<1>b. None \notin revoked
  BY NoneAssumption DEF TypeOK
<1>c. at = "beating" => worker \in Workers
  BY DEF AgentInv, AgentTypeOK
<1>1. CASE Start
  BY <1>1, <1>a, <1>b DEF Start, KeptOut, disk, history
<1>2. CASE EnrollSend \/ RotateSend
  BY <1>2, <1>a DEF EnrollSend, RotateSend, CallServer, KeptOut, disk, history
<1>3. CASE BeatSend
  <2>1. PICK w \in Workers : Receive(w, AgentRequest("heartbeat", credential)) /\ worker' = w
    BY <1>3 DEF BeatSend, CallServer
  <2>2. Call'.stage = "heartbeat"
    BY <2>1 DEF Receive, Become, AgentRequest, Idle, Call, TypeOK
  <2> QED BY <1>3, <2>2, <1>a DEF BeatSend, CallServer, KeptOut, disk, history
<1>4. CASE EnrollAnswer \/ RotateAnswer
  BY <1>4, <1>a DEF EnrollAnswer, RotateAnswer, AnswerTo, KeptOut, disk, history
<1>5. CASE BeatOk
  BY <1>5, <1>a DEF BeatOk, AnswerTo, Answered, Answer, Call, KeptOut, disk, history
<1>6. CASE BeatRenews
  <2>1. Answer.result \in {"unknown_credential", "expired"} /\ at = "beating" /\ Answer.stage = "reply"
    BY <1>6 DEF BeatRenews, Refused, Renewable, AnswerTo, Answered, Answer
  <2>2. turnedAway # "credential"
    BY <2>1 DEF KeptOut, Call, Answer
  <2> QED BY <1>6, <2>1, <2>2 DEF BeatRenews, Refused, KeptOut
<1>7. CASE BeatRefused
  <2>1. at = "beating" /\ credFile' = credFile /\ credFile = credential
    BY <1>7 DEF BeatRefused, Refused, AnswerTo, OnDisk, disk
  <2>2. turnedAway' = "credential" => turnedAway = "credential" \/ credential \in revoked
    BY <1>7 DEF BeatRefused, Refused
  <2> QED BY <1>7, <2>1, <2>2, <1>a DEF BeatRefused, KeptOut
<1>8. CASE SaveCredential \/ SaveConfig \/ SaveRefused \/ SaveRotated
  BY <1>8, <1>a DEF SaveCredential, SaveConfig, SaveRefused, SaveRotated, KeptOut, history
<1>9. CASE CallLost \/ SaveFails
  BY <1>9, <1>a DEF CallLost, SaveFails, Retry, Writing, KeptOut, disk
<1>10. CASE Stops \/ Crash
  BY <1>10, <1>a DEF Stops, Crash, Dies, KeptOut, disk
<1>11. ASSUME NEW t, Upgrade(t) \/ Reinstall(t) PROVE KeptOut'
  BY <1>11, <1>a DEF Upgrade, Reinstall, Deploys, memory, KeptOut
<1>12. ASSUME UNCHANGED agentVars, worker \in Workers => Call' = Call PROVE KeptOut'
  BY <1>12, <1>a, <1>c DEF KeptOut, agentVars, memory, disk, history
<1>13. CASE AnswerLost
  <2>1. worker \in Workers => req'[worker] = req[worker]
    BY <1>13 DEF AnswerLost, Answered, Become, TypeOK
  <2>2. UNCHANGED agentVars
    BY <1>13 DEF AnswerLost
  <2> QED BY <2>1, <2>2, <1>12 DEF Call, agentVars, memory
<1>14. CASE ServerStep
  <2>1. UNCHANGED agentVars /\ worker' = worker
    BY <1>14 DEF ServerStep, agentVars, memory
  <2>2. CASE req' = req
    BY <2>1, <2>2, <1>12 DEF Call
  <2>3. ASSUME NEW w \in Workers, Serve(w) PROVE KeptOut'
    <3>1. PICK r : req' = [req EXCEPT ![w] = r] /\ Served(req[w], r)
      BY <2>3, ServeEffect DEF Advances
    <3>2. CASE w # worker
      <4>1. worker \in Workers => Call' = Call
        BY <2>1, <3>1, <3>2 DEF Call, TypeOK
      <4> QED BY <2>1, <4>1, <1>12
    <3>3. CASE w = worker
      <4>1. Call' = r
        BY <2>1, <3>1, <3>3 DEF Call, TypeOK
      <4>2. ASSUME turnedAway = "credential", at = "beating"
            PROVE  r.stage = "reply" /\ r.result = "revoked"
        <5>1. Call.stage \in {"heartbeat", "reply"} /\ credFile \in revoked
          BY <4>2 DEF KeptOut
        <5>2. Call.stage = "heartbeat"
          BY <3>1, <3>3, <5>1 DEF Served, Call
        <5>3. Call.cred = credFile
          BY <4>2, <5>2 DEF AgentInv, CallsFit, OnDisk
        <5>4. authenticate(Call.cred) = "revoked"
          BY <5>1, <5>3, RevokedVerdict
        <5> QED BY <3>1, <3>3, <5>2, <5>4 DEF Served, Call
      <4> QED BY <2>1, <4>1, <4>2, <1>a DEF KeptOut, agentVars, memory, disk, history
    <3> QED BY <3>2, <3>3
  <2> QED BY <1>14, <2>2, <2>3
          DEF ServerStep, Administer, admin_load, disable_commit, delete_commit, enable_commit,
              revoke_commit, revoke_token, TokenExpires, CredentialExpires
<1>15. CASE UNCHANGED allVars
  BY <1>15, <1>12 DEF allVars, vars, agentVars, memory, Call
<1> QED BY <1>1, <1>2, <1>3, <1>4, <1>5, <1>6, <1>7, <1>8, <1>9, <1>10, <1>11, <1>13, <1>14, <1>15
        DEF AgentNext, AgentStep

\* A device whose credential was revoked never enrolls again by itself, for any
\* number of lost calls, failed writes, crashes and later packages.
THEOREM TurnedAwayForGood == AgentSpec => []TurnedAwayStaysOut
<1>1. AgentInit => OnDisk /\ KeptOut
  BY DEF AgentInit, OnDisk, KeptOut
<1>2. TypeOK /\ RevokedWereIssued /\ AgentInv /\ OnDisk /\ KeptOut /\ [AgentNext]_allVars
        => OnDisk' /\ KeptOut'
  BY OnDiskStep, KeptOutStep
<1>3. KeptOut => TurnedAwayStaysOut
  BY DEF KeptOut, TurnedAwayStaysOut
<1> QED BY <1>1, <1>2, <1>3, AgentImplementsClient, OnlyIssuedRevoked, PTL DEF AgentSpec

-----------------------------------------------------------------------------
(* No working secret is left behind.                                         *)

\* May the server accept the credential, now or when its endpoint is enabled
\* again?
Alive(c) == owner[c] # None /\ c \notin revoked \cup expired

Replied == worker # None /\ Call.stage = "reply"

\* Nobody but the agent is being answered.
AloneServed == \A w \in Workers : w # worker => req[w] = Idle

\* What the server makes known to the agent is so when the agent acts on it: the
\* credential on disk was rotated out, or it has expired.
AnswersStand ==
    /\ at = "rotating" /\ Call.stage \in {"rotate", "rotating"} => Call.cred = credential
    /\ at = "rotating" /\ Call.stage = "reply" /\ Call.result = "rotated" => credFile \in revoked
    /\ at = "beating" /\ Call.stage = "reply" =>
         /\ Call.cred = None
         /\ Call.result # "unknown_credential"
         /\ Call.result = "expired" => credFile \in expired

\* A credential is overwritten only when it is of no more use.
Replaceable ==
    /\ at \in {"enroll", "enrolling", "save_credential"} => credFile = None
    /\ at = "save_rotated" => credFile \in revoked

\* What the agent has, or is about to get, was issued.
HeldWasIssued ==
    /\ credFile # None => owner[credFile] # None
    /\ got # None => owner[got] # None
    /\ Replied /\ Call.cred # None => owner[Call.cred] # None

AliveIsHeld == \A c \in CredentialIds : Alive(c) => Held(c)

Untroubled == mishaps = 0 /\ packages = 0

HandsInv ==
    Untroubled => AloneServed /\ AnswersStand /\ Replaceable /\ HeldWasIssued /\ AliveIsHeld

\* An expired credential stays expired.
LEMMA ExpiryStays == ASSUME TypeOK, [Next]_vars PROVE expired \subseteq expired'
<1>1. ASSUME NEW w \in Workers, Serve(w) \/ Present(w) \/ Answered(w) PROVE expired' = expired
  BY <1>1 DEF Serve, enroll_check, enroll_claim, heartbeat, rotate_check, rotate_commit,
              Present, Receive, Answered, rowVars, credentialVars
<1>2. ASSUME NEW a \in Admins, Administer(a) PROVE expired' = expired
  BY <1>2 DEF Administer, admin_load, disable_commit, delete_commit, enable_commit, revoke_commit,
              rowVars, credentialVars
<1>3. ASSUME NEW t \in Tokens, revoke_token(t) \/ TokenExpires(t) PROVE expired' = expired
  BY <1>3 DEF revoke_token, TokenExpires, credentialVars
<1>4. ASSUME NEW c \in CredentialIds, CredentialExpires(c) PROVE expired \subseteq expired'
  BY <1>4 DEF CredentialExpires
<1>5. CASE UNCHANGED vars
  BY <1>5 DEF vars, rowVars, credentialVars
<1> QED BY <1>1, <1>2, <1>3, <1>4, <1>5 DEF Next

HandsParts == AloneServed /\ AnswersStand /\ Replaceable /\ HeldWasIssued /\ AliveIsHeld

\* A new call carries the credential on disk and no answer yet.
LEMMA HandsCall ==
    ASSUME TypeOK, AgentInv, OnDisk, HandsParts, NEW place, NEW r, CallServer(r, place),
           \/ place = "enrolling" /\ at = "enroll" /\ r.stage = "enroll"
           \/ place = "beating" /\ at = "beat" /\ r.stage = "heartbeat"
           \/ place = "rotating" /\ at = "rotate" /\ r.stage = "rotate" /\ r.cred = credential
    PROVE  HandsParts'
<1>1. PICK w \in Workers : req' = [req EXCEPT ![w] = r] /\ worker' = w /\ UNCHANGED rowVars
  BY DEF CallServer, Receive, Become
<1>2. /\ worker = None /\ Call' = r /\ ~Replied /\ ~Replied'
      /\ \A u \in Workers : u # w => req'[u] = req[u]
      /\ \A u \in Workers : req[u] = Idle
  BY <1>1, WorkersAssumption
     DEF TypeOK, AgentInv, AgentTypeOK, Call, Replied, HandsParts, AloneServed
<1>3. at' = place /\ UNCHANGED <<credential, got, credFile, owner, revoked, expired>>
  BY <1>1 DEF CallServer, disk, rowVars, credentialVars
<1>4. AloneServed'
  BY <1>1, <1>2 DEF AloneServed
<1>5. AnswersStand'
  BY <1>2, <1>3 DEF AnswersStand
<1>6. Replaceable'
  BY <1>3 DEF HandsParts, Replaceable
<1>7. HeldWasIssued'
  BY <1>2, <1>3 DEF HandsParts, HeldWasIssued
<1>8. AliveIsHeld'
  BY <1>2, <1>3 DEF HandsParts, AliveIsHeld, Alive, Held, Replied, Call
<1> QED BY <1>4, <1>5, <1>6, <1>7, <1>8 DEF HandsParts

\* An answer hands over the credential it brings, and what it says of the one on
\* disk.
LEMMA HandsAnswer ==
    ASSUME TypeOK, AgentInv, OnDisk, HandsParts,
           EnrollAnswer \/ RotateAnswer \/ BeatOk \/ BeatRenews \/ BeatRefused
    PROVE  HandsParts'
<1>1. PICK place : AnswerTo(place) /\ place \in {"enrolling", "rotating", "beating"}
  BY DEF EnrollAnswer, RotateAnswer, BeatOk, BeatRenews, BeatRefused, Refused
<1>2. /\ worker \in Workers /\ worker' = None /\ Answer.stage = "reply" /\ Answer = Call
      /\ req' = [req EXCEPT ![worker] = Idle]
      /\ UNCHANGED <<owner, revoked, expired>>
  BY <1>1 DEF AnswerTo, Answered, Become, Answer, Call, AgentInv, AgentTypeOK, rowVars, credentialVars
<1>3. AloneServed'
  BY <1>2 DEF HandsParts, AloneServed, TypeOK
<1>4. AnswersStand' /\ ~Replied'
  <2>1. at' \notin {"rotating", "beating"}
    BY DEF EnrollAnswer, RotateAnswer, BeatOk, BeatRenews, BeatRefused
  <2> QED BY <1>2, <2>1 DEF AnswersStand, Replied
<1>5. ASSUME UNCHANGED credFile, got' = Answer.cred \/ (Answer.cred = None /\ UNCHANGED got)
      PROVE  HeldWasIssued' /\ AliveIsHeld'
  <2>1. HeldWasIssued'
    BY <1>2, <1>4, <1>5, WorkersAssumption DEF HandsParts, HeldWasIssued, Replied
  <2>2. ASSUME NEW c \in CredentialIds, Alive(c)' PROVE Held(c)'
    <3>1. c \in {credFile, got} \/ Answer.cred = c
      BY <1>2, <2>2 DEF HandsParts, AliveIsHeld, Alive, Held, Call
    <3>2. got = None
      BY <1>1 DEF AnswerTo, AgentInv, AgentTypeOK
    <3> QED BY <1>5, <3>1, <3>2, NoneAssumption DEF Held
  <2> QED BY <2>1, <2>2 DEF AliveIsHeld
<1>6. CASE EnrollAnswer
  <2>1. Replaceable'
    BY <1>6 DEF EnrollAnswer, AnswerTo, HandsParts, Replaceable, disk
  <2> QED BY <1>3, <1>4, <1>5, <1>6, <2>1 DEF EnrollAnswer, HandsParts, disk
<1>7. CASE RotateAnswer
  <2>1. Replaceable'
    BY <1>2, <1>7 DEF RotateAnswer, AnswerTo, HandsParts, AnswersStand, Replaceable, disk
  <2> QED BY <1>3, <1>4, <1>5, <1>7, <2>1 DEF RotateAnswer, HandsParts, disk
<1>8. CASE BeatOk \/ BeatRefused
  <2>1. Replaceable'
    BY <1>8 DEF BeatOk, BeatRefused, Replaceable
  <2>2. Answer.cred = None
    BY <1>2, <1>8 DEF BeatOk, BeatRefused, Refused, AnswerTo, HandsParts, AnswersStand
  <2> QED BY <1>3, <1>4, <1>5, <1>8, <2>1, <2>2 DEF BeatOk, BeatRefused, Refused, HandsParts, disk
<1>9. CASE BeatRenews
  <2>1. /\ at = "beating" /\ credFile' = None /\ UNCHANGED got /\ got = None
        /\ Answer.cred = None /\ credFile \in expired
    BY <1>2, <1>9 DEF BeatRenews, Refused, Renewable, AnswerTo, HandsParts, AnswersStand,
                      AgentInv, AgentTypeOK
  <2>2. Replaceable'
    BY <1>9, <2>1 DEF BeatRenews, Replaceable
  <2>3. HeldWasIssued'
    BY <1>4, <2>1 DEF HeldWasIssued
  <2>4. AliveIsHeld'
    BY <1>2, <2>1, NoneAssumption DEF HandsParts, AliveIsHeld, Alive, Held, Call
  <2> QED BY <1>3, <1>4, <2>2, <2>3, <2>4 DEF HandsParts
<1> QED BY <1>6, <1>7, <1>8, <1>9

\* While the agent is the only client, its thread is the one that works; a
\* rotation takes the credential on disk out of use as it answers with its
\* successor.
LEMMA HandsServe ==
    ASSUME TypeOK, CredentialsOwned, RevokedWereIssued, AgentInv, OnDisk, HandsParts,
           NEW w \in Workers, Serve(w), UNCHANGED agentVars
    PROVE  HandsParts'
<1>1. PICK r : req' = [req EXCEPT ![w] = r] /\ Served(req[w], r)
  BY ServeEffect DEF Advances
<1>2. w = worker
  BY <1>1 DEF HandsParts, AloneServed, Served, Idle
<1>3. /\ Call' = r /\ worker' = w /\ worker # None /\ ~Replied
      /\ UNCHANGED <<at, credential, got, credFile>>
  BY <1>1, <1>2, WorkersAssumption
     DEF Call, TypeOK, agentVars, memory, disk, Replied, Served
<1>4. AloneServed'
  BY <1>1, <1>2, <1>3 DEF HandsParts, AloneServed, TypeOK
<1>5. Replaceable' /\ at' # "save_rotated"
  <2>1. at \in {"enrolling", "beating", "rotating"}
    BY <1>3 DEF AgentInv, AgentTypeOK
  <2> QED BY <1>3, <2>1 DEF HandsParts, Replaceable
<1>6. [Next]_vars
  BY DEF Next
<1>7. /\ revoked \subseteq revoked' /\ expired \subseteq expired'
      /\ \A c \in CredentialIds : owner[c] # None => owner'[c] = owner[c]
  BY <1>6, RevocationStays, ExpiryStays
<1>8. {credFile, got} \subseteq CredentialIds \cup {None}
  BY DEF AgentInv, AgentTypeOK
<1>9. ASSUME owner' = owner, r.cred = None, AnswersStand' PROVE HandsParts'
  <2>1. HeldWasIssued'
    BY <1>3, <1>9 DEF HandsParts, HeldWasIssued
  <2>2. AliveIsHeld'
    BY <1>3, <1>7, <1>9 DEF HandsParts, AliveIsHeld, Alive, Held, Replied, Call
  <2> QED BY <1>4, <1>5, <1>9, <2>1, <2>2 DEF HandsParts
<1>10. CASE enroll_check(w) \/ enroll_claim(w)
  <2>1. at = "enrolling"
    BY <1>2, <1>3, <1>10 DEF enroll_check, enroll_claim, AgentInv, AgentTypeOK, CallsFit, Call, Verdicts
  <2>2. AnswersStand'
    BY <1>3, <2>1 DEF AnswersStand
  <2>3. CASE UNCHANGED <<owner, revoked, expired>> /\ r.stage = "claim"
    <3>1. HeldWasIssued'
      BY <1>3, <2>3 DEF HandsParts, HeldWasIssued, Replied
    <3>2. AliveIsHeld'
      BY <1>3, <2>3 DEF HandsParts, AliveIsHeld, Alive, Held, Replied, Call
    <3> QED BY <1>4, <1>5, <2>2, <3>1, <3>2 DEF HandsParts
  <2>4. CASE owner' = owner /\ r.cred = None
    BY <1>9, <2>2, <2>4
  <2>5. ASSUME NEW e \in EndpointIds, NEW c \in CredentialIds,
               owner' = [owner EXCEPT ![c] = e], owner[c] = None, r = Reply("enrolled", c)
        PROVE  HandsParts'
    <3>1. owner'[c] # None /\ \A d \in CredentialIds \ {c} : owner'[d] = owner[d]
      BY <2>5, NoneAssumption DEF TypeOK
    <3>2. r.cred = c /\ r.stage = "reply" /\ Replied'
      BY <1>2, <1>3, <2>5 DEF Reply, Idle, Replied
    <3>3. HeldWasIssued'
      BY <1>3, <1>8, <3>1, <3>2 DEF HandsParts, HeldWasIssued
    <3>4. AliveIsHeld'
      BY <1>3, <1>7, <3>1, <3>2 DEF HandsParts, AliveIsHeld, Alive, Held, Replied, Call
    <3> QED BY <1>4, <1>5, <2>2, <3>3, <3>4 DEF HandsParts
  <2>6. req'[w] = r
    BY <1>1 DEF TypeOK
  <2>7. CASE enroll_check(w)
    <3>1. req'[w] = Reply("rejected", None) \/ req'[w] = [req[w] EXCEPT !.stage = "claim"]
      BY <2>7 DEF enroll_check, Become, TypeOK
    <3>2. [req[w] EXCEPT !.stage = "claim"].stage = "claim"
      BY DEF TypeOK, Requests
    <3>3. UNCHANGED <<owner, revoked, expired>> /\ Reply("rejected", None).cred = None
      BY <2>7 DEF enroll_check, rowVars, credentialVars, Reply, Idle
    <3> QED BY <2>3, <2>4, <2>6, <3>1, <3>2, <3>3
  <2>8. CASE enroll_claim(w)
    <3>1. \/ \E e \in EndpointIds, c \in CredentialIds :
               /\ owner[c] = None /\ owner' = [owner EXCEPT ![c] = e]
               /\ req'[w] = Reply("enrolled", c)
          \/ owner' = owner /\ req'[w] = Reply("rejected", None)
      BY <2>8 DEF enroll_claim, Become, TypeOK
    <3> QED BY <2>4, <2>5, <2>6, <3>1 DEF Reply, Idle
  <2> QED BY <1>10, <2>7, <2>8
<1>11. CASE heartbeat(w)
  <2>1. at = "beating" /\ req[w].cred = credFile /\ credFile # None
    BY <1>2, <1>3, <1>11, NoneAssumption
       DEF heartbeat, AgentInv, AgentTypeOK, CallsFit, Call, Verdicts, OnDisk
  <2>2. r = Reply(authenticate(credFile), None) /\ owner' = owner /\ expired' = expired
    BY <1>1, <1>11, <2>1 DEF heartbeat, Become, TypeOK, rowVars, credentialVars
  <2>3. owner[credFile] # None
    BY <2>1 DEF HandsParts, HeldWasIssued
  <2>4. /\ authenticate(credFile) # "unknown_credential"
        /\ authenticate(credFile) = "expired" => credFile \in expired
    BY <2>3 DEF authenticate
  <2>5. r.cred = None /\ r.result = authenticate(credFile)
    BY <2>2 DEF Reply, Idle
  <2>6. AnswersStand'
    BY <1>3, <2>1, <2>2, <2>4, <2>5 DEF AnswersStand
  <2> QED BY <1>9, <2>2, <2>5, <2>6
<1>12. CASE rotate_check(w)
  <2>1. at = "rotating" /\ req[w].cred = credential
    BY <1>2, <1>3, <1>12
       DEF rotate_check, AgentInv, AgentTypeOK, CallsFit, Call, HandsParts, AnswersStand
  <2>2. UNCHANGED <<owner, revoked, expired>> /\ req'[w] = r
    BY <1>1, <1>12 DEF rotate_check, rowVars, credentialVars, TypeOK
  <2>3. CASE r = Reply(authenticate(req[w].cred), None)
    <3>1. r.cred = None /\ r.stage = "reply" /\ r.result \in Verdicts
      BY <2>3, AuthenticateVerdict DEF Reply, Idle
    <3>2. AnswersStand'
      BY <1>3, <2>1, <3>1 DEF AnswersStand, Verdicts
    <3> QED BY <1>9, <2>2, <3>1, <3>2
  <2>4. CASE r = [req[w] EXCEPT !.stage = "rotating"]
    <3>1. r.cred = credential /\ r.stage = "rotating"
      BY <2>1, <2>4 DEF TypeOK, Requests
    <3>2. AnswersStand'
      BY <1>3, <2>1, <3>1 DEF AnswersStand
    <3>3. HeldWasIssued'
      BY <1>3, <2>2, <3>1 DEF HandsParts, HeldWasIssued, Replied
    <3>4. AliveIsHeld'
      BY <1>3, <2>2 DEF HandsParts, AliveIsHeld, Alive, Held, Replied, Call
    <3> QED BY <1>4, <1>5, <3>2, <3>3, <3>4 DEF HandsParts
  <2> QED BY <1>12, <2>2, <2>3, <2>4 DEF rotate_check, Become, TypeOK
<1>13. CASE rotate_commit(w)
  <2>1. /\ at = "rotating" /\ req[w].cred = credFile /\ credFile \in CredentialIds
        /\ owner[credFile] # None
    BY <1>2, <1>3, <1>13
       DEF rotate_commit, AgentInv, AgentTypeOK, CallsFit, Call, HandsParts, AnswersStand, OnDisk,
           CredentialsOwned
  <2>2. PICK new \in CredentialIds :
          /\ owner[new] = None
          /\ revoked' = revoked \cup RotatedOut(credFile)
          /\ owner' = [owner EXCEPT ![new] = owner[credFile]]
          /\ req'[w] = Reply("rotated", new)
    BY <1>13, <2>1 DEF rotate_commit, Become, TypeOK
  <2>3. r.cred = new /\ r.stage = "reply" /\ r.result = "rotated" /\ Replied'
    BY <1>1, <1>2, <1>3, <2>2 DEF Reply, Idle, TypeOK, Replied
  <2>4. owner'[new] # None /\ \A d \in CredentialIds \ {new} : owner'[d] = owner[d]
    BY <2>1, <2>2 DEF TypeOK
  <2>5. credFile \in revoked'
    BY <2>1, <2>2 DEF RotatedOut
  <2>6. AnswersStand'
    BY <1>3, <2>1, <2>3, <2>5 DEF AnswersStand
  <2>7. HeldWasIssued'
    BY <1>3, <1>8, <2>3, <2>4 DEF HandsParts, HeldWasIssued
  <2>8. AliveIsHeld'
    BY <1>3, <1>7, <2>3, <2>4 DEF HandsParts, AliveIsHeld, Alive, Held, Replied, Call
  <2> QED BY <1>4, <1>5, <2>6, <2>7, <2>8 DEF HandsParts
<1> QED BY <1>10, <1>11, <1>12, <1>13 DEF Serve

\* Without mishaps and later packages every step keeps what the agent holds in
\* order.
LEMMA HandsStep ==
    ASSUME TypeOK, CredentialsOwned, RevokedWereIssued, AgentInv, OnDisk, HandsInv,
           [AgentNext]_allVars
    PROVE  HandsInv'
<1>a. mishaps \in Nat /\ packages \in Nat
  BY DEF AgentInv, AgentTypeOK
<1> SUFFICES ASSUME Untroubled' PROVE HandsParts'
  BY DEF HandsInv, HandsParts
<1>b. [Next]_vars
  BY AgentStepsAreServerSteps
<1>c. ASSUME Untroubled PROVE HandsParts
  BY <1>c DEF HandsInv, HandsParts
<1>1. CASE EnrollSend \/ BeatSend \/ RotateSend
  <2>1. Untroubled
    BY <1>1 DEF EnrollSend, BeatSend, RotateSend, CallServer, history, Untroubled
  <2>2. CASE EnrollSend
    BY <1>c, <2>1, <2>2, HandsCall DEF EnrollSend, EnrollRequest, Idle
  <2>3. CASE BeatSend
    <3>1. AgentRequest("heartbeat", credential).stage = "heartbeat"
      BY DEF AgentRequest, Idle
    <3> QED BY <1>c, <2>1, <2>3, <3>1, HandsCall DEF BeatSend
  <2>4. CASE RotateSend
    <3>1. AgentRequest("rotate", credential).stage = "rotate"
          /\ AgentRequest("rotate", credential).cred = credential
      BY DEF AgentRequest, Idle
    <3> QED BY <1>c, <2>1, <2>4, <3>1, HandsCall DEF RotateSend
  <2> QED BY <1>1, <2>2, <2>3, <2>4
<1>2. CASE EnrollAnswer \/ RotateAnswer \/ BeatOk \/ BeatRenews \/ BeatRefused
  <2>1. Untroubled
    BY <1>2 DEF EnrollAnswer, RotateAnswer, BeatOk, BeatRenews, BeatRefused, Refused, history,
                Untroubled
  <2> QED BY <1>c, <1>2, <2>1, HandsAnswer
<1>3. CASE Start \/ SaveCredential \/ SaveConfig \/ SaveRefused \/ SaveRotated \/ Stops
  <2>1. Untroubled /\ UNCHANGED vars
    BY <1>3 DEF Start, SaveCredential, SaveConfig, SaveRefused, SaveRotated, Stops, Dies,
                history, Untroubled
  <2>2. HandsParts
    BY <1>c, <2>1
  <2>3. worker = None /\ worker' = None /\ at' \notin {"enrolling", "beating", "rotating"}
    BY <1>3 DEF Start, SaveCredential, SaveConfig, SaveRefused, SaveRotated, Stops, Dies, Waiting,
                AgentInv, AgentTypeOK
  <2>4. ~Replied /\ ~Replied' /\ AnswersStand'
    BY <2>3 DEF Replied, AnswersStand
  <2>5. AloneServed'
    BY <2>1, <2>2, <2>3 DEF HandsParts, AloneServed, vars
  <2>6. UNCHANGED <<owner, revoked, expired>>
    BY <2>1 DEF vars, rowVars, credentialVars
  <2>7. CASE Start \/ SaveRefused \/ Stops
    <3>1. credFile' = credFile /\ got' = got
      BY <2>7 DEF Start, SaveRefused, Stops, Dies, Waiting, disk, AgentInv, AgentTypeOK
    <3>2. Replaceable'
      BY <2>2, <2>7, NoneAssumption DEF Start, SaveRefused, Stops, Dies, disk, HandsParts, Replaceable
    <3> QED BY <2>2, <2>3, <2>4, <2>5, <2>6, <3>1, <3>2
            DEF HandsParts, HeldWasIssued, AliveIsHeld, Alive, Held
  <2>8. CASE SaveCredential \/ SaveConfig \/ SaveRotated
    <3>1. /\ credFile' = got \/ (credFile = got /\ credFile' = credFile)
          /\ got' \in {None, got} /\ at' \in {"save_config", "beat"} /\ got # None
          /\ credFile = got \/ credFile = None \/ credFile \in revoked
      BY <2>2, <2>8 DEF SaveCredential, SaveConfig, SaveRotated, AgentInv, AgentTypeOK, OnDisk,
                        HandsParts, Replaceable
    <3>2. Replaceable'
      BY <3>1 DEF Replaceable
    <3>3. HeldWasIssued'
      BY <2>2, <2>4, <2>6, <3>1 DEF HandsParts, HeldWasIssued
    <3>4. AliveIsHeld'
      BY <2>2, <2>3, <2>6, <3>1, NoneAssumption DEF HandsParts, AliveIsHeld, Alive, Held
    <3> QED BY <2>4, <2>5, <3>2, <3>3, <3>4 DEF HandsParts
  <2> QED BY <1>3, <2>7, <2>8
<1>4. CASE CallLost \/ SaveFails \/ Crash \/ (\E t : Upgrade(t) \/ Reinstall(t))
  BY <1>a, <1>4 DEF CallLost, SaveFails, Crash, Mishap, Upgrade, Reinstall, Deploys, Untroubled
<1>5. CASE AnswerLost
  <2>1. Untroubled
    BY <1>5 DEF AnswerLost, agentVars, history, Untroubled
  <2> QED BY <1>5, <1>c, <2>1 DEF AnswerLost, Answered, HandsParts, AloneServed, Idle
<1>6. ASSUME UNCHANGED <<agentVars, req, owner>> PROVE HandsParts'
  <2>1. UNCHANGED <<at, worker, credential, got, credFile, mishaps, packages>>
    BY <1>6 DEF agentVars, memory, disk, history
  <2>2. HandsParts
    BY <1>c, <2>1 DEF Untroubled
  <2>3. revoked \subseteq revoked' /\ expired \subseteq expired'
    BY <1>b, RevocationStays, ExpiryStays
  <2>4. AloneServed' /\ Replaceable' /\ HeldWasIssued'
    BY <1>6, <2>1, <2>2, <2>3
       DEF HandsParts, AloneServed, Replaceable, HeldWasIssued, Replied, Call
  <2>5. AnswersStand'
    BY <1>6, <2>1, <2>2, <2>3 DEF HandsParts, AnswersStand, Call
  <2>6. AliveIsHeld'
    BY <1>6, <2>1, <2>2, <2>3 DEF HandsParts, AliveIsHeld, Alive, Held
  <2> QED BY <2>4, <2>5, <2>6 DEF HandsParts
<1>7. CASE ServerStep
  <2>1. UNCHANGED agentVars /\ Untroubled
    BY <1>7 DEF ServerStep, agentVars, history, Untroubled
  <2>2. ASSUME NEW w \in Workers, Serve(w) PROVE HandsParts'
    BY <1>c, <2>1, <2>2, HandsServe
  <2>3. (\E w \in Workers : Serve(w)) \/ UNCHANGED <<req, owner>>
    BY <1>7 DEF ServerStep, Administer, admin_load, disable_commit, delete_commit, enable_commit,
                revoke_commit, revoke_token, TokenExpires, CredentialExpires, rowVars, credentialVars
  <2> QED BY <1>6, <2>1, <2>2, <2>3
<1>8. CASE UNCHANGED allVars
  BY <1>6, <1>8 DEF allVars, vars, rowVars, credentialVars
<1> QED BY <1>1, <1>2, <1>3, <1>4, <1>5, <1>7, <1>8 DEF AgentNext, AgentStep

\* Without mishaps and later packages every credential that the server would
\* accept is on the agent's disk or about to be: rotations overlap nothing, and
\* what the agent drops was rotated out or has expired.
THEOREM WorkingCredentialsHeld == AgentSpec => []EveryWorkingCredentialIsHeld
<1>1. AgentInit => CredentialsOwned /\ HandsInv
  BY NoneAssumption
     DEF AgentInit, Init, CredentialsOwned, HandsInv, AloneServed, AnswersStand, Replaceable,
         HeldWasIssued, Replied, AliveIsHeld, Alive, Idle
<1>2. TypeOK /\ CredentialsOwned /\ RevokedWereIssued /\ AgentInv /\ OnDisk /\ HandsInv
        /\ [AgentNext]_allVars /\ [Next]_vars
        => OnDisk' /\ CredentialsOwned' /\ HandsInv'
  BY OnDiskStep, OwnedStep, HandsStep
<1>3. AgentInit => OnDisk
  BY DEF AgentInit, OnDisk
<1>4. AgentInv /\ HandsInv => EveryWorkingCredentialIsHeld
  <2>1. SUFFICES ASSUME AgentInv, HandsInv, mishaps + packages = 0,
                        NEW c \in CredentialIds, authenticate(c) = "ok"
                 PROVE  Held(c)
    BY DEF EveryWorkingCredentialIsHeld
  <2>2. Untroubled
    BY <2>1, BoundsAssumption DEF AgentInv, AgentTypeOK, Untroubled
  <2>3. Alive(c)
    BY <2>1 DEF authenticate, Alive
  <2> QED BY <2>1, <2>2, <2>3 DEF HandsInv, AliveIsHeld
<1> QED BY <1>1, <1>2, <1>3, <1>4, AgentImplementsClient, OnlyIssuedRevoked, PTL DEF AgentSpec, Spec
=============================================================================
