-------------------------- MODULE TenantAccessProofs --------------------------
(* What holds of offboarding for any number of concurrent requests and     *)
(* keys: the row locks of the keys are what makes the sweep complete.      *)
EXTENDS TenantAccess, TLAPS

\* A row that a revocation or a deletion has updated belongs to no request,
\* and not to both of them.
LocksExclude ==
    \A k \in Keys :
        /\ revoking[k] = "updated" \/ k \in locked
              => \A r \in Requests : phase[r] = "open" => credential[r] # k
        /\ revoking[k] = "updated" => k \notin locked
        /\ revoking[k] # "no" => k \in keys

\* A request that works with a revoked key got the row after the revocation.
RevokedMeansLate ==
    \A r \in Requests :
        phase[r] = "open" /\ credential[r] \in revoked => late[r]

\* Every key an open deletion has read is still to be locked, or locked, or
\* revoked by somebody else.
DeletionPhase ==
    /\ deletion \in {"no", "read"}
          => to_revoke = {} /\ locked = {} /\ picked_from = {}
    /\ picked_from \subseteq to_revoke \union locked \union revoked
    /\ deletion \in {"tokens", "swept"} => to_revoke = {}
    /\ deletion # "swept" => swept = {}

\* What is committed between the sweep and the end of the deletion comes from
\* late requests.
SweepComplete ==
    deletion = "swept" =>
        \A t \in tokens : t.by \in picked_from => t.late

IInv ==
    /\ TypeOK
    /\ LocksExclude
    /\ RevokedMeansLate
    /\ DeletionPhase
    /\ SweepComplete
    /\ CoveredKeysRevoked
    /\ TimelyRequestsAreSwept

\* No key exists and nobody is doing anything at first.
LEMMA InitEstablishes == Init => IInv
  BY DEF Init, IInv, TypeOK, Credentials, Token, LocksExclude,
         RevokedMeansLate, DeletionPhase, SweepComplete, CoveredKeysRevoked,
         TimelyRequestsAreSwept

-----------------------------------------------------------------------------
\* A request that takes its first two steps holds nothing yet.
LEMMA AuthenticatePreserves ==
    ASSUME IInv, NEW r \in Requests,
           (\E k \in Keys : ReadKey(r, k)) \/ ReadTenant(r)
    PROVE  IInv'
<1> USE DEF IInv
<1>1. CASE \E k \in Keys : ReadKey(r, k)
  <2>1. PICK k \in Keys : ReadKey(r, k) BY <1>1
  <2>2. TypeOK' BY <2>1 DEF TypeOK, ReadKey, Credentials, keyVars, deletionVars
  <2>3. LocksExclude'
    BY <2>1 DEF TypeOK, LocksExclude, ReadKey, keyVars, deletionVars
  <2>4. RevokedMeansLate' BY <2>1 DEF TypeOK, RevokedMeansLate, ReadKey
  <2> QED
    BY <2>1, <2>2, <2>3, <2>4
    DEF ReadKey, DeletionPhase, SweepComplete, CoveredKeysRevoked,
        TimelyRequestsAreSwept, keyVars, deletionVars
<1>2. CASE ReadTenant(r)
  <2>2. TypeOK' BY <1>2 DEF TypeOK, ReadTenant, keyVars, deletionVars
  <2>3. LocksExclude'
    BY <1>2 DEF TypeOK, LocksExclude, ReadTenant, keyVars, deletionVars
  <2>4. RevokedMeansLate' BY <1>2 DEF TypeOK, RevokedMeansLate, ReadTenant
  <2> QED
    BY <1>2, <2>2, <2>3, <2>4
    DEF ReadTenant, DeletionPhase, SweepComplete, CoveredKeysRevoked,
        TimelyRequestsAreSwept, keyVars, deletionVars
<1> QED BY <1>1, <1>2

\* A request gets the row of its key only when nobody else holds it, and is
\* late if the key has been revoked.
LEMMA OpenPreserves ==
    ASSUME IInv, NEW r \in Requests, TouchKey(r) \/ ReadTenantOfJwt(r)
    PROVE  IInv'
<1> USE DEF IInv
<1>1. CASE TouchKey(r)
  <2>2. TypeOK' BY <1>1 DEF TypeOK, TouchKey, keyVars, deletionVars
  <2>3. LocksExclude'
    BY <1>1 DEF TypeOK, LocksExclude, TouchKey, RowLocked, keyVars,
                deletionVars
  <2>4. RevokedMeansLate' BY <1>1 DEF TypeOK, RevokedMeansLate, TouchKey
  <2> QED
    BY <1>1, <2>2, <2>3, <2>4
    DEF TouchKey, DeletionPhase, SweepComplete, CoveredKeysRevoked,
        TimelyRequestsAreSwept, keyVars, deletionVars
<1>2. CASE ReadTenantOfJwt(r)
  <2>2. TypeOK'
    BY <1>2 DEF TypeOK, ReadTenantOfJwt, Credentials, keyVars, deletionVars
  <2>3. LocksExclude'
    BY <1>2, JwtAssumption
    DEF TypeOK, LocksExclude, ReadTenantOfJwt, keyVars, deletionVars
  <2>4. RevokedMeansLate'
    BY <1>2, JwtAssumption DEF TypeOK, RevokedMeansLate, ReadTenantOfJwt
  <2> QED
    BY <1>2, <2>2, <2>3, <2>4
    DEF ReadTenantOfJwt, DeletionPhase, SweepComplete, CoveredKeysRevoked,
        TimelyRequestsAreSwept, keyVars, deletionVars
<1> QED BY <1>1, <1>2

\* Storing a token changes only the request's own transaction.
LEMMA StoreTokenPreserves ==
    ASSUME IInv, NEW r \in Requests, StoreToken(r)
    PROVE  IInv'
<1> USE DEF IInv
<1>1. TypeOK' BY DEF TypeOK, StoreToken, keyVars, deletionVars
<1> QED
  BY <1>1
  DEF StoreToken, LocksExclude, RevokedMeansLate, DeletionPhase,
      SweepComplete, CoveredKeysRevoked, TimelyRequestsAreSwept, keyVars,
      deletionVars

\* The end of a request frees its row.
LEMMA EndRequestPreserves ==
    ASSUME IInv, NEW r \in Requests, EndRequest(r),
           tokens' \subseteq Token,
           \A t \in tokens' \ tokens :
               phase[r] = "open" /\ t.by = credential[r] /\ t.late = late[r]
    PROVE  IInv'
<1> USE DEF IInv
<1>1. UNCHANGED <<keys, revoked, tenant_active, issuing, revoking, deletion,
                  swept, to_revoke, locked, picked_from, covered>>
  BY DEF EndRequest, keyVars, deletionVars
<1>2. TypeOK' BY <1>1 DEF TypeOK, EndRequest, Credentials
<1>3. LocksExclude'
  BY <1>1, JwtAssumption DEF TypeOK, LocksExclude, EndRequest
<1>4. RevokedMeansLate'
  BY <1>1, JwtAssumption DEF TypeOK, RevokedMeansLate, EndRequest
<1>5. DeletionPhase' BY <1>1 DEF DeletionPhase
<1>6. SweepComplete'
  <2> SUFFICES ASSUME deletion = "swept", NEW t \in tokens',
                      t.by \in picked_from
               PROVE  t.late
    BY <1>1 DEF SweepComplete
  <2>1. CASE t \in tokens BY <2>1 DEF SweepComplete
  <2>2. CASE t \notin tokens
    <3>1. phase[r] = "open" /\ t.by = credential[r] /\ t.late = late[r]
      BY <2>2
    <3>2. credential[r] \in Keys /\ credential[r] \notin locked
      BY <3>1 DEF LocksExclude, TypeOK
    <3>3. credential[r] \in revoked BY <3>1, <3>2 DEF DeletionPhase
    <3> QED BY <3>1, <3>3 DEF RevokedMeansLate
  <2> QED BY <2>1, <2>2
<1>7. CoveredKeysRevoked' BY <1>1 DEF CoveredKeysRevoked
<1>8. TimelyRequestsAreSwept'
  BY <1>1
  DEF TimelyRequestsAreSwept, CoveredKeysRevoked, RevokedMeansLate
<1> QED BY <1>2, <1>3, <1>4, <1>5, <1>6, <1>7, <1>8

\* The three ends of a request: only a commit adds a token, its own.
LEMMA RequestEndsPreserve ==
    ASSUME IInv, NEW r \in Requests,
           RejectRequest(r) \/ CommitRequest(r) \/ FailRequest(r)
    PROVE  IInv'
<1>1. CASE RejectRequest(r) \/ FailRequest(r)
  BY <1>1, EndRequestPreserves
  DEF RejectRequest, FailRequest, IInv, TypeOK
<1>2. CASE CommitRequest(r)
  <2>1. \A t \in tokens' \ tokens :
            phase[r] = "open" /\ t.by = credential[r] /\ t.late = late[r]
    BY <1>2 DEF CommitRequest
  <2>2. tokens' \subseteq Token
    BY <1>2 DEF CommitRequest, IInv, TypeOK, Token
  <2> QED BY <1>2, <2>1, <2>2, EndRequestPreserves DEF CommitRequest
<1> QED BY <1>1, <1>2

-----------------------------------------------------------------------------
\* Issuing a key, and reading one to revoke it, locks nothing.
LEMMA KeyReadPreserves ==
    ASSUME IInv, NEW k \in Keys,
           IssueKey(k) \/ CommitKey(k) \/ ReadKeyToRevoke(k)
               \/ FailKeyChange(k)
    PROVE  IInv'
<1> USE DEF IInv
<1>1. UNCHANGED <<revoked, tenant_active, tokens, requestVars, deletionVars>>
  BY DEF IssueKey, CommitKey, ReadKeyToRevoke, FailKeyChange
<1>2. TypeOK'
  BY <1>1
  DEF TypeOK, IssueKey, CommitKey, ReadKeyToRevoke, FailKeyChange,
      requestVars, deletionVars
<1>3. LocksExclude'
  BY <1>1
  DEF TypeOK, LocksExclude, IssueKey, CommitKey, ReadKeyToRevoke,
      FailKeyChange, requestVars, deletionVars
<1> QED
  BY <1>1, <1>2, <1>3
  DEF RevokedMeansLate, DeletionPhase, SweepComplete, CoveredKeysRevoked,
      TimelyRequestsAreSwept, requestVars, deletionVars

\* A revocation takes the row when it is free ...
LEMMA RevokeKeyPreserves ==
    ASSUME IInv, NEW k \in Keys, RevokeKey(k)
    PROVE  IInv'
<1> USE DEF IInv
<1>1. TypeOK' BY DEF TypeOK, RevokeKey, requestVars, deletionVars
<1>2. LocksExclude'
  BY DEF TypeOK, LocksExclude, RevokeKey, RowLocked, requestVars,
         deletionVars
<1> QED
  BY <1>1, <1>2
  DEF RevokeKey, RevokedMeansLate, DeletionPhase, SweepComplete,
      CoveredKeysRevoked, TimelyRequestsAreSwept, requestVars, deletionVars

\* ... so that no request has it when it commits.
LEMMA CommitRevocationPreserves ==
    ASSUME IInv, NEW k \in Keys, CommitRevocation(k)
    PROVE  IInv'
<1> USE DEF IInv
<1>1. UNCHANGED <<keys, tenant_active, tokens, requestVars, issuing,
                  deletionVars>>
  BY DEF CommitRevocation
<1>2. TypeOK'
  BY <1>1
  DEF TypeOK, CommitRevocation, LocksExclude, requestVars, deletionVars
<1>3. LocksExclude'
  BY <1>1
  DEF TypeOK, LocksExclude, CommitRevocation, requestVars, deletionVars
<1>4. RevokedMeansLate'
  BY <1>1 DEF CommitRevocation, LocksExclude, RevokedMeansLate, requestVars
<1> QED
  BY <1>1, <1>2, <1>3, <1>4
  DEF CommitRevocation, DeletionPhase, SweepComplete, CoveredKeysRevoked,
      TimelyRequestsAreSwept, requestVars, deletionVars

-----------------------------------------------------------------------------
\* The statements of a deletion before its sweep.
LEMMA DeletionReadsPreserve ==
    ASSUME IInv, BeginDeletion \/ PickKeys \/ KeysLocked
    PROVE  IInv'
<1> USE DEF IInv
<1>1. UNCHANGED <<keys, revoked, tenant_active, tokens, requestVars, keyVars,
                  swept, locked, covered>>
  BY DEF BeginDeletion, PickKeys, KeysLocked
<1>2. TypeOK'
  BY <1>1
  DEF TypeOK, BeginDeletion, PickKeys, KeysLocked, requestVars, keyVars
<1>3. DeletionPhase'
  BY <1>1 DEF TypeOK, DeletionPhase, BeginDeletion, PickKeys, KeysLocked
<1>4. SweepComplete' BY DEF SweepComplete, BeginDeletion, PickKeys, KeysLocked
<1> QED
  BY <1>1, <1>2, <1>3, <1>4
  DEF LocksExclude, RevokedMeansLate, CoveredKeysRevoked,
      TimelyRequestsAreSwept, requestVars, keyVars

\* The deletion waits for each row it has picked.
LEMMA LockKeyPreserves ==
    ASSUME IInv, NEW k \in Keys, LockKey(k)
    PROVE  IInv'
<1> USE DEF IInv
<1>1. TypeOK' BY DEF TypeOK, LockKey, requestVars, keyVars
<1>2. LocksExclude'
  BY DEF TypeOK, LocksExclude, LockKey, RowLocked, requestVars, keyVars
<1>3. DeletionPhase' BY DEF TypeOK, DeletionPhase, LockKey
<1> QED
  BY <1>1, <1>2, <1>3
  DEF LockKey, RevokedMeansLate, SweepComplete, CoveredKeysRevoked,
      TimelyRequestsAreSwept, requestVars, keyVars

\* The sweep leaves no token.
LEMMA SweepTokensPreserves ==
    ASSUME IInv, SweepTokens
    PROVE  IInv'
<1> USE DEF IInv
<1>1. TypeOK' BY DEF TypeOK, SweepTokens, requestVars, keyVars
<1> QED
  BY <1>1
  DEF SweepTokens, LocksExclude, RevokedMeansLate, DeletionPhase,
      SweepComplete, CoveredKeysRevoked, TimelyRequestsAreSwept, requestVars,
      keyVars

\* A commit makes the keys the deletion has locked revoked ones, which no
\* open request uses.
LEMMA CommitDeletionPreserves ==
    ASSUME IInv, CommitDeletion
    PROVE  IInv'
<1> USE DEF IInv
<1>1. TypeOK'
  BY DEF TypeOK, CommitDeletion, EndDeletion, requestVars, keyVars
<1>2. LocksExclude'
  BY DEF LocksExclude, CommitDeletion, EndDeletion, requestVars, keyVars
<1>3. RevokedMeansLate'
  BY DEF TypeOK, RevokedMeansLate, LocksExclude, CommitDeletion, EndDeletion,
         requestVars
<1>4. DeletionPhase' BY DEF DeletionPhase, CommitDeletion, EndDeletion
<1>5. SweepComplete' BY DEF SweepComplete, CommitDeletion, EndDeletion
<1>6. CoveredKeysRevoked'
  BY DEF CoveredKeysRevoked, DeletionPhase, CommitDeletion
<1>7. TimelyRequestsAreSwept'
  BY DEF TimelyRequestsAreSwept, SweepComplete, CommitDeletion, EndDeletion
<1> QED BY <1>1, <1>2, <1>3, <1>4, <1>5, <1>6, <1>7

\* A rollback makes the swept tokens valid again.
LEMMA FailDeletionPreserves ==
    ASSUME IInv, FailDeletion
    PROVE  IInv'
<1> USE DEF IInv
<1>1. TypeOK'
  BY DEF TypeOK, FailDeletion, EndDeletion, requestVars, keyVars
<1>2. LocksExclude'
  BY DEF LocksExclude, FailDeletion, EndDeletion, requestVars, keyVars
<1> QED
  BY <1>1, <1>2
  DEF FailDeletion, EndDeletion, RevokedMeansLate, DeletionPhase,
      SweepComplete, CoveredKeysRevoked, TimelyRequestsAreSwept, requestVars,
      keyVars

-----------------------------------------------------------------------------
\* The invariant is inductive.
LEMMA StepPreserves == IInv /\ [Next]_vars => IInv'
<1> SUFFICES ASSUME IInv, [Next]_vars PROVE IInv' OBVIOUS
<1>1. CASE UNCHANGED vars
  BY <1>1
  DEF vars, requestVars, keyVars, deletionVars, IInv, TypeOK, LocksExclude,
      RevokedMeansLate, DeletionPhase, SweepComplete, CoveredKeysRevoked,
      TimelyRequestsAreSwept
<1>2. ASSUME NEW r \in Requests,
             \/ \E k \in Keys : ReadKey(r, k)
             \/ RequestStep(r) \/ TouchKey(r)
             \/ ReadTenantOfJwt(r) \/ StoreToken(r) \/ FailRequest(r)
      PROVE  IInv'
  BY <1>2, AuthenticatePreserves, OpenPreserves, StoreTokenPreserves,
     RequestEndsPreserve
  DEF RequestStep
<1>3. ASSUME NEW k \in Keys,
             \/ IssueKey(k) \/ CommitKey(k)
             \/ ReadKeyToRevoke(k) \/ RevokeKey(k) \/ CommitRevocation(k)
             \/ FailKeyChange(k) \/ LockKey(k)
      PROVE  IInv'
  BY <1>3, KeyReadPreserves, RevokeKeyPreserves, CommitRevocationPreserves,
     LockKeyPreserves
<1>4. CASE BeginDeletion \/ DeletionStep \/ FailDeletion
  BY <1>4, DeletionReadsPreserve, SweepTokensPreserves,
     CommitDeletionPreserves, FailDeletionPreserves
  DEF DeletionStep
<1> QED BY <1>1, <1>2, <1>3, <1>4 DEF Next

\* It holds in every state.
LEMMA AlwaysIInv == Spec => []IInv
  BY InitEstablishes, StepPreserves, PTL DEF Spec

\* The variables of requests, key changes and deletions have their types.
THEOREM TypeCorrect == Spec => []TypeOK
<1>1. IInv => TypeOK BY DEF IInv
<1> QED BY <1>1, AlwaysIInv, PTL

\* Once the tenant is inactive, every key that delete_tenant read is revoked,
\* whatever revocations and failed deletions came between.
THEOREM CoveredKeysAreRevoked == Spec => []CoveredKeysRevoked
<1>1. IInv => CoveredKeysRevoked BY DEF IInv
<1> QED BY <1>1, AlwaysIInv, PTL

\* A token that survives delete_tenant was stored with a JWT, under a key it
\* did not read, or by a request that got its key's row after the revocation.
THEOREM TimelyTokensAreSwept == Spec => []TimelyRequestsAreSwept
<1>1. IInv => TimelyRequestsAreSwept BY DEF IInv
<1> QED BY <1>1, AlwaysIInv, PTL
=============================================================================
