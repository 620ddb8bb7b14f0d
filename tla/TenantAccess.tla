---------------------------- MODULE TenantAccess ----------------------------
(***************************************************************************)
(* One tenant's access to the proxy and its offboarding:                   *)
(* authenticate_request (engine/auth/service.py), verify_api_key and       *)
(* get_db (engine/dependencies.py), the key endpoints and delete_tenant    *)
(* (engine/admin/router.py), and the tokens its requests leave in the      *)
(* vault (engine/vault/vault.py).                                          *)
(*                                                                         *)
(* A request reads its key, then the tenant, then writes last_used_at in   *)
(* its own transaction, so it holds the lock of the key's row until it     *)
(* commits, after the answer of the model provider.  Revocation and        *)
(* deletion update the same rows.  A request with a JWT locks nothing.     *)
(* Every statement sees what is committed when it runs (READ COMMITTED);   *)
(* an UPDATE picks its rows, waits for their locks, then checks them again.*)
(* A token matters here only through the request that stored it.           *)
(***************************************************************************)
EXTENDS Naturals, FiniteSets

CONSTANTS Requests,   \* concurrent requests of the tenant
          Keys,       \* the API keys it can be issued
          Jwt         \* the credential of a dashboard user, not a key

ASSUME JwtAssumption == Jwt \notin Keys

VARIABLES keys,           \* committed rows of tenant_api_keys
          revoked,        \* those with revoked_at set (and is_active unset)
          tenant_active,  \* tenants.is_active
          tokens,         \* committed vault_tokens without invalidated_at
          swept,          \* those an open deletion has invalidated
          phase,          \* phase[r]: where request r is
          credential,     \* credential[r]: what it authenticates with
          late,           \* late[r]: its key was revoked before it locked it
          stored,         \* stored[r]: it has inserted a token, uncommitted
          issuing,        \* keys issued by a transaction still open
          revoking,       \* revoking[k]: progress of revoke_api_key
          deletion,       \* progress of delete_tenant
          to_revoke,      \* rows its UPDATE of keys has picked, to be locked
          locked,         \* rows it has updated, uncommitted
          picked_from,    \* the keys committed when that UPDATE began
          covered         \* history: picked_from of the committed deletions

requestVars == <<phase, credential, late, stored>>
keyVars == <<issuing, revoking>>
deletionVars == <<deletion, swept, to_revoke, locked, picked_from, covered>>
vars == <<keys, revoked, tenant_active, tokens, requestVars, keyVars,
          deletionVars>>

Credentials == Keys \union {Jwt}
Token == [by : Credentials, late : BOOLEAN]

TypeOK ==
    /\ keys \subseteq Keys
    /\ revoked \subseteq keys
    /\ tenant_active \in BOOLEAN
    /\ tokens \subseteq Token
    /\ swept \subseteq Token
    /\ phase \in [Requests -> {"idle", "key_read", "allowed", "open"}]
    /\ credential \in [Requests -> Credentials]
    /\ late \in [Requests -> BOOLEAN]
    /\ stored \in [Requests -> BOOLEAN]
    /\ issuing \subseteq Keys \ keys
    /\ revoking \in [Keys -> {"no", "read", "updated"}]
    /\ deletion \in {"no", "read", "keys", "tokens", "swept"}
    /\ to_revoke \subseteq keys
    /\ locked \subseteq keys
    /\ picked_from \subseteq keys
    /\ covered \subseteq keys

Init ==
    /\ keys = {}
    /\ revoked = {}
    /\ tenant_active = TRUE
    /\ tokens = {}
    /\ swept = {}
    /\ phase = [r \in Requests |-> "idle"]
    /\ credential = [r \in Requests |-> Jwt]
    /\ late = [r \in Requests |-> FALSE]
    /\ stored = [r \in Requests |-> FALSE]
    /\ issuing = {}
    /\ revoking = [k \in Keys |-> "no"]
    /\ deletion = "no"
    /\ to_revoke = {}
    /\ locked = {}
    /\ picked_from = {}
    /\ covered = {}

\* A request, revoke_api_key or delete_tenant has updated the key's row and
\* not ended its transaction.
RowLocked(k) ==
    \/ \E r \in Requests : phase[r] = "open" /\ credential[r] = k
    \/ revoking[k] = "updated"
    \/ k \in locked

-----------------------------------------------------------------------------
(* Requests.                                                               *)

\* Variant: the key's revoked_at is not looked at.
ReadKey_revoked(r, k) ==
    /\ phase[r] = "idle"
    /\ k \in keys
    /\ credential' = [credential EXCEPT ![r] = k]
    /\ phase' = [phase EXCEPT ![r] = "key_read"]
    /\ UNCHANGED <<keys, revoked, tenant_active, tokens, late, stored,
                   keyVars, deletionVars>>

\* authenticate_request, first SELECT: unknown and revoked keys end in 401.
ReadKey(r, k) ==
    /\ phase[r] = "idle"
    /\ k \in keys \ revoked
    /\ credential' = [credential EXCEPT ![r] = k]
    /\ phase' = [phase EXCEPT ![r] = "key_read"]
    /\ UNCHANGED <<keys, revoked, tenant_active, tokens, late, stored,
                   keyVars, deletionVars>>

\* Second SELECT (selectinload of the tenant).
ReadTenant(r) ==
    /\ phase[r] = "key_read"
    /\ tenant_active
    /\ phase' = [phase EXCEPT ![r] = "allowed"]
    /\ UNCHANGED <<keys, revoked, tenant_active, tokens, credential, late,
                   stored, keyVars, deletionVars>>

\* Variant: last_used_at is written by a task of its own, as its comment says.
TouchKey_in_background(r) ==
    /\ phase[r] = "allowed"
    /\ phase' = [phase EXCEPT ![r] = "open"]
    /\ late' = [late EXCEPT ![r] = credential[r] \in revoked]
    /\ UNCHANGED <<keys, revoked, tenant_active, tokens, credential, stored,
                   keyVars, deletionVars>>

\* UPDATE of last_used_at: waits for the row, whose revocation meanwhile
\* changes nothing for the request.
TouchKey(r) ==
    /\ phase[r] = "allowed"
    /\ ~RowLocked(credential[r])
    /\ phase' = [phase EXCEPT ![r] = "open"]
    /\ late' = [late EXCEPT ![r] = credential[r] \in revoked]
    /\ UNCHANGED <<keys, revoked, tenant_active, tokens, credential, stored,
                   keyVars, deletionVars>>

\* verify_api_key with a JWT: one SELECT of the tenant.
ReadTenantOfJwt(r) ==
    /\ phase[r] = "idle"
    /\ tenant_active
    /\ credential' = [credential EXCEPT ![r] = Jwt]
    /\ phase' = [phase EXCEPT ![r] = "open"]
    /\ UNCHANGED <<keys, revoked, tenant_active, tokens, late, stored,
                   keyVars, deletionVars>>

\* The executor tokenizes a detection: TokenVault.store in the same session.
StoreToken(r) ==
    /\ phase[r] = "open"
    /\ ~stored[r]
    /\ stored' = [stored EXCEPT ![r] = TRUE]
    /\ UNCHANGED <<keys, revoked, tenant_active, tokens, phase, credential,
                   late, keyVars, deletionVars>>

EndRequest(r) ==
    /\ phase' = [phase EXCEPT ![r] = "idle"]
    /\ credential' = [credential EXCEPT ![r] = Jwt]
    /\ late' = [late EXCEPT ![r] = FALSE]
    /\ stored' = [stored EXCEPT ![r] = FALSE]
    /\ UNCHANGED <<keys, revoked, tenant_active, keyVars, deletionVars>>

\* An inactive tenant is a 401.
RejectRequest(r) ==
    /\ phase[r] = "key_read"
    /\ ~tenant_active
    /\ tokens' = tokens
    /\ EndRequest(r)

\* get_db commits once the provider has answered.
CommitRequest(r) ==
    /\ phase[r] = "open"
    /\ tokens' = tokens \union
                    {[by |-> credential[r], late |-> late[r]] :
                        x \in {y \in {r} : stored[y]}}
    /\ EndRequest(r)

\* The request raises, is cancelled, or its process dies.
FailRequest(r) ==
    /\ phase[r] # "idle"
    /\ tokens' = tokens
    /\ EndRequest(r)

-----------------------------------------------------------------------------
(* issue_api_key and revoke_api_key.                                       *)

\* The tenant is read as active and the new key inserted.
IssueKey(k) ==
    /\ k \notin keys \union issuing
    /\ tenant_active
    /\ issuing' = issuing \union {k}
    /\ UNCHANGED <<keys, revoked, tenant_active, tokens, requestVars,
                   revoking, deletionVars>>

CommitKey(k) ==
    /\ k \in issuing
    /\ keys' = keys \union {k}
    /\ issuing' = issuing \ {k}
    /\ UNCHANGED <<revoked, tenant_active, tokens, requestVars, revoking,
                   deletionVars>>

\* A revoked key is a 400; so is none of what the tenant's state may be.
ReadKeyToRevoke(k) ==
    /\ revoking[k] = "no"
    /\ k \in keys \ revoked
    /\ revoking' = [revoking EXCEPT ![k] = "read"]
    /\ UNCHANGED <<keys, revoked, tenant_active, tokens, requestVars, issuing,
                   deletionVars>>

\* The flush: UPDATE ... WHERE id, once the row is free.
RevokeKey(k) ==
    /\ revoking[k] = "read"
    /\ ~RowLocked(k)
    /\ revoking' = [revoking EXCEPT ![k] = "updated"]
    /\ UNCHANGED <<keys, revoked, tenant_active, tokens, requestVars, issuing,
                   deletionVars>>

CommitRevocation(k) ==
    /\ revoking[k] = "updated"
    /\ revoked' = revoked \union {k}
    /\ revoking' = [revoking EXCEPT ![k] = "no"]
    /\ UNCHANGED <<keys, tenant_active, tokens, requestVars, issuing,
                   deletionVars>>

\* Either endpoint fails and rolls back.
FailKeyChange(k) ==
    /\ k \in issuing \/ revoking[k] # "no"
    /\ issuing' = issuing \ {k}
    /\ revoking' = [revoking EXCEPT ![k] = "no"]
    /\ UNCHANGED <<keys, revoked, tenant_active, tokens, requestVars,
                   deletionVars>>

-----------------------------------------------------------------------------
(* delete_tenant, one transaction; it may be called again.                 *)

\* The SELECT of the tenant and its keys.
BeginDeletion ==
    /\ deletion = "no"
    /\ deletion' = "read"
    /\ UNCHANGED <<keys, revoked, tenant_active, tokens, requestVars, keyVars,
                   swept, to_revoke, locked, picked_from, covered>>

\* Step 1: UPDATE of the keys with revoked_at NULL picks its rows ...
PickKeys ==
    /\ deletion = "read"
    /\ deletion' = "keys"
    /\ to_revoke' = keys \ revoked
    /\ picked_from' = keys
    /\ UNCHANGED <<keys, revoked, tenant_active, tokens, requestVars, keyVars,
                   swept, locked, covered>>

\* Variant: keys that are locked are left out (SKIP LOCKED).
LockKey_skips(k) ==
    /\ k \in to_revoke
    /\ to_revoke' = to_revoke \ {k}
    /\ locked' = locked \union
                    {x \in {k} : ~RowLocked(x) /\ x \notin revoked}
    /\ UNCHANGED <<keys, revoked, tenant_active, tokens, requestVars, keyVars,
                   deletion, swept, picked_from, covered>>

\* ... and updates each when it is free, unless it has been revoked meanwhile.
LockKey(k) ==
    /\ k \in to_revoke
    /\ ~RowLocked(k)
    /\ to_revoke' = to_revoke \ {k}
    /\ locked' = locked \union ({k} \ revoked)
    /\ UNCHANGED <<keys, revoked, tenant_active, tokens, requestVars, keyVars,
                   deletion, swept, picked_from, covered>>

KeysLocked ==
    /\ deletion = "keys"
    /\ to_revoke = {}
    /\ deletion' = "tokens"
    /\ UNCHANGED <<keys, revoked, tenant_active, tokens, requestVars, keyVars,
                   swept, to_revoke, locked, picked_from, covered>>

\* Step 2: invalidate_by_tenant updates the tokens committed by now.
SweepTokens ==
    /\ deletion = "tokens"
    /\ deletion' = "swept"
    /\ swept' = tokens
    /\ tokens' = {}
    /\ UNCHANGED <<keys, revoked, tenant_active, requestVars, keyVars,
                   to_revoke, locked, picked_from, covered>>

\* Variant: a rollback that keeps the row locks.
EndDeletion_keeps_locks ==
    /\ deletion' = "no"
    /\ to_revoke' = {}
    /\ picked_from' = {}
    /\ swept' = {}
    /\ UNCHANGED <<keys, locked, requestVars, keyVars>>

EndDeletion ==
    /\ deletion' = "no"
    /\ to_revoke' = {}
    /\ locked' = {}
    /\ picked_from' = {}
    /\ swept' = {}
    /\ UNCHANGED <<keys, requestVars, keyVars>>

\* Step 3, the tenant is inactive, and the commit by get_db.
CommitDeletion ==
    /\ deletion = "swept"
    /\ tenant_active' = FALSE
    /\ revoked' = revoked \union locked
    /\ covered' = picked_from
    /\ tokens' = tokens
    /\ EndDeletion

\* An error in any step (one in the database fails the steps after it, the
\* swallowed one of step 2 included), or the loss of the process.
FailDeletion ==
    /\ deletion # "no"
    /\ tokens' = tokens \union swept
    /\ UNCHANGED <<revoked, tenant_active, covered>>
    /\ EndDeletion

-----------------------------------------------------------------------------
RequestStep(r) == ReadTenant(r) \/ RejectRequest(r) \/ CommitRequest(r)
DeletionStep == \/ PickKeys \/ KeysLocked \/ SweepTokens \/ CommitDeletion

Next ==
    \/ \E r \in Requests :
          \/ \E k \in Keys : ReadKey(r, k)
          \/ RequestStep(r) \/ TouchKey(r)
          \/ ReadTenantOfJwt(r) \/ StoreToken(r) \/ FailRequest(r)
    \/ \E k \in Keys :
          \/ IssueKey(k) \/ CommitKey(k)
          \/ ReadKeyToRevoke(k) \/ RevokeKey(k) \/ CommitRevocation(k)
          \/ FailKeyChange(k) \/ LockKey(k)
    \/ BeginDeletion \/ DeletionStep \/ FailDeletion

Spec == Init /\ [][Next]_vars

\* A transaction that can go on does (the provider call has a timeout, so an
\* open request ends), and the database queues those that wait for a row, so
\* none is overtaken for ever.  No fairness on new calls or on failures.
FairSpec ==
    /\ Spec
    /\ \A r \in Requests : WF_vars(RequestStep(r)) /\ SF_vars(TouchKey(r))
    /\ \A k \in Keys : /\ SF_vars(RevokeKey(k)) /\ WF_vars(CommitRevocation(k))
                       /\ SF_vars(LockKey(k))
    /\ WF_vars(DeletionStep)

-----------------------------------------------------------------------------
(* Properties.                                                             *)

\* A token still valid after offboarding was stored with a JWT, under a key
\* issued while the deletion ran, or by a request that got its key's row only
\* after the revocation: every other request is waited for by the UPDATE of
\* the keys, so its tokens are swept (delete_tenant's order of steps and the
\* last_used_at UPDATE of authenticate_request).
TimelyRequestsAreSwept ==
    ~tenant_active =>
        \A t \in tokens \union swept : t.by \in covered => t.late

\* Whatever failed or was repeated, offboarding is one transaction: keys the
\* deletion read are all revoked as soon as the tenant is inactive.
CoveredKeysRevoked == ~tenant_active => covered \subseteq revoked

\* Access drains.  After offboarding the requests in flight end and no other
\* follows, with whatever credential, even a key that was issued during the
\* deletion; and requests with a revoked key end, and no other ever gets past
\* its first SELECT, although the row is locked by each of them in turn; and
\* the deletion itself ends although requests keep taking the locks it needs
\* (authenticate_request against revoke_api_key and delete_tenant).
AccessDrains ==
    /\ deletion # "no" ~> deletion = "no"
    /\ ~tenant_active
          ~> [](\A r \in Requests : phase[r] \in {"idle", "key_read"})
    /\ \A k \in Keys :
          k \in revoked ~> [](\A r \in Requests : credential[r] # k)

\* delete_tenant, "Wipes all encrypted PII from the vault - no dangling tokens
\* after offboarding": no valid token once the tenant is inactive.
NoDanglingTokens == ~tenant_active => tokens \union swept = {}
=============================================================================
