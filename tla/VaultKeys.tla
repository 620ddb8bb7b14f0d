------------------------------ MODULE VaultKeys ------------------------------
(***************************************************************************)
(* The token vault's encryption key under KEY_BACKEND=aws_kms:             *)
(* engine/vault/key_manager.py, used by TokenVault.store.                  *)
(*                                                                         *)
(* There is one key version, "v1".  Its data key is created on first use,  *)
(* its KMS ciphertext INSERTed into vault.vault_keys by the session that   *)
(* happened to need it, and its plaintext put in a class-level cache that  *)
(* every session of the process shares for CACHE_TTL_SECONDS.  The row is  *)
(* only as durable as the inserting request's transaction; the cache does  *)
(* not wait for it.                                                        *)
(*                                                                         *)
(* A data key is a model value; KMS returns a fresh one on every           *)
(* generate_data_key.  A token matters here only through the key that      *)
(* encrypted it, so the token tables are the sets of those keys.           *)
(***************************************************************************)
EXTENDS Naturals, FiniteSets

CONSTANTS Procs,         \* engine processes
          Sessions,      \* request sessions (one database session each)
          ProcOf,        \* ProcOf[s]: the process that serves session s
          Keys,          \* bound: the data keys KMS can hand out
          NoKey,         \* absent row or cache entry
          HealthChecks   \* whether GET /health is probed

ASSUME ProcOfAssumption == ProcOf \in [Sessions -> Procs]
ASSUME NoKeyAssumption == NoKey \notin Keys
ASSUME HealthChecksAssumption == HealthChecks \in BOOLEAN

VARIABLES vault_key,       \* committed row of vault.vault_keys
          token_keys,      \* keys of the committed rows of vault.vault_tokens
          cache,           \* KeyManager._cache of each process, if still fresh
          phase,           \* where each session is in store / its request
          held,            \* key bytes the running store call works with
          row,             \* vault_keys row inserted and not committed
          stored,          \* keys of the tokens inserted and not committed
          probe,           \* per process: is a health check generating a key
          generated,       \* keys KMS has handed out
          rolled_back,     \* history: keys whose row was rolled back
          never_persisted  \* history: keys generated without a db session

sessionVars == <<phase, held, row, stored>>
vars == <<vault_key, token_keys, cache, sessionVars, probe, generated,
          rolled_back, never_persisted>>

MaybeKey == Keys \union {NoKey}

\* idle -> (store: decrypting | generating -> inserting) -> keyed -> open -> ...
Phases == {"idle", "open", "decrypting", "generating", "inserting", "keyed",
           "failed"}

TypeOK ==
    /\ vault_key \in MaybeKey
    /\ token_keys \subseteq Keys
    /\ cache \in [Procs -> MaybeKey]
    /\ phase \in [Sessions -> Phases]
    /\ held \in [Sessions -> MaybeKey]
    /\ row \in [Sessions -> MaybeKey]
    /\ stored \in [Sessions -> SUBSET Keys]
    /\ probe \in [Procs -> BOOLEAN]
    /\ generated \subseteq Keys
    /\ rolled_back \subseteq Keys
    /\ never_persisted \subseteq Keys

Init ==
    /\ vault_key = NoKey
    /\ token_keys = {}
    /\ cache = [p \in Procs |-> NoKey]
    /\ phase = [s \in Sessions |-> "idle"]
    /\ held = [s \in Sessions |-> NoKey]
    /\ row = [s \in Sessions |-> NoKey]
    /\ stored = [s \in Sessions |-> {}]
    /\ probe = [p \in Procs |-> FALSE]
    /\ generated = {}
    /\ rolled_back = {}
    /\ never_persisted = {}

-----------------------------------------------------------------------------
(* TokenVault.store, one step per await of _get_aws_kms_key.               *)

\* What the session's SELECT on vault_keys returns.
VisibleRow(s) == IF row[s] # NoKey THEN row[s] ELSE vault_key

\* The cache has a fresh entry: no await, the call goes straight on.
CacheHit(s) ==
    /\ phase[s] \in {"idle", "open"}
    /\ cache[ProcOf[s]] # NoKey
    /\ held' = [held EXCEPT ![s] = cache[ProcOf[s]]]
    /\ phase' = [phase EXCEPT ![s] = "keyed"]
    /\ UNCHANGED <<vault_key, token_keys, cache, row, stored, probe,
                   generated, rolled_back, never_persisted>>

\* No fresh entry: look for the row, then ask KMS to decrypt or to generate.
CacheMiss(s) ==
    /\ phase[s] \in {"idle", "open"}
    /\ cache[ProcOf[s]] = NoKey
    /\ held' = [held EXCEPT ![s] = VisibleRow(s)]
    /\ phase' = [phase EXCEPT ![s] = IF VisibleRow(s) # NoKey
                                     THEN "decrypting" ELSE "generating"]
    /\ UNCHANGED <<vault_key, token_keys, cache, row, stored, probe,
                   generated, rolled_back, never_persisted>>

\* KMS decrypted the stored ciphertext; the plaintext is cached.
Decrypted(s) ==
    /\ phase[s] = "decrypting"
    /\ cache' = [cache EXCEPT ![ProcOf[s]] = held[s]]
    /\ phase' = [phase EXCEPT ![s] = "keyed"]
    /\ UNCHANGED <<vault_key, token_keys, held, row, stored, probe,
                   generated, rolled_back, never_persisted>>

\* KMS refused: KeyManagementError, store raises, the session stays usable
\* (the executor falls back to a mask).
KmsFails(s) ==
    /\ phase[s] \in {"decrypting", "generating"}
    /\ phase' = [phase EXCEPT ![s] = "open"]
    /\ held' = [held EXCEPT ![s] = NoKey]
    /\ UNCHANGED <<vault_key, token_keys, cache, row, stored, probe,
                   generated, rolled_back, never_persisted>>

Generated(s, k) ==
    /\ phase[s] = "generating"
    /\ k \notin generated
    /\ generated' = generated \union {k}
    /\ held' = [held EXCEPT ![s] = k]
    /\ phase' = [phase EXCEPT ![s] = "inserting"]
    /\ UNCHANGED <<vault_key, token_keys, cache, row, stored, probe,
                   rolled_back, never_persisted>>

\* An INSERT on the primary key "v1" waits for a concurrent uncommitted one.
InsertBlocked(s) == \E t \in Sessions \ {s} : row[t] # NoKey

\* Variant: an upsert, ON CONFLICT DO UPDATE.
InsertKey_upsert(s) ==
    /\ phase[s] = "inserting"
    /\ ~InsertBlocked(s)
    /\ row' = [row EXCEPT ![s] = held[s]]
    /\ cache' = [cache EXCEPT ![ProcOf[s]] = held[s]]
    /\ phase' = [phase EXCEPT ![s] = "keyed"]
    /\ UNCHANGED <<vault_key, token_keys, held, stored, probe, generated,
                   rolled_back, never_persisted>>

\* The flush succeeds and the plaintext is cached at once, before any commit.
InsertKey(s) ==
    /\ phase[s] = "inserting"
    /\ ~InsertBlocked(s)
    /\ vault_key = NoKey
    /\ row' = [row EXCEPT ![s] = held[s]]
    /\ cache' = [cache EXCEPT ![ProcOf[s]] = held[s]]
    /\ phase' = [phase EXCEPT ![s] = "keyed"]
    /\ UNCHANGED <<vault_key, token_keys, held, stored, probe, generated,
                   rolled_back, never_persisted>>

\* Variant: ON CONFLICT DO NOTHING, and on with the key in hand.
InsertConflict_ignored(s) ==
    /\ phase[s] = "inserting"
    /\ vault_key # NoKey
    /\ phase' = [phase EXCEPT ![s] = "keyed"]
    /\ cache' = [cache EXCEPT ![ProcOf[s]] = held[s]]
    /\ UNCHANGED <<vault_key, token_keys, held, row, stored, probe,
                   generated, rolled_back, never_persisted>>

\* Another session's row was committed first: IntegrityError, and the session
\* can only be rolled back.
InsertConflict(s) ==
    /\ phase[s] = "inserting"
    /\ vault_key # NoKey
    /\ phase' = [phase EXCEPT ![s] = "failed"]
    /\ UNCHANGED <<vault_key, token_keys, cache, held, row, stored, probe,
                   generated, rolled_back, never_persisted>>

\* Encrypt with the key in hand and flush the token row.
StoreToken(s) ==
    /\ phase[s] = "keyed"
    /\ stored' = [stored EXCEPT ![s] = @ \union {held[s]}]
    /\ phase' = [phase EXCEPT ![s] = "open"]
    /\ held' = [held EXCEPT ![s] = NoKey]
    /\ UNCHANGED <<vault_key, token_keys, cache, row, probe, generated,
                   rolled_back, never_persisted>>

-----------------------------------------------------------------------------
(* The end of the request, the process and the cache.                      *)

\* get_db commits when the request ends well.
Commit(s) ==
    /\ phase[s] = "open"
    /\ vault_key' = VisibleRow(s)
    /\ token_keys' = token_keys \union stored[s]
    /\ phase' = [phase EXCEPT ![s] = "idle"]
    /\ row' = [row EXCEPT ![s] = NoKey]
    /\ stored' = [stored EXCEPT ![s] = {}]
    /\ UNCHANGED <<cache, held, probe, generated, rolled_back, never_persisted>>

\* The sessions of ended lose everything they had not committed.
Discard(ended) ==
    /\ phase' = [s \in Sessions |-> IF s \in ended THEN "idle" ELSE phase[s]]
    /\ held' = [s \in Sessions |-> IF s \in ended THEN NoKey ELSE held[s]]
    /\ row' = [s \in Sessions |-> IF s \in ended THEN NoKey ELSE row[s]]
    /\ stored' = [s \in Sessions |-> IF s \in ended THEN {} ELSE stored[s]]
    /\ rolled_back' = rolled_back \union ({row[s] : s \in ended} \ {NoKey})

\* get_db rolls back when the request raised, or its commit did.  The cache
\* is left as it is.
Rollback(s) ==
    /\ phase[s] # "idle"
    /\ Discard({s})
    /\ UNCHANGED <<vault_key, token_keys, cache, probe, generated,
                   never_persisted>>

\* The process dies with its sessions and its cache.
Crash(p) ==
    /\ Discard({s \in Sessions : ProcOf[s] = p})
    /\ cache' = [cache EXCEPT ![p] = NoKey]
    /\ probe' = [probe EXCEPT ![p] = FALSE]
    /\ UNCHANGED <<vault_key, token_keys, generated, never_persisted>>

\* CACHE_TTL_SECONDS passed since the entry was written.
CacheLapses(p) ==
    /\ cache[p] # NoKey
    /\ cache' = [cache EXCEPT ![p] = NoKey]
    /\ UNCHANGED <<vault_key, token_keys, sessionVars, probe, generated,
                   rolled_back, never_persisted>>

\* check_vault_connection: a KeyManager without a db session.  It does not
\* look for the row; on a cache miss it has KMS generate a key ...
HealthCheckMiss(p) ==
    /\ HealthChecks
    /\ ~probe[p]
    /\ cache[p] = NoKey
    /\ probe' = [probe EXCEPT ![p] = TRUE]
    /\ UNCHANGED <<vault_key, token_keys, cache, sessionVars, generated,
                   rolled_back, never_persisted>>

\* ... which it caches for everyone and stores nowhere.
HealthCheckCaches(p, k) ==
    /\ probe[p]
    /\ k \notin generated
    /\ generated' = generated \union {k}
    /\ never_persisted' = never_persisted \union {k}
    /\ cache' = [cache EXCEPT ![p] = k]
    /\ probe' = [probe EXCEPT ![p] = FALSE]
    /\ UNCHANGED <<vault_key, token_keys, sessionVars, rolled_back>>

Next ==
    \/ \E s \in Sessions :
          \/ CacheHit(s) \/ CacheMiss(s) \/ Decrypted(s) \/ KmsFails(s)
          \/ \E k \in Keys : Generated(s, k)
          \/ InsertKey(s) \/ InsertConflict(s) \/ StoreToken(s)
          \/ Commit(s) \/ Rollback(s)
    \/ \E p \in Procs :
          \/ Crash(p) \/ CacheLapses(p) \/ HealthCheckMiss(p)
          \/ \E k \in Keys : HealthCheckCaches(p, k)

Spec == Init /\ [][Next]_vars

-----------------------------------------------------------------------------
(* Properties.                                                             *)

\* A committed token whose key is not in vault_keys, committed or about to be,
\* was encrypted under a key whose row was rolled back or never written: in
\* every other interleaving of store calls, requests and processes the token
\* can be decrypted (_get_aws_kms_key's insert, cache and re-read).
UndecryptableOnlyIfLost ==
    \A k \in token_keys :
        \/ k = vault_key
        \/ \E s \in Sessions : row[s] = k
        \/ k \in rolled_back \union never_persisted

\* The committed data key is never replaced, whoever generates another one
\* meanwhile (the primary key of vault_keys against the generate branch).
KeyRowStable == [][vault_key # NoKey => vault_key' = vault_key]_vars

\* Once the row is committed, requests only ever put that key into a cache:
\* a session that lost the race to insert never caches its own key.  Only a
\* health check still brings other keys in (check_vault_connection).
CacheOnlyHeals ==
    [][ vault_key # NoKey =>
          \A p \in Procs :
              cache'[p] \in {cache[p], NoKey, vault_key} \union never_persisted' ]_vars

=============================================================================
