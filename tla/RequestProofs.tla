---------------------------- MODULE RequestProofs ----------------------------
(* What holds on the way of a request through the engine: of the vault's     *)
(* data key for any number of processes, requests and keys (VaultKeys), of   *)
(* the actions on a content of any length with any detections                *)
(* (ActionExecutor), and of the merge of any rulesets (RulesetMerge).        *)
EXTENDS VaultKeys, ActionExecutor, RulesetMerge, SequenceTheorems,
        FiniteSetTheorems, WellFoundedInduction, TLAPS

-----------------------------------------------------------------------------
(* The vault's data key.                                                     *)

\* The key is stored, about to be stored, or recorded as lost.
Accounted(k) ==
    \/ k = vault_key
    \/ \E s \in Sessions : row[s] = k
    \/ k \in rolled_back \union never_persisted

\* One uncommitted row at a time, and none beside the committed one; a session
\* that is creating the key has not inserted it yet.
RowInv ==
    /\ \A s \in Sessions : row[s] # NoKey => vault_key = NoKey
    /\ \A s, t \in Sessions : row[s] # NoKey /\ row[t] # NoKey => s = t
    /\ \A s \in Sessions :
          phase[s] \in {"generating", "inserting"} => row[s] = NoKey

\* The key a store call works with is a real one, and the one it looked up
\* is still the one it would find.
HeldInv ==
    \A s \in Sessions :
        /\ phase[s] \in {"inserting", "keyed"} => held[s] \in Keys
        /\ phase[s] = "decrypting" => /\ held[s] \in Keys
                                      /\ held[s] = VisibleRow(s)

\* Whatever can end up in a token is accounted for.
TokensAccounted == \A k \in token_keys : Accounted(k)
CachesAccounted == \A p \in Procs : cache[p] # NoKey => Accounted(cache[p])
HeldAccounted == \A s \in Sessions : phase[s] = "keyed" => Accounted(held[s])
StoredAccounted == \A s \in Sessions : \A k \in stored[s] : Accounted(k)
KeysAccounted ==
    TokensAccounted /\ CachesAccounted /\ HeldAccounted /\ StoredAccounted

IInv == TypeOK /\ RowInv /\ HeldInv /\ KeysAccounted

\* Nothing is stored, cached or held at first.
LEMMA InitEstablishes == Init => IInv
  BY NoKeyAssumption
  DEF Init, IInv, TypeOK, RowInv, HeldInv, KeysAccounted, TokensAccounted,
      CachesAccounted, HeldAccounted, StoredAccounted, MaybeKey, Phases

-----------------------------------------------------------------------------
\* Steps inside store that change neither a row nor the histories.
LEMMA LookupPreserves ==
    ASSUME IInv, NEW s \in Sessions,
           CacheHit(s) \/ CacheMiss(s) \/ Decrypted(s) \/ KmsFails(s)
               \/ InsertConflict(s) \/ StoreToken(s)
    PROVE  IInv'
<1> USE DEF IInv, MaybeKey, KeysAccounted, TokensAccounted, CachesAccounted,
        HeldAccounted, StoredAccounted
<1>1. \A k \in MaybeKey : Accounted(k)' = Accounted(k)
  BY DEF Accounted, CacheHit, CacheMiss, Decrypted, KmsFails, InsertConflict,
         StoreToken
<1>2. \A t \in Sessions : VisibleRow(t)' = VisibleRow(t)
  BY DEF VisibleRow, CacheHit, CacheMiss, Decrypted, KmsFails, InsertConflict,
         StoreToken
<1>3. CASE CacheHit(s)
  <2>1. TypeOK' BY <1>3, ProcOfAssumption DEF TypeOK, CacheHit, Phases
  <2>2. RowInv' BY <1>3 DEF TypeOK, RowInv, CacheHit
  <2>3. HeldInv'
    BY <1>3, <1>2, ProcOfAssumption DEF TypeOK, HeldInv, CacheHit
  <2>4. KeysAccounted'
    BY <1>3, <1>1, ProcOfAssumption DEF TypeOK, CacheHit
  <2> QED BY <2>1, <2>2, <2>3, <2>4
<1>4. CASE CacheMiss(s)
  <2>0. VisibleRow(s) \in MaybeKey BY DEF TypeOK, VisibleRow
  <2>1. TypeOK' BY <1>4, <2>0 DEF TypeOK, CacheMiss, Phases
  <2>2. RowInv' BY <1>4 DEF TypeOK, RowInv, CacheMiss, VisibleRow
  <2>3. HeldInv' BY <1>4, <1>2, <2>0 DEF TypeOK, HeldInv, CacheMiss
  <2>4. KeysAccounted' BY <1>4, <1>1 DEF TypeOK, CacheMiss
  <2> QED BY <2>1, <2>2, <2>3, <2>4
<1>5. CASE Decrypted(s)
  <2>0. held[s] \in Keys /\ Accounted(held[s])
    BY <1>5 DEF Decrypted, HeldInv, VisibleRow, Accounted
  <2>1. TypeOK' BY <1>5, <2>0 DEF TypeOK, Decrypted, Phases
  <2>2. RowInv' BY <1>5 DEF TypeOK, RowInv, Decrypted
  <2>3. HeldInv' BY <1>5, <1>2, <2>0 DEF TypeOK, HeldInv, Decrypted
  <2>4. KeysAccounted'
    BY <1>5, <1>1, <2>0 DEF TypeOK, Decrypted
  <2> QED BY <2>1, <2>2, <2>3, <2>4
<1>6. CASE KmsFails(s)
  <2>1. TypeOK' BY <1>6 DEF TypeOK, KmsFails, Phases
  <2>2. RowInv' BY <1>6 DEF TypeOK, RowInv, KmsFails
  <2>3. HeldInv' BY <1>6, <1>2 DEF TypeOK, HeldInv, KmsFails
  <2>4. KeysAccounted' BY <1>6, <1>1 DEF TypeOK, KmsFails
  <2> QED BY <2>1, <2>2, <2>3, <2>4
<1>7. CASE InsertConflict(s)
  <2>1. TypeOK' BY <1>7 DEF TypeOK, InsertConflict, Phases
  <2>2. RowInv' BY <1>7 DEF TypeOK, RowInv, InsertConflict
  <2>3. HeldInv' BY <1>7, <1>2 DEF TypeOK, HeldInv, InsertConflict
  <2>4. KeysAccounted' BY <1>7, <1>1 DEF TypeOK, InsertConflict
  <2> QED BY <2>1, <2>2, <2>3, <2>4
<1>8. CASE StoreToken(s)
  <2>0. held[s] \in Keys /\ Accounted(held[s])
    BY <1>8 DEF StoreToken, HeldInv
  <2>1. TypeOK' BY <1>8, <2>0 DEF TypeOK, StoreToken, Phases
  <2>2. RowInv' BY <1>8 DEF TypeOK, RowInv, StoreToken
  <2>3. HeldInv' BY <1>8, <1>2 DEF TypeOK, HeldInv, StoreToken
  <2>4. KeysAccounted'
    BY <1>8, <1>1, <2>0 DEF TypeOK, StoreToken
  <2> QED BY <2>1, <2>2, <2>3, <2>4
<1> QED BY <1>3, <1>4, <1>5, <1>6, <1>7, <1>8

\* KMS hands out a key: it is held, not yet in use.
LEMMA GeneratedPreserves ==
    ASSUME IInv, NEW s \in Sessions, NEW k \in Keys, Generated(s, k)
    PROVE  IInv'
<1> USE DEF IInv, MaybeKey, KeysAccounted, TokensAccounted, CachesAccounted,
        HeldAccounted, StoredAccounted
<1>1. \A x \in MaybeKey : Accounted(x)' = Accounted(x)
  BY DEF Accounted, Generated
<1>2. TypeOK' BY DEF TypeOK, Generated, Phases
<1>3. RowInv' BY DEF TypeOK, RowInv, Generated
<1>4. HeldInv' BY DEF TypeOK, HeldInv, Generated, VisibleRow
<1>5. KeysAccounted' BY <1>1 DEF TypeOK, Generated
<1> QED BY <1>2, <1>3, <1>4, <1>5

\* The first row: nobody else has one, so the key in hand becomes the row.
LEMMA InsertKeyPreserves ==
    ASSUME IInv, NEW s \in Sessions, InsertKey(s)
    PROVE  IInv'
<1> USE DEF IInv, MaybeKey, KeysAccounted, TokensAccounted, CachesAccounted,
        HeldAccounted, StoredAccounted
<1>1. held[s] \in Keys /\ row[s] = NoKey /\ vault_key = NoKey
  BY DEF InsertKey, HeldInv, RowInv
<1>2. \A t \in Sessions : row[t] = NoKey
  BY <1>1 DEF InsertKey, InsertBlocked
<1>3. row' = [row EXCEPT ![s] = held[s]] /\ vault_key' = NoKey
  BY <1>1 DEF InsertKey
<1>4. \A k \in Keys : Accounted(k) => Accounted(k)'
  BY <1>1, <1>2, NoKeyAssumption DEF Accounted, InsertKey
<1>5. Accounted(held[s])'
  BY <1>3 DEF Accounted, TypeOK, InsertKey
<1>6. TypeOK' BY <1>1 DEF TypeOK, InsertKey, Phases
<1>7. RowInv' BY <1>2, <1>3 DEF TypeOK, RowInv, InsertKey
<1>8. HeldInv'
  BY <1>1, <1>2, NoKeyAssumption DEF TypeOK, HeldInv, InsertKey, VisibleRow
<1>9. TokensAccounted' /\ StoredAccounted'
  BY <1>4 DEF TypeOK, InsertKey
<1>10. CachesAccounted'
  BY <1>4, <1>5 DEF TypeOK, InsertKey
<1>11. HeldAccounted'
  BY <1>4, <1>5 DEF TypeOK, HeldInv, InsertKey
<1> QED BY <1>6, <1>7, <1>8, <1>9, <1>10, <1>11

\* A commit moves the session's row, if it has one, into the table.
LEMMA CommitPreserves ==
    ASSUME IInv, NEW s \in Sessions, Commit(s)
    PROVE  IInv'
<1> USE DEF IInv, MaybeKey, KeysAccounted, TokensAccounted, CachesAccounted,
        HeldAccounted, StoredAccounted
<1>1. vault_key' = VisibleRow(s) /\ row' = [row EXCEPT ![s] = NoKey]
  BY DEF Commit
<1>2. vault_key # NoKey => vault_key' = vault_key
  BY <1>1 DEF VisibleRow, RowInv
<1>3. \A k \in Keys : Accounted(k) => Accounted(k)'
  <2> SUFFICES ASSUME NEW k \in Keys, Accounted(k) PROVE Accounted(k)' OBVIOUS
  <2>1. CASE k = vault_key
    BY <2>1, <1>2, NoKeyAssumption DEF Accounted
  <2>2. CASE k \in rolled_back \union never_persisted
    BY <2>2 DEF Accounted, Commit
  <2>3. ASSUME NEW t \in Sessions, row[t] = k PROVE Accounted(k)'
    <3>1. CASE t = s
      BY <3>1, <2>3, <1>1, NoKeyAssumption DEF Accounted, VisibleRow
    <3>2. CASE t # s
      BY <3>2, <2>3, <1>1 DEF Accounted, TypeOK
    <3> QED BY <3>1, <3>2
  <2> QED BY <2>1, <2>2, <2>3 DEF Accounted
<1>4. TypeOK' BY <1>1 DEF TypeOK, Commit, VisibleRow, Phases
<1>5. RowInv' BY <1>1 DEF TypeOK, RowInv, Commit, VisibleRow
<1>6. HeldInv' BY <1>1, NoKeyAssumption DEF TypeOK, HeldInv, RowInv, Commit, VisibleRow
<1>7. TokensAccounted' /\ StoredAccounted'
  BY <1>3 DEF TypeOK, Commit
<1>8. CachesAccounted' BY <1>3 DEF TypeOK, Commit
<1>9. HeldAccounted' BY <1>3 DEF TypeOK, HeldInv, Commit
<1> QED BY <1>4, <1>5, <1>6, <1>7, <1>8, <1>9

\* Ending sessions without a commit moves their rows into the history; some
\* of the caches may be emptied meanwhile.
LEMMA DiscardPreserves ==
    ASSUME IInv, NEW ended \in SUBSET Sessions, Discard(ended),
           UNCHANGED <<vault_key, token_keys, never_persisted, generated>>,
           cache' \in [Procs -> MaybeKey], probe' \in [Procs -> BOOLEAN],
           \A p \in Procs : cache'[p] \in {cache[p], NoKey}
    PROVE  IInv'
<1> USE DEF IInv, MaybeKey, KeysAccounted, TokensAccounted, CachesAccounted,
        HeldAccounted, StoredAccounted
<1>1. \A t \in Sessions : row'[t] = IF t \in ended THEN NoKey ELSE row[t]
  BY DEF Discard
<1>2. rolled_back' = rolled_back \union ({row[t] : t \in ended} \ {NoKey})
  BY DEF Discard
<1>3. \A k \in Keys : Accounted(k) => Accounted(k)'
  <2> SUFFICES ASSUME NEW k \in Keys, Accounted(k) PROVE Accounted(k)' OBVIOUS
  <2>1. CASE k = vault_key \/ k \in rolled_back \union never_persisted
    BY <2>1, <1>2 DEF Accounted
  <2>2. ASSUME NEW t \in Sessions, row[t] = k PROVE Accounted(k)'
    <3>1. CASE t \in ended
      BY <3>1, <2>2, <1>2, NoKeyAssumption DEF Accounted
    <3>2. CASE t \notin ended
      BY <3>2, <2>2, <1>1 DEF Accounted
    <3> QED BY <3>1, <3>2
  <2> QED BY <2>1, <2>2 DEF Accounted
<1>4. TypeOK'
  <2>1. phase' \in [Sessions -> Phases] BY DEF Discard, TypeOK, Phases
  <2>2. held' \in [Sessions -> MaybeKey] BY DEF Discard, TypeOK
  <2>3. row' \in [Sessions -> MaybeKey] BY DEF Discard, TypeOK
  <2>4. stored' \in [Sessions -> SUBSET Keys] BY DEF Discard, TypeOK
  <2>5. rolled_back' \subseteq Keys BY <1>2 DEF TypeOK
  <2> QED BY <2>1, <2>2, <2>3, <2>4, <2>5 DEF TypeOK
<1>5. RowInv' BY <1>1 DEF Discard, RowInv
<1>6. HeldInv' BY <1>1 DEF Discard, HeldInv, VisibleRow
<1>7. TokensAccounted' BY <1>3 DEF TypeOK
<1>8. StoredAccounted' BY <1>3 DEF TypeOK, Discard
<1>9. CachesAccounted' BY <1>3 DEF TypeOK
<1>10. HeldAccounted' BY <1>3 DEF TypeOK, HeldInv, Discard
<1> QED BY <1>4, <1>5, <1>6, <1>7, <1>8, <1>9, <1>10

\* What happens to a process: its cache lapses or is filled by the health
\* check, whose keys are never stored.
LEMMA ProcessPreserves ==
    ASSUME IInv, NEW p \in Procs,
           \/ CacheLapses(p) \/ HealthCheckMiss(p)
           \/ \E k \in Keys : HealthCheckCaches(p, k)
    PROVE  IInv'
<1> USE DEF IInv, MaybeKey, KeysAccounted, TokensAccounted, CachesAccounted,
        HeldAccounted, StoredAccounted
<1>1. UNCHANGED <<vault_key, token_keys, sessionVars, rolled_back>>
      /\ never_persisted \subseteq never_persisted'
  BY DEF CacheLapses, HealthCheckMiss, HealthCheckCaches
<1>2. \A k \in Keys : Accounted(k) => Accounted(k)'
  BY <1>1 DEF Accounted, sessionVars
<1>3. TypeOK'
  BY DEF TypeOK, CacheLapses, HealthCheckMiss, HealthCheckCaches, sessionVars
<1>4. RowInv' /\ HeldInv'
  BY <1>1 DEF RowInv, HeldInv, VisibleRow, sessionVars
<1>5. TokensAccounted' /\ StoredAccounted'
  BY <1>1, <1>2 DEF TypeOK, sessionVars
<1>6. HeldAccounted'
  BY <1>1, <1>2 DEF TypeOK, HeldInv, sessionVars
<1>7. CachesAccounted'
  <2>1. CASE CacheLapses(p)
    BY <2>1, <1>2 DEF TypeOK, CacheLapses
  <2>2. CASE HealthCheckMiss(p)
    BY <2>2, <1>2 DEF TypeOK, HealthCheckMiss
  <2>3. ASSUME NEW k \in Keys, HealthCheckCaches(p, k) PROVE CachesAccounted'
    <3>1. Accounted(k)' BY <2>3 DEF HealthCheckCaches, Accounted
    <3> QED BY <2>3, <3>1, <1>2 DEF TypeOK, HealthCheckCaches
  <2> QED BY <2>1, <2>2, <2>3
<1> QED BY <1>3, <1>4, <1>5, <1>6, <1>7

-----------------------------------------------------------------------------
\* IInv is inductive.
LEMMA StepPreserves == IInv /\ [Next]_vars => IInv'
<1> SUFFICES ASSUME IInv, [Next]_vars PROVE IInv' OBVIOUS
<1>1. ASSUME NEW s \in Sessions,
             CacheHit(s) \/ CacheMiss(s) \/ Decrypted(s) \/ KmsFails(s)
                 \/ InsertConflict(s) \/ StoreToken(s)
      PROVE  IInv'
  BY <1>1, LookupPreserves
<1>2. ASSUME NEW s \in Sessions, NEW k \in Keys, Generated(s, k) PROVE IInv'
  BY <1>2, GeneratedPreserves
<1>3. ASSUME NEW s \in Sessions, InsertKey(s) PROVE IInv'
  BY <1>3, InsertKeyPreserves
<1>4. ASSUME NEW s \in Sessions, Commit(s) PROVE IInv'
  BY <1>4, CommitPreserves
<1>5. ASSUME NEW s \in Sessions, Rollback(s) PROVE IInv'
  <2>1. {s} \in SUBSET Sessions OBVIOUS
  <2> QED BY <1>5, <2>1, DiscardPreserves DEF Rollback, IInv, TypeOK
<1>6. ASSUME NEW p \in Procs, Crash(p) PROVE IInv'
  <2>1. {s \in Sessions : ProcOf[s] = p} \in SUBSET Sessions OBVIOUS
  <2>2. cache' \in [Procs -> MaybeKey] /\ probe' \in [Procs -> BOOLEAN]
    BY <1>6 DEF Crash, IInv, TypeOK, MaybeKey
  <2>3. \A q \in Procs : cache'[q] \in {cache[q], NoKey}
    BY <1>6 DEF Crash, IInv, TypeOK
  <2> QED BY <1>6, <2>1, <2>2, <2>3, DiscardPreserves DEF Crash
<1>7. ASSUME NEW p \in Procs,
             \/ CacheLapses(p) \/ HealthCheckMiss(p)
             \/ \E k \in Keys : HealthCheckCaches(p, k)
      PROVE  IInv'
  BY <1>7, ProcessPreserves
<1>8. CASE UNCHANGED vars
  BY <1>8 DEF vars, sessionVars, IInv, TypeOK, RowInv, HeldInv, KeysAccounted,
              TokensAccounted, CachesAccounted, HeldAccounted, StoredAccounted,
              Accounted, VisibleRow
<1> QED BY <1>1, <1>2, <1>3, <1>4, <1>5, <1>6, <1>7, <1>8 DEF Next

\* The inductive invariant holds in every reachable state.
LEMMA AlwaysIInv == Spec => []IInv
  BY InitEstablishes, StepPreserves, PTL DEF Spec

-----------------------------------------------------------------------------
\* Type correctness for any number of processes, requests and keys.
THEOREM TypeCorrect == Spec => []TypeOK
  BY AlwaysIInv, PTL DEF IInv

\* A committed token can be decrypted unless its key was rolled back with the
\* request that created it or came from a health check.
THEOREM TokensLostOnlyWithKey == Spec => []UndecryptableOnlyIfLost
<1>1. IInv => UndecryptableOnlyIfLost
  BY DEF IInv, KeysAccounted, TokensAccounted, Accounted, UndecryptableOnlyIfLost
<1> QED BY <1>1, AlwaysIInv, PTL

\* The committed data key is never replaced.
THEOREM DataKeyNeverReplaced == Spec => KeyRowStable
<1>1. IInv /\ [Next]_vars => [vault_key # NoKey => vault_key' = vault_key]_vars
  <2> SUFFICES ASSUME IInv, Next, vault_key # NoKey PROVE vault_key' = vault_key
    BY DEF vars
  <2>1. ASSUME NEW s \in Sessions, Commit(s) PROVE vault_key' = vault_key
    BY <2>1 DEF Commit, VisibleRow, IInv, RowInv
  <2> QED
    BY <2>1 DEF Next, CacheHit, CacheMiss, Decrypted, KmsFails, Generated,
                InsertKey, InsertConflict, StoreToken, Rollback, Crash,
                CacheLapses, HealthCheckMiss, HealthCheckCaches
<1> QED BY <1>1, AlwaysIInv, PTL DEF Spec, KeyRowStable

\* Once the key row is committed no request puts another key into a cache.
THEOREM CachesOnlyHeal == Spec => CacheOnlyHeals
<1> DEFINE Heals ==
      \A p \in Procs :
          cache'[p] \in {cache[p], NoKey, vault_key} \union never_persisted'
<1>1. IInv /\ [Next]_vars => [vault_key # NoKey => Heals]_vars
  <2> SUFFICES ASSUME IInv, Next, vault_key # NoKey PROVE Heals
    BY DEF vars
  <2> USE DEF IInv, TypeOK
  <2>1. ASSUME NEW s \in Sessions, Decrypted(s) PROVE Heals
    BY <2>1 DEF Decrypted, HeldInv, RowInv, VisibleRow
  <2>2. ASSUME NEW s \in Sessions, InsertKey(s) PROVE Heals
    BY <2>2 DEF InsertKey
  <2>3. ASSUME NEW p \in Procs, Crash(p) \/ CacheLapses(p) PROVE Heals
    BY <2>3 DEF Crash, CacheLapses
  <2>4. ASSUME NEW p \in Procs, NEW k \in Keys, HealthCheckCaches(p, k)
        PROVE  Heals
    BY <2>4 DEF HealthCheckCaches
  <2> QED
    BY <2>1, <2>2, <2>3, <2>4
    DEF Next, CacheHit, CacheMiss, KmsFails, Generated, InsertConflict,
        StoreToken, Commit, Rollback, HealthCheckMiss
<1> QED BY <1>1, AlwaysIInv, PTL DEF Spec, CacheOnlyHeals

-----------------------------------------------------------------------------
(* The actions on one request: ActionExecutor.                               *)

\* A token of a live request is in its transaction unless a flush failed; only
\* an answered request has its tokens in the vault.
VaultInv ==
    /\ outcome \in {"resolving", "executing", "forwarding"} /\ ~poisoned =>
          flushed = token_map
    /\ vault = IF outcome = "answered" THEN token_map ELSE {}

\* d is protected by one of equal severity, when none is severer.
Settled(d) ==
    (\A e \in detections : Severity(e) <= Severity(d)) =>
        \E k \in Range(kept) : Severity(k) = Severity(d) /\ Overlap(k, d)

\* What is kept is disjoint and starts before what is still to be looked at;
\* what has been looked at is settled.
OverlapInv ==
    /\ pending \in Seq(detections) /\ kept \in Seq(detections)
    /\ detections \subseteq Detection
    /\ Sorted(pending)
    /\ \A i, j \in DOMAIN kept : i < j => kept[i].end <= kept[j].start
    /\ \A i \in DOMAIN kept, j \in DOMAIN pending :
          kept[i].start <= pending[j].start
    /\ \A d \in detections : d \in Range(pending) \/ Settled(d)
    /\ outcome # "resolving" => pending = <<>>

\* The detections whose replacement is in the content, and where the part of
\* the content begins that none of them has reached yet.
Done == {kept[i] : i \in (Len(resolved) + 1)..Len(kept)}
Untouched ==
    IF Len(resolved) = Len(kept) THEN Length ELSE kept[Len(resolved) + 1].start
Outside(ds) == {i \in Starts : \A d \in ds : i \notin d.start..(d.end - 1)}

\* The content is the original one up to the last replacement, and the
\* replacements made so far stand where their detections were.
ReplaceInv ==
    /\ outcome = "resolving" => modified = Content
    /\ outcome \in {"executing", "forwarding", "answered"} =>
          /\ resolved \in Seq(detections)
          /\ Len(resolved) <= Len(kept)
          /\ \A i \in 1..Len(resolved) : resolved[i] = kept[Len(resolved) + 1 - i]
          /\ modified \in Seq(Nat)
          /\ Len(modified) >= Untouched
          /\ \A i \in 1..Untouched : modified[i] = i - 1
          /\ Range(modified) = Outside(Done) \union {Replacement(d) : d \in Done}
          /\ \A i, j \in DOMAIN modified :
                i < j => position(modified[i]) < position(modified[j])
    /\ outcome \in {"forwarding", "answered"} => resolved = <<>>

\* What a detection is.
LEMMA DetectionFacts ==
    ASSUME NEW d \in Detection
    PROVE  /\ d.start \in Nat /\ d.end \in Nat /\ d.start < d.end
           /\ d.end <= Length
           /\ Severity(d) \in 1..4 /\ Overlap(d, d)
           /\ d.action.primary \in Actions /\ d.action.fallback \in Actions
<1>1. PICK s \in Spans, c \in Configs : d = [start |-> s[1], end |-> s[2], action |-> c]
  BY DEF Detection, Found
<1>2. s[1] \in 0..(Length - 1) /\ s[2] \in 1..Length /\ s[1] < s[2]
  BY DEF Spans, Starts
<1>3. d.start = s[1] /\ d.end = s[2] /\ d.action = c
  BY <1>1
<1>4. c.primary \in Actions /\ c.fallback \in Actions
  BY ConfigsAssumption
<1>5. Severity(d) \in 1..4
  BY <1>3, <1>4 DEF Severity, Actions
<1>6. d.start \in Nat /\ d.end \in Nat /\ d.start < d.end /\ d.end <= Length
  BY <1>2, <1>3, LengthAssumption
<1>7. Overlap(d, d)
  BY <1>6 DEF Overlap
<1> QED BY <1>3, <1>4, <1>5, <1>6, <1>7

\* The tokens at the first step.
LEMMA VaultStarts == ExecutorInit => VaultInv
  BY DEF ExecutorInit, VaultInv

\* The tokens under every step.
LEMMA VaultSteps == VaultInv /\ [ExecutorNext]_executorVars => VaultInv'
<1> SUFFICES ASSUME VaultInv, [ExecutorNext]_executorVars PROVE VaultInv'
  OBVIOUS
<1> USE DEF VaultInv, vaultVars
<1>1. CASE ResolveOverlap
  BY <1>1 DEF ResolveOverlap
<1>2. CASE StartActions
  BY <1>2 DEF StartActions
<1>3. CASE ProcessDetection
  <2>1. PICK d : \/ Conceal(d) \/ Tokenize(d) \/ Fallback(d) \/ Reject("blocked")
    BY <1>3 DEF ProcessDetection
  <2>2. outcome = "executing"
    BY <1>3 DEF ProcessDetection
  <2>3. CASE Conceal(d)
    BY <2>3, <2>2 DEF Conceal, Apply
  <2>4. CASE Tokenize(d)
    BY <2>4, <2>2 DEF Tokenize, Apply
  <2>5. CASE Reject("blocked") \/ Reject("error")
    BY <2>5, <2>2 DEF Reject
  <2>6. CASE Apply(d) /\ poisoned' \in {poisoned, TRUE} /\ UNCHANGED token_map
             /\ flushed' = IF poisoned' THEN {} ELSE flushed
    BY <2>6, <2>2 DEF Apply
  <2> QED BY <2>1, <2>3, <2>4, <2>5, <2>6 DEF Fallback
<1>4. CASE Forward
  BY <1>4 DEF Forward
<1>5. CASE Answer
  BY <1>5 DEF Answer
<1>6. CASE FailRequest
  BY <1>6 DEF FailRequest, Reject
<1>7. CASE UNCHANGED executorVars
  BY <1>7 DEF executorVars
<1> QED BY <1>1, <1>2, <1>3, <1>4, <1>5, <1>6, <1>7 DEF ExecutorNext

\* An answered request has each of its tokens in the vault, any other none.
THEOREM TokensSavedWithAnswer == ExecutorSpec => []AnsweredTokensInVault
<1>1. ExecutorInit => VaultInv BY VaultStarts
<1>2. VaultInv /\ [ExecutorNext]_executorVars => VaultInv' BY VaultSteps
<1>3. VaultInv => AnsweredTokensInVault BY DEF VaultInv, AnsweredTokensInVault
<1> QED BY <1>1, <1>2, <1>3, PTL DEF ExecutorSpec

-----------------------------------------------------------------------------
\* The overlaps at the first step.
LEMMA OverlapStarts == ExecutorInit => OverlapInv
<1> SUFFICES ASSUME ExecutorInit PROVE OverlapInv
  OBVIOUS
<1>1. PICK n \in 0..MaxDetections : pending \in [1..n -> Detection]
  BY DEF ExecutorInit
<1>2. pending \in Seq(Detection)
  BY <1>1, MaxDetectionsAssumption
<1>3. detections = Range(pending) /\ kept = <<>> /\ outcome = "resolving"
      /\ Sorted(pending)
  BY DEF ExecutorInit
<1>4. pending \in Seq(detections) /\ detections \subseteq Detection
  BY <1>2, <1>3, SeqOfRange, RangeOfSeq
<1> QED BY <1>3, <1>4 DEF OverlapInv

\* The first of a sorted list starts no later than the others, which are
\* sorted too.
LEMMA SortedTail ==
    ASSUME NEW list \in Seq(Detection), list # <<>>, Sorted(list)
    PROVE  /\ Sorted(Tail(list))
           /\ \A j \in DOMAIN Tail(list) : Head(list).start <= Tail(list)[j].start
<1>1. /\ Tail(list) \in Seq(Detection) /\ Len(Tail(list)) = Len(list) - 1
      /\ \A i \in 1..Len(Tail(list)) : Tail(list)[i] = list[i + 1]
      /\ Head(list) = list[1] /\ Len(list) \in Nat \ {0}
  BY HeadTailProperties, EmptySeq
<1>2. \A j \in DOMAIN Tail(list) : j + 1 \in DOMAIN list /\ 1 < j + 1
  BY <1>1
<1>3. Sorted(Tail(list))
  BY <1>1, <1>2 DEF Sorted
<1>4. \A j \in DOMAIN Tail(list) : SortsBefore(list[1], list[j + 1])
  BY <1>1, <1>2 DEF Sorted
<1>5. ASSUME NEW j \in DOMAIN Tail(list)
      PROVE  Head(list).start <= Tail(list)[j].start
  <2>1. list[1] \in Detection /\ list[j + 1] \in Detection
    BY <1>1, <1>2, <1>5
  <2>2. list[1].start \in Nat /\ list[j + 1].start \in Nat
    BY <2>1, DetectionFacts
  <2> QED BY <1>1, <1>4, <1>5, <2>2 DEF SortsBefore
<1> QED BY <1>3, <1>5

\* One detection is looked at.
LEMMA ResolvePreserves ==
    ASSUME OverlapInv, ResolveOverlap
    PROVE  OverlapInv'
<1> DEFINE d == Head(pending)
           last == kept[Len(kept)]
<1>1. /\ pending # <<>> /\ pending' = Tail(pending) /\ outcome = "resolving"
      /\ detections' = detections /\ outcome' = outcome
      /\ Keep(d) \/ Supersede(d) \/ Drop(d)
  BY DEF ResolveOverlap
<1>2. /\ pending \in Seq(detections) /\ kept \in Seq(detections)
      /\ detections \subseteq Detection /\ pending \in Seq(Detection)
      /\ kept \in Seq(Detection)
  BY SeqMonotonic DEF OverlapInv
<1>3. /\ pending' \in Seq(detections) /\ Len(pending') = Len(pending) - 1
      /\ \A i \in 1..Len(pending') : pending'[i] = pending[i + 1]
      /\ d \in detections /\ d = pending[1] /\ Len(pending) \in Nat \ {0}
      /\ Len(pending') \in Nat
  BY <1>1, <1>2, HeadTailProperties, EmptySeq, LenProperties
<1>4. Sorted(pending') /\ \A j \in DOMAIN pending' : d.start <= pending'[j].start
  BY <1>1, <1>2, SortedTail DEF OverlapInv
<1>5. \A e \in detections :
         /\ e.start \in Nat /\ e.end \in Nat /\ e.start < e.end
         /\ Severity(e) \in 1..4 /\ Overlap(e, e)
  BY <1>2, DetectionFacts
<1>6. Len(kept) \in Nat /\ \A i \in DOMAIN kept : kept[i] \in detections
      /\ DOMAIN kept = 1..Len(kept)
  BY <1>2, LenProperties, ElementOfSeq
<1>7. \A i \in DOMAIN kept : kept[i].start <= d.start
  BY <1>3 DEF OverlapInv
<1>8. \A e \in detections : e \in Range(pending) => e = d \/ e \in Range(pending')
  <2> SUFFICES ASSUME NEW e \in detections, e \in Range(pending), e # d
               PROVE  e \in Range(pending')
    OBVIOUS
  <2>1. PICK i \in 1..Len(pending) : pending[i] = e
    BY <1>2, RangeEquality
  <2>2. i - 1 \in 1..Len(pending') /\ pending'[i - 1] = e
    BY <2>1, <1>3
  <2> QED BY <2>2, <1>3, RangeEquality
<1>9. \A s \in Seq(detections) : Range(s) = {s[i] : i \in 1..Len(s)}
  BY RangeEquality
<1>10. CASE Keep(d)
  <2>1. /\ kept' = Append(kept, d) /\ kept' \in Seq(detections)
        /\ Len(kept') = Len(kept) + 1
        /\ \A i \in 1..Len(kept) : kept'[i] = kept[i]
        /\ kept'[Len(kept) + 1] = d
        /\ DOMAIN kept' = 1..(Len(kept) + 1)
    BY <1>10, <1>2, <1>3, <1>6, AppendProperties, LenProperties DEF Keep
  <2>2. \A i \in DOMAIN kept : kept[i].end <= d.start
    <3> SUFFICES ASSUME NEW i \in DOMAIN kept PROVE kept[i].end <= d.start
      OBVIOUS
    <3>1. last.end <= d.start /\ Len(kept) \in DOMAIN kept
      BY <1>10, <1>6, <1>2, EmptySeq DEF Keep, last_end
    <3>2. CASE i = Len(kept) BY <3>1, <3>2
    <3>3. CASE i < Len(kept)
      <4>1. kept[i].end <= last.start BY <3>1, <3>3 DEF OverlapInv
      <4> QED BY <4>1, <3>1, <1>3, <1>5, <1>6
    <3> QED BY <3>2, <3>3, <1>6
  <2>3. \A i, j \in DOMAIN kept' : i < j => kept'[i].end <= kept'[j].start
    BY <2>1, <2>2, <1>6 DEF OverlapInv
  <2>4. \A i \in DOMAIN kept', j \in DOMAIN pending' :
           kept'[i].start <= pending'[j].start
    <3> SUFFICES ASSUME NEW i \in DOMAIN kept', NEW j \in DOMAIN pending'
                 PROVE  kept'[i].start <= pending'[j].start
      OBVIOUS
    <3>1. kept'[i].start <= d.start BY <2>1, <1>3, <1>5, <1>6, <1>7
    <3>2. kept'[i] \in detections /\ pending'[j] \in detections
      BY <1>3, <2>1, LenProperties, ElementOfSeq
    <3> QED BY <3>1, <3>2, <1>3, <1>4, <1>5
  <2>5. \A i \in 1..(Len(kept) + 1) : kept'[i] \in Range(kept')
    <3>1. Range(kept') = {kept'[i] : i \in 1..Len(kept')} BY <2>1, <1>9
    <3> QED BY <3>1, <2>1
  <2>6. d \in Range(kept') /\ \A e \in Range(kept) : e \in Range(kept')
    <3>1. d \in Range(kept') BY <2>1, <2>5, <1>6
    <3>2. ASSUME NEW e \in Range(kept) PROVE e \in Range(kept')
      <4>1. PICK i \in 1..Len(kept) : kept[i] = e BY <1>2, RangeEquality
      <4> QED BY <4>1, <2>1, <2>5, <1>6
    <3> QED BY <3>1, <3>2
  <2>7. \A e \in detections : e \in Range(pending') \/ Settled(e)'
    BY <1>1, <1>5, <1>8, <2>6 DEF OverlapInv, Settled
  <2> QED BY <1>1, <1>2, <1>3, <1>4, <2>1, <2>3, <2>4, <2>7 DEF OverlapInv
<1>11. CASE Supersede(d)
  <2>1. d.start < last.end /\ Severity(d) > Severity(last) /\ kept # <<>>
    BY <1>11, <1>3, <1>5 DEF Supersede, last_end
  <2>2. Len(kept) \in DOMAIN kept /\ last \in detections
    BY <2>1, <1>2, <1>6, EmptySeq
  <2>3. /\ kept' \in Seq(detections) /\ Len(kept') = Len(kept)
        /\ DOMAIN kept' = DOMAIN kept
        /\ \A i \in DOMAIN kept : kept'[i] = IF i = Len(kept) THEN d ELSE kept[i]
    BY <1>11, <1>2, <1>3, <1>6, <2>2, ExceptSeq, LenProperties DEF Supersede
  <2>4. \A i, j \in DOMAIN kept' : i < j => kept'[i].end <= kept'[j].start
    <3> SUFFICES ASSUME NEW i \in DOMAIN kept', NEW j \in DOMAIN kept', i < j
                 PROVE  kept'[i].end <= kept'[j].start
      OBVIOUS
    <3>1. i # Len(kept) /\ kept'[i] = kept[i] BY <2>3, <1>6
    <3>2. kept[i].end <= kept[j].start BY <2>3 DEF OverlapInv
    <3>3. CASE j # Len(kept) BY <3>1, <3>2, <3>3, <2>3
    <3>4. CASE j = Len(kept)
      <4>1. kept[i].end <= last.start /\ last.start <= d.start
        BY <3>2, <3>4, <2>2, <1>7
      <4> QED BY <4>1, <3>1, <3>4, <2>2, <2>3, <1>3, <1>5, <1>6
    <3> QED BY <3>3, <3>4
  <2>5. \A i \in DOMAIN kept', j \in DOMAIN pending' :
           kept'[i].start <= pending'[j].start
    <3> SUFFICES ASSUME NEW i \in DOMAIN kept', NEW j \in DOMAIN pending'
                 PROVE  kept'[i].start <= pending'[j].start
      OBVIOUS
    <3>1. kept'[i].start <= d.start
      <4>1. d.start \in Nat /\ \A k \in DOMAIN kept : kept[k].start <= d.start
        BY <1>3, <1>5, <1>7
      <4> QED BY <4>1, <2>3
    <3>2. kept'[i] \in detections /\ pending'[j] \in detections
      BY <1>3, <2>3, <1>6, LenProperties, ElementOfSeq
    <3> QED BY <3>1, <3>2, <1>3, <1>4, <1>5
  <2>6. \A e \in Range(kept) : e = last \/ e \in Range(kept')
    <3>1. Range(kept) = {kept[i] : i \in 1..Len(kept)} BY <1>2, <1>9
    <3>2. Range(kept') = {kept'[i] : i \in 1..Len(kept)} BY <2>3, <1>9
    <3>3. \A i \in 1..Len(kept) : kept[i] = last \/ kept[i] = kept'[i]
      BY <2>3, <1>6
    <3> QED BY <3>1, <3>2, <3>3
  <2>7. d \in Range(kept') BY <2>2, <2>3, <1>6, <1>9
  <2>8. ASSUME NEW e \in detections PROVE e \in Range(pending') \/ Settled(e)'
    <3> SUFFICES ASSUME e \notin Range(pending'), e # d,
                        \A f \in detections : Severity(f) <= Severity(e)
                 PROVE  \E k \in Range(kept') :
                           Severity(k) = Severity(e) /\ Overlap(k, e)
      BY <1>1, <1>5, <2>7 DEF Settled
    <3>1. PICK k \in Range(kept) : Severity(k) = Severity(e) /\ Overlap(k, e)
      BY <1>8 DEF OverlapInv, Settled
    <3>2. k # last
      BY <3>1, <2>1, <2>2, <1>3, <1>5
    <3> QED BY <3>1, <3>2, <2>6
  <2> QED BY <1>1, <1>2, <1>3, <1>4, <2>3, <2>4, <2>5, <2>8 DEF OverlapInv
<1>12. CASE Drop(d)
  <2>1. /\ d.start < last.end /\ Severity(d) <= Severity(last) /\ kept # <<>>
        /\ kept' = kept
    BY <1>12, <1>3, <1>5 DEF Drop, last_end
  <2>2. Len(kept) \in DOMAIN kept /\ last \in detections /\ last \in Range(kept)
    BY <2>1, <1>2, <1>6, <1>9, EmptySeq
  <2>3. Overlap(last, d)
    BY <2>1, <2>2, <1>3, <1>5, <1>7 DEF Overlap
  <2>4. Settled(d)
    <3> SUFFICES ASSUME \A f \in detections : Severity(f) <= Severity(d)
                 PROVE  \E k \in Range(kept) :
                           Severity(k) = Severity(d) /\ Overlap(k, d)
      BY DEF Settled
    <3>1. Severity(last) = Severity(d)
      BY <2>1, <2>2, <1>3, <1>5
    <3> QED BY <3>1, <2>2, <2>3
  <2>5. \A e \in detections : e \in Range(pending') \/ Settled(e)'
    BY <2>1, <2>4, <1>1, <1>3, <1>8 DEF OverlapInv, Settled
  <2>6. \A i \in DOMAIN kept, j \in DOMAIN pending' :
           kept[i].start <= pending'[j].start
    <3> SUFFICES ASSUME NEW i \in DOMAIN kept, NEW j \in DOMAIN pending'
                 PROVE  kept[i].start <= pending'[j].start
      OBVIOUS
    <3>1. kept[i].start <= d.start BY <1>7
    <3>2. kept[i] \in detections /\ pending'[j] \in detections
      BY <1>3, <1>6, LenProperties, ElementOfSeq
    <3> QED BY <3>1, <3>2, <1>3, <1>4, <1>5
  <2> QED BY <1>1, <1>2, <1>3, <1>4, <2>1, <2>5, <2>6 DEF OverlapInv
<1> QED BY <1>1, <1>10, <1>11, <1>12

\* The overlaps under every step: once they are resolved nothing touches them.
LEMMA OverlapSteps == OverlapInv /\ [ExecutorNext]_executorVars => OverlapInv'
<1> SUFFICES ASSUME OverlapInv, [ExecutorNext]_executorVars PROVE OverlapInv'
  OBVIOUS
<1>1. CASE ResolveOverlap BY <1>1, ResolvePreserves
<1>2. ASSUME UNCHANGED overlapVars,
             outcome' # "resolving" => outcome # "resolving" \/ pending = <<>>
      PROVE  OverlapInv'
  BY <1>2 DEF OverlapInv, overlapVars, Settled
<1>3. ASSUME NEW d, Conceal(d) \/ Tokenize(d) \/ Fallback(d) \/ Reject("blocked"),
             outcome # "resolving"
      PROVE  UNCHANGED overlapVars
  BY <1>3 DEF Conceal, Tokenize, Fallback, Reject, Apply
<1>4. CASE ProcessDetection
  BY <1>2, <1>3, <1>4 DEF ProcessDetection
<1>5. CASE StartActions \/ Forward \/ Answer \/ FailRequest
  BY <1>2, <1>5 DEF StartActions, Forward, Answer, FailRequest, Reject
<1>6. CASE UNCHANGED executorVars
  BY <1>2, <1>6 DEF executorVars
<1> QED BY <1>1, <1>4, <1>5, <1>6 DEF ExecutorNext

\* A detection of the top severity keeps its protection, whatever overlaps it.
THEOREM SeverestStaysProtected == ExecutorSpec => []TopSeverityProtected
<1>1. ExecutorInit => OverlapInv BY OverlapStarts
<1>2. OverlapInv /\ [ExecutorNext]_executorVars => OverlapInv' BY OverlapSteps
<1>3. OverlapInv => TopSeverityProtected
  <2> SUFFICES ASSUME OverlapInv, outcome # "resolving"
               PROVE  \A d \in detections : Settled(d)
    BY DEF TopSeverityProtected, Settled
  <2>1. Range(pending) = {}
    BY DEF OverlapInv, Range
  <2> QED BY <2>1 DEF OverlapInv
<1> QED BY <1>1, <1>2, <1>3, PTL DEF ExecutorSpec

-----------------------------------------------------------------------------
\* What the overlaps leave, for the replacements.
LEMMA KeptFacts ==
    ASSUME OverlapInv
    PROVE  /\ kept \in Seq(detections) /\ kept \in Seq(Detection)
           /\ Len(kept) \in Nat /\ DOMAIN kept = 1..Len(kept)
           /\ \A i \in 1..Len(kept) :
                 /\ kept[i].start \in Nat /\ kept[i].end \in Nat
                 /\ kept[i].start < kept[i].end /\ kept[i].end <= Length
           /\ \A i, j \in 1..Len(kept) : i < j => kept[i].end <= kept[j].start
<1>1. kept \in Seq(detections) /\ kept \in Seq(Detection)
  BY SeqMonotonic DEF OverlapInv
<1>2. Len(kept) \in Nat /\ DOMAIN kept = 1..Len(kept)
  BY <1>1, LenProperties
<1>3. \A i \in 1..Len(kept) : kept[i] \in Detection
  BY <1>1, ElementOfSeq
<1> QED BY <1>1, <1>2, <1>3, DetectionFacts DEF OverlapInv

\* The content at the first step.
LEMMA ReplaceStarts == ExecutorInit => ReplaceInv
  BY DEF ExecutorInit, ReplaceInv

\* Before the first replacement the content is the original one.
LEMMA StartPreserves ==
    ASSUME OverlapInv, ReplaceInv, StartActions
    PROVE  ReplaceInv'
<1> USE LengthAssumption
<1>1. /\ resolved' = Reverse(kept) /\ modified' = Content /\ kept' = kept
      /\ outcome' = "executing"
  BY DEF StartActions, ProcessingOrder, ReplaceInv, overlapVars
<1>2. kept \in Seq(detections) /\ Len(kept) \in Nat
  BY KeptFacts
<1>3. /\ resolved' \in Seq(detections) /\ Len(resolved') = Len(kept)
      /\ \A i \in 1..Len(kept) : resolved'[i] = kept[Len(kept) + 1 - i]
  BY <1>1, <1>2 DEF Reverse
<1>4. /\ modified' \in Seq(Nat) /\ Len(modified') = Length
      /\ DOMAIN modified' = 1..Length
      /\ \A i \in 1..Length : modified'[i] = i - 1
  BY <1>1 DEF Content
<1>5. Done' = {} /\ Untouched' = Length
  BY <1>1, <1>2, <1>3 DEF Done, Untouched
<1>6. Range(modified') = Outside(Done') \union {Replacement(d) : d \in Done'}
  <2>1. Outside(Done') = Starts
    BY <1>5 DEF Outside
  <2>2. Range(modified') \subseteq Starts
    BY <1>4, RangeEquality DEF Starts
  <2>3. ASSUME NEW i \in Starts PROVE i \in Range(modified')
    <3>1. i + 1 \in 1..Length /\ modified'[i + 1] = i
      BY <1>4, <2>3 DEF Starts
    <3> QED BY <3>1, <1>4, RangeEquality
  <2> QED BY <2>1, <2>2, <2>3, <1>5
<1>7. \A i, j \in DOMAIN modified' :
         i < j => position(modified'[i]) < position(modified'[j])
  BY <1>4 DEF position
<1>8. detections' = detections
  BY DEF StartActions, overlapVars
<1> QED BY <1>1, <1>2, <1>3, <1>4, <1>5, <1>6, <1>7, <1>8 DEF ReplaceInv

\* The content after one replacement, item by item.
LEMMA ReplaceFacts ==
    ASSUME NEW content \in Seq(Nat), NEW d \in Detection,
           d.end <= Len(content)
    PROVE  /\ Replace(content, d) \in Seq(Nat)
           /\ Len(Replace(content, d)) = d.start + 1 + (Len(content) - d.end)
           /\ \A i \in 1..d.start : Replace(content, d)[i] = content[i]
           /\ Replace(content, d)[d.start + 1] = Replacement(d)
           /\ \A i \in (d.start + 2)..Len(Replace(content, d)) :
                 Replace(content, d)[i] = content[i - d.start - 1 + d.end]
<1> DEFINE a == d.start
           b == d.end
           n == Len(content)
           head == SubSeq(content, 1, a)
           tail == SubSeq(content, b + 1, n)
           middle == <<Replacement(d)>>
           front == head \o middle
           new == front \o tail
<1>1. a \in Nat /\ b \in Nat /\ a < b /\ b <= n /\ n \in Nat
  BY DetectionFacts, LenProperties
<1>2. Replace(content, d) = new
  <2>1. (IF a <= n THEN a ELSE n) = a BY <1>1
  <2> QED BY <2>1, Zenon DEF Replace
<1>3. Replacement(d) \in Nat
  BY <1>1, LengthAssumption DEF Replacement
<1>4. \A i \in 1..n : content[i] \in Nat
  BY ElementOfSeq
<1> HIDE DEF a, b, n
<1>5. head \in Seq(Nat) /\ Len(head) = a /\ \A i \in 1..a : head[i] = content[i]
  <2>1. \A i \in 1..a : content[i] \in Nat BY <1>1, <1>4
  <2>2. /\ head \in Seq(Nat) /\ Len(head) = IF 1 <= a THEN a - 1 + 1 ELSE 0
        /\ \A i \in 1..(a - 1 + 1) : head[i] = content[1 + i - 1]
    BY <2>1, <1>1, SubSeqProperties
  <2> QED BY <2>2, <1>1
<1>6. /\ tail \in Seq(Nat) /\ Len(tail) = n - b
      /\ \A i \in 1..(n - b) : tail[i] = content[b + i]
  <2>1. \A i \in (b + 1)..n : content[i] \in Nat BY <1>1, <1>4
  <2>2. b + 1 \in Int /\ n \in Int BY <1>1
  <2>3. /\ tail \in Seq(Nat)
        /\ Len(tail) = IF b + 1 <= n THEN n - (b + 1) + 1 ELSE 0
        /\ \A i \in 1..(n - (b + 1) + 1) : tail[i] = content[b + 1 + i - 1]
    BY <2>1, <2>2, SubSeqProperties
  <2> QED BY <2>3, <1>1
<1>7. middle \in Seq(Nat) /\ Len(middle) = 1 /\ middle[1] = Replacement(d)
  BY <1>3
<1> HIDE DEF head, tail, middle
<1>8. /\ front \in Seq(Nat) /\ Len(front) = a + 1
      /\ \A i \in 1..a : front[i] = content[i]
      /\ front[a + 1] = Replacement(d)
  <2>1. /\ front \in Seq(Nat) /\ Len(front) = a + 1
        /\ \A i \in 1..(a + 1) :
              front[i] = IF i <= a THEN head[i] ELSE middle[i - a]
    <3>1. /\ front \in Seq(Nat) /\ Len(front) = Len(head) + Len(middle)
          /\ \A i \in 1..(Len(head) + Len(middle)) :
                front[i] = IF i <= Len(head) THEN head[i] ELSE middle[i - Len(head)]
      <4>1. head \in Seq(Nat) /\ middle \in Seq(Nat) BY <1>5, <1>7
      <4> QED BY <4>1, ConcatProperties
    <3>2. Len(head) = a /\ Len(middle) = 1 BY <1>5, <1>7
    <3> QED BY <3>1, <3>2
  <2>2. \A i \in 1..a : i \in 1..(a + 1) /\ i <= a BY <1>1
  <2>3. \A i \in 1..a : front[i] = head[i] BY <2>1, <2>2
  <2>4. front[a + 1] = middle[1]
    <3>1. PICK k \in 1..(a + 1) : k = a + 1 /\ ~(k <= a) /\ k - a = 1
      BY <1>1
    <3>2. front[k] = middle[k - a] BY <2>1, <3>1
    <3> QED BY <3>1, <3>2
  <2> QED BY <2>1, <2>3, <2>4, <1>5, <1>7
<1> HIDE DEF front
<1>9. /\ new \in Seq(Nat) /\ Len(new) = a + 1 + (n - b)
      /\ \A i \in 1..(a + 1 + (n - b)) :
            new[i] = IF i <= a + 1 THEN front[i] ELSE tail[i - (a + 1)]
  <2>1. /\ new \in Seq(Nat) /\ Len(new) = Len(front) + Len(tail)
        /\ \A i \in 1..(Len(front) + Len(tail)) :
              new[i] = IF i <= Len(front) THEN front[i] ELSE tail[i - Len(front)]
    <3>1. front \in Seq(Nat) /\ tail \in Seq(Nat) BY <1>6, <1>8
    <3> QED BY <3>1, ConcatProperties
  <2> QED BY <2>1, <1>6, <1>8
<1> HIDE DEF new
<1>10. \A i \in 1..a : new[i] = content[i]
  BY <1>1, <1>8, <1>9
<1>11. new[a + 1] = Replacement(d)
  BY <1>1, <1>8, <1>9
<1>12. \A i \in (a + 2)..Len(new) : new[i] = content[i - a - 1 + b]
  <2> SUFFICES ASSUME NEW i \in (a + 2)..Len(new)
               PROVE  new[i] = content[i - a - 1 + b]
    OBVIOUS
  <2>1. /\ i \in 1..(a + 1 + (n - b)) /\ ~(i <= a + 1)
        /\ i - (a + 1) \in 1..(n - b) /\ b + (i - (a + 1)) = i - a - 1 + b
    BY <1>1, <1>9
  <2>2. new[i] = tail[i - (a + 1)] BY <2>1, <1>9
  <2>3. tail[i - (a + 1)] = content[b + (i - (a + 1))] BY <2>1, <1>6
  <2> QED BY <2>1, <2>2, <2>3
<1> QED BY <1>2, <1>9, <1>10, <1>11, <1>12 DEF a, b, n

\* A replacement inside the part no other has reached keeps the items before
\* it and the order of all places.
LEMMA ReplaceKeepsPlaces ==
    ASSUME NEW content \in Seq(Nat), NEW d \in Detection, NEW u \in Nat,
           d.end <= u, u <= Len(content),
           \A i \in 1..u : content[i] = i - 1,
           \A i, j \in 1..Len(content) :
              i < j => position(content[i]) < position(content[j])
    PROVE  LET new == Replace(content, d)
           IN  /\ new \in Seq(Nat) /\ Len(new) >= d.start
               /\ \A i \in 1..d.start : new[i] = i - 1
               /\ \A i, j \in 1..Len(new) :
                     i < j => position(new[i]) < position(new[j])
               /\ Range(new) = (Range(content) \ (d.start..(d.end - 1)))
                                   \union {Replacement(d)}
<1> DEFINE a == d.start
           b == d.end
           n == Len(content)
           new == Replace(content, d)
           back(i) == i - a - 1 + b
           text == Replacement(d)
<1>1. a \in Nat /\ b \in Nat /\ a < b /\ b <= u /\ u <= n /\ n \in Nat
      /\ b <= Length /\ Length \in Nat
  BY DetectionFacts, LenProperties, LengthAssumption
<1>2. /\ new \in Seq(Nat) /\ Len(new) = a + 1 + (n - b)
      /\ \A i \in 1..a : new[i] = content[i]
      /\ new[a + 1] = text
      /\ \A i \in (a + 2)..Len(new) : new[i] = content[back(i)]
  <2>1. d.end <= Len(content) BY <1>1
  <2> QED BY <2>1, ReplaceFacts
<1>3. text = Length + a BY DEF Replacement
<1>4. /\ \A i \in 1..n : content[i] \in Nat /\ position(content[i]) \in Int
      /\ Range(content) = {content[i] : i \in 1..n}
      /\ Range(new) = {new[i] : i \in 1..Len(new)}
  <2>1. \A i \in 1..n : content[i] \in Nat BY ElementOfSeq
  <2>2. \A i \in 1..n : position(content[i]) \in Int
    BY <2>1, <1>1 DEF position
  <2>3. Range(content) = {content[i] : i \in 1..n} BY RangeEquality
  <2>4. Range(new) = {new[i] : i \in 1..Len(new)} BY <1>2, RangeEquality
  <2> QED BY <2>1, <2>2, <2>3, <2>4
<1>5. \A i, j \in 1..n : i < j => position(content[i]) < position(content[j])
  OBVIOUS
<1> HIDE DEF a, b, n, new, text
<1>6. \A i \in (a + 2)..Len(new) :
         back(i) \in (b + 1)..n /\ new[i] = content[back(i)]
  BY <1>1, <1>2
<1>7. \A i \in 1..a : new[i] = i - 1 /\ i \in 1..u /\ i \in 1..n
  BY <1>1, <1>2
<1>8. b \in 1..u /\ b \in 1..n /\ content[b] = b - 1
  BY <1>1
<1>9. position(content[b]) = b - 1 /\ position(text) = a
  BY <1>1, <1>3, <1>8 DEF position
<1>10. \A k \in (b + 1)..n : k \in 1..n /\ a < position(content[k])
  <2> SUFFICES ASSUME NEW k \in (b + 1)..n
               PROVE  k \in 1..n /\ a < position(content[k])
    OBVIOUS
  <2>1. k \in 1..n /\ b < k BY <1>1
  <2>2. position(content[b]) < position(content[k]) BY <2>1, <1>5, <1>8
  <2> QED BY <2>1, <2>2, <1>1, <1>4, <1>9
<1>11. \A i \in 1..a : position(new[i]) = i - 1
  BY <1>1, <1>7 DEF position
<1>12. ASSUME NEW i \in 1..Len(new), NEW j \in 1..Len(new), i < j
       PROVE  position(new[i]) < position(new[j])
  <2>1. CASE j <= a
    <3>1. i \in 1..a /\ j \in 1..a BY <2>1, <1>1, <1>12
    <3> QED BY <3>1, <1>11, <1>12
  <2>2. CASE j = a + 1
    <3>1. i \in 1..a BY <2>2, <1>1, <1>12
    <3> QED BY <3>1, <2>2, <1>1, <1>2, <1>9, <1>11
  <2>3. CASE j >= a + 2
    <3>1. back(j) \in (b + 1)..n /\ new[j] = content[back(j)]
      BY <2>3, <1>1, <1>6
    <3>2. a < position(new[j]) /\ position(new[j]) \in Int
      BY <3>1, <1>4, <1>10
    <3>3. CASE i <= a
      <4>1. i \in 1..a BY <3>3, <1>1
      <4> QED BY <4>1, <3>2, <1>1, <1>11
    <3>4. CASE i = a + 1 BY <3>4, <3>2, <1>2, <1>9
    <3>5. CASE i >= a + 2
      <4>1. back(i) \in (b + 1)..n /\ new[i] = content[back(i)]
        BY <3>5, <1>1, <1>6
      <4>2. back(i) < back(j) BY <1>1, <1>12
      <4>3. back(i) \in 1..n /\ back(j) \in 1..n BY <3>1, <4>1, <1>10
      <4> QED BY <3>1, <4>1, <4>2, <4>3, <1>5
    <3> QED BY <3>3, <3>4, <3>5, <1>1
  <2> QED BY <2>1, <2>2, <2>3, <1>1
<1>13. \A k \in 1..n : content[k] \in a..(b - 1) <=> k \in (a + 1)..b
  <2> SUFFICES ASSUME NEW k \in 1..n
               PROVE  content[k] \in a..(b - 1) <=> k \in (a + 1)..b
    OBVIOUS
  <2>1. CASE k <= b
    <3>1. k \in 1..u BY <2>1, <1>1
    <3>2. content[k] = k - 1 BY <3>1
    <3> QED BY <3>2, <2>1, <1>1
  <2>2. CASE k > b
    <3>1. position(content[b]) < position(content[k]) BY <2>2, <1>5, <1>8
    <3>2. content[k] \in a..(b - 1) => position(content[k]) = content[k]
      BY <1>1 DEF position
    <3> QED BY <3>1, <3>2, <2>2, <1>1, <1>4, <1>9
  <2> QED BY <2>1, <2>2, <1>1
<1>14. Range(new) = (Range(content) \ (a..(b - 1))) \union {text}
  <2>1. ASSUME NEW i \in 1..Len(new)
        PROVE  new[i] = text \/ \E k \in 1..n : /\ new[i] = content[k]
                                             /\ content[k] \notin a..(b - 1)
    <3>1. CASE i <= a
      <4>1. i \in 1..a /\ i \notin (a + 1)..b BY <3>1, <1>1
      <4> QED BY <4>1, <1>2, <1>7, <1>13
    <3>2. CASE i = a + 1 BY <3>2, <1>2
    <3>3. CASE i >= a + 2
      <4>1. back(i) \in (b + 1)..n /\ new[i] = content[back(i)]
        BY <3>3, <1>1, <1>6
      <4>2. back(i) \in 1..n /\ back(i) \notin (a + 1)..b BY <4>1, <1>1, <1>10
      <4> QED BY <4>1, <4>2, <1>13
    <3> QED BY <3>1, <3>2, <3>3, <1>1
  <2>2. ASSUME NEW k \in 1..n, content[k] \notin a..(b - 1)
        PROVE  \E i \in 1..Len(new) : new[i] = content[k]
    <3>1. k \notin (a + 1)..b BY <2>2, <1>13
    <3>2. CASE k <= a
      <4>1. k \in 1..a /\ k \in 1..Len(new) BY <3>2, <1>1, <1>2
      <4> QED BY <4>1, <1>2
    <3>3. CASE k > b
      <4>1. (k - b + a + 1) \in (a + 2)..Len(new) /\ back(k - b + a + 1) = k
        BY <3>3, <1>1, <1>2
      <4>2. (k - b + a + 1) \in 1..Len(new) BY <4>1, <1>1
      <4> QED BY <4>1, <4>2, <1>2
    <3> QED BY <3>1, <3>2, <3>3, <1>1
  <2>3. \E i \in 1..Len(new) : new[i] = text
    <3>1. a + 1 \in 1..Len(new) BY <1>1, <1>2
    <3> QED BY <3>1, <1>2
  <2>4. ASSUME NEW x \in Range(new)
        PROVE  x \in (Range(content) \ (a..(b - 1))) \union {text}
    <3>1. PICK i \in 1..Len(new) : x = new[i] BY <2>4, <1>4
    <3> QED BY <3>1, <2>1, <1>4
  <2>5. ASSUME NEW x \in (Range(content) \ (a..(b - 1))) \union {text}
        PROVE  x \in Range(new)
    <3>1. CASE x = text BY <3>1, <2>3, <1>4
    <3>2. CASE x \in Range(content) \ (a..(b - 1))
      <4>1. PICK k \in 1..n : x = content[k] BY <3>2, <1>4
      <4> QED BY <4>1, <3>2, <2>2, <1>4
    <3> QED BY <3>1, <3>2, <2>5
  <2> QED BY <2>4, <2>5
<1>15. new \in Seq(Nat) /\ Len(new) >= a /\ \A i \in 1..a : new[i] = i - 1
  BY <1>1, <1>2, <1>7
<1> QED BY <1>12, <1>14, <1>15 DEF a, b, new, text

\* Replacing the last detection that is left: the positions of all others stay
\* valid.
LEMMA ApplyPreserves ==
    ASSUME OverlapInv, ReplaceInv, outcome = "executing", resolved # <<>>,
           Apply(Head(resolved))
    PROVE  ReplaceInv'
<1> USE LengthAssumption
<1> DEFINE d == Head(resolved)
           m == Len(resolved)
           old == Len(modified)
<1>1. /\ modified' = Replace(modified, d) /\ resolved' = Tail(resolved)
      /\ kept' = kept /\ detections' = detections /\ outcome' = "executing"
  BY DEF Apply, overlapVars
<1>2. /\ kept \in Seq(detections) /\ Len(kept) \in Nat
      /\ \A i \in 1..Len(kept) :
            /\ kept[i].start \in Nat /\ kept[i].end \in Nat
            /\ kept[i].start < kept[i].end /\ kept[i].end <= Length
      /\ \A i, j \in 1..Len(kept) : i < j => kept[i].end <= kept[j].start
  BY KeptFacts
<1>3. /\ resolved \in Seq(detections) /\ m \in 1..Len(kept) /\ m = Len(resolved)
      /\ \A i \in 1..m : resolved[i] = kept[m + 1 - i]
  BY <1>2, EmptySeq DEF ReplaceInv
<1>4. /\ modified \in Seq(Nat) /\ old \in Nat /\ old >= Untouched
      /\ old = Len(modified)
      /\ DOMAIN modified = 1..old
      /\ \A i \in 1..Untouched : modified[i] = i - 1
      /\ Range(modified) = Outside(Done) \union {Replacement(e) : e \in Done}
      /\ \A i, j \in 1..old :
            i < j => position(modified[i]) < position(modified[j])
  BY LenProperties DEF ReplaceInv
<1>5. /\ d = kept[m] /\ d = resolved[1] /\ d.start \in Nat /\ d.end \in Nat
      /\ d.start < d.end /\ d.end <= Length
  <2>1. 1 \in 1..m /\ m + 1 - 1 = m BY <1>2, <1>3
  <2>2. d = resolved[1] /\ resolved[1] = kept[m] BY <1>3, <2>1
  <2> QED BY <2>2, <1>2, <1>3
<1> HIDE DEF d, m, old
<1>6. Untouched \in Nat /\ d.end <= Untouched /\ Untouched <= old
  <2>1. CASE m = Len(kept)
    BY <2>1, <1>3, <1>4, <1>5, LengthAssumption DEF Untouched
  <2>2. CASE m < Len(kept)
    <3>1. m + 1 \in 1..Len(kept) /\ Untouched = kept[m + 1].start
      BY <2>2, <1>2, <1>3 DEF Untouched
    <3> QED BY <3>1, <1>2, <1>3, <1>4, <1>5
  <2> QED BY <2>1, <2>2, <1>3
<1>7. /\ resolved' \in Seq(detections) /\ Len(resolved') = m - 1
      /\ \A i \in 1..(m - 1) : resolved'[i] = kept[m - i]
  <2>1. /\ resolved' \in Seq(detections) /\ Len(resolved') = m - 1
        /\ \A i \in 1..(m - 1) : resolved'[i] = resolved[i + 1]
    BY <1>1, <1>3, HeadTailProperties
  <2>2. \A i \in 1..(m - 1) : resolved[i + 1] = kept[m - i]
    BY <1>3
  <2> QED BY <2>1, <2>2
<1>8. Done' = Done \union {d} /\ Untouched' = d.start
  <2>1. Done' = {kept[i] : i \in m..Len(kept)}
    BY <1>1, <1>3, <1>7 DEF Done
  <2>2. /\ m..Len(kept) = ((m + 1)..Len(kept)) \union {m}
        /\ Done = {kept[i] : i \in (m + 1)..Len(kept)}
    BY <1>2, <1>3 DEF Done
  <2>3. Untouched' = kept[m].start
    BY <1>1, <1>2, <1>3, <1>7 DEF Untouched
  <2> QED BY <2>1, <2>2, <2>3, <1>5
<1>0. d \in Detection /\ d.end <= old /\ d.start <= old
  <2>1. d \in detections BY <1>2, <1>3, <1>5, ElementOfSeq
  <2>2. detections \subseteq Detection BY DEF OverlapInv
  <2> QED BY <2>1, <2>2, <1>4, <1>5, <1>6
<1>9. Outside(Done') = Outside(Done) \ (d.start..(d.end - 1))
  BY <1>8 DEF Outside
<1>10. {Replacement(e) : e \in Done'} =
          {Replacement(e) : e \in Done} \union {Replacement(d)}
  BY <1>8
<1>11. \A e \in Done : Replacement(e) \notin d.start..(d.end - 1)
  <2> SUFFICES ASSUME NEW i \in (m + 1)..Len(kept)
               PROVE  Replacement(kept[i]) \notin d.start..(d.end - 1)
    BY <1>3 DEF Done
  <2>1. i \in 1..Len(kept) BY <1>2, <1>3
  <2>2. kept[i].start \in Nat BY <1>2, <2>1
  <2>3. Replacement(kept[i]) \in Nat /\ Replacement(kept[i]) >= Length
    BY <2>2 DEF Replacement
  <2>4. \A x \in d.start..(d.end - 1) : x < Length BY <1>5
  <2> QED BY <2>3, <2>4
<1>12. Range(modified) \ (d.start..(d.end - 1)) =
          Outside(Done') \union {Replacement(e) : e \in Done}
  BY <1>4, <1>9, <1>11
<1>13. /\ modified' \in Seq(Nat) /\ Len(modified') >= d.start
       /\ \A i \in 1..d.start : modified'[i] = i - 1
       /\ \A i, j \in 1..Len(modified') :
             i < j => position(modified'[i]) < position(modified'[j])
       /\ Range(modified') = (Range(modified) \ (d.start..(d.end - 1)))
                                 \union {Replacement(d)}
  BY <1>0, <1>1, <1>4, <1>6, ReplaceKeepsPlaces
<1>14. DOMAIN modified' = 1..Len(modified')
  BY <1>13, LenProperties
<1>15. Range(modified') = Outside(Done') \union {Replacement(e) : e \in Done'}
  BY <1>10, <1>12, <1>13
<1>16. /\ Len(resolved') <= Len(kept')
       /\ \A i \in 1..Len(resolved') : resolved'[i] = kept'[Len(resolved') + 1 - i]
  <2>1. Len(resolved') <= Len(kept') BY <1>1, <1>2, <1>3, <1>7
  <2>2. ASSUME NEW i \in 1..(m - 1)
        PROVE  resolved'[i] = kept[m - 1 + 1 - i]
    <3>1. m - 1 + 1 - i = m - i BY <1>3
    <3> QED BY <3>1, <1>7
  <2> QED BY <2>1, <2>2, <1>1, <1>7
<1> QED BY <1>1, <1>7, <1>8, <1>13, <1>14, <1>15, <1>16 DEF ReplaceInv

\* The content under every step.
LEMMA ReplaceSteps ==
    OverlapInv /\ ReplaceInv /\ [ExecutorNext]_executorVars => ReplaceInv'
<1> SUFFICES ASSUME OverlapInv, ReplaceInv, [ExecutorNext]_executorVars
             PROVE  ReplaceInv'
  OBVIOUS
<1>1. CASE ResolveOverlap
  BY <1>1 DEF ResolveOverlap, ReplaceInv, contentVars
<1>2. CASE StartActions
  BY <1>2, StartPreserves
<1>3. ASSUME NEW end \in {"error", "blocked"}, Reject(end)
      PROVE  ReplaceInv'
  BY <1>3 DEF Reject, ReplaceInv
<1>4. CASE ProcessDetection
  <2>1. outcome = "executing" /\ resolved # <<>>
    BY <1>4 DEF ProcessDetection
  <2>2. Apply(Head(resolved)) \/ Reject("blocked") \/ Reject("error")
    BY <1>4 DEF ProcessDetection, Conceal, Tokenize, Fallback
  <2> QED BY <2>1, <2>2, <1>3, ApplyPreserves
<1>5. ASSUME UNCHANGED <<overlapVars, contentVars>>,
             outcome' \in {"forwarding", "answered"},
             outcome \in {"executing", "forwarding"}, resolved = <<>>
      PROVE  ReplaceInv'
  <2>1. Done' = Done /\ Untouched' = Untouched
    BY <1>5 DEF Done, Untouched, overlapVars, contentVars
  <2> QED BY <1>5, <2>1 DEF ReplaceInv, overlapVars, contentVars
<1>6. CASE Forward
  BY <1>5, <1>6 DEF Forward
<1>7. CASE Answer
  BY <1>5, <1>7 DEF Answer, ReplaceInv
<1>8. CASE FailRequest
  BY <1>3, <1>8 DEF FailRequest
<1>9. CASE UNCHANGED executorVars
  <2>1. Done' = Done /\ Untouched' = Untouched
    BY <1>9 DEF Done, Untouched, executorVars, overlapVars, contentVars
  <2> QED BY <1>9, <2>1 DEF ReplaceInv, executorVars, overlapVars, contentVars
<1> QED BY <1>1, <1>2, <1>4, <1>6, <1>7, <1>8, <1>9 DEF ExecutorNext

\* Each detection that was kept is replaced exactly where it was, and nothing
\* else moves.
THEOREM ReplacementsExact == ExecutorSpec => []ReplacesExactly
<1>1. ExecutorInit => OverlapInv /\ ReplaceInv
  BY OverlapStarts, ReplaceStarts
<1>2. (OverlapInv /\ ReplaceInv) /\ [ExecutorNext]_executorVars
         => (OverlapInv /\ ReplaceInv)'
  BY OverlapSteps, ReplaceSteps
<1>3. OverlapInv /\ ReplaceInv => ReplacesExactly
  <2> SUFFICES ASSUME OverlapInv, ReplaceInv,
                      outcome \in {"forwarding", "answered"}
               PROVE  ReplacesExactly
    BY DEF ReplacesExactly
  <2>1. Len(resolved) = 0 BY DEF ReplaceInv
  <2>2. Done = Range(kept)
    BY <2>1, KeptFacts, RangeEquality DEF Done
  <2> QED BY <2>2 DEF ReplaceInv, ReplacesExactly, Outside
<1> QED BY <1>1, <1>2, <1>3, PTL DEF ExecutorSpec

-----------------------------------------------------------------------------
(* The merge of the rulesets: RulesetMerge.                                  *)

\* The rulesets that the merging loop has been through and that configure t.
Merged(t) ==
    {active[i] : i \in 1..(Len(active) - Len(todo))} \intersect Configuring(t)

\* r's action for t is no stronger than the one merged so far.
NoStronger(r, t) ==
    \/ RankOfAction(r) < RankOfAction(origin[t])
    \/ /\ RankOfAction(r) = RankOfAction(origin[t])
       /\ actions[r][t] <= merged[t]

\* Every detection comes from an active ruleset that configures its type.
HitsInv ==
    /\ active \in Seq(Rulesets) /\ actions \in [Range(active) -> Configurations]
    /\ todo \in Seq(Rulesets) /\ Len(todo) <= Len(active)
    /\ \A j \in 1..Len(todo) : todo[j] = active[Len(active) - Len(todo) + j]
    /\ hits \in Seq([ruleset : Range(active), type : Types, confidence : Confidences])
    /\ \A i \in DOMAIN hits : hits[i].type \in DOMAIN actions[hits[i].ruleset]

\* What is merged is the strongest action of the rulesets visited.
MergeInv ==
    /\ stage = "scanning" => merged = <<>> /\ origin = <<>>
    /\ stage \in {"merging", "acting"} =>
          /\ hits # <<>>
          /\ DOMAIN merged \subseteq Types /\ DOMAIN origin = DOMAIN merged
          /\ \A t \in Types : t \in DOMAIN merged <=> Merged(t) # {}
          /\ \A t \in DOMAIN merged :
                /\ origin[t] \in Merged(t)
                /\ merged[t] = actions[origin[t]][t]
                /\ \A r \in Merged(t) : NoStronger(r, t)
    /\ stage = "acting" => todo = <<>>

\* A set of natural numbers has a least element.
LEMMA LeastNatural ==
    ASSUME NEW T \in SUBSET Nat, T # {}
    PROVE  Min(T) \in T /\ \A m \in T : Min(T) <= m
<1> DEFINE initials == {0..n : n \in T}
<1>1. initials \subseteq FiniteSubsetsOf(Nat) /\ initials # {}
  <2>1. \A n \in T : 0..n \in SUBSET Nat /\ IsFiniteSet(0..n)
    BY FS_Interval
  <2> QED BY <2>1 DEF FiniteSubsetsOf
<1>2. PICK x \in initials : \A y \in initials : <<y, x>> \notin StrictSubsetOrdering(Nat)
  BY <1>1, FS_StrictSubsetOrderingWellFounded, WFMin
<1>3. PICK n \in T : x = 0..n
  BY <1>2
<1>4. \A m \in T : n <= m
  <2> SUFFICES ASSUME NEW m \in T, m < n PROVE FALSE
    OBVIOUS
  <2>1. 0..m \subseteq 0..n /\ n \in 0..n /\ n \notin 0..m
    OBVIOUS
  <2>2. <<0..m, 0..n>> \in (SUBSET Nat) \X (SUBSET Nat) /\ 0..m # 0..n
    BY <2>1
  <2>3. <<0..m, 0..n>> \in StrictSubsetOrdering(Nat)
    BY <2>1, <2>2 DEF StrictSubsetOrdering
  <2> QED BY <2>3, <1>2, <1>3
<1> QED BY <1>4 DEF Min

\* A ruleset's rank is the same for detections and actions unless it is not
\* listed; then both are below every listed one.
LEMMA Ranks ==
    ASSUME NEW r
    PROVE  /\ RankOfAction(r) \in Nat
           /\ RulesetRank(r, -1) = IF RankOfAction(r) = 0 THEN -1 ELSE RankOfAction(r)
<1> DEFINE places == {i \in DOMAIN Priority : Priority[i] = r}
<1>1. DOMAIN Priority = 1..Len(Priority) /\ Len(Priority) \in Nat
  BY PriorityAssumption, LenProperties
<1>2. places \in SUBSET Nat /\ \A i \in places : i <= Len(Priority)
  BY <1>1
<1>3. CASE places = {}
  BY <1>3 DEF RankOfAction, RulesetRank
<1>4. CASE places # {}
  <2>1. Min(places) \in places
    BY <1>2, <1>4, LeastNatural
  <2>2. Len(Priority) + 1 - Min(places) \in Nat \ {0}
    BY <2>1, <1>1, <1>2
  <2>3. /\ RankOfAction(r) = Len(Priority) + 1 - Min(places)
        /\ RulesetRank(r, -1) = Len(Priority) + 1 - Min(places)
    BY <1>4 DEF RankOfAction, RulesetRank
  <2> QED BY <2>2, <2>3
<1> QED BY <1>3, <1>4

\* What a configuration is.
LEMMA ConfigurationFacts ==
    ASSUME HitsInv
    PROVE  \A r \in Range(active) :
              /\ DOMAIN actions[r] \subseteq Types
              /\ \A t \in DOMAIN actions[r] : actions[r][t] \in 1..4
<1> SUFFICES ASSUME NEW r \in Range(active)
             PROVE  /\ DOMAIN actions[r] \subseteq Types
                    /\ \A t \in DOMAIN actions[r] : actions[r][t] \in 1..4
  OBVIOUS
<1>1. actions[r] \in Configurations BY DEF HitsInv
<1>2. PICK S \in SUBSET Types : actions[r] \in [S -> Severities]
  BY <1>1 DEF Configurations
<1> QED BY <1>2, SeveritiesAssumption

\* The detections and the rulesets to visit at the first step.
LEMMA HitsStart == MergeInit => HitsInv
<1> SUFFICES ASSUME MergeInit PROVE HitsInv
  OBVIOUS
<1>1. PICK n \in 1..MaxActive : active \in [1..n -> Rulesets]
  BY DEF MergeInit, ActiveRulesets
<1>2. active \in Seq(Rulesets)
  BY <1>1, BoundsAssumption
<1>3. Len(active) \in Nat /\ todo = active /\ hits = <<>>
  BY <1>2, LenProperties DEF MergeInit
<1> QED BY <1>2, <1>3 DEF HitsInv, MergeInit

\* The detections and the rulesets to visit under every step.
LEMMA HitsSteps == HitsInv /\ [MergeNext]_mergeVars => HitsInv'
<1> SUFFICES ASSUME HitsInv, [MergeNext]_mergeVars PROVE HitsInv'
  OBVIOUS
<1>1. /\ active \in Seq(Rulesets) /\ Len(active) \in Nat
      /\ todo \in Seq(Rulesets) /\ Len(todo) \in Nat /\ Len(todo) <= Len(active)
      /\ \A j \in 1..Len(todo) : todo[j] = active[Len(active) - Len(todo) + j]
  BY LenProperties DEF HitsInv
<1>2. ASSUME todo # <<>>, todo' = Tail(todo)
      PROVE  /\ todo' \in Seq(Rulesets) /\ Len(todo') <= Len(active)
             /\ \A j \in 1..Len(todo') : todo'[j] = active[Len(active) - Len(todo') + j]
  <2>1. /\ todo' \in Seq(Rulesets) /\ Len(todo') = Len(todo) - 1
        /\ \A j \in 1..Len(todo') : todo'[j] = todo[j + 1]
    BY <1>1, <1>2, HeadTailProperties
  <2>2. ASSUME NEW j \in 1..Len(todo')
        PROVE  todo'[j] = active[Len(active) - Len(todo') + j]
    <3>1. j + 1 \in 1..Len(todo)
          /\ Len(active) - Len(todo) + (j + 1) = Len(active) - Len(todo') + j
      BY <1>1, <2>1
    <3> QED BY <3>1, <1>1, <2>1
  <2>3. Len(todo') <= Len(active)
    BY <1>1, <2>1
  <2> QED BY <2>1, <2>2, <2>3
<1>3. CASE Match
  <2>1. /\ todo # <<>> /\ UNCHANGED <<active, actions, todo>>
        /\ Head(todo) = active[Len(active) - Len(todo) + 1]
        /\ Len(active) - Len(todo) + 1 \in 1..Len(active)
    BY <1>1, <1>3, EmptySeq DEF Match
  <2>2. PICK t \in DOMAIN actions[Head(todo)], c \in Confidences :
           hits' = Append(hits, Hit(Head(todo), t, c))
    BY <1>3 DEF Match
  <2>3. Head(todo) \in Range(active)
    BY <2>1, <1>1, RangeEquality
  <2> DEFINE S == [ruleset : Range(active), type : Types, confidence : Confidences]
             h == Hit(Head(todo), t, c)
  <2>4. h \in S /\ h.type \in DOMAIN actions[h.ruleset]
    BY <2>2, <2>3, ConfigurationFacts DEF Hit
  <2>5. hits \in Seq(S) /\ \A i \in DOMAIN hits : hits[i].type \in DOMAIN actions[hits[i].ruleset]
    BY DEF HitsInv
  <2> HIDE DEF h, S
  <2>6. hits' = Append(hits, h) BY <2>2 DEF h
  <2>7. /\ hits' \in Seq(S) /\ Len(hits') = Len(hits) + 1
        /\ \A i \in 1..Len(hits) : hits'[i] = hits[i]
        /\ hits'[Len(hits) + 1] = h
        /\ DOMAIN hits = 1..Len(hits) /\ Len(hits) \in Nat
        /\ DOMAIN hits' = 1..Len(hits')
    <3>1. hits' \in Seq(S) BY <2>4, <2>5, <2>6, AppendProperties
    <3> QED BY <3>1, <2>4, <2>5, <2>6, AppendProperties, LenProperties
  <2>8. \A i \in DOMAIN hits' : hits'[i].type \in DOMAIN actions[hits'[i].ruleset]
    BY <2>4, <2>5, <2>7
  <2> QED BY <2>1, <2>7, <2>8 DEF HitsInv, S
<1>4. CASE ScanNextRuleset
  BY <1>2, <1>4 DEF ScanNextRuleset, HitsInv
<1>5. CASE EndScan
  <2>1. UNCHANGED <<active, actions, hits>> /\ todo' \in {active, <<>>}
    BY <1>5 DEF EndScan
  <2>2. CASE todo' = active
    <3>1. \A j \in 1..Len(todo') : Len(active) - Len(todo') + j = j
      BY <2>2, <1>1
    <3> QED BY <2>1, <2>2, <3>1, <1>1 DEF HitsInv
  <2>3. CASE todo' = <<>>
    BY <2>1, <2>3, <1>1 DEF HitsInv
  <2> QED BY <2>1, <2>2, <2>3
<1>6. CASE MergeRuleset
  BY <1>2, <1>6 DEF MergeRuleset, HitsInv
<1>7. CASE Execute
  BY <1>7 DEF Execute, HitsInv
<1>8. CASE UNCHANGED mergeVars
  BY <1>8 DEF mergeVars, HitsInv
<1> QED BY <1>3, <1>4, <1>5, <1>6, <1>7, <1>8 DEF MergeNext

\* One more ruleset merged.
LEMMA MergeRulesetPreserves ==
    ASSUME HitsInv, MergeInv, MergeRuleset
    PROVE  MergeInv'
<1> DEFINE r == Head(todo)
           taken == {t \in DOMAIN actions[r] : Takes(r, t)}
<1>1. /\ stage = "merging" /\ stage' = "merging" /\ todo # <<>> /\ todo' = Tail(todo)
      /\ UNCHANGED <<active, actions, hits>>
      /\ merged' = [t \in DOMAIN merged \union taken |->
                       IF t \in taken THEN actions[r][t] ELSE merged[t]]
      /\ origin' = [t \in DOMAIN merged \union taken |->
                       IF t \in taken THEN r ELSE origin[t]]
  BY DEF MergeRuleset
<1>2. /\ DOMAIN merged \subseteq Types /\ DOMAIN origin = DOMAIN merged /\ hits # <<>>
      /\ \A t \in Types : t \in DOMAIN merged <=> Merged(t) # {}
      /\ \A t \in DOMAIN merged :
            /\ origin[t] \in Merged(t)
            /\ merged[t] = actions[origin[t]][t]
            /\ \A s \in Merged(t) : NoStronger(s, t)
  BY <1>1 DEF MergeInv
<1>3. /\ Len(active) \in Nat /\ Len(todo) \in Nat \ {0} /\ Len(todo) <= Len(active)
      /\ r = active[Len(active) - Len(todo) + 1] /\ Len(todo') = Len(todo) - 1
      /\ r \in Range(active)
  <2>1. active \in Seq(Rulesets) /\ todo \in Seq(Rulesets)
    BY DEF HitsInv
  <2>2. Len(active) \in Nat /\ Len(todo) \in Nat \ {0} /\ Len(todo) <= Len(active)
    BY <2>1, <1>1, EmptySeq, LenProperties DEF HitsInv
  <2>3. r = active[Len(active) - Len(todo) + 1] /\ Len(todo') = Len(todo) - 1
    BY <2>1, <2>2, <1>1, HeadTailProperties DEF HitsInv
  <2>4. Len(active) - Len(todo) + 1 \in 1..Len(active)
    BY <2>2
  <2> QED BY <2>1, <2>2, <2>3, <2>4, RangeEquality
<1> HIDE DEF r
<1>4. ASSUME NEW t
      PROVE  Merged(t)' = Merged(t) \union (IF t \in DOMAIN actions[r] THEN {r} ELSE {})
  <2> DEFINE k == Len(active) - Len(todo)
  <2>1. Configuring(t)' = Configuring(t)
    BY <1>1 DEF Configuring
  <2>2. 1..(Len(active) - Len(todo')) = (1..k) \union {k + 1} /\ r = active[k + 1]
    BY <1>3
  <2> HIDE DEF k
  <2>3. {active[i] : i \in 1..(Len(active) - Len(todo'))}
           = {active[i] : i \in 1..k} \union {r}
    BY <2>2
  <2>4. r \in Configuring(t) <=> t \in DOMAIN actions[r]
    BY <1>3 DEF Configuring
  <2>5. Merged(t) = {active[i] : i \in 1..k} \intersect Configuring(t)
    BY DEF Merged, k
  <2>6. Merged(t)' = {active[i] : i \in 1..(Len(active) - Len(todo'))}
                       \intersect Configuring(t)
    BY <1>1, <2>1 DEF Merged
  <2> QED BY <2>3, <2>4, <2>5, <2>6
<1>5. /\ DOMAIN actions[r] \subseteq Types
      /\ \A t \in DOMAIN actions[r] : actions[r][t] \in 1..4
      /\ \A t : \A s \in Merged(t) :
            t \in DOMAIN actions[s] /\ actions[s][t] \in 1..4
      /\ \A s : RankOfAction(s) \in Nat
  BY <1>3, ConfigurationFacts, Ranks DEF Merged, Configuring
<1>6. DOMAIN merged' = DOMAIN merged \union taken /\ DOMAIN origin' = DOMAIN merged'
  BY <1>1
<1>7. \A t \in DOMAIN actions[r] : t \in taken <=> Takes(r, t)
  OBVIOUS
<1> HIDE DEF taken
<1>8. taken \subseteq DOMAIN actions[r]
  BY DEF taken
<1>9. ASSUME NEW t \in Types
      PROVE  t \in DOMAIN merged' <=> Merged(t)' # {}
  BY <1>2, <1>4, <1>6, <1>7, <1>8 DEF Takes
<1>10. ASSUME NEW t \in DOMAIN merged'
       PROVE  /\ origin'[t] \in Merged(t)'
              /\ merged'[t] = actions[origin'[t]][t]
              /\ \A s \in Merged(t)' :
                    \/ RankOfAction(s) < RankOfAction(origin'[t])
                    \/ /\ RankOfAction(s) = RankOfAction(origin'[t])
                       /\ actions[s][t] <= merged'[t]
  <2>1. CASE t \in taken
    <3>1. origin'[t] = r /\ merged'[t] = actions[r][t] /\ Takes(r, t)
          /\ t \in DOMAIN actions[r]
      BY <2>1, <1>1, <1>7, <1>8
    <3>2. Merged(t)' = Merged(t) \union {r}
      BY <3>1, <1>4
    <3>3. ASSUME NEW s \in Merged(t)
          PROVE  \/ RankOfAction(s) < RankOfAction(r)
                 \/ /\ RankOfAction(s) = RankOfAction(r)
                    /\ actions[s][t] <= actions[r][t]
      <4>1. t \in DOMAIN merged /\ NoStronger(s, t)
        BY <1>2, <1>5, <3>1, <1>8
      <4>2. merged[t] \in 1..4 /\ actions[s][t] \in 1..4
        BY <4>1, <1>2, <1>5
      <4> QED BY <4>1, <4>2, <3>1, <1>5 DEF Takes, NoStronger
    <3> QED BY <3>1, <3>2, <3>3, <1>5
  <2>2. CASE t \notin taken
    <3>1. t \in DOMAIN merged /\ origin'[t] = origin[t] /\ merged'[t] = merged[t]
      BY <2>2, <1>1, <1>6
    <3>2. origin[t] \in Merged(t) /\ merged[t] = actions[origin[t]][t]
          /\ \A s \in Merged(t) : NoStronger(s, t)
      BY <3>1, <1>2
    <3>3. t \in DOMAIN actions[r] => NoStronger(r, t)
      BY <2>2, <3>1, <3>2, <1>5, <1>7 DEF Takes, NoStronger
    <3> QED BY <3>1, <3>2, <3>3, <1>4 DEF NoStronger
  <2> QED BY <2>1, <2>2
<1>11. DOMAIN merged' \subseteq Types
  BY <1>2, <1>5, <1>6, <1>8
<1> QED BY <1>1, <1>2, <1>6, <1>9, <1>10, <1>11 DEF MergeInv, NoStronger

\* The merge under every step.
LEMMA MergeSteps == HitsInv /\ MergeInv /\ [MergeNext]_mergeVars => MergeInv'
<1> SUFFICES ASSUME HitsInv, MergeInv, [MergeNext]_mergeVars PROVE MergeInv'
  OBVIOUS
<1>1. CASE Match \/ ScanNextRuleset
  BY <1>1 DEF Match, ScanNextRuleset, MergeInv
<1>2. CASE EndScan
  <2>1. CASE hits = <<>>
    BY <1>2, <2>1 DEF EndScan, MergeInv
  <2>2. CASE hits # <<>>
    <3>1. /\ stage' = "merging" /\ todo' = active /\ hits' = hits
          /\ active' = active /\ merged' = <<>> /\ origin' = <<>>
      BY <1>2, <2>2 DEF EndScan, MergeInv
    <3>2. Len(active) \in Nat BY LenProperties DEF HitsInv
    <3>3. \A t : Merged(t)' = {}
      BY <3>1, <3>2 DEF Merged
    <3>4. DOMAIN merged' = {} /\ DOMAIN origin' = {}
      BY <3>1
    <3> QED BY <3>1, <3>3, <3>4, <2>2 DEF MergeInv
  <2> QED BY <2>1, <2>2
<1>3. CASE MergeRuleset
  BY <1>3, MergeRulesetPreserves
<1>4. ASSUME UNCHANGED <<active, actions, todo, hits, merged, origin>>,
             stage' = stage \/ (stage' = "acting" /\ stage = "merging" /\ todo = <<>>)
      PROVE  MergeInv'
  <2>1. \A t : Merged(t)' = Merged(t)
    BY <1>4 DEF Merged, Configuring
  <2>2. \A r, t : NoStronger(r, t)' = NoStronger(r, t)
    BY <1>4 DEF NoStronger
  <2> QED BY <2>1, <2>2, <1>4 DEF MergeInv
<1>5. CASE Execute
  BY <1>4, <1>5 DEF Execute
<1>6. CASE UNCHANGED mergeVars
  BY <1>4, <1>6 DEF mergeVars
<1> QED BY <1>1, <1>2, <1>3, <1>5, <1>6 DEF MergeNext

\* What both theorems about the merge rest on.
LEMMA AlwaysMergeInv == MergeSpec => [](HitsInv /\ MergeInv)
<1>1. MergeInit => HitsInv /\ MergeInv
  BY HitsStart DEF MergeInit, MergeInv
<1>2. (HitsInv /\ MergeInv) /\ [MergeNext]_mergeVars => (HitsInv /\ MergeInv)'
  BY HitsSteps, MergeSteps
<1> QED BY <1>1, <1>2, PTL DEF MergeSpec

\* Once all rulesets are visited, the merged action is the strongest of those
\* that configure the data type.
LEMMA AllMerged ==
    ASSUME HitsInv, MergeInv, stage = "acting"
    PROVE  /\ \A t : Merged(t) = Configuring(t)
           /\ \A t \in Types : t \in DOMAIN merged <=> Configuring(t) # {}
           /\ DOMAIN origin = DOMAIN merged
           /\ \A t \in DOMAIN merged :
                 /\ origin[t] \in Configuring(t)
                 /\ merged[t] = actions[origin[t]][t]
                 /\ \A r \in Configuring(t) : NoStronger(r, t)
<1>1. todo = <<>> /\ Len(todo) = 0 BY DEF MergeInv
<1>2. active \in Seq(Rulesets) /\ Len(active) \in Nat
  BY LenProperties DEF HitsInv
<1>3. {active[i] : i \in 1..(Len(active) - Len(todo))} = Range(active)
  BY <1>1, <1>2, RangeEquality
<1>4. \A t : Merged(t) = Configuring(t)
  BY <1>3 DEF Merged, Configuring
<1> QED BY <1>4 DEF MergeInv

\* The merged actions do not depend on the order of the rulesets.
THEOREM OrderIgnored == MergeSpec => []MergeIgnoresOrder
<1>1. HitsInv /\ MergeInv => MergeIgnoresOrder
  <2> SUFFICES ASSUME HitsInv, MergeInv, stage = "acting", NEW t \in Types
               PROVE  LET rank == {RankOfAction(r) : r \in Configuring(t)}
                          top == {r \in Configuring(t) :
                                     \A k \in rank : RankOfAction(r) >= k}
                      IN  /\ (t \in DOMAIN merged) = (Configuring(t) # {})
                          /\ t \in DOMAIN merged =>
                                \E r \in top :
                                    /\ merged[t] = actions[r][t]
                                    /\ \A s \in top : actions[s][t] <= merged[t]
    BY DEF MergeIgnoresOrder
  <2> DEFINE top == {r \in Configuring(t) :
                        \A k \in {RankOfAction(s) : s \in Configuring(t)} :
                            RankOfAction(r) >= k}
  <2>1. (t \in DOMAIN merged) = (Configuring(t) # {})
    BY AllMerged
  <2>2. ASSUME t \in DOMAIN merged
        PROVE  /\ origin[t] \in top /\ merged[t] = actions[origin[t]][t]
               /\ \A s \in top : actions[s][t] <= merged[t]
    <3>1. /\ origin[t] \in Configuring(t) /\ merged[t] = actions[origin[t]][t]
          /\ \A r \in Configuring(t) : NoStronger(r, t)
      BY <2>2, AllMerged
    <3>2. \A r : RankOfAction(r) \in Nat BY Ranks
    <3>3. \A r \in Configuring(t) : RankOfAction(origin[t]) >= RankOfAction(r)
      BY <3>1, <3>2 DEF NoStronger
    <3>4. origin[t] \in top BY <3>1, <3>3
    <3>5. ASSUME NEW s \in top PROVE actions[s][t] <= merged[t]
      <4>1. s \in Configuring(t) /\ RankOfAction(s) >= RankOfAction(origin[t])
        BY <3>1
      <4> QED BY <4>1, <3>1, <3>2 DEF NoStronger
    <3> QED BY <3>1, <3>4, <3>5
  <2> QED BY <2>1, <2>2
<1> QED BY <1>1, AlwaysMergeInv, PTL

\* _deduplicate has a detection to return: none beats it.
LEMMA SurvivorFacts ==
    ASSUME HitsInv, hits # <<>>
    PROVE  \E i \in DOMAIN hits :
              Survivor = hits[i] /\ \A j \in DOMAIN hits : ~Beats(hits[j], hits[i])
<1> DEFINE S == [ruleset : Range(active), type : Types, confidence : Confidences]
           D == 1..Len(hits)
           above(i) == {j \in D : Beats(hits[j], hits[i])}
           family == {above(i) : i \in D}
           best == {i \in D : \A j \in D : ~Beats(hits[j], hits[i])}
<1>1. /\ hits \in Seq(S) /\ Len(hits) \in Nat \ {0} /\ DOMAIN hits = D
      /\ \A i \in D : hits[i] \in S
  BY EmptySeq, LenProperties, ElementOfSeq DEF HitsInv
<1>2. \A i \in D : RankOfDetection(hits[i]) \in Int /\ hits[i].confidence \in Nat
  <2>1. \A i \in D : hits[i].confidence \in Nat
    BY <1>1, ConfidencesAssumption
  <2>2. ASSUME NEW r PROVE RulesetRank(r, -1) \in Int
    BY Ranks
  <2> QED BY <2>1, <2>2 DEF RankOfDetection
<1>3. \A i \in D : ~Beats(hits[i], hits[i])
  BY <1>2 DEF Beats
<1>4. \A i, j, k \in D :
         Beats(hits[i], hits[j]) /\ Beats(hits[j], hits[k]) => Beats(hits[i], hits[k])
  BY <1>2 DEF Beats
<1>5. IsFiniteSet(D) /\ 1 \in D
  BY <1>1, FS_Interval
<1>6. family \subseteq FiniteSubsetsOf(D) /\ family # {}
  <2>1. \A i \in D : above(i) \in SUBSET D /\ IsFiniteSet(above(i))
    BY <1>5, FS_Subset
  <2>2. above(1) \in family BY <1>5
  <2> HIDE DEF above
  <2> QED BY <2>1, <2>2 DEF FiniteSubsetsOf
<1>7. PICK x \in family : \A y \in family : <<y, x>> \notin StrictSubsetOrdering(D)
  BY <1>6, FS_StrictSubsetOrderingWellFounded, WFMin
<1>8. PICK i \in D : x = above(i)
  BY <1>7
<1>9. above(i) = {}
  <2> SUFFICES ASSUME NEW j \in D, j \in above(i) PROVE FALSE
    OBVIOUS
  <2>1. above(j) \subseteq above(i) /\ j \notin above(j)
    BY <1>3, <1>4
  <2>2. above(j) \in family /\ above(j) \in SUBSET D /\ above(i) \in SUBSET D
    OBVIOUS
  <2> HIDE DEF above, family
  <2>3. <<above(j), above(i)>> \in StrictSubsetOrdering(D)
    BY <2>1, <2>2 DEF StrictSubsetOrdering
  <2> QED BY <2>2, <2>3, <1>7, <1>8
<1>10. best \in SUBSET Nat /\ best # {}
  <2>1. i \in best BY <1>9
  <2> QED BY <2>1
<1>11. Min(best) \in best
  BY <1>10, LeastNatural
<1>12. Survivor = hits[Min(best)]
  BY <1>1 DEF Survivor
<1> QED BY <1>1, <1>11, <1>12

\* The action applied ranks at least as high as every detection's ruleset.
THEOREM ActionOfTopDetector == MergeSpec => []TopDetectorDecides
<1>1. HitsInv /\ MergeInv => TopDetectorDecides
  <2> SUFFICES ASSUME HitsInv, MergeInv, stage = "acting"
               PROVE  /\ Survivor.type \in DOMAIN origin
                      /\ \A j \in DOMAIN hits :
                            RankOfAction(origin[Survivor.type])
                               >= RankOfAction(hits[j].ruleset)
    BY DEF TopDetectorDecides
  <2>1. PICK i \in DOMAIN hits :
           Survivor = hits[i] /\ \A j \in DOMAIN hits : ~Beats(hits[j], hits[i])
    BY SurvivorFacts DEF MergeInv
  <2> DEFINE r == hits[i].ruleset
             t == hits[i].type
  <2>2. /\ r \in Range(active) /\ t \in Types /\ t \in DOMAIN actions[r]
    <3> DEFINE S == [ruleset : Range(active), type : Types,
                     confidence : Confidences]
    <3>1. hits \in Seq(S) BY DEF HitsInv
    <3>2. hits[i] \in S
      <4> HIDE DEF S
      <4> QED BY <3>1, LenProperties, ElementOfSeq
    <3> QED BY <3>2 DEF HitsInv
  <2>3. r \in Configuring(t)
    BY <2>2 DEF Configuring
  <2>4. t \in DOMAIN origin /\ NoStronger(r, t)
    BY <2>2, <2>3, AllMerged
  <2>5. \A s : RankOfAction(s) \in Nat /\ RulesetRank(s, -1) =
                  IF RankOfAction(s) = 0 THEN -1 ELSE RankOfAction(s)
    BY Ranks
  <2>6. RankOfAction(origin[t]) >= RankOfAction(r)
    BY <2>4, <2>5 DEF NoStronger
  <2>7. \A j \in DOMAIN hits : RankOfAction(r) >= RankOfAction(hits[j].ruleset)
    BY <2>1, <2>5 DEF Beats, RankOfDetection
  <2> QED BY <2>1, <2>4, <2>5, <2>6, <2>7
<1> QED BY <1>1, AlwaysMergeInv, PTL

\* What is applied at a position follows from the rulesets, the ranks and what was
\* found there: not from the order of the rulesets, nor from a detection of lower
\* rank (get_merged_actions, _deduplicate).
THEOREM TopActionAlwaysApplied == MergeSpec => []TopActionApplied
<1>1. MergeIgnoresOrder /\ TopDetectorDecides => TopActionApplied
  BY DEF TopActionApplied
<1> QED BY <1>1, OrderIgnored, ActionOfTopDetector, PTL
=============================================================================
