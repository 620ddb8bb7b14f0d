------------------------- MODULE PolicyVersionsProofs -------------------------
(* What holds of versioned policies for any number of concurrent requests  *)
(* and versions, up to the implementation of PolicyRegister.               *)
EXTENDS PolicyVersions, FiniteSetTheorems, TLAPS

\* The committed versions are 1, ..., n.
History == \E n \in Nat : rows = 1..n

\* A request that is to activate a version that exists works on a row of the
\* table; one that inserts has numbered it after the last row, or has been
\* overtaken; it stays the only one to have inserted.
NumberInv ==
    /\ \A s \in Sessions :
          ~creates[s] /\ phase[s] # "idle"
              => /\ version[s] \in rows
                 /\ phase[s] \notin {"begun", "numbered"}
                 /\ ~draft[s]
    /\ \A s \in Sessions :
          phase[s] = "numbered"
              => /\ version[s] \in Versions
                 /\ version[s] \in rows \/ IsNextVersion(version[s])
    /\ \A s \in Sessions :
          Inserted(s) => version[s] \in Versions /\ IsNextVersion(version[s])
    /\ \A s, t \in Sessions : Inserted(s) /\ Inserted(t) => s = t

\* Rows are set inactive only on the way to an activation.
OffInv ==
    \A s \in Sessions :
        /\ phase[s] \in {"idle", "begun", "numbered", "supersede", "superseding"}
              => off[s] = {}
        /\ draft[s] /\ phase[s] = "ready" => off[s] = {}
        /\ draft[s] => phase[s] \notin {"supersede", "superseding", "activate",
                                        "activating"}

\* One request at a time has an uncommitted active version, and it has set
\* every other active version inactive.
ActiveInv ==
    /\ \A s, t \in Sessions : SetActive(s) /\ SetActive(t) => s = t
    /\ \A s \in Sessions : SetActive(s) => active \ off[s] \subseteq {version[s]}

IInv ==
    TypeOK /\ History /\ NumberInv /\ OffInv /\ ActiveInv /\ AtMostOneActive

-----------------------------------------------------------------------------
\* In a linear history there is one next version.
LEMMA NextVersionUnique ==
    ASSUME History, NEW v \in Nat, NEW w \in Nat,
           v > 0, w > 0, IsNextVersion(v), IsNextVersion(w)
    PROVE  v = w
<1>1. PICK n \in Nat : rows = 1..n BY DEF History
<1> QED BY <1>1 DEF IsNextVersion

\* The next version extends a linear history.
LEMMA NextVersionExtends ==
    ASSUME NEW n \in Nat, rows = 1..n, NEW v \in Nat, v > 0, IsNextVersion(v)
    PROVE  v = n + 1 /\ rows \union {v} = 1..(n + 1)
<1>1. v = n + 1 BY DEF IsNextVersion
<1> QED BY <1>1

\* The table is empty and nobody is doing anything at first.
LEMMA InitEstablishes == Init => IInv
<1> SUFFICES ASSUME Init PROVE IInv OBVIOUS
<1>1. TypeOK BY MaxVersionAssumption DEF Init, TypeOK, Phases, Versions
<1>2. History
  <2>1. rows = 1..0 BY DEF Init
  <2> QED BY <2>1 DEF History
<1>3. NumberInv BY DEF Init, NumberInv, Inserted
<1>4. OffInv BY DEF Init, OffInv
<1>5. ActiveInv /\ AtMostOneActive
  BY DEF Init, ActiveInv, SetActive, AtMostOneActive
<1> QED BY <1>1, <1>2, <1>3, <1>4, <1>5 DEF IInv

\* A request begins: with a version of the table, or with none yet.
LEMMA BeginPreserves ==
    ASSUME IInv, NEW s \in Sessions, NEW creating \in BOOLEAN,
           NEW as_draft \in BOOLEAN, NEW v \in 0..MaxVersion, NEW next_phase,
           Begin(s, creating, as_draft, v, next_phase),
           \/ creating /\ next_phase = "begun"
           \/ ~creating /\ ~as_draft /\ v \in rows /\ next_phase = "supersede"
    PROVE  IInv'
<1> USE DEF IInv
<1>1. TypeOK' BY DEF TypeOK, Begin, Phases
<1>2. History' BY DEF History, Begin
<1>3. NumberInv' BY DEF TypeOK, NumberInv, Begin, Inserted, IsNextVersion
<1>4. OffInv' BY DEF TypeOK, OffInv, Begin
<1>5. ActiveInv' BY DEF TypeOK, ActiveInv, Begin, SetActive
<1>6. AtMostOneActive' BY DEF AtMostOneActive, Begin
<1> QED BY <1>1, <1>2, <1>3, <1>4, <1>5, <1>6

\* get_next_version_number reads the committed rows.
LEMMA NumberPreserves ==
    ASSUME IInv, NEW s \in Sessions, NumberVersion(s)
    PROVE  IInv'
<1> USE DEF IInv
<1>1. PICK n \in Versions : /\ IsNextVersion(n)
                            /\ version' = [version EXCEPT ![s] = n]
  BY DEF NumberVersion
<1>2. TypeOK'
  BY <1>1, MaxVersionAssumption DEF TypeOK, NumberVersion, Phases, Versions
<1>3. History' BY DEF History, NumberVersion
<1>4. NumberInv'
  BY <1>1 DEF TypeOK, NumberInv, NumberVersion, Inserted, IsNextVersion
<1>5. OffInv' BY DEF TypeOK, OffInv, NumberVersion
<1>6. ActiveInv' BY <1>1 DEF TypeOK, ActiveInv, NumberVersion, SetActive
<1>7. AtMostOneActive' BY DEF AtMostOneActive, NumberVersion
<1> QED BY <1>2, <1>3, <1>4, <1>5, <1>6, <1>7

\* The flush of the row waits for whoever inserted the same version.
LEMMA InsertPreserves ==
    ASSUME IInv, NEW s \in Sessions, Insert(s)
    PROVE  IInv'
<1> USE DEF IInv
<1>1. creates[s] /\ version[s] \in Versions /\ IsNextVersion(version[s])
  BY DEF Insert, NumberInv
<1>2. \A t \in Sessions : ~Inserted(t)
  <2> SUFFICES ASSUME NEW t \in Sessions, Inserted(t) PROVE FALSE OBVIOUS
  <2>1. t # s BY DEF Insert, Inserted
  <2>2. version[t] = version[s]
    BY <1>1, NextVersionUnique DEF NumberInv, Versions
  <2> QED BY <2>1, <2>2 DEF Insert, Blocked, Blockers
<1>3. TypeOK' BY DEF TypeOK, Insert, Phases
<1>4. History' BY DEF History, Insert
<1>5. \A t \in Sessions : t # s => Inserted(t)' = Inserted(t)
  BY DEF TypeOK, Insert, Inserted
<1>6. NumberInv'
  BY <1>1, <1>2, <1>5 DEF TypeOK, NumberInv, Insert, IsNextVersion, Versions
<1>7. OffInv' BY DEF TypeOK, OffInv, Insert
<1>8. ActiveInv' BY DEF TypeOK, ActiveInv, Insert, SetActive
<1>9. AtMostOneActive' BY DEF AtMostOneActive, Insert
<1> QED BY <1>3, <1>4, <1>6, <1>7, <1>8, <1>9

\* The statements of _activate_version before the index entry.
LEMMA SupersedePreserves ==
    ASSUME IInv, NEW s \in Sessions,
           SupersedeStarts(s) \/ SupersedeEnds(s) \/ LockVersion(s)
    PROVE  IInv'
<1> USE DEF IInv
<1>1. UNCHANGED <<rows, active, creates, draft, version>>
  BY DEF SupersedeStarts, SupersedeEnds, LockVersion
<1>2. TypeOK'
  <2>1. active \subseteq Versions BY DEF TypeOK
  <2> QED BY <2>1 DEF TypeOK, SupersedeStarts, SupersedeEnds, LockVersion, Phases
<1>3. History' BY <1>1 DEF History
<1>4. /\ \A t \in Sessions : Inserted(t)' = Inserted(t)
      /\ \A t \in Sessions : SetActive(t)' = SetActive(t)
  BY DEF TypeOK, SupersedeStarts, SupersedeEnds, LockVersion, Inserted, SetActive
<1>5. NumberInv'
  BY <1>1, <1>4 DEF TypeOK, NumberInv, SupersedeStarts, SupersedeEnds,
                    LockVersion, IsNextVersion
<1>6. OffInv'
  BY DEF TypeOK, OffInv, SupersedeStarts, SupersedeEnds, LockVersion
<1>7. \A t \in Sessions : SetActive(t) => off'[t] = off[t]
  BY DEF TypeOK, SupersedeStarts, SupersedeEnds, LockVersion, SetActive
<1>8. ActiveInv' BY <1>1, <1>4, <1>7 DEF ActiveInv
<1>9. AtMostOneActive' BY <1>1 DEF AtMostOneActive
<1> QED BY <1>2, <1>3, <1>5, <1>6, <1>8, <1>9

\* The index entry: nobody else has one uncommitted, and every other active
\* row is one that this request has set inactive.
LEMMA SetVersionActivePreserves ==
    ASSUME IInv, NEW s \in Sessions, SetVersionActive(s)
    PROVE  IInv'
<1> USE DEF IInv
<1>1. \A t \in Sessions \ {s} : ~SetActive(t) /\ off[t] \intersect active = {}
  BY DEF SetVersionActive, Blocked, Blockers
<1>2. active \ off[s] \subseteq {version[s]}
  BY <1>1 DEF SetVersionActive, IndexConflict
<1>3. TypeOK' BY DEF TypeOK, SetVersionActive, Phases
<1>4. History' BY DEF History, SetVersionActive
<1>5. \A t \in Sessions : Inserted(t)' = Inserted(t)
  BY DEF TypeOK, SetVersionActive, Inserted
<1>6. NumberInv'
  BY <1>5 DEF TypeOK, NumberInv, SetVersionActive, IsNextVersion
<1>7. OffInv' BY DEF TypeOK, OffInv, SetVersionActive
<1>8. \A t \in Sessions : SetActive(t)' => t = s
  BY <1>1 DEF TypeOK, SetVersionActive, SetActive
<1>9. ActiveInv' BY <1>2, <1>8 DEF TypeOK, ActiveInv, SetVersionActive
<1>10. AtMostOneActive' BY DEF AtMostOneActive, SetVersionActive
<1> QED BY <1>3, <1>4, <1>6, <1>7, <1>9, <1>10

\* What a commit does to the history: it grows by the next version, or not.
LEMMA CommitExtends ==
    ASSUME IInv, NEW s \in Sessions, Commit(s), NEW n \in Nat, rows = 1..n
    PROVE  /\ rows' = IF creates[s] THEN 1..(n + 1) ELSE 1..n
           /\ version[s] \in rows'
           /\ creates[s] => version[s] = n + 1
<1>1. CASE creates[s]
  <2>1. version[s] \in Nat /\ version[s] > 0 /\ IsNextVersion(version[s])
    BY <1>1 DEF IInv, NumberInv, Commit, Inserted, Versions
  <2> QED BY <1>1, <2>1, NextVersionExtends DEF Commit
<1>2. CASE ~creates[s]
  BY <1>2 DEF IInv, NumberInv, Commit
<1> QED BY <1>1, <1>2

\* A commit publishes the row, and puts it in force unless it is a draft.
LEMMA CommitPreserves ==
    ASSUME IInv, NEW s \in Sessions, Commit(s)
    PROVE  IInv'
<1> USE DEF IInv
<1>1. PICK n \in Nat : rows = 1..n BY DEF History
<1>2. /\ rows' = IF creates[s] THEN 1..(n + 1) ELSE 1..n
      /\ version[s] \in rows'
      /\ creates[s] => version[s] = n + 1
  BY <1>1, CommitExtends
<1>3. active' = (active \ off[s]) \union (IF SetActive(s) THEN {version[s]} ELSE {})
  BY DEF Commit
<1>4. ~SetActive(s) => off[s] = {}
  BY DEF Commit, SetActive, OffInv, TypeOK
<1>5. TypeOK'
  <2>1. creates[s] => version[s] \in Versions
    BY DEF Commit, NumberInv, Inserted
  <2>2. rows' \subseteq Versions BY <2>1 DEF TypeOK, Commit
  <2>3. active' \subseteq rows' BY <1>2, <1>3 DEF TypeOK, Commit
  <2> QED BY <2>2, <2>3 DEF TypeOK, Commit, Phases
<1>6. History' BY <1>2 DEF History
<1>7. NumberInv'
  <2>1. rows \subseteq rows' BY DEF Commit
  <2>2. \A t \in Sessions : Inserted(t)' => Inserted(t) /\ t # s /\ ~creates[s]
    BY DEF TypeOK, Commit, Inserted, NumberInv
  <2>3. ASSUME NEW t \in Sessions, phase'[t] = "numbered"
        PROVE  version'[t] \in rows' \/ IsNextVersion(version[t])'
    <3>1. phase[t] = "numbered" /\ version[t] \in Versions /\ version' = version
      BY <2>3 DEF TypeOK, Commit, NumberInv
    <3>2. CASE version[t] \in rows BY <2>1, <3>1, <3>2
    <3>3. CASE IsNextVersion(version[t]) /\ creates[s]
      BY <1>1, <1>2, <3>1, <3>3, NextVersionExtends DEF Versions
    <3>4. CASE IsNextVersion(version[t]) /\ ~creates[s]
      BY <3>1, <3>4 DEF Commit, IsNextVersion
    <3> QED BY <3>1, <3>2, <3>3, <3>4 DEF NumberInv
  <2>4. \A t \in Sessions : Inserted(t)' => IsNextVersion(version[t])'
    BY <2>2 DEF NumberInv, Commit, IsNextVersion
  <2> QED BY <2>1, <2>2, <2>3, <2>4 DEF TypeOK, NumberInv, Commit
<1>8. OffInv' BY DEF TypeOK, OffInv, Commit
<1>9. \A t \in Sessions : SetActive(t)' => SetActive(t) /\ t # s
  BY DEF TypeOK, Commit, SetActive
<1>10. ActiveInv'
  <2>1. ASSUME NEW t \in Sessions, SetActive(t)'
        PROVE  (active \ off[t] \subseteq {version[t]})'
    <3>1. ~SetActive(s) BY <1>9, <2>1 DEF ActiveInv
    <3>2. active' = active BY <1>3, <1>4, <3>1
    <3> QED BY <1>9, <2>1, <3>2 DEF ActiveInv, Commit, TypeOK
  <2> QED BY <1>9, <2>1 DEF ActiveInv
<1>11. AtMostOneActive'
  BY <1>3, <1>4 DEF ActiveInv, AtMostOneActive
<1> QED BY <1>5, <1>6, <1>7, <1>8, <1>10, <1>11

\* A rollback, whatever the reason, leaves the table as it was.
LEMMA EndPreserves ==
    ASSUME IInv, NEW s \in Sessions, End(s)
    PROVE  IInv'
<1> USE DEF IInv
<1>1. TypeOK' BY DEF TypeOK, End, Phases
<1>2. History' BY DEF History, End
<1>3. NumberInv' BY DEF TypeOK, NumberInv, End, Inserted, IsNextVersion
<1>4. OffInv' BY DEF TypeOK, OffInv, End
<1>5. ActiveInv' BY DEF TypeOK, ActiveInv, End, SetActive
<1>6. AtMostOneActive' BY DEF AtMostOneActive, End
<1> QED BY <1>1, <1>2, <1>3, <1>4, <1>5, <1>6

-----------------------------------------------------------------------------
\* What a request can do, once more by the lemma that covers it.
LEMMA NextCases ==
    ASSUME TypeOK, Next
    PROVE  \E s \in Sessions :
              \/ \E creating, as_draft \in BOOLEAN, v \in 0..MaxVersion,
                    next_phase \in {"begun", "supersede"} :
                    /\ Begin(s, creating, as_draft, v, next_phase)
                    /\ \/ creating /\ next_phase = "begun"
                       \/ /\ ~creating /\ ~as_draft /\ v \in rows
                          /\ next_phase = "supersede"
              \/ NumberVersion(s) \/ Insert(s) \/ SetVersionActive(s)
              \/ SupersedeStarts(s) \/ SupersedeEnds(s) \/ LockVersion(s)
              \/ Commit(s) \/ End(s)
<1>1. PICK s \in Sessions :
         \/ \E as_draft \in BOOLEAN : create_policy_version(s, as_draft)
         \/ seed_active_policy(s) \/ rollback_to_version(s)
         \/ \E v \in Versions : activate_policy_version(s, v)
         \/ Progress(s) \/ DeadlockDetected(s) \/ Fail(s)
  BY DEF Next
<1>2. 0 \in 0..MaxVersion /\ Versions \subseteq 0..MaxVersion
  BY MaxVersionAssumption DEF Versions
<1>3. CASE \/ \E as_draft \in BOOLEAN : create_policy_version(s, as_draft)
           \/ seed_active_policy(s) \/ rollback_to_version(s)
  <2>1. PICK as_draft \in BOOLEAN : Begin(s, TRUE, as_draft, 0, "begun")
    BY <1>3 DEF create_policy_version, seed_active_policy, rollback_to_version
  <2> QED BY <1>2, <2>1
<1>4. CASE \E v \in Versions : activate_policy_version(s, v)
  <2>1. PICK v \in Versions : v \in rows /\ Begin(s, FALSE, FALSE, v, "supersede")
    BY <1>4 DEF activate_policy_version
  <2> QED BY <1>2, <2>1
<1>5. CASE Progress(s) \/ DeadlockDetected(s) \/ Fail(s)
  BY <1>5 DEF Progress, UniqueViolation, DeadlockDetected, Fail
<1> QED BY <1>1, <1>3, <1>4, <1>5

\* IInv is inductive.
LEMMA StepPreserves == IInv /\ [Next]_vars => IInv'
<1> SUFFICES ASSUME IInv, [Next]_vars PROVE IInv' OBVIOUS
<1>1. CASE Next
  <2> TypeOK BY DEF IInv
  <2> QED
    BY <1>1, NextCases, BeginPreserves, NumberPreserves, InsertPreserves,
       SupersedePreserves, SetVersionActivePreserves, CommitPreserves, EndPreserves
<1>2. CASE UNCHANGED vars
  BY <1>2 DEF vars, requestVars, IInv, TypeOK, History, NumberInv, OffInv,
              ActiveInv, AtMostOneActive, Inserted, SetActive, IsNextVersion
<1> QED BY <1>1, <1>2

\* The inductive invariant holds in every reachable state.
LEMMA AlwaysIInv == Spec => []IInv
  BY InitEstablishes, StepPreserves, PTL DEF Spec

-----------------------------------------------------------------------------
\* Type correctness for any number of concurrent requests.
THEOREM TypeCorrect == Spec => []TypeOK
  BY AlwaysIInv, PTL DEF IInv

\* However many requests publish, activate and roll back at once, at most one
\* version is in force.
THEOREM OneVersionInForce == Spec => []AtMostOneActive
  BY AlwaysIInv, PTL DEF IInv

\* The number of versions of a linear history is its last one.
LEMMA HistoryCardinality ==
    ASSUME NEW n \in Nat
    PROVE  IsFiniteSet(1..n) /\ Cardinality(1..n) = n
<1>1. 1 \in Int /\ n \in Int OBVIOUS
<1>2. IsFiniteSet(1..n) /\ Cardinality(1..n) = IF 1 > n THEN 0 ELSE n - 1 + 1
  BY <1>1, FS_Interval
<1> QED BY <1>2

\* The committed versions are 1, ..., n, whatever fails and whoever waits.
THEOREM HistoryIsLinear == Spec => []LinearHistory
<1>1. IInv => LinearHistory
  BY HistoryCardinality DEF IInv, History, LinearHistory
<1> QED BY <1>1, AlwaysIInv, PTL

\* A committed activation replaces the policy in force, it never removes it.
THEOREM PolicyNeverLost == Spec => NeverWithoutPolicy
<1>1. IInv /\ [Next]_vars => [active # {} => active' # {}]_vars
  <2> SUFFICES ASSUME IInv, Next, active # {} PROVE active' # {}
    BY DEF vars
  <2>1. ASSUME NEW s \in Sessions, Commit(s) PROVE active' # {}
    BY <2>1 DEF Commit, SetActive, IInv, OffInv, TypeOK
  <2>2. active' = active \/ \E s \in Sessions : Commit(s)
    BY NextCases
    DEF IInv, Begin, NumberVersion, Insert, SetVersionActive, SupersedeStarts,
        SupersedeEnds, LockVersion, End
  <2> QED BY <2>1, <2>2
<1> QED BY <1>1, AlwaysIInv, PTL DEF Spec, NeverWithoutPolicy

-----------------------------------------------------------------------------
(* The refinement.                                                         *)

\* What the register's current version is mapped to.
Current == IF active = {} THEN 0 ELSE CHOOSE v \in active : TRUE

\* A commit is a step of the register, or changes nothing in it.
LEMMA CommitImplements ==
    ASSUME IInv, IInv', NEW s \in Sessions, Commit(s)
    PROVE  [Register!Next]_<<Cardinality(rows), Current>>
<1>1. PICK n \in Nat : rows = 1..n BY DEF IInv, History
<1>2. /\ rows' = IF creates[s] THEN 1..(n + 1) ELSE 1..n
      /\ version[s] \in rows'
      /\ creates[s] => version[s] = n + 1
  BY <1>1, CommitExtends
<1>3. /\ Cardinality(rows) = n
      /\ Cardinality(rows)' = IF creates[s] THEN n + 1 ELSE n
  BY <1>1, <1>2, HistoryCardinality
<1>4. CASE SetActive(s)
  <2>1. version[s] \in active' BY <1>4 DEF Commit
  <2>2. Current' = version[s]
    BY <2>1 DEF IInv, AtMostOneActive, Current
  <2>3. CASE creates[s]
    BY <1>2, <1>3, <2>2, <2>3 DEF Register!Next, Register!Publish, Current
  <2>4. CASE ~creates[s]
    BY <1>2, <1>3, <2>2, <2>4 DEF Register!Next, Register!Activate, Current
  <2> QED BY <2>3, <2>4
<1>5. CASE ~SetActive(s)
  <2>1. off[s] = {} BY <1>5 DEF Commit, SetActive, IInv, OffInv, TypeOK
  <2>2. active' = active BY <1>5, <2>1 DEF Commit
  <2>3. Current' = Current BY <2>2 DEF Current
  <2>4. CASE creates[s]
    BY <1>3, <2>3, <2>4 DEF Register!Next, Register!Publish, Current
  <2>5. CASE ~creates[s] BY <1>3, <2>3, <2>5
  <2> QED BY <2>4, <2>5
<1> QED BY <1>4, <1>5

\* The service implements the register: its history grows by one version at a
\* time and the version in force is always a published one.
THEOREM RegisterImplemented == Spec => ImplementsRegister
<1>1. Init => Register!Init
  BY FS_EmptySet DEF Init, Register!Init
<1>2. IInv /\ IInv' /\ [Next]_vars => [Register!Next]_(Register!vars)
  <2> SUFFICES ASSUME IInv, IInv', [Next]_vars
               PROVE  [Register!Next]_(Register!vars)
    OBVIOUS
  <2>1. ASSUME NEW s \in Sessions, Commit(s)
        PROVE  [Register!Next]_(Register!vars)
    BY <2>1, CommitImplements DEF Register!vars, Current
  <2>2. \/ rows' = rows /\ active' = active
        \/ \E s \in Sessions : Commit(s)
    BY NextCases
    DEF IInv, Begin, NumberVersion, Insert, SetVersionActive, SupersedeStarts,
        SupersedeEnds, LockVersion, End, vars
  <2>3. CASE rows' = rows /\ active' = active
    BY <2>3 DEF Register!vars
  <2> QED BY <2>1, <2>2, <2>3
<1> QED BY <1>1, <1>2, AlwaysIInv, PTL DEF Spec, ImplementsRegister, Register!Spec
=============================================================================
