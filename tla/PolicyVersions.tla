--------------------------- MODULE PolicyVersions ---------------------------
(***************************************************************************)
(* Versioned agent-security policies of one tenant:                        *)
(* engine/agent_security/policy_version_service.py over the table of       *)
(* policy_version_model.py.                                                *)
(*                                                                         *)
(* Requests run concurrently, each in its own transaction, and take no     *)
(* lock of their own: what they rely on is the row locks of their UPDATEs  *)
(* and the two unique indexes of the table (tenant, version) and (tenant)  *)
(* WHERE is_active.  An UPDATE ... WHERE picks its rows from the           *)
(* statement's snapshot, waits for whoever has changed them, then looks    *)
(* again whether they still qualify (READ COMMITTED); a unique index makes *)
(* a writer wait for an uncommitted entry and fail on a committed one.     *)
(* A row is its version number; its content plays no part here.            *)
(***************************************************************************)
EXTENDS Naturals, FiniteSets

CONSTANTS Sessions,    \* concurrent requests
          MaxVersion   \* bound: requests that would exceed it do not begin

ASSUME MaxVersionAssumption == MaxVersion \in Nat

VARIABLES rows,     \* committed versions
          active,   \* committed versions with is_active
          phase,    \* phase[s]: where the request is
          creates,  \* creates[s]: the request inserts a version
          draft,    \* draft[s]: ... and leaves it inactive
          version,  \* version[s]: the row the request inserts or activates
          snapshot, \* snapshot[s]: rows its supersede UPDATE picked
          off       \* off[s]: rows it has set inactive, uncommitted

requestVars == <<phase, creates, draft, version, snapshot, off>>
vars == <<rows, active, requestVars>>

Versions == 1..MaxVersion

\* Phases in which the request has nothing in the database yet, and after.
Phases == {"idle", "begun", "numbered", "supersede", "superseding",
           "activate", "activating", "ready"}

TypeOK ==
    /\ rows \subseteq Versions
    /\ active \subseteq rows
    /\ phase \in [Sessions -> Phases]
    /\ creates \in [Sessions -> BOOLEAN]
    /\ draft \in [Sessions -> BOOLEAN]
    /\ version \in [Sessions -> 0..MaxVersion]
    /\ snapshot \in [Sessions -> SUBSET Versions]
    /\ off \in [Sessions -> SUBSET Versions]

Init ==
    /\ rows = {}
    /\ active = {}
    /\ phase = [s \in Sessions |-> "idle"]
    /\ creates = [s \in Sessions |-> FALSE]
    /\ draft = [s \in Sessions |-> FALSE]
    /\ version = [s \in Sessions |-> 0]
    /\ snapshot = [s \in Sessions |-> {}]
    /\ off = [s \in Sessions |-> {}]

-----------------------------------------------------------------------------
(* What the database lets a request do.                                    *)

\* s has its new row in the table, uncommitted.
Inserted(s) ==
    creates[s] /\ phase[s] \in {"supersede", "superseding", "activate",
                                "activating", "ready"}

\* s has set its version active, uncommitted.
SetActive(s) == phase[s] = "ready" /\ ~draft[s]

\* Committed rows s has changed.
RowLocks(s) ==
    off[s] \union (IF phase[s] = "activating" \/ SetActive(s)
                   THEN {version[s]} ELSE {})

\* Active rows other than its own that s cannot replace, as nobody else is
\* about to set them inactive: the index on is_active rejects s.
IndexConflict(s) ==
    {w \in active \ (off[s] \union {version[s]}) :
        \A t \in Sessions \ {s} : w \notin off[t]}

\* The requests s must wait for.
Blockers(s) ==
    {t \in Sessions \ {s} :
        \/ phase[s] = "numbered" /\ Inserted(t) /\ version[t] = version[s]
        \/ phase[s] = "superseding" /\ RowLocks(t) \intersect snapshot[s] # {}
        \/ phase[s] = "activate" /\ version[s] \in RowLocks(t)
        \/ /\ phase[s] = "activating"
           /\ \/ SetActive(t)
              \/ off[t] \intersect active # {} }

Blocked(s) == Blockers(s) # {}

\* s belongs to a set of requests each of which waits for another of the set.
Deadlocked(s) ==
    \E group \in SUBSET Sessions :
        /\ s \in group
        /\ \A t \in group : Blockers(t) \intersect group # {}

-----------------------------------------------------------------------------
(* The requests.                                                           *)

Creating == {s \in Sessions : creates[s] /\ phase[s] # "idle"}

Begin(s, creating, as_draft, v, next_phase) ==
    /\ phase[s] = "idle"
    /\ creating => Cardinality(rows) + Cardinality(Creating) < MaxVersion
    /\ phase' = [phase EXCEPT ![s] = next_phase]
    /\ creates' = [creates EXCEPT ![s] = creating]
    /\ draft' = [draft EXCEPT ![s] = as_draft]
    /\ version' = [version EXCEPT ![s] = v]
    /\ UNCHANGED <<rows, active, snapshot, off>>

\* create_policy_version(activate_immediately = ~as_draft).
create_policy_version(s, as_draft) == Begin(s, TRUE, as_draft, 0, "begun")

\* get_active_policy finds no active version and seeds one from the legacy
\* policy.
seed_active_policy(s) ==
    /\ active = {}
    /\ Begin(s, TRUE, FALSE, 0, "begun")

\* rollback_to_version: a copy of an inactive version becomes the newest one.
rollback_to_version(s) ==
    /\ rows \ active # {}
    /\ Begin(s, TRUE, FALSE, 0, "begun")

\* activate_policy_version: returns at once if the version is active.
activate_policy_version(s, v) ==
    /\ v \in rows \ active
    /\ Begin(s, FALSE, FALSE, v, "supersede")

\* Variant: versions other requests are inserting are counted too, as a
\* sequence would.
IsNextVersion_reserved(n) ==
    LET taken == rows \union {version[t] : t \in {u \in Sessions : Inserted(u)}}
    IN  (\A r \in taken : r < n) /\ (n = 1 \/ n - 1 \in taken)

\* get_next_version_number: (max(version) or 0) + 1 of the committed rows.
IsNextVersion(n) ==
    /\ \A r \in rows : r < n
    /\ n = 1 \/ n - 1 \in rows

NumberVersion(s) ==
    /\ phase[s] = "begun"
    /\ \E n \in Versions :
          /\ IsNextVersion(n)
          /\ version' = [version EXCEPT ![s] = n]
    /\ phase' = [phase EXCEPT ![s] = "numbered"]
    /\ UNCHANGED <<rows, active, creates, draft, snapshot, off>>

\* Flush of the new row, inactive.
Insert(s) ==
    /\ phase[s] = "numbered"
    /\ ~Blocked(s)
    /\ version[s] \notin rows
    /\ phase' = [phase EXCEPT ![s] = IF draft[s] THEN "ready" ELSE "supersede"]
    /\ UNCHANGED <<rows, active, creates, draft, version, snapshot, off>>

\* _activate_version, first UPDATE: the statement takes its snapshot ...
SupersedeStarts(s) ==
    /\ phase[s] = "supersede"
    /\ snapshot' = [snapshot EXCEPT ![s] = active]
    /\ phase' = [phase EXCEPT ![s] = "superseding"]
    /\ UNCHANGED <<rows, active, creates, draft, version, off>>

\* ... and, once nobody else has changed its rows, updates the ones that are
\* still active.
SupersedeEnds(s) ==
    /\ phase[s] = "superseding"
    /\ ~Blocked(s)
    /\ off' = [off EXCEPT ![s] = snapshot[s] \intersect active]
    /\ phase' = [phase EXCEPT ![s] = "activate"]
    /\ UNCHANGED <<rows, active, creates, draft, version, snapshot>>

\* Second UPDATE: lock the row to activate ...
LockVersion(s) ==
    /\ phase[s] = "activate"
    /\ ~Blocked(s)
    /\ phase' = [phase EXCEPT ![s] = "activating"]
    /\ UNCHANGED <<rows, active, creates, draft, version, snapshot, off>>

\* ... and enter it in the index of active rows.
SetVersionActive(s) ==
    /\ phase[s] = "activating"
    /\ ~Blocked(s)
    /\ IndexConflict(s) = {}
    /\ phase' = [phase EXCEPT ![s] = "ready"]
    /\ UNCHANGED <<rows, active, creates, draft, version, snapshot, off>>

Commit(s) ==
    /\ phase[s] = "ready"
    /\ rows' = IF creates[s] THEN rows \union {version[s]} ELSE rows
    /\ active' = (active \ off[s])
                    \union (IF SetActive(s) THEN {version[s]} ELSE {})
    /\ phase' = [phase EXCEPT ![s] = "idle"]
    /\ snapshot' = [snapshot EXCEPT ![s] = {}]
    /\ off' = [off EXCEPT ![s] = {}]
    /\ UNCHANGED <<creates, draft, version>>

\* The transaction is rolled back.
End(s) ==
    /\ phase' = [phase EXCEPT ![s] = "idle"]
    /\ snapshot' = [snapshot EXCEPT ![s] = {}]
    /\ off' = [off EXCEPT ![s] = {}]
    /\ UNCHANGED <<rows, active, creates, draft, version>>

\* IntegrityError from one of the two unique indexes: the request fails.
UniqueViolation(s) ==
    /\ \/ phase[s] = "numbered" /\ ~Blocked(s) /\ version[s] \in rows
       \/ phase[s] = "activating" /\ ~Blocked(s) /\ IndexConflict(s) # {}
    /\ End(s)

\* Variant: lock waits are unbounded and deadlocks go unnoticed.
DeadlockDetected_never(s) == phase[s] = "waiting" /\ End(s)

\* The database ends a deadlock by failing one of its members.
DeadlockDetected(s) == Deadlocked(s) /\ End(s)

\* Any other failure: a lost connection, a crash of the process.
Fail(s) == phase[s] # "idle" /\ End(s)

Progress(s) ==
    \/ NumberVersion(s) \/ Insert(s)
    \/ SupersedeStarts(s) \/ SupersedeEnds(s)
    \/ LockVersion(s) \/ SetVersionActive(s)
    \/ Commit(s) \/ UniqueViolation(s)

Next == \E s \in Sessions :
            \/ \E as_draft \in BOOLEAN : create_policy_version(s, as_draft)
            \/ seed_active_policy(s)
            \/ rollback_to_version(s)
            \/ \E v \in Versions : activate_policy_version(s, v)
            \/ Progress(s)
            \/ DeadlockDetected(s)
            \/ Fail(s)

Spec == Init /\ [][Next]_vars

\* A request that can go on does; one that waits is woken whenever its lock
\* is released, and the database queues waiters, so it is not overtaken for
\* ever: strong fairness.  The database looks for deadlocks (deadlock_timeout).
\* No fairness on new requests or on failures.
FairSpec ==
    Spec /\ \A s \in Sessions :
               SF_vars(Progress(s)) /\ WF_vars(DeadlockDetected(s))

-----------------------------------------------------------------------------
(* Properties.                                                             *)

\* Two requests that publish, activate or roll back at the same time never
\* leave two versions in force (_activate_version and the partial index).
AtMostOneActive == \A v, w \in active : v = w

\* The committed versions are 1, 2, ..., n: concurrent publishers and failed
\* requests leave neither a gap nor a duplicate (get_next_version_number).
LinearHistory == rows = 1..Cardinality(rows)

\* A tenant with a policy in force has one ever after: superseding the old
\* version and activating the new one take effect together.
NeverWithoutPolicy == [][active # {} => active' # {}]_vars

\* The service implements the register of PolicyRegister.
Register == INSTANCE PolicyRegister
    WITH count <- Cardinality(rows),
         current <- IF active = {} THEN 0 ELSE CHOOSE v \in active : TRUE
ImplementsRegister == Register!Spec

\* Every request ends, by a commit or by an error: none waits for ever on a
\* lock or on an index entry of another.
RequestsEnd == \A s \in Sessions : phase[s] # "idle" ~> phase[s] = "idle"
=============================================================================
