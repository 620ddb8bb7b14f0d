----------------------------- MODULE AuditChain -----------------------------
(***************************************************************************)
(* The signed audit trail: engine/audit/logger.py and signer.py.           *)
(*                                                                         *)
(* Every event of the engine (proxy request, decision, policy change,      *)
(* tenant deletion) is appended by AuditLogger.log_request inside the      *)
(* database session of its caller.  A call reads the newest row it can     *)
(* see (_get_last_entry_hash), signs the new entry together with the hash  *)
(* of that row, and INSERTs it (flush).  The caller commits or rolls back  *)
(* later.  Nothing serialises two sessions, so their reads, inserts and    *)
(* commits interleave freely; the database gives each session READ         *)
(* COMMITTED visibility and an id from a sequence, never reused.           *)
(*                                                                         *)
(* Abstractions.  A row's hash, SHA-256 of its entry_id and signature, is  *)
(* injective, so it is represented by the row's id; the signature, an HMAC *)
(* of some of the columns and prev_entry_hash, is the record of what it    *)
(* covers.  The columns it covers, the chain's own aside, are one "body";  *)
(* those it leaves out (the token counts, model, created_at) one "usage".  *)
(***************************************************************************)
EXTENDS Naturals, FiniteSets

CONSTANTS Sessions,   \* database sessions that write audit entries
          Bodies,     \* contents of an entry's signed columns
          Usages,     \* contents of its unsigned columns
          MaxId,      \* bound: the id sequence stops here
          Limit       \* the argument of verify_chain_integrity

ASSUME MaxIdAssumption == MaxId \in Nat
ASSUME LimitAssumption == Limit \in Nat \ {0}

VARIABLES audit_log,   \* committed rows
          next_id,     \* value the id sequence hands out next
          pending,     \* pending[s]: rows flushed by s and not yet committed
          phase,       \* phase[s]: "idle", "read" (tail known), "flushed"
          tail,        \* tail[s]: hash s read as the newest entry's
          overlapped   \* history: two sessions were in flight at once

vars == <<audit_log, next_id, pending, phase, tail, overlapped>>

\* prev_entry_hash of the first entry (None in the code); ids start at 1.
Genesis == 0

Signature == [body : Bodies, prev : Nat]
Entry ==
    [id : Nat \ {0}, body : Bodies, usage : Usages, prev : Nat, sig : Signature]

TypeOK ==
    /\ audit_log \subseteq Entry
    /\ next_id \in Nat \ {0}
    /\ pending \in [Sessions -> SUBSET Entry]
    /\ phase \in [Sessions -> {"idle", "read", "flushed"}]
    /\ tail \in [Sessions -> Nat]
    /\ overlapped \in BOOLEAN

-----------------------------------------------------------------------------
(* Signing, chaining and verification.                                     *)

\* Variant: the signature covers the link and leaves the body out.
sign_entry_link(body, prev) == [prev |-> prev]

\* AuditSigner.sign_entry: its payload holds the body and the link, and no
\* column of the usage.
sign_entry(body, prev) == [body |-> body, prev |-> prev]

\* h is the hash of the newest row of rows (ORDER BY id DESC LIMIT 1).
IsLastHash(h, rows) ==
    \/ rows = {} /\ h = Genesis
    \/ \E r \in rows : h = r.id /\ \A x \in rows : x.id <= r.id

OlderThan(e, rows) == {x \in rows : x.id < e.id}

\* Variant: the first entry of what is verified is not checked for a link, as
\* when verification starts anywhere in the log.
LinkVerifies_skip_first(e, rows) ==
    OlderThan(e, rows) = {} \/ IsLastHash(e.prev, OlderThan(e, rows))

\* AuditSigner.verify_chain on rows taken in id order: each entry carries the
\* hash of the entry before it and a signature that recomputes.
LinkVerifies(e, rows) == IsLastHash(e.prev, OlderThan(e, rows))
verify_chain(rows) ==
    \A e \in rows : /\ LinkVerifies(e, rows)
                    /\ e.sig = sign_entry(e.body, e.prev)

\* The rows verify_chain_integrity(Limit) reads: ORDER BY id ASC LIMIT.
VerifiedWindow(rows) ==
    {e \in rows : Cardinality(OlderThan(e, rows)) < Limit}

verify_chain_integrity(rows) == verify_chain(VerifiedWindow(rows))

-----------------------------------------------------------------------------
Init ==
    /\ audit_log = {}
    /\ next_id = 1
    /\ pending = [s \in Sessions |-> {}]
    /\ phase = [s \in Sessions |-> "idle"]
    /\ tail = [s \in Sessions |-> Genesis]
    /\ overlapped = FALSE

\* Variants: uncommitted rows of others are read; the session's own flushed
\* rows are not.
Visible_dirty(s) == audit_log \union UNION {pending[t] : t \in Sessions}
Visible_committed(s) == audit_log

\* READ COMMITTED: what others committed and what the session itself wrote.
Visible(s) == audit_log \union pending[s]

InFlight(s) == phase[s] # "idle"

\* _get_last_entry_hash, the first await of log_request.  A session may log
\* several entries before its caller commits.
ReadTail(s) ==
    /\ phase[s] \in {"idle", "flushed"}
    /\ \E h \in {Genesis} \union {r.id : r \in Visible(s)} :
          /\ IsLastHash(h, Visible(s))
          /\ tail' = [tail EXCEPT ![s] = h]
    /\ phase' = [phase EXCEPT ![s] = "read"]
    /\ overlapped' = (overlapped \/ \E t \in Sessions \ {s} : InFlight(t))
    /\ UNCHANGED <<audit_log, next_id, pending>>

\* Sign and INSERT: the rest of log_request.
Append(s, body, usage) ==
    /\ phase[s] = "read"
    /\ next_id <= MaxId
    /\ LET entry == [id    |-> next_id,
                     body  |-> body,
                     usage |-> usage,
                     prev  |-> tail[s],
                     sig   |-> sign_entry(body, tail[s])]
       IN  pending' = [pending EXCEPT ![s] = @ \union {entry}]
    /\ next_id' = next_id + 1
    /\ phase' = [phase EXCEPT ![s] = "flushed"]
    /\ UNCHANGED <<audit_log, tail, overlapped>>

\* The caller's commit (get_db, the background writer, the deletion job).
Commit(s) ==
    /\ phase[s] = "flushed"
    /\ audit_log' = audit_log \union pending[s]
    /\ pending' = [pending EXCEPT ![s] = {}]
    /\ phase' = [phase EXCEPT ![s] = "idle"]
    /\ UNCHANGED <<next_id, tail, overlapped>>

\* The caller's exception, a failed INSERT or the loss of the process: the
\* rows vanish, the ids they took do not come back.
Rollback(s) ==
    /\ InFlight(s)
    /\ pending' = [pending EXCEPT ![s] = {}]
    /\ phase' = [phase EXCEPT ![s] = "idle"]
    /\ UNCHANGED <<audit_log, next_id, tail, overlapped>>

Next == \E s \in Sessions :
            \/ ReadTail(s)
            \/ \E body \in Bodies, usage \in Usages : Append(s, body, usage)
            \/ Commit(s)
            \/ Rollback(s)

Spec == Init /\ [][Next]_vars

-----------------------------------------------------------------------------
(* Properties.                                                             *)

\* Whatever the interleaving and the rollbacks, every committed entry links to
\* the genesis or to an entry that is itself committed and older, so following
\* prev_entry_hash from any row always ends at a genesis entry: no row that
\* was rolled back is ever referenced (the read in _get_last_entry_hash sees
\* only committed rows and the session's own).
LinksResolve ==
    \A e \in audit_log :
        \/ e.prev = Genesis
        \/ \E p \in audit_log : p.id = e.prev /\ p.id < e.id

\* As long as no session reads the tail while another one is between its own
\* read and its commit, the committed chain verifies: gaps left by rollbacks
\* and several entries per transaction do not break it (log_request, and the
\* id order verify_chain walks in).
VerifiesUnlessOverlapped == ~overlapped => verify_chain(audit_log)

\* The contents a stored row can be given while its signature stays.
Altered(e) ==
    {[id |-> e.id, body |-> b, usage |-> u, prev |-> p, sig |-> e.sig] :
        b \in Bodies, u \in Usages, p \in 0..MaxId}

\* A committed entry altered under its old signature fails to verify exactly
\* when what sign_entry covers has changed: the body or the link.  A change of
\* the unsigned columns alone never shows, whatever signer.py:52 and
\* models.py:48 say; nor can an alteration make a broken chain verify.
ModificationDetected ==
    \A e \in audit_log : \A m \in Altered(e) :
        verify_chain((audit_log \ {e}) \union {m})
            <=> verify_chain(audit_log) /\ m.body = e.body /\ m.prev = e.prev

\* Of the alterations of one committed entry only those of its unsigned
\* columns escape verify_chain; when the chain was unbroken, the disappearance
\* of an entry other than the newest does not escape it, nor, within the
\* window verify_chain_integrity reads (the oldest Limit rows), that check:
\* the row that moves up into the window cannot close the gap.
TamperingDetected ==
    /\ ModificationDetected
    /\ ~overlapped =>
          \A e \in audit_log : (\E x \in audit_log : x.id > e.id) =>
              /\ ~verify_chain(audit_log \ {e})
              /\ e \in VerifiedWindow(audit_log)
                    => ~verify_chain_integrity(audit_log \ {e})

\* A committed chain that fails to verify is never repaired by later commits:
\* a fork, once committed, makes verify_chain report tampering for ever.
BrokenStaysBroken ==
    [][~verify_chain(audit_log) => ~verify_chain(audit_log')]_vars
=============================================================================
