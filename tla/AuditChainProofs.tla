-------------------------- MODULE AuditChainProofs --------------------------
(***************************************************************************)
(* Proofs about AuditChain for any number of sessions, any contents and    *)
(* any length of the log.                                                  *)
(*                                                                         *)
(* The argument: a session's view (committed rows and its own) always      *)
(* resolves its links, because the tail it signs over is taken from that   *)
(* view and everything in the view is either committed or committed        *)
(* together with the new entry (ViewInv).  When sessions have not          *)
(* overlapped, at most one is in flight, so the tail it read is still the  *)
(* newest row when it inserts, and its whole view verifies (SerialInv).    *)
(***************************************************************************)
EXTENDS AuditChain, FiniteSetTheorems, WellFoundedInduction, TLAPS

\* What a session's view guarantees under every interleaving.
ViewInv ==
    \A s \in Sessions :
        /\ phase[s] = "idle" => pending[s] = {}
        /\ \A e \in Visible(s) :
              /\ e.id < next_id
              /\ e.sig = sign_entry(e.body, e.prev)
        /\ \A e \in pending[s] :
              \/ e.prev = Genesis
              \/ \E p \in Visible(s) : p.id = e.prev /\ p.id < e.id
        /\ phase[s] = "read" =>
              \/ tail[s] = Genesis
              \/ \E p \in Visible(s) : p.id = tail[s]

\* What holds while no two sessions have been in flight at once.
SerialInv ==
    ~overlapped =>
        /\ verify_chain(audit_log)
        /\ \A s, t \in Sessions : InFlight(s) /\ InFlight(t) => s = t
        /\ \A s \in Sessions :
              /\ verify_chain(Visible(s))
              /\ phase[s] = "read" => IsLastHash(tail[s], Visible(s))

\* Signatures of committed entries recompute (also when Sessions is empty).
SigInv == \A e \in audit_log : e.sig = sign_entry(e.body, e.prev)

IInv == TypeOK /\ ViewInv /\ SigInv /\ LinksResolve /\ SerialInv

-----------------------------------------------------------------------------
\* Adding an entry newer than every row and linked to the newest one keeps a
\* verified chain verified (what Append does when nothing interleaves).
LEMMA AppendVerifies ==
    ASSUME NEW rows \in SUBSET Entry, NEW e \in Entry,
           verify_chain(rows),
           \A x \in rows : x.id < e.id,
           IsLastHash(e.prev, rows),
           e.sig = sign_entry(e.body, e.prev)
    PROVE  verify_chain(rows \union {e})
<1> DEFINE all == rows \union {e}
<1>1. OlderThan(e, all) = rows
  BY DEF OlderThan, Entry
<1>2. ASSUME NEW x \in rows PROVE OlderThan(x, all) = OlderThan(x, rows)
  BY DEF OlderThan, Entry
<1>3. LinkVerifies(e, all)
  BY <1>1 DEF LinkVerifies
<1>4. ASSUME NEW x \in rows PROVE LinkVerifies(x, all) /\ x.sig = sign_entry(x.body, x.prev)
  BY <1>2 DEF verify_chain, LinkVerifies
<1> QED BY <1>3, <1>4 DEF verify_chain

\* The empty log verifies.
LEMMA EmptyVerifies == verify_chain({})
  BY DEF verify_chain

\* The inductive invariant holds initially: the log is empty.
LEMMA InitEstablishes == Init => IInv
<1> SUFFICES ASSUME Init PROVE IInv OBVIOUS
<1>1. TypeOK
  <2>1. pending \in [Sessions -> SUBSET Entry] BY DEF Init
  <2>2. tail \in [Sessions -> Nat] BY DEF Init, Genesis
  <2>3. phase \in [Sessions -> {"idle", "read", "flushed"}] BY DEF Init
  <2>4. audit_log = {} /\ next_id = 1 /\ overlapped = FALSE BY DEF Init
  <2>5. audit_log \subseteq Entry /\ overlapped \in BOOLEAN BY <2>4
  <2> QED BY <2>1, <2>2, <2>3, <2>4, <2>5 DEF TypeOK
<1>2. ViewInv BY DEF Init, ViewInv, Visible
<1>3. SigInv /\ LinksResolve BY DEF Init, SigInv, LinksResolve
<1>4. SerialInv
  <2>1. \A s \in Sessions : Visible(s) = {} BY DEF Init, Visible
  <2> QED BY <2>1, EmptyVerifies DEF Init, SerialInv, InFlight
<1> QED BY <1>1, <1>2, <1>3, <1>4 DEF IInv

-----------------------------------------------------------------------------
\* _get_last_entry_hash changes no row, only what its session knows.
LEMMA ReadTailPreserves ==
    ASSUME IInv, NEW s \in Sessions, ReadTail(s)
    PROVE  IInv'
<1> USE DEF IInv
<1>1. PICK h \in {Genesis} \union {r.id : r \in Visible(s)} :
          /\ IsLastHash(h, Visible(s))
          /\ tail' = [tail EXCEPT ![s] = h]
  BY DEF ReadTail
<1>2. h \in Nat BY <1>1 DEF Genesis, Visible, TypeOK, Entry
<1>3. TypeOK' BY <1>1, <1>2 DEF TypeOK, ReadTail
<1>4. \A t \in Sessions : Visible(t)' = Visible(t) BY DEF Visible, ReadTail
<1>5. ViewInv'
  BY <1>1, <1>4 DEF ViewInv, ReadTail, TypeOK
<1>6. SigInv' /\ LinksResolve' BY DEF SigInv, LinksResolve, ReadTail
<1>7. SerialInv'
  <2> SUFFICES ASSUME ~overlapped' PROVE SerialInv' BY DEF SerialInv
  <2>1. ~overlapped /\ \A t \in Sessions \ {s} : ~InFlight(t)
    BY DEF ReadTail, TypeOK
  <2>2. \A t \in Sessions \ {s} : phase'[t] = "idle"
    BY <2>1 DEF InFlight, ReadTail, TypeOK
  <2>3. phase'[s] = "read" /\ tail'[s] = h BY <1>1 DEF ReadTail, TypeOK
  <2>4. verify_chain(audit_log') BY <2>1 DEF SerialInv, ReadTail
  <2>5. \A t \in Sessions : verify_chain(Visible(t)') BY <1>4, <2>1 DEF SerialInv
  <2>6. IsLastHash(tail'[s], Visible(s)') BY <1>1, <1>4, <2>3
  <2> QED BY <2>2, <2>4, <2>5, <2>6 DEF SerialInv, InFlight
<1> QED BY <1>3, <1>5, <1>6, <1>7

\* log_request adds one uncommitted row that is newer than every other.
LEMMA AppendPreserves ==
    ASSUME IInv, NEW s \in Sessions, NEW body \in Bodies, NEW usage \in Usages,
           Append(s, body, usage)
    PROVE  IInv'
<1> USE DEF IInv
<1> DEFINE e == [id |-> next_id, body |-> body, usage |-> usage,
                 prev |-> tail[s], sig |-> sign_entry(body, tail[s])]
<1>1. /\ pending' = [pending EXCEPT ![s] = @ \union {e}]
      /\ phase[s] = "read" /\ next_id' = next_id + 1
      /\ phase' = [phase EXCEPT ![s] = "flushed"]
      /\ UNCHANGED <<audit_log, tail, overlapped>>
  BY DEF Append
<1>2. e \in Entry BY DEF TypeOK, Entry, Signature, sign_entry
<1>3. TypeOK' BY <1>1, <1>2 DEF TypeOK
<1>4. Visible(s)' = Visible(s) \union {e} BY <1>1 DEF Visible, TypeOK
<1>5. \A t \in Sessions \ {s} : Visible(t)' = Visible(t)
  BY <1>1 DEF Visible, TypeOK
<1>6. \A t \in Sessions : Visible(t) \subseteq Entry BY DEF Visible, TypeOK
<1>7. ViewInv'
  <2> SUFFICES ASSUME NEW t \in Sessions PROVE ViewInv!(t)'
    BY DEF ViewInv
  <2>1. CASE t # s
    <3>1. /\ phase'[t] = phase[t] /\ pending'[t] = pending[t]
          /\ tail'[t] = tail[t] /\ Visible(t)' = Visible(t)
      BY <1>1, <1>5, <2>1 DEF TypeOK
    <3>2. \A x \in Visible(t) : x.id < next_id'
      BY <1>1, <1>6 DEF ViewInv, TypeOK, Entry
    <3> QED BY <3>1, <3>2 DEF ViewInv
  <2>2. CASE t = s
    <3>1. phase'[s] = "flushed" /\ pending'[s] = pending[s] \union {e}
      BY <1>1 DEF TypeOK
    <3>2. \A x \in Visible(s)' : x.id < next_id' /\ x.sig = sign_entry(x.body, x.prev)
      BY <1>1, <1>2, <1>4, <1>6 DEF ViewInv, TypeOK, Entry
    <3>3. e.prev = Genesis \/ \E p \in Visible(s)' : p.id = e.prev /\ p.id < e.id
      BY <1>1, <1>4 DEF ViewInv
    <3>4. \A x \in pending[s] : \/ x.prev = Genesis
                                \/ \E p \in Visible(s)' : p.id = x.prev /\ p.id < x.id
      BY <1>4 DEF ViewInv
    <3> QED BY <2>2, <3>1, <3>2, <3>3, <3>4 DEF ViewInv
  <2> QED BY <2>1, <2>2
<1>8. SigInv' /\ LinksResolve' BY <1>1 DEF SigInv, LinksResolve
<1>9. SerialInv'
  <2> SUFFICES ASSUME ~overlapped' PROVE SerialInv' BY DEF SerialInv
  <2>1. ~overlapped BY <1>1
  <2>2. \A x \in Visible(s) : x.id < e.id BY DEF ViewInv
  <2>3. IsLastHash(e.prev, Visible(s)) BY <1>1, <2>1 DEF SerialInv
  <2>4. verify_chain(Visible(s)) BY <2>1 DEF SerialInv
  <2>5. verify_chain(Visible(s)')
    <3>1. Visible(s) \in SUBSET Entry BY <1>6
    <3>2. e.sig = sign_entry(e.body, e.prev) OBVIOUS
    <3> QED BY <3>1, <3>2, <1>2, <1>4, <2>2, <2>3, <2>4, AppendVerifies
  <2>6. \A t \in Sessions : verify_chain(Visible(t)')
    BY <1>5, <2>1, <2>5 DEF SerialInv
  <2>7. \A t \in Sessions : phase'[t] = "read" => t # s /\ phase[t] = "read"
    BY <1>1 DEF TypeOK
  <2>8. \A t \in Sessions : phase'[t] # "idle" => phase[t] # "idle"
    BY <1>1 DEF TypeOK
  <2>9. \A t, u \in Sessions : InFlight(t)' /\ InFlight(u)' => t = u
    BY <2>1, <2>8 DEF SerialInv, InFlight
  <2>10. \A t \in Sessions : phase'[t] = "read" => IsLastHash(tail'[t], Visible(t)')
    BY <1>1, <1>5, <2>1, <2>7 DEF SerialInv
  <2>11. verify_chain(audit_log') BY <1>1, <2>1 DEF SerialInv
  <2> QED BY <2>6, <2>9, <2>10, <2>11 DEF SerialInv
<1> QED BY <1>3, <1>7, <1>8, <1>9

\* A commit makes the rows of one session, and no other, visible.
LEMMA CommitPreserves ==
    ASSUME IInv, NEW s \in Sessions, Commit(s)
    PROVE  IInv'
<1> USE DEF IInv
<1>1. /\ audit_log' = Visible(s)
      /\ pending' = [pending EXCEPT ![s] = {}]
      /\ phase' = [phase EXCEPT ![s] = "idle"]
      /\ UNCHANGED <<next_id, tail, overlapped>>
  BY DEF Commit, Visible
<1>2. TypeOK' BY <1>1 DEF TypeOK, Visible
<1>3. Visible(s)' = Visible(s) BY <1>1 DEF Visible, TypeOK
<1>4. \A t \in Sessions \ {s} : Visible(t)' = Visible(t) \union Visible(s)
  BY <1>1 DEF Visible, TypeOK
<1>5. ViewInv'
  <2> SUFFICES ASSUME NEW t \in Sessions PROVE ViewInv!(t)' BY DEF ViewInv
  <2>1. CASE t # s
    <3>1. /\ phase'[t] = phase[t] /\ pending'[t] = pending[t]
          /\ tail'[t] = tail[t]
      BY <1>1, <2>1 DEF TypeOK
    <3> QED BY <1>1, <1>4, <2>1, <3>1 DEF ViewInv
  <2>2. CASE t = s
    <3>1. phase'[s] = "idle" /\ pending'[s] = {} BY <1>1 DEF TypeOK
    <3> QED BY <1>1, <1>3, <2>2, <3>1 DEF ViewInv
  <2> QED BY <2>1, <2>2
<1>6. SigInv' BY <1>1 DEF SigInv, ViewInv
<1>7. LinksResolve'
  <2> SUFFICES ASSUME NEW e \in Visible(s)
               PROVE  \/ e.prev = Genesis
                      \/ \E p \in Visible(s) : p.id = e.prev /\ p.id < e.id
    BY <1>1 DEF LinksResolve
  <2>1. CASE e \in audit_log BY <2>1 DEF LinksResolve, Visible
  <2>2. CASE e \in pending[s] BY <2>2 DEF ViewInv
  <2> QED BY <2>1, <2>2 DEF Visible
<1>8. SerialInv'
  <2> SUFFICES ASSUME ~overlapped' PROVE SerialInv' BY DEF SerialInv
  <2>1. ~overlapped BY <1>1
  <2>2. InFlight(s) BY DEF Commit, InFlight
  <2>3. \A t \in Sessions : phase'[t] = "idle"
    BY <1>1, <2>1, <2>2 DEF SerialInv, InFlight, TypeOK
  <2>4. \A t \in Sessions : Visible(t)' = Visible(s)
    <3>1. \A t \in Sessions : pending'[t] = {}
      BY <1>5, <2>3 DEF ViewInv
    <3> QED BY <1>1, <3>1 DEF Visible
  <2>5. verify_chain(Visible(s)) BY <2>1 DEF SerialInv
  <2> QED BY <1>1, <2>3, <2>4, <2>5 DEF SerialInv, InFlight
<1> QED BY <1>2, <1>5, <1>6, <1>7, <1>8

\* A rollback removes rows nobody else has read.
LEMMA RollbackPreserves ==
    ASSUME IInv, NEW s \in Sessions, Rollback(s)
    PROVE  IInv'
<1> USE DEF IInv
<1>1. /\ pending' = [pending EXCEPT ![s] = {}]
      /\ phase' = [phase EXCEPT ![s] = "idle"]
      /\ UNCHANGED <<audit_log, next_id, tail, overlapped>>
  BY DEF Rollback
<1>2. TypeOK' BY <1>1 DEF TypeOK
<1>3. Visible(s)' = audit_log /\ phase'[s] = "idle" /\ pending'[s] = {}
  BY <1>1 DEF Visible, TypeOK
<1>4. \A t \in Sessions \ {s} : /\ Visible(t)' = Visible(t)
                               /\ phase'[t] = phase[t] /\ pending'[t] = pending[t]
                               /\ tail'[t] = tail[t]
  BY <1>1 DEF Visible, TypeOK
<1>5. ViewInv'
  <2> SUFFICES ASSUME NEW t \in Sessions PROVE ViewInv!(t)' BY DEF ViewInv
  <2>1. CASE t # s BY <1>1, <1>4, <2>1 DEF ViewInv
  <2>2. CASE t = s
    <3>1. \A e \in audit_log : e.id < next_id' /\ e.sig = sign_entry(e.body, e.prev)
      BY <1>1 DEF ViewInv, Visible
    <3> QED BY <1>3, <2>2, <3>1 DEF ViewInv
  <2> QED BY <2>1, <2>2
<1>6. SigInv' /\ LinksResolve' BY <1>1 DEF SigInv, LinksResolve
<1>7. SerialInv' BY <1>1, <1>3, <1>4 DEF SerialInv, InFlight, TypeOK
<1> QED BY <1>2, <1>5, <1>6, <1>7

\* IInv is inductive: one lemma per action.
LEMMA StepPreserves == IInv /\ [Next]_vars => IInv'
<1> SUFFICES ASSUME IInv, [Next]_vars PROVE IInv' OBVIOUS
<1>1. ASSUME NEW s \in Sessions, ReadTail(s) PROVE IInv'
  BY <1>1, ReadTailPreserves
<1>2. ASSUME NEW s \in Sessions, NEW body \in Bodies, NEW usage \in Usages,
             Append(s, body, usage)
      PROVE  IInv'
  BY <1>2, AppendPreserves
<1>3. ASSUME NEW s \in Sessions, Commit(s) PROVE IInv'
  BY <1>3, CommitPreserves
<1>4. ASSUME NEW s \in Sessions, Rollback(s) PROVE IInv'
  BY <1>4, RollbackPreserves
<1>5. CASE UNCHANGED vars
  BY <1>5 DEF vars, IInv, TypeOK, ViewInv, Visible, SigInv, LinksResolve,
              SerialInv, InFlight, verify_chain, LinkVerifies, IsLastHash, OlderThan
<1> QED BY <1>1, <1>2, <1>3, <1>4, <1>5 DEF Next

\* The inductive invariant holds in every reachable state.
LEMMA AlwaysIInv == Spec => []IInv
  BY InitEstablishes, StepPreserves, PTL DEF Spec

-----------------------------------------------------------------------------
\* Type correctness of the audit trail for any number of sessions.
THEOREM TypeCorrect == Spec => []TypeOK
  BY AlwaysIInv, PTL DEF IInv

\* No committed entry ever links to a row that was rolled back or is still
\* uncommitted, whatever the interleaving of log_request calls and commits.
THEOREM LinksAlwaysResolve == Spec => []LinksResolve
  BY AlwaysIInv, PTL DEF IInv

\* Without overlapping sessions the committed chain always verifies: ids lost
\* to rollbacks and transactions of several entries are harmless.
THEOREM SerialChainVerifies == Spec => []VerifiesUnlessOverlapped
<1>1. IInv => VerifiesUnlessOverlapped
  BY DEF IInv, SerialInv, VerifiesUnlessOverlapped
<1> QED BY <1>1, AlwaysIInv, PTL

\* A set of rows whose links resolve inside it, once broken, stays broken in
\* every larger set: the row that separates a link from its target remains.
LEMMA ForkIsPermanent ==
    ASSUME NEW old \in SUBSET Entry, NEW new \in SUBSET Entry, old \subseteq new,
           \A e \in old : \/ e.prev = Genesis
                          \/ \E p \in old : p.id = e.prev /\ p.id < e.id,
           verify_chain(new)
    PROVE  verify_chain(old)
<1> SUFFICES ASSUME NEW e \in old PROVE LinkVerifies(e, old)
  BY DEF verify_chain
<1>1. IsLastHash(e.prev, OlderThan(e, new)) BY DEF verify_chain, LinkVerifies
<1>2. OlderThan(e, old) \subseteq OlderThan(e, new) BY DEF OlderThan
<1>3. CASE OlderThan(e, new) = {}
  BY <1>1, <1>2, <1>3 DEF LinkVerifies, IsLastHash
<1>4. CASE \E r \in OlderThan(e, new) :
              e.prev = r.id /\ \A x \in OlderThan(e, new) : x.id <= r.id
  <2>1. PICK r \in OlderThan(e, new) :
              e.prev = r.id /\ \A x \in OlderThan(e, new) : x.id <= r.id
    BY <1>4
  <2>2. e.prev # Genesis BY <2>1 DEF OlderThan, Entry, Genesis
  <2>3. PICK p \in old : p.id = e.prev /\ p.id < e.id BY <2>2
  <2>4. p \in OlderThan(e, old) BY <2>3 DEF OlderThan
  <2>5. \A x \in OlderThan(e, old) : x.id <= p.id BY <1>2, <2>1, <2>3
  <2> QED BY <2>3, <2>4, <2>5 DEF LinkVerifies, IsLastHash
<1> QED BY <1>1, <1>3, <1>4 DEF IsLastHash

\* Once a fork is committed verify_chain fails for ever.
THEOREM BrokenChainStaysBroken == Spec => BrokenStaysBroken
<1>1. IInv /\ IInv' /\ [Next]_vars => [~verify_chain(audit_log) => ~verify_chain(audit_log')]_vars
  <2> SUFFICES ASSUME IInv, IInv', [Next]_vars, verify_chain(audit_log')
               PROVE  verify_chain(audit_log)
    OBVIOUS
  <2>1. audit_log \subseteq audit_log'
    BY DEF Next, vars, ReadTail, Append, Commit, Rollback
  <2>2. audit_log \in SUBSET Entry /\ audit_log' \in SUBSET Entry
    BY DEF IInv, TypeOK
  <2> QED BY <2>1, <2>2, ForkIsPermanent DEF IInv, LinksResolve
<1> QED BY <1>1, AlwaysIInv, PTL DEF Spec, BrokenStaysBroken

-----------------------------------------------------------------------------
(* Rows are told apart by their ids, committed or not.                       *)

AllRows == audit_log \union UNION {pending[s] : s \in Sessions}
DistinctIds(rows) == \A x, y \in rows : x.id = y.id => x = y
IdsInv == DistinctIds(AllRows) /\ \A x \in AllRows : x.id < next_id

LEMMA IdsPreserved == TypeOK /\ IdsInv /\ [Next]_vars => IdsInv'
<1> SUFFICES ASSUME TypeOK, IdsInv, [Next]_vars PROVE IdsInv'
  OBVIOUS
<1>0. AllRows \subseteq Entry /\ next_id \in Nat
  BY DEF TypeOK, AllRows
<1>1. ASSUME AllRows' \subseteq AllRows, next_id' = next_id PROVE IdsInv'
  BY <1>1 DEF IdsInv, DistinctIds
<1>2. ASSUME NEW s \in Sessions, ReadTail(s) PROVE IdsInv'
  BY <1>1, <1>2 DEF ReadTail, AllRows
<1>3. ASSUME NEW s \in Sessions, NEW body \in Bodies, NEW usage \in Usages,
             Append(s, body, usage)
      PROVE  IdsInv'
  <2> DEFINE e == [id |-> next_id, body |-> body, usage |-> usage,
                   prev |-> tail[s], sig |-> sign_entry(body, tail[s])]
  <2>1. /\ pending' = [pending EXCEPT ![s] = @ \union {e}]
        /\ audit_log' = audit_log /\ next_id' = next_id + 1
    BY <1>3 DEF Append
  <2>2. e.id = next_id OBVIOUS
  <2> HIDE DEF e
  <2>3. AllRows' \subseteq AllRows \union {e}
    BY <2>1 DEF AllRows, TypeOK
  <2>4. \A x \in AllRows : x.id \in Nat /\ x.id < next_id
    BY <1>0 DEF IdsInv, Entry
  <2> QED BY <1>0, <2>1, <2>2, <2>3, <2>4 DEF IdsInv, DistinctIds
<1>4. ASSUME NEW s \in Sessions, Commit(s) PROVE IdsInv'
  <2>1. AllRows' \subseteq AllRows /\ next_id' = next_id
    BY <1>4 DEF Commit, AllRows, TypeOK
  <2> QED BY <1>1, <2>1
<1>5. ASSUME NEW s \in Sessions, Rollback(s) PROVE IdsInv'
  <2>1. AllRows' \subseteq AllRows /\ next_id' = next_id
    BY <1>5 DEF Rollback, AllRows, TypeOK
  <2> QED BY <1>1, <2>1
<1>6. CASE UNCHANGED vars BY <1>1, <1>6 DEF vars, AllRows
<1> QED BY <1>2, <1>3, <1>4, <1>5, <1>6 DEF Next

\* Ids come from a sequence and are never shared.
LEMMA AlwaysIdsInv == Spec => []IdsInv
<1>1. Init => IdsInv
  BY DEF Init, IdsInv, DistinctIds, AllRows
<1>2. IInv /\ IdsInv /\ [Next]_vars => IdsInv'
  BY IdsPreserved DEF IInv
<1> QED BY <1>1, <1>2, AlwaysIInv, PTL DEF Spec

-----------------------------------------------------------------------------
(* An entry altered where it stands.                                         *)

\* verify_chain reads the id, the link, the body and the signature of a row,
\* not its usage: it answers the same of a log in which one row stands for
\* another that differs from it in nothing else.
LEMMA UsageUnread ==
    ASSUME NEW rows, NEW e \in rows, NEW m,
           m.id = e.id, m.prev = e.prev, m.body = e.body, m.sig = e.sig,
           verify_chain(rows)
    PROVE  verify_chain((rows \ {e}) \union {m})
<1> DEFINE new == (rows \ {e}) \union {m}
<1>1. ASSUME NEW x \in new
      PROVE  \E y \in rows : x.id = y.id /\ x.prev = y.prev /\ x.body = y.body
                              /\ x.sig = y.sig
  OBVIOUS
<1>2. ASSUME NEW y \in rows PROVE \E x \in new : x.id = y.id
  OBVIOUS
<1> HIDE DEF new
<1>3. ASSUME NEW x \in new
      PROVE  LinkVerifies(x, new) /\ x.sig = sign_entry(x.body, x.prev)
  <2>1. PICK y \in rows : x.id = y.id /\ x.prev = y.prev /\ x.body = y.body
                          /\ x.sig = y.sig
    BY <1>1
  <2>2. IsLastHash(y.prev, OlderThan(y, rows)) /\ y.sig = sign_entry(y.body, y.prev)
    BY DEF verify_chain, LinkVerifies
  <2>3. IsLastHash(x.prev, OlderThan(x, new))
    <3>1. CASE OlderThan(y, rows) = {}
      <4>1. OlderThan(x, new) = {}
        <5>1. ASSUME NEW z \in new, z.id < x.id PROVE FALSE
          BY <1>1, <2>1, <3>1, <5>1 DEF OlderThan
        <5> QED BY <5>1 DEF OlderThan
      <4> QED BY <2>1, <2>2, <3>1, <4>1 DEF IsLastHash
    <3>2. CASE OlderThan(y, rows) # {}
      <4>1. PICK q \in OlderThan(y, rows) :
               y.prev = q.id /\ \A z \in OlderThan(y, rows) : z.id <= q.id
        BY <2>2, <3>2 DEF IsLastHash
      <4>2. PICK p \in new : p.id = q.id
        BY <1>2, <4>1 DEF OlderThan
      <4>3. p \in OlderThan(x, new)
        BY <2>1, <4>1, <4>2 DEF OlderThan
      <4>4. ASSUME NEW z \in OlderThan(x, new) PROVE z.id <= p.id
        BY <1>1, <2>1, <4>1, <4>2 DEF OlderThan
      <4> QED BY <2>1, <4>1, <4>2, <4>3, <4>4 DEF IsLastHash
    <3> QED BY <3>1, <3>2
  <2> QED BY <2>1, <2>2, <2>3 DEF LinkVerifies
<1> QED BY <1>3 DEF verify_chain, new

\* An entry altered under its old signature is found if its body or its link
\* has changed, and leaves the answer of verify_chain as it was otherwise.
THEOREM ModificationAlwaysDetected == Spec => []ModificationDetected
<1>1. IInv /\ IdsInv => ModificationDetected
  <2> SUFFICES ASSUME IInv, IdsInv, NEW e \in audit_log, NEW m \in Altered(e)
               PROVE  verify_chain((audit_log \ {e}) \union {m})
                         <=> verify_chain(audit_log) /\ m.body = e.body /\ m.prev = e.prev
    BY DEF ModificationDetected
  <2> DEFINE new == (audit_log \ {e}) \union {m}
  <2>1. /\ e \in Entry /\ e.sig = sign_entry(e.body, e.prev)
    BY DEF IInv, TypeOK, SigInv
  <2>2. m.id = e.id /\ m.sig = e.sig
    BY DEF Altered
  <2>3. ASSUME verify_chain(audit_log), m.body = e.body, m.prev = e.prev
        PROVE  verify_chain(new)
    BY <2>2, <2>3, UsageUnread
  <2>4. ASSUME verify_chain(new)
        PROVE  verify_chain(audit_log) /\ m.body = e.body /\ m.prev = e.prev
    <3>1. m.sig = sign_entry(m.body, m.prev) BY <2>4 DEF verify_chain
    <3>2. m.body = e.body /\ m.prev = e.prev
      BY <2>1, <2>2, <3>1 DEF sign_entry
    <3>3. CASE m = e
      BY <2>4, <3>3
    <3>4. CASE m # e
      <4>1. m \notin audit_log
        BY <2>2, <3>4 DEF IdsInv, AllRows, DistinctIds
      <4>2. (new \ {m}) \union {e} = audit_log
        BY <3>4, <4>1
      <4> QED BY <2>2, <2>4, <3>2, <4>2, UsageUnread
    <3> QED BY <3>2, <3>3, <3>4
  <2> QED BY <2>3, <2>4
<1> QED BY <1>1, AlwaysIInv, AlwaysIdsInv, PTL

-----------------------------------------------------------------------------
(* A row that disappears.  Its successor still carries its hash, and no      *)
(* other row has its id.                                                     *)

\* Of some rows, one has the least id.
LEMMA LeastId ==
    ASSUME NEW rows \in SUBSET Entry, rows # {}
    PROVE  \E x \in rows : \A y \in rows : x.id <= y.id
<1> DEFINE initials == {0..x.id : x \in rows}
<1>1. initials \subseteq FiniteSubsetsOf(Nat) /\ initials # {}
  <2>1. \A x \in rows : x.id \in Nat BY DEF Entry
  <2>2. \A n \in Nat : 0..n \in SUBSET Nat /\ IsFiniteSet(0..n)
    BY FS_Interval
  <2> QED BY <2>1, <2>2 DEF FiniteSubsetsOf
<1>2. PICK i \in initials : \A k \in initials : <<k, i>> \notin StrictSubsetOrdering(Nat)
  BY <1>1, FS_StrictSubsetOrderingWellFounded, WFMin
<1>3. PICK x \in rows : i = 0..x.id
  BY <1>2
<1>4. ASSUME NEW y \in rows, ~(x.id <= y.id) PROVE FALSE
  <2> DEFINE m == y.id
             n == x.id
  <2>0. m \in Nat /\ n \in Nat /\ m < n BY <1>4 DEF Entry
  <2>1. 0..m \in initials /\ i = 0..n BY <1>3
  <2> HIDE DEF m, n, initials
  <2>2. 0..m \subseteq 0..n /\ n \in 0..n /\ n \notin 0..m BY <2>0
  <2>3. <<0..m, 0..n>> \in (SUBSET Nat) \X (SUBSET Nat) /\ 0..m # 0..n
    BY <2>0, <2>2
  <2>4. <<0..m, 0..n>> \in StrictSubsetOrdering(Nat)
    BY <2>2, <2>3 DEF StrictSubsetOrdering
  <2> QED BY <1>2, <2>1, <2>4
<1> QED BY <1>4

\* The successor of a row in a chain that verifies.
LEMMA SuccessorLinks ==
    ASSUME NEW rows \in SUBSET Entry, DistinctIds(rows), verify_chain(rows),
           NEW e \in rows, NEW newer \in rows, newer.id > e.id
    PROVE  \E x \in rows \ {e} :
              /\ x.prev = e.id
              /\ OlderThan(x, rows \ {e}) = OlderThan(e, rows)
<1> DEFINE after == {y \in rows : y.id > e.id}
<1>0. \A y \in rows : y.id \in Nat /\ y.id # 0 BY DEF Entry
<1>1. PICK x \in after : \A y \in after : x.id <= y.id
  <2>1. after \in SUBSET Entry /\ after # {} OBVIOUS
  <2> HIDE DEF after
  <2> QED BY <2>1, LeastId
<1>2. x \in rows /\ x.id > e.id /\ \A y \in rows : y.id > e.id => x.id <= y.id
  BY <1>1
<1> HIDE DEF after
<1>3. x # e BY <1>0, <1>2
<1>4. ASSUME NEW y \in rows PROVE y.id < x.id <=> y.id < e.id \/ y = e
  BY <1>0, <1>2 DEF DistinctIds
<1>5. OlderThan(x, rows \ {e}) = OlderThan(e, rows)
  BY <1>0, <1>4 DEF OlderThan
<1>6. x.prev = e.id
  <2>1. IsLastHash(x.prev, OlderThan(x, rows))
    BY <1>2 DEF verify_chain, LinkVerifies
  <2>2. e \in OlderThan(x, rows) BY <1>2, <1>0 DEF OlderThan
  <2>3. PICK r \in OlderThan(x, rows) :
           x.prev = r.id /\ \A y \in OlderThan(x, rows) : y.id <= r.id
    BY <2>1, <2>2 DEF IsLastHash
  <2>4. r \in rows /\ r.id < x.id /\ e.id <= r.id
    BY <2>2, <2>3 DEF OlderThan
  <2>5. r = e \/ r.id < e.id BY <1>4, <2>4
  <2> QED BY <1>0, <2>3, <2>4, <2>5
<1> QED BY <1>2, <1>3, <1>5, <1>6

\* Without the row it links to, no set of rows verifies.
LEMMA MissingLinkShows ==
    ASSUME NEW rows \in SUBSET Entry, DistinctIds(rows), NEW e \in rows,
           NEW kept \in SUBSET (rows \ {e}), NEW x \in kept, x.prev = e.id
    PROVE  ~verify_chain(kept)
<1> SUFFICES ASSUME verify_chain(kept) PROVE FALSE
  OBVIOUS
<1>1. IsLastHash(e.id, OlderThan(x, kept))
  BY DEF verify_chain, LinkVerifies
<1>2. e.id # Genesis BY DEF Entry, Genesis
<1>3. PICK r \in OlderThan(x, kept) : e.id = r.id
  BY <1>1, <1>2 DEF IsLastHash
<1> QED BY <1>3 DEF OlderThan, DistinctIds

\* No change to what is signed of a committed entry and, as long as sessions
\* did not overlap, no disappearance of one but the newest escapes
\* verify_chain, nor verify_chain_integrity within its window; a change to its
\* unsigned columns alone always does (signer.py, logger.py).
THEOREM TamperingAlwaysDetected == Spec => []TamperingDetected
<1>1. ModificationDetected /\ IInv /\ IdsInv => TamperingDetected
  <2> SUFFICES ASSUME ModificationDetected, IInv, IdsInv, ~overlapped,
                      NEW e \in audit_log, NEW newer \in audit_log, newer.id > e.id
               PROVE  /\ ~verify_chain(audit_log \ {e})
                      /\ e \in VerifiedWindow(audit_log)
                            => ~verify_chain_integrity(audit_log \ {e})
    BY DEF TamperingDetected
  <2>1. /\ audit_log \in SUBSET Entry /\ DistinctIds(audit_log)
        /\ verify_chain(audit_log)
    BY DEF IInv, TypeOK, IdsInv, DistinctIds, AllRows, SerialInv
  <2>2. PICK x \in audit_log \ {e} :
           /\ x.prev = e.id
           /\ OlderThan(x, audit_log \ {e}) = OlderThan(e, audit_log)
    BY <2>1, SuccessorLinks
  <2>3. ~verify_chain(audit_log \ {e})
    BY <2>1, <2>2, MissingLinkShows
  <2>4. ASSUME e \in VerifiedWindow(audit_log)
        PROVE  ~verify_chain_integrity(audit_log \ {e})
    <3>1. x \in VerifiedWindow(audit_log \ {e})
      BY <2>2, <2>4 DEF VerifiedWindow
    <3>2. VerifiedWindow(audit_log \ {e}) \in SUBSET (audit_log \ {e})
      BY DEF VerifiedWindow
    <3> QED BY <2>1, <2>2, <3>1, <3>2, MissingLinkShows DEF verify_chain_integrity
  <2> QED BY <2>3, <2>4
<1> QED BY <1>1, ModificationAlwaysDetected, AlwaysIdsInv, AlwaysIInv, PTL
=============================================================================
