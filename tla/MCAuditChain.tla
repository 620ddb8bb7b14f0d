---------------------------- MODULE MCAuditChain ----------------------------
(* Model checking of AuditChain: concurrent sessions, interchangeable.     *)
EXTENDS AuditChain, TLC

\* Sessions, bodies and usages are only compared for equality.
Symmetry ==
    Permutations(Sessions) \union Permutations(Bodies) \union Permutations(Usages)
=============================================================================
