---------------------------- MODULE MCVaultKeys ----------------------------
(* Model checking of VaultKeys: two requests share a process, a third runs *)
(* in another one.                                                         *)
EXTENDS VaultKeys, TLC

CONSTANTS p1, p2, s1, s2, s3

SharedProc == s1 :> p1 @@ s2 :> p1 @@ s3 :> p2
TwoInOne == s1 :> p1 @@ s2 :> p1
=============================================================================
