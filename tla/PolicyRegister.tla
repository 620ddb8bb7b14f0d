--------------------------- MODULE PolicyRegister ---------------------------
(***************************************************************************)
(* What versioned policies promise (engine/agent_security/                 *)
(* policy_version_service.py): a linear, append-only history of versions   *)
(* 1, 2, ... of which at most one is the current policy; publishing adds   *)
(* the next version, activating makes an existing one current, and a       *)
(* tenant that has a current policy is never left without one.             *)
(***************************************************************************)
EXTENDS Naturals

VARIABLES count,    \* number of versions published so far
          current   \* the version in force, 0 before the first activation

vars == <<count, current>>

TypeOK == count \in Nat /\ current \in 0..count

Init == count = 0 /\ current = 0

\* A new version is numbered after the last one, in force or as a draft.
Publish ==
    /\ count' = count + 1
    /\ current' \in {current, count + 1}

\* Any published version can be put in force.
Activate ==
    /\ current' \in 1..count
    /\ count' = count

Next == Publish \/ Activate

Spec == Init /\ [][Next]_vars
=============================================================================
