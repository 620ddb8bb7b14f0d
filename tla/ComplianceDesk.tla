--------------------------- MODULE ComplianceDesk ---------------------------
(***************************************************************************)
(* The create, list and dashboard endpoints of engine/compliance/router.py *)
(* and its SAR endpoints.  They share no rows, so a behaviour is about one *)
(* register or about the AML cases.                                        *)
(***************************************************************************)
EXTENDS SarReports, Registers

vars == <<sarVars, registerVars>>

Init == SarInit /\ RegistersInit

Next ==
    \/ register = "aml_cases" /\ SarNext /\ UNCHANGED registerVars
    \/ register \in Registers /\ RegistersNext /\ UNCHANGED sarVars

Spec == Init /\ [][Next]_vars

=============================================================================
