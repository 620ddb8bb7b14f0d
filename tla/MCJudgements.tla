---------------------------- MODULE MCJudgements ----------------------------
(* Model checking of Judgements.  Of the rulesets, ruleset_priority lists    *)
(* one and leaves out two, so that ranks differ and tie.                     *)
EXTENDS Judgements, MCObserving, MCScreening, TLC

CONSTANTS pci_dss, custom1, custom2, t1, t2

OneListed == <<pci_dss>>

\* Data types are interchangeable, and so are the rulesets not listed.
MCSymmetry == Permutations({t1, t2}) \union Permutations({custom1, custom2})
=============================================================================
