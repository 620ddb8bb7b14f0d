---------------------------- MODULE RulesetMerge ----------------------------
(***************************************************************************)
(* Which action one position of the content gets when several rulesets are *)
(* active: DetectionEngine.scan with _deduplicate                          *)
(* (engine/detection/engine.py) decides which detection of the position    *)
(* survives, RulesetRegistry.get_merged_actions                            *)
(* (engine/rulesets/registry.py) which action its data type gets.          *)
(*                                                                         *)
(* The two are computed apart and by different orders: detections by the   *)
(* rank of their ruleset and then their confidence, actions by the rank of *)
(* their ruleset and then their severity.  A ruleset that the setting      *)
(* ruleset_priority does not list ranks below every listed one.  The       *)
(* detectors themselves are abstracted: any data type a ruleset configures *)
(* may be found at the position, with any confidence.                      *)
(***************************************************************************)
EXTENDS Integers, Sequences, FiniteSets, SequencesExt

CONSTANTS Rulesets,    \* the registered rulesets
          Types,       \* data types
          Severities,  \* ACTION_PRIORITY of the actions in use
          Confidences, \* confidence and layer of a detection, in one number
          Priority,    \* ruleset_priority, the most important one first
          MaxActive,   \* bound on the active rulesets of a tenant
          MaxHits      \* bound on the detections at the position

ASSUME SeveritiesAssumption == Severities \subseteq 1..4
ASSUME ConfidencesAssumption == Confidences \subseteq Nat
ASSUME PriorityAssumption == Priority \in Seq(Rulesets)
ASSUME BoundsAssumption == MaxActive \in Nat /\ MaxHits \in Nat

VARIABLES active,    \* active_rulesets of the request, in their order
          actions,   \* of each active ruleset: data type -> severity of action
          stage,     \* where the request is
          todo,      \* the rulesets the current loop has still to visit
          hits,      \* all_detections at the position, in the order found
          merged,    \* data type -> severity of the merged action
          origin     \* origin_rulesets: data type -> its ruleset

mergeVars == <<active, actions, stage, todo, hits, merged, origin>>

\* A validated ruleset has an action for each data type it detects.
Configurations == UNION {[S -> Severities] : S \in SUBSET Types}

ActiveRulesets ==
    {s \in UNION {[1..n -> Rulesets] : n \in 1..MaxActive} : IsInjective(s)}

Hit(ruleset, type, confidence) ==
    [ruleset |-> ruleset, type |-> type, confidence |-> confidence]

\* get_rs_rank, with what it returns for a ruleset that is not listed.
RulesetRank(ruleset, unlisted) ==
    LET places == {i \in DOMAIN Priority : Priority[i] = ruleset}
    IN  IF places = {} THEN unlisted ELSE Len(Priority) + 1 - Min(places)

RankOfDetection(hit) == RulesetRank(hit.ruleset, -1)
RankOfAction(ruleset) == RulesetRank(ruleset, 0)

MergeInit ==
    /\ active \in ActiveRulesets
    /\ actions \in [Range(active) -> Configurations]
    /\ stage = "scanning"
    /\ todo = active
    /\ hits = <<>>
    /\ merged = <<>>
    /\ origin = <<>>

-----------------------------------------------------------------------------
(* Detection.                                                              *)

\* A detector of the ruleset being scanned matches at the position.
Match ==
    /\ stage = "scanning"
    /\ todo # <<>>
    /\ Len(hits) < MaxHits
    /\ \E t \in DOMAIN actions[Head(todo)], c \in Confidences :
          hits' = Append(hits, Hit(Head(todo), t, c))
    /\ UNCHANGED <<active, actions, stage, todo, merged, origin>>

ScanNextRuleset ==
    /\ stage = "scanning"
    /\ todo # <<>>
    /\ todo' = Tail(todo)
    /\ UNCHANGED <<active, actions, stage, hits, merged, origin>>

\* The key of max in _deduplicate: ruleset rank, then confidence and layer.
Beats(h, g) ==
    \/ RankOfDetection(h) > RankOfDetection(g)
    \/ /\ RankOfDetection(h) = RankOfDetection(g)
       /\ h.confidence > g.confidence

\* Variant: the key that the comment of _deduplicate describes.
Survivor_by_confidence ==
    LET best == {i \in DOMAIN hits :
                    \A j \in DOMAIN hits : hits[j].confidence <= hits[i].confidence}
    IN  hits[Min(best)]

\* _deduplicate: the first of the best.
Survivor ==
    LET best == {i \in DOMAIN hits : \A j \in DOMAIN hits : ~Beats(hits[j], hits[i])}
    IN  hits[Min(best)]

\* scan returns; without a detection the content passes as it is.
EndScan ==
    /\ stage = "scanning"
    /\ todo = <<>>
    /\ stage' = IF hits = <<>> THEN "passed" ELSE "merging"
    /\ todo' = IF hits = <<>> THEN <<>> ELSE active
    /\ UNCHANGED <<active, actions, hits, merged, origin>>

-----------------------------------------------------------------------------
(* Merging the actions.                                                    *)

\* Whether ruleset r takes data type t over, or gets it as the first.
Takes(r, t) ==
    \/ t \notin DOMAIN merged
    \/ RankOfAction(r) > RankOfAction(origin[t])
    \/ /\ RankOfAction(r) = RankOfAction(origin[t])
       /\ actions[r][t] > merged[t]

\* Variant: the origin is recorded only for the first ruleset.
MergeRuleset_first_origin ==
    /\ stage = "merging"
    /\ todo # <<>>
    /\ LET r == Head(todo)
           taken == {t \in DOMAIN actions[r] : Takes(r, t)}
           types == DOMAIN merged \union taken
       IN  /\ merged' = [t \in types |-> IF t \in taken THEN actions[r][t] ELSE merged[t]]
           /\ origin' = [t \in types |-> IF t \in DOMAIN origin THEN origin[t] ELSE r]
    /\ todo' = Tail(todo)
    /\ UNCHANGED <<active, actions, stage, hits>>

\* One ruleset of the loop of get_merged_actions, all its data types.
MergeRuleset ==
    /\ stage = "merging"
    /\ todo # <<>>
    /\ LET r == Head(todo)
           taken == {t \in DOMAIN actions[r] : Takes(r, t)}
           types == DOMAIN merged \union taken
       IN  /\ merged' = [t \in types |-> IF t \in taken THEN actions[r][t] ELSE merged[t]]
           /\ origin' = [t \in types |-> IF t \in taken THEN r ELSE origin[t]]
    /\ todo' = Tail(todo)
    /\ UNCHANGED <<active, actions, stage, hits>>

\* The executor gets the detections and the merged actions.
Execute ==
    /\ stage = "merging"
    /\ todo = <<>>
    /\ stage' = "acting"
    /\ UNCHANGED <<active, actions, todo, hits, merged, origin>>

MergeNext == Match \/ ScanNextRuleset \/ EndScan \/ MergeRuleset \/ Execute

MergeSpec == MergeInit /\ [][MergeNext]_mergeVars

-----------------------------------------------------------------------------
(* Properties.                                                             *)

Configuring(t) == {r \in Range(active) : t \in DOMAIN actions[r]}

\* The merged action of a data type does not depend on the order in which the
\* tenant lists its rulesets: it is the severest one of the top-ranked rulesets
\* that configure the data type (the loop of get_merged_actions keeps track of
\* the ruleset an action came from).
MergeIgnoresOrder ==
    stage = "acting" =>
        \A t \in Types :
            LET rank == {RankOfAction(r) : r \in Configuring(t)}
                top == {r \in Configuring(t) : \A k \in rank : RankOfAction(r) >= k}
            IN  /\ (t \in DOMAIN merged) = (Configuring(t) # {})
                /\ t \in DOMAIN merged =>
                      \E r \in top :
                          /\ merged[t] = actions[r][t]
                          /\ \A s \in top : actions[s][t] <= merged[t]

\* The action applied at the position comes from a ruleset that ranks at least
\* as high as each ruleset that found something there, although the surviving
\* detection and the action of its data type are chosen apart.
TopDetectorDecides ==
    stage = "acting" =>
        /\ Survivor.type \in DOMAIN origin
        /\ \A i \in DOMAIN hits :
              RankOfAction(origin[Survivor.type]) >= RankOfAction(hits[i].ruleset)

\* Both: which action is applied at a position follows from the rulesets, the
\* ranks and what was found alone (get_merged_actions, _deduplicate).
TopActionApplied == MergeIgnoresOrder /\ TopDetectorDecides
=============================================================================
