---------------------------- MODULE Judgements ----------------------------
(***************************************************************************)
(* What the engine decides from its input alone: the assessments of the    *)
(* compliance monitors, the agent security controls with the unified       *)
(* outcome, and the merged rulesets.  They share no state: a behaviour is  *)
(* about one of them, and the others stay at some initial state.           *)
(***************************************************************************)
EXTENDS Observing, Screening, RulesetMerge

VARIABLE about   \* what the behaviour is about

judgementVars == <<about, observation, screeningVars, mergeVars>>

NoObserving == observation = CHOOSE o \in Observations : TRUE
NoScreening ==
    /\ content = (CHOOSE c \in Contents : TRUE)
    /\ policy = (CHOOSE p \in Policies : TRUE)
    /\ additions = 0 /\ decision = Decision(content, policy)
NoMerging ==
    /\ active = <<>> /\ actions = <<>> /\ stage = "passed"
    /\ todo = <<>> /\ hits = <<>> /\ merged = <<>> /\ origin = <<>>

JudgementsInit ==
    \/ about = "monitors" /\ ObservingInit /\ NoScreening /\ NoMerging
    \/ about = "controls" /\ NoObserving /\ ScreeningInit /\ NoMerging
    \/ about = "rulesets" /\ NoObserving /\ NoScreening /\ MergeInit

Remain(others) == UNCHANGED <<about, others>>

JudgementsNext ==
    \/ about = "monitors" /\ ObservingNext /\ Remain(<<screeningVars, mergeVars>>)
    \/ about = "controls" /\ ScreeningNext /\ Remain(<<observation, mergeVars>>)
    \/ about = "rulesets" /\ MergeNext /\ Remain(<<observation, screeningVars>>)

JudgementsSpec == JudgementsInit /\ [][JudgementsNext]_judgementVars
=============================================================================
