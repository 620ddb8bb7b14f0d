----------------------------- MODULE Screening -----------------------------
(***************************************************************************)
(* One request that holds more and more of what the controls look for, and *)
(* a policy that is tightened, under the scoring of AgentSecurity.         *)
(***************************************************************************)
EXTENDS AgentSecurity

CONSTANTS Policies,    \* configurations of the policy
          Contents,    \* what the request holds at first
          Leaks, Tools, Events, Detections,  \* what may be added to it
          MaxAdditions \* bound: how much is added

ASSUME PoliciesAssumption == Policies \subseteq PolicyConfig
ASSUME ContentsAssumption == \A c \in Contents : DOMAIN c.hits = Rules
ASSUME AdditionsAssumption ==
    /\ Leaks \subseteq Patterns \X Locations
    /\ Tools \subseteq Tool /\ Events \subseteq MemoryEvent
    /\ Detections \subseteq PiiDetection
    /\ MaxAdditions \in Nat

VARIABLES content, policy, additions,
          decision   \* what both services answer

screeningVars == <<content, policy, additions, decision>>

Decision(c, p) ==
    LET results == Controls(c, p)
        evidence == _build_pii_evidence(c.pii)
        action == _resolve_action(results, p)
    IN  [action |-> action,
         tier |-> _risk_tier(overall_score(results, evidence)),
         outcome |-> _resolve_outcome(action, p.mode, evidence)]

ScreeningInit ==
    /\ content \in Contents /\ policy \in Policies /\ additions = 0
    /\ decision = Decision(content, policy)

\* What is added can only make the request worse.
Add(c) ==
    /\ additions < MaxAdditions
    /\ additions' = additions + 1
    /\ content' = c
    /\ decision' = Decision(c, policy)
    /\ UNCHANGED policy

MatchRule(rule) == Add([content EXCEPT !.hits[rule] = @ + 1])
Drift == ~content.drift /\ Add([content EXCEPT !.drift = TRUE])
Leak(hit) == Add([content EXCEPT !.leaks[hit] = @ + 1])
SendAbroad ==
    Add([content EXCEPT !.foreign = @ + 1,
                           !.leaks["email", "candidate_output"] = @ + 1])

\* A tool that has nothing to do with the task.
AskForTool(tool) ==
    /\ tool.relevance = 0
    /\ tool.requested => content.asks_for_tools
    /\ Add([content EXCEPT !.tools = Append(@, tool)])
WiderScope(i) ==
    /\ ~content.tools[i].wildcard
    /\ Add([content EXCEPT !.tools[i].wildcard = TRUE])
Remember(event) == Add([content EXCEPT !.events = Append(@, event)])
Detect(detection) == Add([content EXCEPT !.pii = Append(@, detection)])

\* p is at least as strict as q.  The limit on tools is compared for equality
\* only: a lower one denies a tool (8 points) that a higher one grants with a
\* finding (15 points).
Stricter(p, q) ==
    /\ q.mode = "enforce" => p.mode = "enforce"
    /\ p.prompt_injection_block_threshold <= q.prompt_injection_block_threshold
    /\ p.context_exfil_block_threshold <= q.context_exfil_block_threshold
    /\ p.context_exfil_review_threshold <= q.context_exfil_review_threshold
    /\ p.max_tools_per_task = q.max_tools_per_task
    /\ q.strict_tool_allowlist => p.strict_tool_allowlist
    /\ q.block_on_sensitive_memory_residue => p.block_on_sensitive_memory_residue
    /\ p.memory_max_retention_turns <= q.memory_max_retention_turns
    /\ q.allowed_destinations => p.allowed_destinations

Tighten(p) ==
    /\ p # policy /\ Stricter(p, policy)
    /\ policy' = p
    /\ decision' = Decision(content, p)
    /\ UNCHANGED <<content, additions>>

ScreeningNext ==
    \/ \E rule \in Rules : MatchRule(rule)
    \/ Drift
    \/ \E hit \in Leaks : Leak(hit)
    \/ SendAbroad
    \/ \E tool \in Tools : AskForTool(tool)
    \/ \E i \in 1..Len(content.tools) : WiderScope(i)
    \/ \E event \in Events : Remember(event)
    \/ \E detection \in Detections : Detect(detection)
    \/ \E p \in Policies : Tighten(p)

-----------------------------------------------------------------------------
(* Properties.                                                             *)

ActionRank(action) == [allow |-> 1, review |-> 2, block |-> 3][action]
TierRank(tier) == [low |-> 1, medium |-> 2, high |-> 3, critical |-> 4][tier]

\* Whatever is added to a request, and however its policy is tightened, the
\* action of the agent security suite never gets milder and the risk tier never
\* falls, though scores are clamped, matches counted at most twice, tools
\* ranked against each other and turns aged by those that follow
\* (analyze_prompt_injection, ..., _resolve_action, _risk_tier).
WorseNeverMilder ==
    [][/\ ActionRank(decision.action) <= ActionRank(decision'.action)
       /\ TierRank(decision.tier) <= TierRank(decision'.tier)]_screeningVars

\* The unified outcome gets milder in one case only: a detection whose ruleset
\* says block is reviewed instead once the controls ask for a review of their
\* own (the order of the cases in _resolve_outcome).
OnlyReviewSoftensBlock ==
    [][ActionRank(decision'.outcome) < ActionRank(decision.outcome) =>
          /\ decision.action = "allow"
          /\ decision'.action = "review" /\ decision'.outcome = "review"]_screeningVars
=============================================================================
