--------------------------- MODULE AgentSecurity ---------------------------
(***************************************************************************)
(* The four controls of engine/agent_security/service.py, the action they  *)
(* lead to under a policy, and the outcome and risk tier that              *)
(* engine/decisions/service.py makes of it and of the detections.          *)
(*                                                                         *)
(* A text is reduced to what the controls find in it: how often each rule  *)
(* and each leak pattern matches, which tools are asked for and how they   *)
(* relate to the task, which past turns hold something sensitive.          *)
(* Unified scores are counted in ten-thousandths.                          *)
(***************************************************************************)
EXTENDS Integers, Sequences, FiniteSetsExt

Rules == {"override", "probing", "exfiltration", "hidden", "unicode", "base64"}
Patterns == {"openai_key", "aws_access_key", "bearer_token", "jwt",
             "credit_card", "ssn", "email"}
Locations == {"candidate_output", "elsewhere"}
SeverityLevels == {"low", "medium", "high", "critical"}
PiiActions == {"block", "tokenize", "mask", "pseudonymize", "flag"}

\* scope: any scope with a "*".  relevance: words shared with the task.
Tool ==
    [relevance : Nat, wildcard : BOOLEAN, requires_approval : BOOLEAN,
     requested : BOOLEAN]
\* leaks: the patterns that match the content of a turn, once or more.
MemoryEvent == [leaks : SUBSET Patterns, persisted : BOOLEAN]
\* A detection, whether the merged actions have its type, and if so what they
\* say.  confidence: in percent.
PiiDetection ==
    [configured : BOOLEAN, primary : PiiActions \ {"flag"},
     log_level : SeverityLevels, layer : 1..3, confidence : 0..100]

\* What a request holds.  hits, leaks and foreign count matches; foreign are
\* addresses outside the list of destinations the request or the policy gives.
\* Every such address is an "email" leak, too.
Content ==
    {c \in [hits : [Rules -> Nat], drift : BOOLEAN,
            leaks : [Patterns \X Locations -> Nat],
            own_destinations : BOOLEAN, foreign : Nat,
            tools : Seq(Tool), asks_for_tools : BOOLEAN,
            events : Seq(MemoryEvent), pii : Seq(PiiDetection)] :
        /\ c.foreign <= c.leaks["email", "candidate_output"]
        /\ \A i \in 1..Len(c.tools) :
              c.tools[i].requested => c.asks_for_tools}

PolicyConfig ==
    [mode : {"monitor", "enforce"},
     prompt_injection_block_threshold : 1..100,
     context_exfil_block_threshold : 1..100,
     context_exfil_review_threshold : 1..100,
     max_tools_per_task : 1..25,
     strict_tool_allowlist : BOOLEAN,
     block_on_sensitive_memory_residue : BOOLEAN,
     memory_max_retention_turns : 1..500,
     allowed_destinations : BOOLEAN]

DefaultConfig ==
    [mode |-> "enforce",
     prompt_injection_block_threshold |-> 60,
     context_exfil_block_threshold |-> 70,
     context_exfil_review_threshold |-> 40,
     max_tools_per_task |-> 5,
     strict_tool_allowlist |-> TRUE,
     block_on_sensitive_memory_residue |-> FALSE,
     memory_max_retention_turns |-> 20,
     allowed_destinations |-> FALSE]

-----------------------------------------------------------------------------
_clamp_score(n) == IF n > 100 THEN 100 ELSE n
PointsIf(condition, points) == IF condition THEN points ELSE 0
Total(Weight(_), S) == MapThenSumSet(Weight, S)

RuleScore ==
    [override |-> 35, probing |-> 20, exfiltration |-> 35, hidden |-> 25,
     unicode |-> 15, base64 |-> 20]
Critical == {"override", "exfiltration"}

\* The rules are matched after the normalisation, which removes the characters
\* the "unicode" rule looks for.
_normalize_untrusted_content(hits) == [hits EXCEPT !["unicode"] = 0]

\* At most two matches of a rule are counted.  The drift adds a finding for an
\* allowed action the content does not mention.
analyze_prompt_injection(content, threshold) ==
    LET hits == _normalize_untrusted_content(content.hits)
        Weight(rule) == RuleScore[rule] * (IF hits[rule] > 2 THEN 2 ELSE hits[rule])
        score == _clamp_score(Total(Weight, Rules) + PointsIf(content.drift, 4))
    IN  [risk_score |-> score,
         blocked |-> \/ score >= threshold
                     \/ \E rule \in Critical : hits[rule] > 0]

LeakWeight ==
    [openai_key |-> 30, aws_access_key |-> 30, bearer_token |-> 25, jwt |-> 25,
     credit_card |-> 20, ssn |-> 20, email |-> 10]

\* Every match counts, outside the output 10 points more; an address outside
\* the list 20 more.  Without a list no address is outside.
analyze_context_exfiltration(content, config) ==
    LET Weight(hit) ==
            content.leaks[hit]
              * (LeakWeight[hit[1]] + PointsIf(hit[2] # "candidate_output", 10))
        listed == content.own_destinations \/ config.allowed_destinations
    IN  [risk_score |-> _clamp_score(Total(Weight, Patterns \X Locations)
                                       + PointsIf(listed, 20 * content.foreign))]

\* Tools are ranked by relevance, ties in the order of the request.
evaluate_tool_permissions(content, max_tools) ==
    LET tools == content.tools
        candidates == {i \in 1..Len(tools) :
                          content.asks_for_tools => tools[i].requested}
        relevant == {i \in candidates : tools[i].relevance > 0}
        Before(i) == {j \in relevant : \/ tools[j].relevance > tools[i].relevance
                                       \/ /\ tools[j].relevance = tools[i].relevance
                                          /\ j < i}
        granted == {i \in relevant : Cardinality(Before(i)) < max_tools}
        Weight(i) ==
            IF i \in granted THEN PointsIf(tools[i].wildcard, 15)
            ELSE IF i \in relevant THEN 8
            ELSE 10 + PointsIf(tools[i].wildcard \/ tools[i].requires_approval, 12)
    IN  [risk_score |->
            _clamp_score(Total(Weight, candidates)
                           + PointsIf(content.asks_for_tools /\ granted = {}, 25)),
         granted |-> granted,
         denied |-> candidates \ granted]

\* Variant: turns beyond the retention are no longer looked at.
audit_memory_session_window(content, max_retention_turns) ==
    LET events == content.events
        flagged == {item \in (1..Len(events)) \X Patterns :
                       /\ item[2] \in events[item[1]].leaks
                       /\ Len(events) - item[1] + 1 <= max_retention_turns}
        Weight(item) == LeakWeight[item[2]] - PointsIf(~events[item[1]].persisted, 8)
    IN  [risk_score |-> _clamp_score(Total(Weight, flagged)), scrubs |-> FALSE]

\* The latest turn has age 1.
audit_memory_session(content, max_retention_turns) ==
    LET events == content.events
        Old(i) == Len(events) - i + 1 > max_retention_turns
        flagged == {item \in (1..Len(events)) \X Patterns :
                       item[2] \in events[item[1]].leaks}
        Weight(item) ==
            LET weight == LeakWeight[item[2]]
            IN  IF Old(item[1]) THEN weight + 8
                ELSE IF events[item[1]].persisted THEN weight
                ELSE weight - 8
    IN  [risk_score |-> _clamp_score(Total(Weight, flagged)),
         scrubs |-> \E item \in flagged : Old(item[1])]

\* The results of the four controls.
Controls(content, config) ==
    [prompt |-> analyze_prompt_injection(
                    content, config.prompt_injection_block_threshold),
     exfil |-> analyze_context_exfiltration(content, config),
     tool |-> evaluate_tool_permissions(content, config.max_tools_per_task),
     memory |-> audit_memory_session(content, config.memory_max_retention_turns)]

-----------------------------------------------------------------------------
(* What follows from the controls.                                         *)

hard_block(results, config) ==
    \/ results.prompt.blocked
    \/ results.exfil.risk_score >= config.context_exfil_block_threshold
    \/ /\ config.strict_tool_allowlist
       /\ results.tool.denied # {} /\ results.tool.granted = {}
    \/ config.block_on_sensitive_memory_residue /\ results.memory.scrubs

_resolve_action(results, config) ==
    IF hard_block(results, config)
    THEN IF config.mode = "monitor" THEN "review" ELSE "block"
    ELSE IF \E control \in DOMAIN results :
                results[control].risk_score >= config.context_exfil_review_threshold
    THEN "review"
    ELSE "allow"

SecurityAction(content, config) == _resolve_action(Controls(content, config), config)

_severity_from_detection(detection) ==
    IF detection.layer = 3 \/ detection.confidence >= 97 THEN "high"
    ELSE IF detection.layer = 2 \/ detection.confidence >= 92 THEN "medium"
    ELSE "low"

\* The evidence items of the detections.
_build_pii_evidence(pii) ==
    [i \in 1..Len(pii) |->
        IF pii[i].configured
        THEN [action_applied |-> pii[i].primary, severity |-> pii[i].log_level]
        ELSE [action_applied |-> "flag",
              severity |-> _severity_from_detection(pii[i])]]

SeverityPoints == [low |-> 8, medium |-> 15, high |-> 25, critical |-> 40]

\* In hundredths.
_score_pii(evidence) ==
    LET Weight(i) == SeverityPoints[evidence[i].severity]
        count == 3 * Len(evidence)
    IN  _clamp_score(Total(Weight, 1..Len(evidence)) + (IF count > 25 THEN 25 ELSE count))

overall_score(results, evidence) ==
    20 * _score_pii(evidence) + 30 * results.prompt.risk_score
      + 25 * results.exfil.risk_score + 15 * results.tool.risk_score
      + 10 * results.memory.risk_score

_risk_tier(score) ==
    IF score >= 8500 THEN "critical"
    ELSE IF score >= 6500 THEN "high"
    ELSE IF score >= 3500 THEN "medium"
    ELSE "low"

\* Variant: the severity of the detections is looked at before their actions.
_resolve_outcome_severity_first(base_action, policy_mode, evidence) ==
    LET items == {evidence[i] : i \in 1..Len(evidence)}
    IN  IF base_action # "allow" THEN base_action
        ELSE IF \E x \in items : x.severity \in {"high", "critical"}
        THEN "review"
        ELSE IF policy_mode = "enforce" /\ \E x \in items : x.action_applied = "block"
        THEN "block"
        ELSE "allow"

\* A review by the controls comes before a block by a detection.
_resolve_outcome(base_action, policy_mode, evidence) ==
    LET items == {evidence[i] : i \in 1..Len(evidence)}
    IN  IF base_action # "allow" THEN base_action
        ELSE IF policy_mode = "enforce" /\ \E x \in items : x.action_applied = "block"
        THEN "block"
        ELSE IF \E x \in items : x.severity \in {"high", "critical"}
        THEN "review"
        ELSE "allow"
=============================================================================
