---------------------------- MODULE MCScreening ----------------------------
(* Model checking of Screening: a plain request, one that uses two of three *)
(* relevant tools at the limit, one that asks for tools and gets none, and  *)
(* one whose scores are next to the upper tiers.                            *)
EXTENDS Screening

Quiet ==
    [hits |-> [rule \in Rules |-> 0], drift |-> FALSE,
     leaks |-> [hit \in Patterns \X Locations |-> 0],
     own_destinations |-> FALSE, foreign |-> 0,
     tools |-> <<>>, asks_for_tools |-> FALSE, events |-> <<>>, pii |-> <<>>]

Offered(relevance, wildcard, requested) ==
    [relevance |-> relevance, wildcard |-> wildcard,
     requires_approval |-> FALSE, requested |-> requested]

Blocked ==
    [configured |-> TRUE, primary |-> "block", log_level |-> "critical",
     layer |-> 1, confidence |-> 90]

MCContents ==
    {Quiet,
     [Quiet EXCEPT !.tools = <<Offered(1, FALSE, FALSE), Offered(2, TRUE, FALSE),
                               Offered(1, FALSE, FALSE)>>,
                   !.own_destinations = TRUE],
     [Quiet EXCEPT !.tools = <<Offered(0, FALSE, TRUE), Offered(2, TRUE, FALSE)>>,
                   !.asks_for_tools = TRUE,
                   !.events = <<[leaks |-> {"jwt"}, persisted |-> FALSE]>>],
     [Quiet EXCEPT !.hits["probing"] = 2, !.hits["hidden"] = 1,
                   !.leaks["ssn", "candidate_output"] = 3,
                   !.tools = <<Offered(0, TRUE, FALSE), Offered(0, TRUE, FALSE),
                               Offered(0, TRUE, FALSE)>>,
                   !.events = <<[leaks |-> {"openai_key", "jwt"},
                                 persisted |-> TRUE]>>,
                   !.pii = <<Blocked, Blocked>>]}

Config(mode, block, exfil, review, memory, retention, destinations) ==
    [DefaultConfig EXCEPT
        !.mode = mode, !.prompt_injection_block_threshold = block,
        !.context_exfil_block_threshold = exfil,
        !.context_exfil_review_threshold = review, !.max_tools_per_task = 2,
        !.block_on_sensitive_memory_residue = memory,
        !.strict_tool_allowlist = memory,
        !.memory_max_retention_turns = retention,
        !.allowed_destinations = destinations]

MCPolicies ==
    {Config("monitor", 60, 70, 40, FALSE, 20, FALSE),
     Config("enforce", 60, 70, 40, FALSE, 20, FALSE),
     Config("enforce", 60, 70, 40, TRUE, 1, FALSE),
     Config("enforce", 45, 50, 30, FALSE, 2, TRUE),
     Config("monitor", 20, 30, 10, TRUE, 1, TRUE)}

MCLeaks ==
    {<<"email", "candidate_output">>, <<"openai_key", "elsewhere">>,
     <<"credit_card", "candidate_output">>}

MCTools ==
    {[relevance |-> 0, wildcard |-> FALSE, requires_approval |-> a,
      requested |-> r] : a, r \in BOOLEAN}

MCEvents ==
    {[leaks |-> {}, persisted |-> TRUE],
     [leaks |-> {"ssn", "email"}, persisted |-> TRUE],
     [leaks |-> {"openai_key"}, persisted |-> FALSE]}

MCDetections ==
    {Blocked, [Blocked EXCEPT !.log_level = "medium"],
     [configured |-> TRUE, primary |-> "mask", log_level |-> "low",
      layer |-> 1, confidence |-> 99],
     [configured |-> FALSE, primary |-> "mask", log_level |-> "low",
      layer |-> 2, confidence |-> 90],
     [configured |-> FALSE, primary |-> "mask", log_level |-> "low",
      layer |-> 3, confidence |-> 90]}
=============================================================================
