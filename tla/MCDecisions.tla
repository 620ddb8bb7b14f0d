---------------------------- MODULE MCDecisions ----------------------------
(* Model checking of Decisions: two contents under one request id, and two  *)
(* updates that may both expect the first version.                          *)
EXTENDS Decisions

CONSTANTS i

Plain ==
    [hits |-> [rule \in Rules |-> 0], drift |-> FALSE,
     leaks |-> [hit \in Patterns \X Locations |-> 0],
     own_destinations |-> FALSE, foreign |-> 0, tools |-> <<>>,
     asks_for_tools |-> FALSE, events |-> <<>>, pii |-> <<>>]

MCContents ==
    [plain |-> Plain, attack |-> [Plain EXCEPT !.hits["override"] = 1]]
MCConfigs ==
    [default |-> DefaultConfig,
     monitored |-> [DefaultConfig EXCEPT !.mode = "monitor"]]

MCRequests ==
    {[kind |-> "decide", id |-> i, content |-> "plain"],
     [kind |-> "decide", id |-> i, content |-> "attack"],
     [kind |-> "screen", id |-> i, content |-> "plain"],
     [kind |-> "update", config |-> "monitored", expected |-> 0],
     [kind |-> "update", config |-> "default", expected |-> 1],
     [kind |-> "show"]}
=============================================================================
