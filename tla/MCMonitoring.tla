---------------------------- MODULE MCMonitoring ----------------------------
(* Model checking of Monitoring and Dashboards: requests that create and    *)
(* reuse the same cases in both orders, with the same text and with         *)
(* others, one that needs a case twice, one that asks for none, one that    *)
(* gets one all the same, and a dashboard read meanwhile.                   *)
EXTENDS Dashboards

CONSTANTS a, b

Esg(provided, has_value) ==
    [monitor |-> "esg", required |-> TRUE, provided |-> provided,
     has_value |-> has_value, has_evidence |-> TRUE, dated |-> TRUE, age |-> 6,
     stale_after_days |-> 1]
Covenant(value) ==
    [monitor |-> "covenant", comparator |-> ">=", value |-> value,
     threshold |-> 1, warning_buffer_pct |-> 5]

MCSummaries == {"no submission", "no value", "stale", "at 2", "at 1"}
Of(subject, observation, summary) ==
    [subject |-> subject, observation |-> observation, summary |-> summary]
Gap(subject) == Of(subject, Esg(FALSE, FALSE), "no submission")
Empty(subject) == Of(subject, Esg(TRUE, FALSE), "no value")
Stale(subject) == Of(subject, Esg(TRUE, TRUE), "stale")
Kept(subject) == Of(subject, Covenant(2), "at 2")
AtRisk(subject) == Of(subject, Covenant(1), "at 1")
Asking(items) == [create_cases |-> TRUE, items |-> items]

MCRequests ==
    {Asking(<<Gap(a), Gap(b)>>), Asking(<<Empty(b), Gap(a)>>),
     Asking(<<Stale(b), Gap(b), Empty(b)>>),
     [create_cases |-> FALSE, items |-> <<Gap(a)>>],
     [create_cases |-> FALSE, items |-> <<Kept(a), AtRisk(a)>>]}

\* Where a dashboard is looked at, two evaluations begin.
MCNext ==
    /\ DashboardsNext
    /\ view' = Closed \/ \E r \in Evaluations : phase'[r] = "idle"

MCSpec ==
    DashboardsInit /\ [][MCNext]_dashboardVars
    /\ \A r \in Evaluations : SF_vars(Progress(r)) /\ WF_vars(DeadlockDetected(r))
=============================================================================
