----------------------------- MODULE Observing -----------------------------
(***************************************************************************)
(* One subject that is observed again and again, each time in a worse      *)
(* condition, under the assessment functions of Assessments.               *)
(***************************************************************************)
EXTENDS Assessments

CONSTANT Observations   \* those considered

ASSUME ObservationsAssumption == Observations \subseteq Observation

VARIABLE observation

-----------------------------------------------------------------------------
(* What it means that p is at least as bad as o: the same subject, observed *)
(* with nothing better and something perhaps worse.                         *)

WorseSignal(o, p) ==
    /\ o.amount <= p.amount
    /\ o.cash => p.cash
    /\ o.high_risk_country => p.high_risk_country
    /\ o.pep_hit => p.pep_hit
    /\ o.sanction_hit => p.sanction_hit
    /\ o.unusual_pattern => p.unusual_pattern
    /\ o.new_customer => p.new_customer

WorseMetric(o, p) ==
    /\ p = [o EXCEPT !.value = p.value]
    /\ o.comparator \in {"<=", "<"} => o.value <= p.value
    /\ o.comparator \in {">=", ">"} => o.value >= p.value
    /\ o.comparator = "=" =>
          Distance(o.value, o.threshold) <= Distance(p.value, o.threshold)

WorseRetention(o, p) ==
    /\ o.policy = p.policy
    /\ o.retention_days >= p.retention_days
    /\ o.warning_buffer_days <= p.warning_buffer_days
    /\ o.oldest_record_age_days <= p.oldest_record_age_days

WorseRopa(o, p) ==
    /\ p.lawful_basis => o.lawful_basis
    /\ p.purpose => o.purpose
    /\ p.data_categories => o.data_categories
    /\ o.review_planned = p.review_planned
    /\ o.review_in >= p.review_in
    /\ o.due_soon_days <= p.due_soon_days

WorseActivity(a, b) ==
    /\ a.cost = b.cost
    /\ b.category => a.category
    /\ b.technical_uncertainty => a.technical_uncertainty
    /\ b.narrative_present => a.narrative_present
    /\ b.evidence => a.evidence

WorseProject(o, p) ==
    /\ WorseActivity(o.first, p.first)
    /\ WorseActivity(o.second, p.second)
    /\ o.min_qualifying_ratio_pct = p.min_qualifying_ratio_pct

\* Leaving out an optional disclosure, or its date, is no worsening: the code
\* then asks for less.
WorseDisclosure(o, p) ==
    /\ o.required = p.required
    /\ p.provided => o.provided
    /\ ~o.required => (o.provided = p.provided)
    /\ p.has_value => o.has_value
    /\ p.has_evidence => o.has_evidence
    /\ o.dated = p.dated
    /\ o.age <= p.age
    /\ o.stale_after_days >= p.stale_after_days

WorseSupplier(o, p) ==
    /\ o.probability_default_pct <= p.probability_default_pct
    /\ o.payment_delay_days <= p.payment_delay_days
    /\ o.watchlist_hit => p.watchlist_hit
    /\ o.covenant_breach_signal => p.covenant_breach_signal

WorseIncident(o, p) ==
    /\ o.immediate_type => p.immediate_type
    /\ o.severe => p.severe
    /\ o.lost_time_days <= p.lost_time_days
    /\ o.reported = p.reported
    /\ o.reported_after <= p.reported_after
    /\ o.elapsed <= p.elapsed
    /\ o.due_soon_days <= p.due_soon_days

WorseCompetitor(o, p) ==
    /\ o.high_impact_type => p.high_impact_type
    /\ o.signal_strength <= p.signal_strength
    /\ o.source_confidence_pct <= p.source_confidence_pct
    /\ o.revenue_impact_pct <= p.revenue_impact_pct

Worse(o, p) ==
    /\ o.monitor = p.monitor
    /\ CASE o.monitor = "aml" -> WorseSignal(o, p)
         [] o.monitor \in {"covenant", "sla"} -> WorseMetric(o, p)
         [] o.monitor = "retention" -> WorseRetention(o, p)
         [] o.monitor = "ropa" -> WorseRopa(o, p)
         [] o.monitor = "rd_tax" -> WorseProject(o, p)
         [] o.monitor = "esg" -> WorseDisclosure(o, p)
         [] o.monitor = "supplier" -> WorseSupplier(o, p)
         [] o.monitor = "hs" -> WorseIncident(o, p)
         [] o.monitor = "competitor" -> WorseCompetitor(o, p)

ObservingInit == observation \in Observations

\* The subject is observed again, in a worse condition.
Worsen(p) == Worse(observation, p) /\ observation' = p

ObservingNext == \E p \in Observations : Worsen(p)

ObservingSpec == ObservingInit /\ [][ObservingNext]_observation

-----------------------------------------------------------------------------
(* Properties.                                                             *)

Severe == {"escalated", "breached", "breach", "no_policy", "critical",
           "non_compliant", "missing_required"}
Severity(status) ==
    CASE status \in {"reported_late", "overdue"} -> 3
      [] status \in Severe \union {"due_soon"} -> 2
      [] status \in {"at_risk", "warning", "stale", "pending_report",
                     "reported_on_time"} -> 1
      [] OTHER -> 0

\* However the weights, bands, deadlines and buffers of an assessment combine,
\* a worse observation never gets a milder status (the functions above).
WorseNeverLooksBetter ==
    [][Severity(Status(observation)) <= Severity(Status(observation'))]_observation

\* Missing a target by more never makes the estimated credit smaller, also
\* where the status changes (estimate_sla_credit_amount).
CreditNeverShrinks ==
    [][observation.monitor = "sla" =>
          estimate_sla_credit(observation)
              <= estimate_sla_credit(observation')]_observation

\* A subject that calls for a case still calls for one in a worse condition,
\* though what calls for one is decided in nine handlers, by statuses, and in
\* two of them by other statuses than the most severe (the condition before
\* each _create_or_reuse_*_case).
WorseStillNeedsCase ==
    [][CaseType(observation) # "none" => CaseType(observation') # "none"]_observation
=============================================================================
