---------------------------- MODULE Assessments ----------------------------
(***************************************************************************)
(* The assessment functions of engine/compliance/service.py: each turns    *)
(* one observation (a signal, a metric, an incident, ...) into a status,   *)
(* and the evaluations decide by it whether to open a compliance case.     *)
(*                                                                         *)
(* Amounts and percentages are integers; a percentage of a threshold is    *)
(* compared by cross multiplication.  Durations are counted in half days,  *)
(* because a timedelta's days are rounded down.  Whether an optional field *)
(* is there is a field of its own; texts are reduced to what is asked of   *)
(* them (empty or not, one of the listed types or not).                    *)
(***************************************************************************)
EXTENDS Integers

Comparators == {"<=", "<", ">=", ">", "="}

AmlSignal ==
    [monitor : {"aml"}, amount : Nat, cash : BOOLEAN,
     high_risk_country : BOOLEAN, pep_hit : BOOLEAN, sanction_hit : BOOLEAN,
     unusual_pattern : BOOLEAN, new_customer : BOOLEAN]
CovenantMetric ==
    [monitor : {"covenant"}, comparator : Comparators, value : Int,
     threshold : Int, warning_buffer_pct : Nat]
\* create_sla_contract refuses a maximum below the rate.
SlaObservation ==
    {o \in [monitor : {"sla"}, comparator : Comparators, value : Int,
            threshold : Int, warning_buffer_pct : Nat, credit_rate_pct : Nat,
            max_credit_pct : Nat] : o.max_credit_pct >= o.credit_rate_pct}
RetentionObservation ==
    [monitor : {"retention"}, policy : BOOLEAN, retention_days : Nat,
     warning_buffer_days : Nat, oldest_record_age_days : Nat]
RopaActivity ==
    [monitor : {"ropa"}, lawful_basis : BOOLEAN, purpose : BOOLEAN,
     data_categories : BOOLEAN, review_planned : BOOLEAN, review_in : Int,
     due_soon_days : Nat]
RdActivity ==
    [cost : Nat, category : BOOLEAN, technical_uncertainty : BOOLEAN,
     narrative_present : BOOLEAN, evidence : BOOLEAN]
RdProject ==
    [monitor : {"rd_tax"}, first : RdActivity, second : RdActivity,
     min_qualifying_ratio_pct : Nat]
EsgDisclosure ==
    [monitor : {"esg"}, required : BOOLEAN, provided : BOOLEAN,
     has_value : BOOLEAN, has_evidence : BOOLEAN, dated : BOOLEAN, age : Nat,
     stale_after_days : Nat]
SupplierObservation ==
    [monitor : {"supplier"}, probability_default_pct : Nat,
     payment_delay_days : Nat, watchlist_hit : BOOLEAN,
     covenant_breach_signal : BOOLEAN]
HsIncident ==
    [monitor : {"hs"}, immediate_type : BOOLEAN, severe : BOOLEAN,
     lost_time_days : Nat, reported : BOOLEAN, reported_after : Nat,
     elapsed : Nat, due_soon_days : Nat]
CompetitorSignal ==
    [monitor : {"competitor"}, high_impact_type : BOOLEAN,
     signal_strength : Nat, source_confidence_pct : Nat,
     revenue_impact_pct : Nat]

Observation ==
    AmlSignal \union CovenantMetric \union SlaObservation
        \union RetentionObservation \union RopaActivity \union RdProject \union EsgDisclosure
        \union SupplierObservation \union HsIncident \union CompetitorSignal

-----------------------------------------------------------------------------
(* The assessment functions.                                               *)

Points(condition, points) == IF condition THEN points ELSE 0
AtMost(bound, n) == IF n > bound THEN bound ELSE n
Distance(m, n) == IF m > n THEN m - n ELSE n - m
Days(half_days) == half_days \div 2   \* rounds down, also below zero

score_aml_signal(o) ==
    AtMost(100,
           (IF o.amount >= 10000 THEN 35 ELSE Points(o.amount >= 5000, 20))
             + Points(o.cash, 20) + Points(o.high_risk_country, 30)
             + Points(o.pep_hit, 30) + Points(o.sanction_hit, 60)
             + Points(o.unusual_pattern, 20)
             + Points(o.new_customer /\ o.amount >= 5000, 15))

\* ingest_aml_signal: a sanction match escalates with a score of 60, too.
aml_status(o) ==
    IF score_aml_signal(o) >= 70 \/ o.sanction_hit THEN "escalated"
    ELSE "logged"

Breached(o) ==
    \/ o.comparator = "<=" /\ o.value > o.threshold
    \/ o.comparator = "<" /\ o.value >= o.threshold
    \/ o.comparator = ">=" /\ o.value < o.threshold
    \/ o.comparator = ">" /\ o.value <= o.threshold
    \/ o.comparator = "=" /\ o.value # o.threshold

\* distance_pct <= warning_buffer_pct; there is no distance to zero.
NearThreshold(o) ==
    /\ o.threshold # 0
    /\ 100 * Distance(o.value, o.threshold)
         <= o.warning_buffer_pct * Distance(o.threshold, 0)

\* evaluate_sla_value is the same function.
evaluate_covenant_value(o) ==
    IF Breached(o) THEN "breached"
    ELSE IF o.comparator # "=" /\ NearThreshold(o) THEN "at_risk"
    ELSE "compliant"

\* The percentage of the contract's value, times the threshold: the rate,
\* multiplied beyond a distance of 10% by its tenths, up to the maximum.
estimate_sla_credit(o) ==
    IF evaluate_covenant_value(o) # "breached" THEN 0
    ELSE IF o.threshold = 0 THEN o.credit_rate_pct
    ELSE LET unit == Distance(o.threshold, 0)
             multiplied == 10 * Distance(o.value, o.threshold)
         IN  AtMost(o.max_credit_pct * unit,
                    o.credit_rate_pct *
                        (IF multiplied > unit THEN multiplied ELSE unit))

\* Variant: the buffer is looked at before the limit.
evaluate_gdpr_retention_observation_buffer_first(o) ==
    IF ~o.policy THEN "no_policy"
    ELSE IF /\ o.warning_buffer_days > 0
            /\ o.oldest_record_age_days
                 >= o.retention_days - o.warning_buffer_days
         THEN "warning"
    ELSE IF o.oldest_record_age_days > o.retention_days THEN "breach"
    ELSE "compliant"

\* Without a buffer nothing is a warning.
evaluate_gdpr_retention_observation(o) ==
    IF ~o.policy THEN "no_policy"
    ELSE IF o.oldest_record_age_days > o.retention_days THEN "breach"
    ELSE IF /\ o.warning_buffer_days > 0
            /\ o.oldest_record_age_days
                 >= o.retention_days - o.warning_buffer_days
         THEN "warning"
    ELSE "compliant"

assess_ropa_activity(o) ==
    IF \/ ~o.lawful_basis \/ ~o.purpose \/ ~o.data_categories
       \/ o.review_planned /\ Days(o.review_in) < 0
    THEN "critical"
    ELSE IF o.review_planned /\ Days(o.review_in) <= o.due_soon_days
         THEN "warning"
    ELSE "compliant"

\* evaluate_rd_tax on the activities of one project.
Qualifies(a) ==
    a.category /\ a.technical_uncertainty /\ a.narrative_present /\ a.evidence
MissesEvidence(a) == ~Qualifies(a) /\ (~a.evidence \/ ~a.narrative_present)
total_cost(o) == o.first.cost + o.second.cost
qualifying_cost(o) ==
    Points(Qualifies(o.first), o.first.cost)
        + Points(Qualifies(o.second), o.second.cost)

\* ratio < pct, the ratio being the qualifying share of the cost.
RatioBelow(o, pct) == 100 * qualifying_cost(o) < pct * total_cost(o)

evaluate_rd_tax_project(o) ==
    IF \/ total_cost(o) <= 0
       \/ MissesEvidence(o.first) \/ MissesEvidence(o.second)
       \/ RatioBelow(o, o.min_qualifying_ratio_pct)
    THEN "non_compliant"
    ELSE IF RatioBelow(o, o.min_qualifying_ratio_pct + 10) THEN "at_risk"
    ELSE "eligible"

\* Variant: the age is looked at first.
evaluate_esg_metric_observation_age_first(o) ==
    IF ~o.provided THEN IF o.required THEN "missing_required"
                        ELSE "not_required"
    ELSE IF o.dated /\ Days(o.age) > o.stale_after_days THEN "stale"
    ELSE IF o.required /\ ~(o.has_value /\ o.has_evidence)
         THEN "missing_required"
    ELSE "compliant"

\* A disclosure without a date is never stale.
evaluate_esg_metric_observation(o) ==
    IF ~o.provided THEN IF o.required THEN "missing_required"
                        ELSE "not_required"
    ELSE IF o.required /\ ~(o.has_value /\ o.has_evidence)
         THEN "missing_required"
    ELSE IF o.dated /\ Days(o.age) > o.stale_after_days THEN "stale"
    ELSE "compliant"

SupplierScore(o) ==
    AtMost(100,
           (IF o.probability_default_pct >= 40 THEN 50
            ELSE IF o.probability_default_pct >= 20 THEN 30
            ELSE Points(o.probability_default_pct >= 10, 15))
             + (IF o.payment_delay_days >= 60 THEN 25
                ELSE Points(o.payment_delay_days >= 30, 15))
             + Points(o.watchlist_hit, 35)
             + Points(o.covenant_breach_signal, 25))

assess_supplier_risk(o) ==
    IF SupplierScore(o) >= 70 THEN "critical"
    ELSE IF SupplierScore(o) >= 40 THEN "warning"
    ELSE "stable"

\* Half days from the incident to the deadline.
Deadline(o) == IF o.immediate_type THEN 20 ELSE 30

assess_hs_riddor(o) ==
    IF ~(o.immediate_type \/ o.lost_time_days >= 7 \/ o.severe)
    THEN "not_reportable"
    ELSE IF o.reported
         THEN IF o.reported_after <= Deadline(o) THEN "reported_on_time"
              ELSE "reported_late"
    ELSE IF o.elapsed > Deadline(o) THEN "overdue"
    ELSE IF Days(Deadline(o) - o.elapsed) <= o.due_soon_days THEN "due_soon"
    ELSE "pending_report"

\* round() takes a half to the even neighbour.
RoundTenths(n) ==
    LET q == n \div 10
        r == n % 10
    IN  IF r > 5 \/ (r = 5 /\ q % 2 = 1) THEN q + 1 ELSE q

priority_score(o) ==
    AtMost(100, RoundTenths(5 * o.signal_strength
                              + 2 * o.source_confidence_pct
                              + 3 * o.revenue_impact_pct
                              + Points(o.high_impact_type, 100)))

assess_competitor_signal(o) ==
    IF priority_score(o) >= 75 THEN "critical"
    ELSE IF priority_score(o) >= 50 THEN "warning"
    ELSE "tracking"

\* The status an evaluation records.
Status(o) ==
    CASE o.monitor = "aml" -> aml_status(o)
      [] o.monitor \in {"covenant", "sla"} -> evaluate_covenant_value(o)
      [] o.monitor = "retention" -> evaluate_gdpr_retention_observation(o)
      [] o.monitor = "ropa" -> assess_ropa_activity(o)
      [] o.monitor = "rd_tax" -> evaluate_rd_tax_project(o)
      [] o.monitor = "esg" -> evaluate_esg_metric_observation(o)
      [] o.monitor = "supplier" -> assess_supplier_risk(o)
      [] o.monitor = "hs" -> assess_hs_riddor(o)
      [] o.monitor = "competitor" -> assess_competitor_signal(o)

(* What the handlers do with an observation: the type of the case they open *)
(* or reuse for it, or "none".                                             *)

CaseIf(condition, type) == IF condition THEN type ELSE "none"

ingest_aml_signal(o) == CaseIf(aml_status(o) = "escalated", "sar")

evaluate_covenants(o) ==
    IF evaluate_covenant_value(o) = "breached" THEN "covenant_breach"
    ELSE CaseIf(evaluate_covenant_value(o) = "at_risk", "covenant_risk")

evaluate_sla(o) ==
    CaseIf(evaluate_covenant_value(o) = "breached", "sla_breach")

evaluate_gdpr_retention(o) ==
    IF evaluate_gdpr_retention_observation(o) = "breach"
    THEN "gdpr_retention_breach"
    ELSE CaseIf(evaluate_gdpr_retention_observation(o) = "no_policy",
                "gdpr_retention_policy_gap")

monitor_ropa(o) ==
    CaseIf(assess_ropa_activity(o) = "critical",
           IF o.lawful_basis /\ o.purpose /\ o.data_categories
           THEN "gdpr_ropa_review_overdue" ELSE "gdpr_ropa_record_gap")

evaluate_rd_tax(o) ==
    CaseIf(evaluate_rd_tax_project(o) = "non_compliant",
           "rd_tax_claim_readiness_gap")

evaluate_esg_csrd(o) ==
    IF evaluate_esg_metric_observation(o) = "missing_required"
    THEN "csrd_required_metric_gap"
    ELSE CaseIf(evaluate_esg_metric_observation(o) = "stale",
                "csrd_metric_stale")

evaluate_supplier_risk(o) ==
    CaseIf(assess_supplier_risk(o) = "critical", "supplier_insolvency_risk")

monitor_hs_riddor(o) ==
    CaseIf(assess_hs_riddor(o) \in {"overdue", "reported_late"},
           "riddor_reporting_breach")

evaluate_competitor_signals(o) ==
    CaseIf(assess_competitor_signal(o) = "critical",
           "strategic_signal_critical")

CaseType(o) ==
    CASE o.monitor = "aml" -> ingest_aml_signal(o)
      [] o.monitor = "covenant" -> evaluate_covenants(o)
      [] o.monitor = "sla" -> evaluate_sla(o)
      [] o.monitor = "retention" -> evaluate_gdpr_retention(o)
      [] o.monitor = "ropa" -> monitor_ropa(o)
      [] o.monitor = "rd_tax" -> evaluate_rd_tax(o)
      [] o.monitor = "esg" -> evaluate_esg_csrd(o)
      [] o.monitor = "supplier" -> evaluate_supplier_risk(o)
      [] o.monitor = "hs" -> monitor_hs_riddor(o)
      [] o.monitor = "competitor" -> evaluate_competitor_signals(o)
=============================================================================
