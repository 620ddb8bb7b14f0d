---------------------------- MODULE MCObserving ----------------------------
(* Model checking of Observing: values at and beside every boundary.       *)
EXTENDS Observing

MCObservations ==
    [monitor : {"aml"}, amount : {0, 4999, 5000, 9999, 10000},
     cash : BOOLEAN, high_risk_country : BOOLEAN, pep_hit : BOOLEAN,
     sanction_hit : BOOLEAN, unusual_pattern : BOOLEAN,
     new_customer : BOOLEAN]
    \union
    [monitor : {"covenant"}, comparator : Comparators, value : -4..4,
     threshold : {-2, 0, 2}, warning_buffer_pct : {0, 50}]
    \union
    [monitor : {"sla"}, comparator : Comparators, value : -2..8,
     threshold : {0, 3}, warning_buffer_pct : {0, 40},
     credit_rate_pct : {0, 5}, max_credit_pct : {5, 25}]
    \union
    [monitor : {"retention"}, policy : BOOLEAN, retention_days : {1, 3},
     warning_buffer_days : {0, 1, 4}, oldest_record_age_days : 0..4]
    \union
    [monitor : {"ropa"}, lawful_basis : BOOLEAN, purpose : BOOLEAN,
     data_categories : BOOLEAN, review_planned : BOOLEAN, review_in : -3..6,
     due_soon_days : {1, 2}]
    \union
    [monitor : {"rd_tax"}, first : [cost : {0, 7}, category : BOOLEAN,
        technical_uncertainty : {TRUE}, narrative_present : BOOLEAN,
        evidence : BOOLEAN],
     second : [cost : {0, 3}, category : BOOLEAN,
        technical_uncertainty : BOOLEAN, narrative_present : {TRUE},
        evidence : BOOLEAN],
     min_qualifying_ratio_pct : {60, 65, 70}]
    \union
    [monitor : {"esg"}, required : BOOLEAN, provided : BOOLEAN,
     has_value : BOOLEAN, has_evidence : BOOLEAN, dated : BOOLEAN,
     age : 0..6, stale_after_days : {1, 2}]
    \union
    [monitor : {"supplier"},
     probability_default_pct : {0, 9, 10, 19, 20, 39, 40},
     payment_delay_days : {0, 29, 30, 59, 60}, watchlist_hit : BOOLEAN,
     covenant_breach_signal : BOOLEAN]
    \union
    [monitor : {"hs"}, immediate_type : BOOLEAN, severe : BOOLEAN,
     lost_time_days : {6, 7}, reported : BOOLEAN,
     reported_after : {19, 20, 21, 30, 31},
     elapsed : {13, 14, 20, 21, 24, 30, 31}, due_soon_days : {3}]
    \union
    [monitor : {"competitor"}, high_impact_type : BOOLEAN,
     signal_strength : {0, 79, 80, 81, 100},
     source_confidence_pct : {0, 50, 100}, revenue_impact_pct : {0, 50, 51, 100}]
=============================================================================
