----------------------------- MODULE Dashboards -----------------------------
(***************************************************************************)
(* The dashboards of engine/compliance/service.py over what Monitoring     *)
(* commits.  Each is a sequence of counts, and each count a statement of   *)
(* its own at READ COMMITTED, so that evaluations commit in between.       *)
(*                                                                         *)
(* All findings are recent, all cases open ("open", "in_review" or         *)
(* "escalated"): behaviours are shorter than the windows of 30 and 90      *)
(* days, and nothing closes a case of these domains.  The counts of the    *)
(* registers (Registers), of watchlist hits and of high revenue impacts,   *)
(* and the sums of credits are left out.                                   *)
(***************************************************************************)
EXTENDS Monitoring

CONSTANT Looked   \* the monitors whose dashboards somebody looks at

VARIABLE view     \* the one reader's dashboard, as far as it is answered

dashboardVars == <<vars, view>>

-----------------------------------------------------------------------------
(* What each dashboard counts, in the order of its statements.             *)

covenant_dashboard == <<"breached", "at_risk">>
sla_dashboard == <<"breached", "at_risk", "cases">>
gdpr_retention_dashboard == <<"breach", "warning", "no_policy">>
rd_tax_dashboard == <<"non_compliant", "at_risk", "cases">>
esg_csrd_dashboard == <<"missing_required", "stale", "cases">>
supplier_risk_dashboard == <<"critical", "warning", "cases">>
hs_riddor_dashboard == <<"reportable", "late", "cases">>
competitor_signals_dashboard == <<"critical", "warning", "cases">>

Watched == {"covenant", "sla", "retention", "rd_tax", "esg", "supplier", "hs",
            "competitor"}

ASSUME LookedAssumption == Looked \subseteq Watched

\* Variant: the open cases are counted first, as aml_dashboard does.
Counts_cases_first(monitor) ==
    CASE monitor = "covenant" -> covenant_dashboard
      [] monitor = "esg" -> <<"cases", "missing_required", "stale">>
      [] OTHER -> sla_dashboard

Counts(monitor) ==
    CASE monitor = "covenant" -> covenant_dashboard
      [] monitor = "sla" -> sla_dashboard
      [] monitor = "retention" -> gdpr_retention_dashboard
      [] monitor = "rd_tax" -> rd_tax_dashboard
      [] monitor = "esg" -> esg_csrd_dashboard
      [] monitor = "supplier" -> supplier_risk_dashboard
      [] monitor = "hs" -> hs_riddor_dashboard
      [] monitor = "competitor" -> competitor_signals_dashboard

\* The statuses of the findings a statement counts.
Counted(count) ==
    CASE count = "reportable" -> {"pending_report", "due_soon", "overdue"}
      [] count = "late" -> {"overdue", "reported_late"}
      [] OTHER -> {count}

CountedFindings(monitor, count) ==
    {f \in findings : f.key.monitor = monitor /\ f.status \in Counted(count)}

\* The domain of the cases of a monitor is its name, but for retention (and
\* ROPA), whose dashboard counts no cases.
OpenCases(monitor) == {c \in cases : c.key.monitor = monitor}

-----------------------------------------------------------------------------
(* The reader.  named is history: the cases named by the findings counted.  *)

Closed == [monitor |-> "none", answers |-> <<>>, named |-> {}]

DashboardsInit == Init /\ view = Closed

Look(monitor) ==
    /\ view = Closed
    /\ view' = [Closed EXCEPT !.monitor = monitor]
    /\ UNCHANGED vars

Asked == Len(view.answers) + 1

\* The next SELECT count(...).
CountFindings ==
    /\ view # Closed /\ Asked <= Len(Counts(view.monitor))
    /\ Counts(view.monitor)[Asked] # "cases"
    /\ LET counted == CountedFindings(view.monitor, Counts(view.monitor)[Asked])
       IN  view' = [view EXCEPT
              !.answers = Append(@, Cardinality(counted)),
              !.named = @ \union ({f.case : f \in counted} \ {NoCase})]
    /\ UNCHANGED vars

CountCases ==
    /\ view # Closed /\ Asked <= Len(Counts(view.monitor))
    /\ Counts(view.monitor)[Asked] = "cases"
    /\ view' = [view EXCEPT
          !.answers = Append(@, Cardinality(OpenCases(view.monitor)))]
    /\ UNCHANGED vars

Read == (\E monitor \in Looked : Look(monitor)) \/ CountFindings \/ CountCases

DashboardsNext == (Next /\ UNCHANGED view) \/ Read

DashboardsSpec == DashboardsInit /\ [][DashboardsNext]_dashboardVars

\* The fairness of Monitoring: nobody has to look.
FairDashboardsSpec ==
    DashboardsSpec /\ \A r \in Evaluations :
                         SF_vars(Progress(r)) /\ WF_vars(DeadlockDetected(r))

-----------------------------------------------------------------------------
(* Properties.                                                             *)

\* A dashboard that counts open cases shows at least as many as the findings
\* it has counted name, though evaluations commit between its statements and
\* several findings name one case: the findings are counted before the cases.
DashboardShowsCases ==
    \A i \in 1..Len(view.answers) :
        Counts(view.monitor)[i] = "cases" =>
            Cardinality(view.named) <= view.answers[i]
=============================================================================
