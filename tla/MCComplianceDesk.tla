-------------------------- MODULE MCComplianceDesk --------------------------
(* Model checking of ComplianceDesk: a case with drafts and submissions, or *)
(* a register with rows in few spellings and with few keys.                 *)
EXTENDS ComplianceDesk, TLC

Spelled(padded, capital) == [word |-> "e", padded |-> padded, capital |-> capital]
Plain ==
    [text |-> Spelled(FALSE, FALSE), key |-> 1, due |-> None,
     status |-> "active", flag |-> FALSE, valid |-> TRUE]
Padded == [Plain EXCEPT !.text = Spelled(TRUE, TRUE), !.key = 2]

MCRequests ==
    [r \in Registers |->
        CASE r \in {"obligations", "rd_tax_activities"} ->
               {Plain, [Padded EXCEPT !.key = None]}
          [] r = "covenants" -> {Plain, [Plain EXCEPT !.valid = FALSE]}
          [] r = "esg_metrics" ->
               {Plain, [Padded EXCEPT !.flag = TRUE], [Plain EXCEPT !.valid = FALSE]}
          [] r = "ropa_activities" ->
               {[Plain EXCEPT !.status = "draft", !.due = 1],
                [Plain EXCEPT !.due = 1, !.flag = TRUE], [Plain EXCEPT !.due = 3]}
          [] r = "aml_signals" -> {Plain, [Plain EXCEPT !.flag = TRUE]}
          [] OTHER -> {Plain, Padded}]

All == [text |-> None, status |-> None, before |-> None]
MCFilters ==
    {[All EXCEPT !.status = "active"],
     [All EXCEPT !.text = Spelled(TRUE, TRUE), !.before = 2]}

MCSymmetry == Permutations(Calls) \union Permutations(Creations)
=============================================================================
