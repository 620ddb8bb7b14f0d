----------------------------- MODULE Registers -----------------------------
(***************************************************************************)
(* The registers of engine/compliance/service.py: rows are created, listed *)
(* page by page with a filter, and counted by dashboards.  Rows of a       *)
(* register never change once created and no two registers share a row, so *)
(* a behaviour is about one of them.                                       *)
(*                                                                         *)
(* A creation is one transaction, stamped before it commits.  A listing    *)
(* counts, then fetches; a dashboard counts several times.  Each statement *)
(* sees what is committed by then (READ COMMITTED).                        *)
(***************************************************************************)
EXTENDS Integers, FiniteSetsExt

CONSTANTS
    Creations,   \* calls of the create endpoints, each made once
    Readers,     \* clients that list or look at a dashboard, each once
    Requests,    \* what each register may be asked to store
    Filters,     \* what may be asked for in a listing
    Limits,      \* page sizes
    None         \* what is left out of a request or a filter

Registers == {"obligations", "covenants", "sla_contracts", "retention_policies",
              "ropa_activities", "rd_tax_activities", "esg_metrics", "suppliers",
              "hs_incidents", "competitors", "aml_signals"}
\* The AML cases are kept by SarReports.
Tables == Registers \union {"aml_cases"}

\* A text: the word, whether there is space around it, and in which letters.
Text == [word : STRING, padded : BOOLEAN, capital : BOOLEAN]
strip(t) == [t EXCEPT !.padded = FALSE]
lower(t) == [t EXCEPT !.capital = FALSE]
upper(t) == [t EXCEPT !.capital = TRUE]

\* text: what can be filtered by (domain, service, system, project, pillar,
\* criticality, incident type, priority).  key: the date or name that orders
\* the register, or None.  flag: a required metric, an activity without lawful
\* basis, a signal of high risk.  valid: comparator, rates and pillar pass.
Request ==
    [text : Text, key : Nat \union {None}, due : Nat \union {None},
     status : STRING, flag : BOOLEAN, valid : BOOLEAN]
Filter ==
    [text : Text \union {None}, status : STRING \union {None},
     before : Nat \union {None}]

ASSUME RequestsAssumption ==
    /\ DOMAIN Requests = Registers
    /\ \A r \in Registers : \A q \in Requests[r] :
          DOMAIN q = {"text", "key", "due", "status", "flag", "valid"}
\* The code of a metric, the date of an incident and the names of suppliers and
\* competitors are required.
ASSUME KeysAssumption ==
    \A r \in Registers : \A q \in Requests[r] :
        /\ q.key \in Nat \union {None}
        /\ r \in {"esg_metrics", "suppliers", "hs_incidents", "competitors"}
              => q.key # None
ASSUME LimitsAssumption == IsFiniteSet(Creations) /\ Limits \subseteq 1..200

VARIABLES
    register,   \* the register the behaviour is about
    clock,      \* the latest time stamp
    rows,       \* its committed rows
    creation,   \* the calls that create
    reader      \* the calls that read

registerVars == <<register, clock, rows, creation, reader>>

-----------------------------------------------------------------------------
(* What is stored.                                                         *)

Row(text, status, order) == [text |-> text, status |-> status, order |-> order]
\* NULLs come last in an ascending order.
Never == 1000
NoText == [word |-> "", padded |-> FALSE, capital |-> FALSE]
Or(value, default) == IF value = None THEN default ELSE value

create_obligation(q, now) == Row(q.text, "active", Or(q.key, Never))
create_covenant(q, now) == Row(NoText, "active", now)
create_sla_contract(q, now) == Row(strip(q.text), "active", now)
create_gdpr_retention_policy(q, now) == Row(strip(q.text), "active", now)
create_ropa_activity(q, now) == Row(NoText, q.status, now)
create_rd_tax_activity(q, now) == Row(strip(q.text), "logged", Or(q.key, now))
create_esg_metric(q, now) == Row(upper(strip(q.text)), "active", q.key)
create_supplier_profile(q, now) == Row(lower(strip(q.text)), "active", q.key)
create_hs_incident(q, now) == Row(lower(strip(q.text)), "open", q.key)
create_competitor_profile(q, now) == Row(lower(strip(q.text)), "active", q.key)
log_aml_signal(q, now) == Row(NoText, q.status, now)

Stored(q, now) ==
    CASE register = "obligations" -> create_obligation(q, now)
      [] register = "covenants" -> create_covenant(q, now)
      [] register = "sla_contracts" -> create_sla_contract(q, now)
      [] register = "retention_policies" -> create_gdpr_retention_policy(q, now)
      [] register = "ropa_activities" -> create_ropa_activity(q, now)
      [] register = "rd_tax_activities" -> create_rd_tax_activity(q, now)
      [] register = "esg_metrics" -> create_esg_metric(q, now)
      [] register = "suppliers" -> create_supplier_profile(q, now)
      [] register = "hs_incidents" -> create_hs_incident(q, now)
      [] register = "competitors" -> create_competitor_profile(q, now)
      [] register = "aml_signals" -> log_aml_signal(q, now)

\* ValueError, answered with 400.
Rejected(q) ==
    /\ register \in {"covenants", "sla_contracts", "esg_metrics"}
    /\ ~q.valid

-----------------------------------------------------------------------------
(* What a listing finds, and in which order.                               *)

Is(wanted, value) == wanted = None \/ wanted = value
Where(f) == {r \in rows : Is(f.status, r.row.status)}
WithText(text, found) == {r \in found : Is(text, r.row.text)}
Ascending(found) == [found |-> found, ascending |-> TRUE]
Descending(found) == [found |-> found, ascending |-> FALSE]

list_obligations(f) ==
    Ascending({r \in WithText(f.text, Where(f)) :
                  f.before # None => r.row.order <= f.before})
list_covenants(f) == Descending(Where(f))
list_sla_contracts(f) == Descending(WithText(f.text, Where(f)))
list_gdpr_retention_policies(f) == Descending(WithText(f.text, Where(f)))
list_ropa_activities(f) == Descending(Where(f))
list_rd_tax_activities(f) == Descending(WithText(f.text, Where(f)))

pillar(text) == IF text = None THEN None ELSE upper(strip(text))
label(text) == IF text = None THEN None ELSE lower(strip(text))

list_esg_metrics(f) == Ascending(WithText(pillar(f.text), Where(f)))
list_supplier_profiles(f) == Ascending(WithText(label(f.text), Where(f)))
list_hs_incidents(f) == Descending(WithText(label(f.text), Where(f)))
list_competitor_profiles(f) == Ascending(WithText(label(f.text), Where(f)))

Listing(f) ==
    CASE register = "obligations" -> list_obligations(f)
      [] register = "covenants" -> list_covenants(f)
      [] register = "sla_contracts" -> list_sla_contracts(f)
      [] register = "retention_policies" -> list_gdpr_retention_policies(f)
      [] register = "ropa_activities" -> list_ropa_activities(f)
      [] register = "rd_tax_activities" -> list_rd_tax_activities(f)
      [] register = "esg_metrics" -> list_esg_metrics(f)
      [] register = "suppliers" -> list_supplier_profiles(f)
      [] register = "hs_incidents" -> list_hs_incidents(f)
      [] register = "competitors" -> list_competitor_profiles(f)

\* Variant: the query has no ORDER BY.
Precedes_unordered(r, s, ascending) == FALSE

\* Rows with the same key come in any order, a different one in each query.
Precedes(r, s, ascending) ==
    IF ascending THEN r.row.order < s.row.order ELSE r.row.order > s.row.order

\* The first n of the rows found, in an order the query may take.
Firsts(found, n, ascending) ==
    {first \in kSubset(Min({n, Cardinality(found)}), found) :
        \A r \in first, s \in found \ first : ~Precedes(s, r, ascending)}

Pages(f, offset, limit) ==
    LET listing == Listing(f)
    IN  UNION {Firsts(listing.found \ skipped, limit, listing.ascending) :
                  skipped \in Firsts(listing.found, offset, listing.ascending)}

-----------------------------------------------------------------------------
(* Creations.                                                              *)

RegistersInit ==
    /\ register \in Tables
    /\ clock = 1
    /\ rows = {}
    /\ creation = [c \in Creations |-> [phase |-> "idle"]]
    /\ reader = [w \in Readers |-> [phase |-> "idle"]]

\* The INSERT of a row stamped with the time the handler started.
Create(c, q) ==
    /\ creation[c].phase = "idle"
    /\ \E now \in {clock, clock + 1} :
          /\ clock' = now
          /\ creation' = [creation EXCEPT ![c] =
                IF Rejected(q) THEN [phase |-> "failed"]
                ELSE [phase |-> "commit",
                      own |-> [by |-> c, sent |-> q, row |-> Stored(q, now)]]]
    /\ UNCHANGED <<register, rows, reader>>

CommitRow(c) ==
    /\ creation[c].phase = "commit"
    /\ rows' = rows \union {creation[c].own}
    /\ creation' = [creation EXCEPT ![c] = [phase |-> "answered"]]
    /\ UNCHANGED <<register, clock, reader>>

FailRow(c) ==
    /\ creation[c].phase = "commit"
    /\ creation' = [creation EXCEPT ![c] = [phase |-> "failed"]]
    /\ UNCHANGED <<register, clock, rows, reader>>

-----------------------------------------------------------------------------
(* A client that asks for one page after the other, each in a request of   *)
(* its own, until a page is short ("short") or the total is reached        *)
(* ("total").                                                              *)

Reads(w, step) == reader' = [reader EXCEPT ![w] = step]

StartWalk(w, f, limit, stop) ==
    /\ reader[w].phase = "idle" /\ register \in Registers \ {"aml_signals"}
    /\ Reads(w, [phase |-> "count", filter |-> f, limit |-> limit, stop |-> stop,
                 offset |-> 0, total |-> 0, seen |-> {},
                 there |-> Listing(f).found, raced |-> FALSE])
    /\ UNCHANGED <<register, clock, rows, creation>>

Count(w) ==
    /\ reader[w].phase = "count"
    /\ Reads(w, [reader[w] EXCEPT
                    !.phase = "page",
                    !.total = Cardinality(Listing(reader[w].filter).found)])
    /\ UNCHANGED <<register, clock, rows, creation>>

\* raced is history: rows were committed since the count.
Page(w) ==
    /\ reader[w].phase = "page"
    /\ LET r == reader[w]
           next == r.offset + r.limit
       IN  \E page \in Pages(r.filter, r.offset, r.limit) :
              LET ends == IF r.stop = "short" THEN Cardinality(page) < r.limit
                          ELSE next >= r.total
              IN  Reads(w, [r EXCEPT
                    !.phase = IF ends THEN "done" ELSE "count",
                    !.offset = next, !.seen = @ \union page,
                    !.raced = Cardinality(Listing(r.filter).found) # r.total])
    /\ UNCHANGED <<register, clock, rows, creation>>

-----------------------------------------------------------------------------
(* The dashboards that count a whole and parts of it.                      *)

DueSoon == 1   \* thirty days, on the scale of the keys

aml_dashboard == <<"high", "all">>
ropa_dashboard == <<"all", "overdue", "due soon", "flagged">>
esg_csrd_dashboard == <<"all", "flagged">>
Counts ==
    CASE register = "aml_signals" -> aml_dashboard
      [] register = "ropa_activities" -> ropa_dashboard
      [] register = "esg_metrics" -> esg_csrd_dashboard

\* Variant: a review due now is overdue as well as due soon.
Counted_twice(count, now) ==
    {r \in rows :
        /\ register # "aml_signals" => r.row.status = "active"
        /\ CASE count = "all" -> TRUE
             [] count \in {"high", "flagged"} -> r.sent.flag
             [] count = "overdue" -> r.sent.due # None /\ r.sent.due <= now
             [] count = "due soon" ->
                   r.sent.due # None /\ r.sent.due \in now..(now + DueSoon)}

\* The rows a statement counts.  All signals count, and active rows of the
\* others.
Counted(count, now) ==
    {r \in rows :
        /\ register # "aml_signals" => r.row.status = "active"
        /\ CASE count = "all" -> TRUE
             [] count \in {"high", "flagged"} -> r.sent.flag
             [] count = "overdue" -> r.sent.due # None /\ r.sent.due < now
             [] count = "due soon" ->
                   r.sent.due # None /\ r.sent.due \in now..(now + DueSoon)}

StartDashboard(w) ==
    /\ reader[w].phase = "idle"
    /\ register \in {"aml_signals", "ropa_activities", "esg_metrics"}
    /\ \E now \in {clock, clock + 1} :
          /\ clock' = now
          /\ Reads(w, [phase |-> "add", now |-> now, next |-> 1,
                       there |-> rows, answer |-> [count \in {} |-> 0]])
    /\ UNCHANGED <<register, rows, creation>>

CountNext(w) ==
    /\ reader[w].phase = "add"
    /\ LET r == reader[w]
           count == Counts[r.next]
           answered == [k \in DOMAIN r.answer \union {count} |->
                           IF k = count THEN Cardinality(Counted(count, r.now))
                           ELSE r.answer[k]]
       IN  Reads(w, [r EXCEPT
              !.phase = IF r.next = Cardinality(DOMAIN Counts) THEN "added" ELSE "add",
              !.next = @ + 1, !.answer = answered])
    /\ UNCHANGED <<register, clock, rows, creation>>

RegistersNext ==
    \/ \E c \in Creations :
          \/ \E q \in Requests[register] : Create(c, q)
          \/ CommitRow(c) \/ FailRow(c)
    \/ \E w \in Readers :
          \/ \E f \in Filters, limit \in Limits, stop \in {"short", "total"} :
                StartWalk(w, f, limit, stop)
          \/ Count(w) \/ Page(w)
          \/ StartDashboard(w) \/ CountNext(w)

-----------------------------------------------------------------------------
(* Properties.                                                             *)

\* A client that walks the pages of a register to the end has seen every row
\* that was there when it started, though others are created meanwhile and
\* shift the offsets.  Two ways out: rows with the same key, and, when it stops
\* at the total, a row committed between the count and the last page.
PagesMissNothing ==
    \A w \in Readers :
        reader[w].phase = "done" =>
            LET r == reader[w]
            IN  \/ r.there \subseteq r.seen
                \/ \E s, t \in Listing(r.filter).found :
                      s # t /\ s.row.order = t.row.order
                \/ r.stop = "total" /\ r.raced

\* The parts a dashboard counts fit in the whole it counts, unless a row was
\* committed between its statements.  The AML dashboard counts the whole last,
\* and its parts fit whatever is committed meanwhile.
DashboardsAddUp ==
    \A w \in Readers :
        reader[w].phase = "added" =>
            LET n == reader[w].answer
            IN  CASE register = "aml_signals" -> n["high"] <= n["all"]
                  [] OTHER -> \/ rows # reader[w].there
                              \/ /\ n["flagged"] <= n["all"]
                                 /\ register = "ropa_activities" =>
                                      n["overdue"] + n["due soon"] <= n["all"]
=============================================================================
