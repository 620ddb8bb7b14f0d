----------------------------- MODULE SarReports -----------------------------
(***************************************************************************)
(* The cases of escalated AML signals and their reports, as concurrent     *)
(* calls: POST /aml/signals ("ingest"), POST /aml/cases/{id}/sar-draft     *)
(* ("draft" with a text, "generate" without), POST .../submit ("submit"),  *)
(* and the alert task an ingestion starts.                                 *)
(*                                                                         *)
(* A call is one transaction at READ COMMITTED.  It reads rows, changes    *)
(* them in memory, and the commit writes the columns whose value differs   *)
(* from the one read.  No index keeps a case to one report.                *)
(***************************************************************************)
EXTENDS Integers, FiniteSets

CONSTANTS Cases,  \* cases, each named for the ingestion that creates it
          Calls,  \* calls on them, each made once
          NoCase, \* nothing read yet
          NoReport

\* A half draft lacks one of the two texts.
SarRequest ==
    [kind : {"draft"}, case : Cases, half : BOOLEAN]
    \union [kind : {"generate", "submit"}, case : Cases]

\* A case as it is stored, and a report: who created it and for which case.
CaseRow == [status : {"in_review", "submitted"}, stamped : BOOLEAN]
ReportRow == [by : Calls, case : Cases, status : {"draft", "consent_pending"}]

ASSUME CasesAssumption == Cases \intersect Calls = {}
ASSUME NothingReadAssumption == NoCase \notin CaseRow /\ NoReport \notin ReportRow

VARIABLES
    cases,      \* committed cases, or NoCase
    reports,    \* committed reports
    alert,      \* the alert task of each ingestion
    phase,      \* what ingestions and calls do next
    request,    \* what a call asks for
    loaded,     \* the case as an open call read it
    report,     \* the report it read, or NoReport
    overlapped, \* history: pairs of calls open at the same time, without
                \* those that failed
    late,       \* history: calls begun when their case had two reports
    reverted,   \* history: committed drafts that read a submitted case
    overtaken   \* history: alerts that ended before their case was committed

sarVars == <<cases, reports, alert, phase, request, loaded, report, overlapped,
             late, reverted, overtaken>>

-----------------------------------------------------------------------------
Open(c) == phase[c] \notin {"idle", "answered", "failed"}
ReportsOf(k) == {r \in reports : r.case = k}
CaseOf(c) == request[c].case

SarInit ==
    /\ cases = [k \in Cases |-> NoCase]
    /\ reports = {}
    /\ alert = [k \in Cases |-> "none"]
    /\ phase = [c \in Cases \union Calls |-> "idle"]
    /\ request = [c \in Calls |-> [kind |-> "none"]]
    /\ loaded = [c \in Calls |-> NoCase]
    /\ report = [c \in Calls |-> NoReport]
    /\ overlapped = {} /\ late = {} /\ reverted = {} /\ overtaken = {}

Goto(c, p) == phase' = [phase EXCEPT ![c] = p]
Forget(c) ==
    /\ loaded' = [loaded EXCEPT ![c] = NoCase]
    /\ report' = [report EXCEPT ![c] = NoReport]
kept == <<cases, reports, alert, reverted, overtaken>>

Ends(c) ==
    /\ Goto(c, "failed") /\ Forget(c)
    /\ overlapped' = {pair \in overlapped : c \notin pair}
    /\ UNCHANGED <<kept, request, late>>

BeginCall(c, q) ==
    /\ phase[c] = "idle"
    /\ Goto(c, IF q.kind = "submit" THEN "find report" ELSE "find case")
    /\ request' = [request EXCEPT ![c] = q]
    /\ overlapped' = overlapped \union {{c, d} : d \in {e \in Calls : Open(e)}}
    /\ late' = IF Cardinality(ReportsOf(q.case)) > 1 THEN late \union {c} ELSE late
    /\ UNCHANGED <<kept, loaded, report>>

-----------------------------------------------------------------------------
(* Ingestion and alert.                                                    *)

\* The case is flushed and, unless a sanction makes it critical, the alert
\* starts, in a task of its own, before the transaction commits.
ingest_aml_signal(k) ==
    /\ phase[k] = "idle"
    /\ \E priority \in {"high", "critical"} :
          alert' = [alert EXCEPT ![k] = IF priority = "high" THEN "pending" ELSE "none"]
    /\ Goto(k, "commit")
    /\ UNCHANGED <<cases, reports, request, loaded, report, overlapped, late,
                   reverted, overtaken>>

CommitCase(k) ==
    /\ phase[k] = "commit"
    /\ cases' = [cases EXCEPT ![k] = [status |-> "in_review", stamped |-> FALSE]]
    /\ Goto(k, "answered")
    /\ UNCHANGED <<reports, alert, request, loaded, report, overlapped, late,
                   reverted, overtaken>>

FailIngestion(k) ==
    /\ phase[k] = "commit"
    /\ Goto(k, "failed")
    /\ UNCHANGED <<kept, request, loaded, report, overlapped, late>>

\* Webhook and e-mail may fail; the case is stamped all the same, by an UPDATE
\* that finds no row while the case is not committed.
send_aml_alert(k) ==
    /\ alert[k] = "pending"
    /\ alert' = [alert EXCEPT ![k] = "ended"]
    /\ IF cases[k] = NoCase
       THEN overtaken' = overtaken \union {k} /\ UNCHANGED cases
       ELSE cases' = [cases EXCEPT ![k].stamped = TRUE] /\ UNCHANGED overtaken
    /\ UNCHANGED <<reports, phase, request, loaded, report, overlapped, late,
                   reverted>>

\* An exception in the task, or the end of the process.
AlertLost(k) ==
    /\ alert[k] = "pending"
    /\ alert' = [alert EXCEPT ![k] = "lost"]
    /\ UNCHANGED <<cases, reports, phase, request, loaded, report, overlapped,
                   late, reverted, overtaken>>

-----------------------------------------------------------------------------
(* Drafts and submissions.                                                 *)

\* A draft goes on to the report, a submission has read it.
FindCase(c) ==
    /\ phase[c] = "find case"
    /\ request[c].kind \in {"draft", "submit"} /\ cases[CaseOf(c)] # NoCase
    /\ loaded' = [loaded EXCEPT ![c] = cases[CaseOf(c)]]
    /\ Goto(c, IF request[c].kind = "draft" THEN "find report" ELSE "commit")
    /\ UNCHANGED <<kept, request, report, overlapped, late>>

CaseNotFound(c) ==
    /\ phase[c] = "find case" /\ cases[CaseOf(c)] = NoCase
    /\ Ends(c)

\* Whatever text the model writes or the template gives: the report returned
\* has no report_id, the response cannot be built, and all is rolled back.
generate_sar_draft(c) ==
    /\ phase[c] = "find case" /\ request[c].kind = "generate"
    /\ cases[CaseOf(c)] # NoCase
    /\ Ends(c)

\* A half draft of a first report is refused by NOT NULL here, of an existing
\* one when it commits.
FindReport(c) ==
    /\ phase[c] = "find report"
    /\ \/ /\ ReportsOf(CaseOf(c)) = {}
          /\ request[c].kind = "draft" /\ ~request[c].half
          /\ report' = [report EXCEPT ![c] = NoReport]
       \/ \E r \in ReportsOf(CaseOf(c)) :
             /\ ReportsOf(CaseOf(c)) = {r}
             /\ report' = [report EXCEPT ![c] = r]
    /\ Goto(c, IF request[c].kind = "draft" THEN "commit" ELSE "find case")
    /\ UNCHANGED <<kept, request, loaded, overlapped, late>>

\* Variant: the oldest report is taken.
MultipleReports_first(c) ==
    /\ phase[c] = "find report" /\ Cardinality(ReportsOf(CaseOf(c))) > 1
    /\ \E r \in ReportsOf(CaseOf(c)) : report' = [report EXCEPT ![c] = r]
    /\ Goto(c, IF request[c].kind = "draft" THEN "commit" ELSE "find case")
    /\ UNCHANGED <<kept, request, loaded, overlapped, late>>

\* scalar_one_or_none raises MultipleResultsFound.
MultipleReports(c) ==
    /\ phase[c] = "find report" /\ Cardinality(ReportsOf(CaseOf(c))) > 1
    /\ Ends(c)

NoReportYet(c) ==
    /\ phase[c] = "find report" /\ ReportsOf(CaseOf(c)) = {}
    /\ \/ request[c].kind = "submit"
       \/ request[c].kind = "draft" /\ request[c].half
    /\ Ends(c)

\* Variant: the row is written as a whole, with what was read.
CaseWritten_whole(c, status) == [loaded[c] EXCEPT !.status = status]

\* The case after the commit: the status is written if it was read as another.
CaseWritten(c, status) ==
    IF loaded[c].status = status THEN cases[CaseOf(c)]
    ELSE [cases[CaseOf(c)] EXCEPT !.status = status]

\* The status of an existing report stays as it is.
upsert_sar_draft(c) ==
    /\ phase[c] = "commit" /\ request[c].kind = "draft" /\ ~request[c].half
    /\ reports' = IF report[c] # NoReport THEN reports
                  ELSE reports \union
                       {[by |-> c, case |-> CaseOf(c), status |-> "draft"]}
    /\ cases' = [cases EXCEPT ![CaseOf(c)] = CaseWritten(c, "in_review")]
    /\ reverted' = IF loaded[c].status = "submitted"
                   THEN reverted \union {c} ELSE reverted
    /\ Goto(c, "answered") /\ Forget(c)
    /\ UNCHANGED <<alert, request, overlapped, late, overtaken>>

HalfDraft(c) ==
    /\ phase[c] = "commit" /\ request[c].kind = "draft" /\ request[c].half
    /\ Ends(c)

submit_sar(c) ==
    /\ phase[c] = "commit" /\ request[c].kind = "submit"
    /\ reports' = {IF r.by = report[c].by THEN [r EXCEPT !.status = "consent_pending"]
                   ELSE r : r \in reports}
    /\ cases' = [cases EXCEPT ![CaseOf(c)] = CaseWritten(c, "submitted")]
    /\ Goto(c, "answered") /\ Forget(c)
    /\ UNCHANGED <<alert, request, overlapped, late, reverted, overtaken>>

\* The database or the process fails a call before it commits.
FailCall(c) == Open(c) /\ Ends(c)

SarNext ==
    \/ \E k \in Cases :
          \/ ingest_aml_signal(k) \/ CommitCase(k) \/ FailIngestion(k)
          \/ send_aml_alert(k) \/ AlertLost(k)
    \/ \E c \in Calls :
          \/ \E q \in SarRequest : BeginCall(c, q)
          \/ FindCase(c) \/ CaseNotFound(c) \/ generate_sar_draft(c)
          \/ FindReport(c) \/ MultipleReports(c) \/ NoReportYet(c)
          \/ upsert_sar_draft(c) \/ HalfDraft(c) \/ submit_sar(c)
          \/ FailCall(c)

-----------------------------------------------------------------------------
(* Properties.                                                             *)

\* A case gets a second report only from drafts that were open at the same
\* time; and then no draft or submission of the case begun later succeeds: the
\* report can no longer be filed (upsert_sar_draft, submit_sar).
DuplicatedReportBlocks ==
    /\ \A r, s \in reports : r # s /\ r.case = s.case => {r.by, s.by} \in overlapped
    /\ \A c \in late : phase[c] # "answered"

\* A case whose report awaits consent is submitted, unless a draft was saved
\* that had read it as submitted.  Drafts that were on their way before leave
\* it submitted, though they set it to in_review.
SubmittedUnlessRedrafted ==
    \A r \in reports :
        r.status = "consent_pending" =>
            \/ cases[r.case].status = "submitted"
            \/ \E c \in reverted : CaseOf(c) = r.case

\* A committed case whose alert has ended is stamped, whoever else has changed
\* the case since, unless the alert was faster than the commit.
AlertedIsStamped ==
    \A k \in Cases :
        cases[k] # NoCase /\ alert[k] = "ended" =>
            cases[k].stamped \/ k \in overtaken
=============================================================================
