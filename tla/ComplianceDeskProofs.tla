------------------------ MODULE ComplianceDeskProofs ------------------------
(* What the endpoints of the compliance desk guarantee for any number of    *)
(* cases, rows, calls and clients: first those for suspicious activity      *)
(* reports, then the registers.                                             *)
EXTENDS ComplianceDesk, Sequences, FiniteSetTheorems, TLAPS

-----------------------------------------------------------------------------
(* The invariant.                                                           *)

SarTypes ==
    /\ cases \in [Cases -> CaseRow \union {NoCase}]
    /\ reports \subseteq ReportRow
    /\ alert \in [Cases -> {"none", "pending", "ended", "lost"}]
    /\ phase \in [Cases \union Calls ->
                     {"idle", "find case", "find report", "commit", "answered",
                      "failed"}]
    /\ request \in [Calls -> SarRequest \union {[kind |-> "none"]}]
    /\ loaded \in [Calls -> CaseRow \union {NoCase}]
    /\ report \in [Calls -> ReportRow \union {NoReport}]
    /\ reverted \subseteq Calls
    /\ late \subseteq Calls
    /\ \A c \in Calls : phase[c] # "idle" => request[c] \in SarRequest
    /\ \A c \in reverted \union late : phase[c] # "idle"

\* What a call has read at each point, and that it is there.
HasRead(c) ==
    /\ phase[c] = "commit" =>
          request[c].kind \in {"draft", "submit"} /\ loaded[c] # NoCase
    /\ phase[c] = "find report" =>
          \/ request[c].kind = "draft" /\ loaded[c] # NoCase
          \/ request[c].kind = "submit"
    /\ phase[c] \in {"find case", "commit"} /\ request[c].kind = "submit" =>
          report[c] # NoReport
    /\ loaded[c] # NoCase =>
          /\ \/ phase[c] = "commit"
             \/ phase[c] = "find report" /\ request[c].kind = "draft"
          /\ cases[CaseOf(c)] # NoCase
    /\ report[c] # NoReport =>
          /\ \/ phase[c] = "commit"
             \/ phase[c] = "find case" /\ request[c].kind = "submit"
          /\ \E r \in reports : r.by = report[c].by /\ r.case = CaseOf(c)

ReadInv == \A c \in Calls : HasRead(c)

\* A report belongs to a committed case, and a call creates one at most.
ReportInv ==
    /\ \A r \in reports : phase[r.by] = "answered" /\ cases[r.case] # NoCase
    /\ \A r, s \in reports : r.by = s.by => r = s

\* Open calls overlap.  A draft that found no report overlaps the creator of
\* any that has come since.
OverlapInv ==
    /\ \A c, d \in Calls : c # d /\ Open(c) /\ Open(d) => {c, d} \in overlapped
    /\ \A r, s \in reports : r # s /\ r.case = s.case => {r.by, s.by} \in overlapped
    /\ \A c \in Calls :
          phase[c] = "commit" /\ request[c].kind = "draft" /\ report[c] = NoReport =>
              \A r \in reports : r.case = CaseOf(c) => {c, r.by} \in overlapped

TwoReports(k) == \E r, s \in reports : r.by # s.by /\ r.case = k /\ s.case = k

\* A call begun when its case had two reports does not get past the report.
LateInv ==
    \A c \in late :
        /\ phase[c] \in {"find case", "find report", "failed"}
        /\ phase[c] = "find case" => request[c].kind # "submit"
        /\ TwoReports(CaseOf(c))

Submitted(k) == cases[k].status = "submitted" \/ \E c \in reverted : CaseOf(c) = k

\* A case read as submitted, or with a report that was, is submitted.
SubmittedInv ==
    /\ \A r \in reports : r.status = "consent_pending" => Submitted(r.case)
    /\ \A c \in Calls :
          loaded[c] # NoCase /\ loaded[c].status = "submitted" => Submitted(CaseOf(c))

\* A case that is not committed is not stored, and an alert that has ended
\* came too early.
AlertInv ==
    /\ \A k \in Cases : phase[k] # "answered" => cases[k] = NoCase
    /\ \A k \in Cases : alert[k] = "ended" /\ cases[k] = NoCase => k \in overtaken
    /\ AlertedIsStamped

SarInv ==
    /\ SarTypes /\ ReadInv /\ ReportInv /\ OverlapInv /\ LateInv
    /\ SubmittedInv /\ AlertInv

-----------------------------------------------------------------------------
(* Facts about requests and sets.                                           *)

LEMMA RequestFacts ==
    ASSUME NEW q \in SarRequest
    PROVE  /\ q.case \in Cases
           /\ q.kind \in {"draft", "generate", "submit"}
  BY DEF SarRequest

\* A call that has begun is about a case.
LEMMA CaseOfCall ==
    ASSUME SarTypes, NEW c \in Calls, phase[c] # "idle"
    PROVE  CaseOf(c) \in Cases /\ request[c].kind \in {"draft", "generate", "submit"}
  BY RequestFacts DEF SarTypes, CaseOf

LEMMA ReportFacts ==
    ASSUME SarTypes, NEW r \in reports
    PROVE  /\ r.by \in Calls /\ r.case \in Cases
           /\ r.status \in {"draft", "consent_pending"}
  BY DEF SarTypes, ReportRow

\* More than one element.
LEMMA TwoElements ==
    ASSUME NEW S, Cardinality(S) > 1
    PROVE  \E r, s \in S : r # s
<1> SUFFICES ASSUME \A r, s \in S : r = s PROVE FALSE
  OBVIOUS
<1>1. CASE S = {}
  BY <1>1, FS_EmptySet
<1>2. CASE S # {}
  <2>1. PICK r \in S : TRUE BY <1>2
  <2>2. S = {r} BY <2>1
  <2>3. Cardinality({r}) = 1 BY FS_Singleton
  <2> QED BY <2>2, <2>3
<1> QED BY <1>1, <1>2

-----------------------------------------------------------------------------
(* Ingestion and alert.                                                     *)

\* What a call has read stays as it is.
LEMMA StillRead ==
    ASSUME NEW c, HasRead(c),
           phase'[c] = phase[c], request'[c] = request[c],
           loaded'[c] = loaded[c], report'[c] = report[c],
           loaded[c] # NoCase /\ cases[CaseOf(c)] # NoCase => cases'[CaseOf(c)] # NoCase,
           \A r \in reports : \E s \in reports' : s.by = r.by /\ s.case = r.case
    PROVE  HasRead(c)'
<1>1. CaseOf(c)' = CaseOf(c)
  BY DEF CaseOf
<1>2. report[c] # NoReport =>
          \E s \in reports' : s.by = report[c].by /\ s.case = CaseOf(c)
  BY DEF HasRead
<1> QED BY <1>1, <1>2 DEF HasRead

\* What the calls have and know is not touched by a step of a case that keeps
\* the status of the committed ones.
LEMMA CallsUntouched ==
    ASSUME SarInv, NEW k \in Cases, NEW p, phase' = [phase EXCEPT ![k] = p],
           UNCHANGED <<reports, request, loaded, report, overlapped, late, reverted>>,
           \A j \in Cases : cases[j] # NoCase =>
               cases'[j] # NoCase /\ cases'[j].status = cases[j].status
    PROVE  ReadInv' /\ ReportInv' /\ OverlapInv' /\ LateInv' /\ SubmittedInv'
<1>1. \A c \in Calls : phase'[c] = phase[c]
  BY CasesAssumption DEF SarInv, SarTypes
<1>2. \A c \in Calls : phase[c] # "idle" => CaseOf(c) \in Cases
  BY CaseOfCall DEF SarInv
<1>3. \A r \in reports : r.by \in Calls /\ r.case \in Cases
  BY ReportFacts DEF SarInv
<1>4. ReadInv'
  <2> SUFFICES ASSUME NEW c \in Calls PROVE HasRead(c)'
    BY DEF ReadInv
  <2>1. HasRead(c) BY DEF SarInv, ReadInv
  <2>2. loaded[c] # NoCase => phase[c] # "idle"
    BY <2>1 DEF HasRead
  <2>3. loaded[c] # NoCase /\ cases[CaseOf(c)] # NoCase => cases'[CaseOf(c)] # NoCase
    BY <1>2, <2>2
  <2>4. \A r \in reports : \E s \in reports' : s.by = r.by /\ s.case = r.case
    OBVIOUS
  <2> QED BY <1>1, <2>1, <2>3, <2>4, StillRead
<1>5. ReportInv'
  BY <1>1, <1>3 DEF SarInv, ReportInv
<1>6. OverlapInv'
  BY <1>1 DEF SarInv, OverlapInv, Open, CaseOf
<1>7. LateInv'
  <2>1. late \subseteq Calls /\ late' = late /\ request' = request
    BY DEF SarInv, SarTypes
  <2>2. \A c \in late : TwoReports(CaseOf(c))'
    BY DEF SarInv, LateInv, TwoReports, CaseOf
  <2> QED BY <1>1, <2>1, <2>2 DEF SarInv, LateInv
<1>8. SubmittedInv'
  <2>1. \A j \in Cases : cases[j] # NoCase /\ Submitted(j) => Submitted(j)'
    BY DEF Submitted, CaseOf
  <2>2. \A r \in reports : cases[r.case] # NoCase
    BY DEF SarInv, ReportInv
  <2>3. \A c \in Calls : loaded[c] # NoCase =>
            CaseOf(c) \in Cases /\ cases[CaseOf(c)] # NoCase
    BY <1>2 DEF SarInv, ReadInv, HasRead
  <2>4. \A r \in reports : r.status = "consent_pending" => Submitted(r.case)'
    BY <1>3, <2>1, <2>2 DEF SarInv, SubmittedInv
  <2>5. \A c \in Calls : loaded[c] # NoCase /\ loaded[c].status = "submitted" =>
            Submitted(CaseOf(c))
    BY DEF SarInv, SubmittedInv
  <2>6. \A c \in Calls, j \in Cases :
            /\ loaded[c] # NoCase /\ loaded[c].status = "submitted" /\ j = CaseOf(c)
            => Submitted(j)'
    BY <2>1, <2>3, <2>5
  <2> QED BY <2>3, <2>4, <2>6 DEF SubmittedInv, Submitted, CaseOf
<1> QED BY <1>4, <1>5, <1>6, <1>7, <1>8

\* The case and its alert are not stored yet.
LEMMA IngestPreserves ==
    ASSUME SarInv, NEW k \in Cases, ingest_aml_signal(k)
    PROVE  SarInv'
<1>1. PICK a \in {"pending", "none"} :
          /\ phase[k] = "idle"
          /\ alert' = [alert EXCEPT ![k] = a]
          /\ phase' = [phase EXCEPT ![k] = "commit"]
          /\ UNCHANGED <<cases, reports, request, loaded, report, overlapped,
                         late, reverted, overtaken>>
  BY DEF ingest_aml_signal, Goto
<1>2. SarTypes'
  BY <1>1, CasesAssumption DEF SarInv, SarTypes
<1>3. ReadInv' /\ ReportInv' /\ OverlapInv' /\ LateInv' /\ SubmittedInv'
  BY <1>1, CallsUntouched
<1>4. AlertInv'
  BY <1>1 DEF SarInv, SarTypes, AlertInv, AlertedIsStamped
<1> QED BY <1>2, <1>3, <1>4 DEF SarInv

\* No report or call knows a case before it is committed.
LEMMA CommitCasePreserves ==
    ASSUME SarInv, NEW k \in Cases, CommitCase(k)
    PROVE  SarInv'
<1> DEFINE row == [status |-> "in_review", stamped |-> FALSE]
<1>1. /\ phase[k] = "commit"
      /\ cases' = [cases EXCEPT ![k] = row]
      /\ phase' = [phase EXCEPT ![k] = "answered"]
      /\ UNCHANGED <<alert, reports, request, loaded, report, overlapped,
                     late, reverted, overtaken>>
  BY DEF CommitCase, Goto
<1>2. cases[k] = NoCase
  BY <1>1 DEF SarInv, AlertInv
<1>3. row \in CaseRow
  BY DEF CaseRow
<1> HIDE DEF row
<1>4. SarTypes'
  BY <1>1, <1>3, CasesAssumption DEF SarInv, SarTypes
<1>5. \A j \in Cases : cases[j] # NoCase => cases'[j] = cases[j]
  BY <1>1, <1>2 DEF SarInv, SarTypes
<1>6. ReadInv' /\ ReportInv' /\ OverlapInv' /\ LateInv' /\ SubmittedInv'
  BY <1>1, <1>5, CallsUntouched
<1>7. AlertInv'
  BY <1>1, <1>2 DEF SarInv, SarTypes, AlertInv, AlertedIsStamped
<1> QED BY <1>4, <1>6, <1>7 DEF SarInv

\* Nothing of the case remains.
LEMMA FailIngestionPreserves ==
    ASSUME SarInv, NEW k \in Cases, FailIngestion(k)
    PROVE  SarInv'
<1>1. /\ phase[k] = "commit"
      /\ phase' = [phase EXCEPT ![k] = "failed"]
      /\ UNCHANGED <<cases, alert, reports, request, loaded, report, overlapped,
                     late, reverted, overtaken>>
  BY DEF FailIngestion, Goto, kept
<1>2. SarTypes'
  BY <1>1, CasesAssumption DEF SarInv, SarTypes
<1>3. ReadInv' /\ ReportInv' /\ OverlapInv' /\ LateInv' /\ SubmittedInv'
  BY <1>1, CallsUntouched
<1>4. AlertInv'
  BY <1>1 DEF SarInv, SarTypes, AlertInv, AlertedIsStamped
<1> QED BY <1>2, <1>3, <1>4 DEF SarInv

\* The stamp leaves the status alone.
LEMMA AlertPreserves ==
    ASSUME SarInv, NEW k \in Cases, send_aml_alert(k)
    PROVE  SarInv'
<1>1. /\ alert[k] = "pending"
      /\ alert' = [alert EXCEPT ![k] = "ended"]
      /\ UNCHANGED <<reports, phase, request, loaded, report, overlapped, late,
                     reverted>>
  BY DEF send_aml_alert
<1>2. phase' = [phase EXCEPT ![k] = phase[k]]
  BY <1>1 DEF SarInv, SarTypes
<1>3. CASE cases[k] = NoCase
  <2>1. overtaken' = overtaken \union {k} /\ cases' = cases
    BY <1>3 DEF send_aml_alert
  <2>2. SarTypes'
    BY <1>1, <2>1 DEF SarInv, SarTypes
  <2>3. ReadInv' /\ ReportInv' /\ OverlapInv' /\ LateInv' /\ SubmittedInv'
    BY <1>1, <1>2, <2>1, CallsUntouched
  <2>4. AlertInv'
    BY <1>1, <1>3, <2>1 DEF SarInv, SarTypes, AlertInv, AlertedIsStamped
  <2> QED BY <2>2, <2>3, <2>4 DEF SarInv
<1>4. CASE cases[k] # NoCase
  <2> DEFINE row == [cases[k] EXCEPT !.stamped = TRUE]
  <2>1. cases' = [cases EXCEPT ![k] = row] /\ overtaken' = overtaken
    BY <1>4 DEF send_aml_alert
  <2>2. row \in CaseRow /\ row.status = cases[k].status /\ row.stamped
    BY <1>4 DEF SarInv, SarTypes, CaseRow
  <2> HIDE DEF row
  <2>3. row # NoCase
    BY <2>2, NothingReadAssumption
  <2>4. SarTypes'
    BY <1>1, <2>1, <2>2 DEF SarInv, SarTypes
  <2>5. \A j \in Cases : cases[j] # NoCase =>
            cases'[j] # NoCase /\ cases'[j].status = cases[j].status
    BY <2>1, <2>2, <2>3 DEF SarInv, SarTypes
  <2>6. ReadInv' /\ ReportInv' /\ OverlapInv' /\ LateInv' /\ SubmittedInv'
    BY <1>1, <1>2, <2>5, CallsUntouched
  <2>7. /\ cases'[k].stamped /\ cases'[k] # NoCase /\ phase[k] = "answered"
        /\ \A j \in Cases \ {k} : cases'[j] = cases[j] /\ alert'[j] = alert[j]
    BY <1>1, <1>4, <2>1, <2>2, <2>3 DEF SarInv, SarTypes, AlertInv
  <2>8. AlertInv'
    BY <1>1, <2>1, <2>7 DEF SarInv, AlertInv, AlertedIsStamped
  <2> QED BY <2>4, <2>6, <2>8 DEF SarInv
<1> QED BY <1>3, <1>4

\* An alert that is lost stamps nothing.
LEMMA AlertLostPreserves ==
    ASSUME SarInv, NEW k \in Cases, AlertLost(k)
    PROVE  SarInv'
<1>1. /\ alert' = [alert EXCEPT ![k] = "lost"]
      /\ UNCHANGED <<cases, reports, phase, request, loaded, report, overlapped,
                     late, reverted, overtaken>>
  BY DEF AlertLost
<1>2. phase' = [phase EXCEPT ![k] = phase[k]]
  BY <1>1 DEF SarInv, SarTypes
<1>3. SarTypes'
  BY <1>1 DEF SarInv, SarTypes
<1>4. ReadInv' /\ ReportInv' /\ OverlapInv' /\ LateInv' /\ SubmittedInv'
  BY <1>1, <1>2, CallsUntouched
<1>5. AlertInv'
  BY <1>1 DEF SarInv, SarTypes, AlertInv, AlertedIsStamped
<1> QED BY <1>3, <1>4, <1>5 DEF SarInv

-----------------------------------------------------------------------------
(* Calls.                                                                   *)

\* A call that fails has no report and holds nothing.
LEMMA EndsPreserves ==
    ASSUME SarInv, NEW c \in Calls, Open(c), Ends(c)
    PROVE  SarInv'
<1>1. /\ phase' = [phase EXCEPT ![c] = "failed"]
      /\ loaded' = [loaded EXCEPT ![c] = NoCase]
      /\ report' = [report EXCEPT ![c] = NoReport]
      /\ overlapped' = {pair \in overlapped : c \notin pair}
      /\ UNCHANGED <<cases, reports, alert, request, late, reverted, overtaken>>
  BY DEF Ends, Goto, Forget, kept
<1>2. /\ \A d \in Calls \ {c} :
            phase'[d] = phase[d] /\ loaded'[d] = loaded[d] /\ report'[d] = report[d]
      /\ phase'[c] = "failed" /\ loaded'[c] = NoCase /\ report'[c] = NoReport
      /\ AlertInv'
  <2>1. /\ \A d \in Calls \ {c} :
              phase'[d] = phase[d] /\ loaded'[d] = loaded[d] /\ report'[d] = report[d]
        /\ phase'[c] = "failed" /\ loaded'[c] = NoCase /\ report'[c] = NoReport
    BY <1>1 DEF SarInv, SarTypes
  <2>2. \A k \in Cases : phase'[k] = phase[k]
    BY <1>1, CasesAssumption DEF SarInv, SarTypes
  <2>3. AlertInv'
    BY <1>1, <2>1, <2>2 DEF SarInv, AlertInv, AlertedIsStamped
  <2> QED BY <2>1, <2>3
<1>3. \A r \in reports : r.by \in Calls /\ r.by # c
  <2>1. \A r \in reports : r.by \in Calls
    BY ReportFacts DEF SarInv
  <2>2. \A r \in reports : phase[r.by] = "answered"
    BY DEF SarInv, ReportInv
  <2>3. phase[c] # "answered"
    BY DEF Open
  <2> QED BY <2>1, <2>2, <2>3
<1>4. late \subseteq Calls /\ phase[c] \in {"find case", "find report", "commit"}
  BY DEF SarInv, SarTypes, Open
<1>5. SarTypes'
  BY <1>1, <1>4 DEF SarInv, SarTypes
<1>6. ReadInv'
  <2>1. ASSUME NEW d \in Calls \ {c} PROVE HasRead(d)'
    BY <1>1, <1>2, StillRead DEF SarInv, ReadInv
  <2>2. HasRead(c)'
    BY <1>2 DEF HasRead
  <2> QED BY <2>1, <2>2 DEF ReadInv
<1>7. ReportInv'
  BY <1>1, <1>2, <1>3 DEF SarInv, ReportInv
<1>8. OverlapInv'
  BY <1>1, <1>2, <1>3 DEF SarInv, OverlapInv, Open, CaseOf
<1>9. LateInv'
  <2>1. ASSUME NEW d \in late
        PROVE  /\ phase'[d] \in {"find case", "find report", "failed"}
               /\ phase'[d] = "find case" => request[d].kind # "submit"
    BY <1>2, <1>4 DEF SarInv, LateInv
  <2>2. \A d \in late : TwoReports(CaseOf(d))'
    BY <1>1 DEF SarInv, LateInv, TwoReports, CaseOf
  <2>3. late' = late /\ request' = request BY <1>1
  <2> QED BY <2>1, <2>2, <2>3 DEF LateInv
<1>10. SubmittedInv'
  BY <1>1, <1>2 DEF SarInv, SubmittedInv, Submitted, CaseOf
<1> QED BY <1>2, <1>5, <1>6, <1>7, <1>8, <1>9, <1>10 DEF SarInv

\* A call that begins overlaps all open ones.
LEMMA BeginPreserves ==
    ASSUME SarInv, NEW c \in Calls, NEW q \in SarRequest, BeginCall(c, q)
    PROVE  SarInv'
<1> DEFINE p == IF q.kind = "submit" THEN "find report" ELSE "find case"
<1>1. /\ phase[c] = "idle"
      /\ phase' = [phase EXCEPT ![c] = p]
      /\ request' = [request EXCEPT ![c] = q]
      /\ overlapped' = overlapped \union {{c, d} : d \in {e \in Calls : Open(e)}}
      /\ late' = IF Cardinality(ReportsOf(q.case)) > 1 THEN late \union {c} ELSE late
      /\ UNCHANGED <<cases, reports, alert, reverted, overtaken, loaded, report>>
  BY DEF BeginCall, Goto, kept
<1>2. q.case \in Cases /\ p \in {"find report", "find case"}
      /\ (p = "find report" => q.kind = "submit")
      /\ (p = "find case" => q.kind # "submit")
  BY RequestFacts
<1> HIDE DEF p
<1>3. /\ \A d \in Calls \ {c} : phase'[d] = phase[d] /\ request'[d] = request[d]
      /\ phase'[c] = p /\ request'[c] = q
  BY <1>1 DEF SarInv, SarTypes
<1>4. loaded[c] = NoCase /\ report[c] = NoReport /\ c \notin late \union reverted
  BY <1>1 DEF SarInv, SarTypes, ReadInv, HasRead
<1>5. \A r \in reports : r.by \in Calls /\ r.by # c
  BY <1>1, ReportFacts DEF SarInv, ReportInv
<1>6. late \subseteq Calls /\ reverted \subseteq Calls
  BY DEF SarInv, SarTypes
<1>7. SarTypes'
  BY <1>1, <1>2, <1>3, <1>6 DEF SarInv, SarTypes
<1>8. ReadInv'
  <2>1. ASSUME NEW d \in Calls \ {c} PROVE HasRead(d)'
    BY <1>1, <1>3, StillRead DEF SarInv, ReadInv
  <2>2. HasRead(c)'
    BY <1>1, <1>2, <1>3, <1>4 DEF HasRead
  <2> QED BY <2>1, <2>2 DEF ReadInv
<1>9. ReportInv'
  BY <1>1, <1>3, <1>5 DEF SarInv, ReportInv
<1>10. OverlapInv'
  <2>1. \A d \in Calls : d # c /\ Open(d) => {c, d} \in overlapped'
    BY <1>1
  <2>2. \A d \in Calls : d # c => (Open(d)' <=> Open(d))
    BY <1>3 DEF Open
  <2>3. ASSUME NEW d \in Calls, NEW e \in Calls, d # e, Open(d)', Open(e)'
        PROVE  {d, e} \in overlapped'
    <3>1. CASE d = c BY <2>1, <2>2, <2>3, <3>1
    <3>2. CASE e = c
      <4>1. {d, e} = {e, d} OBVIOUS
      <4> QED BY <2>1, <2>2, <2>3, <3>2, <4>1
    <3>3. CASE d # c /\ e # c
      BY <1>1, <2>2, <2>3, <3>3 DEF SarInv, OverlapInv
    <3> QED BY <3>1, <3>2, <3>3
  <2>4. \A r, s \in reports : r # s /\ r.case = s.case => {r.by, s.by} \in overlapped'
    BY <1>1 DEF SarInv, OverlapInv
  <2>5. \A d \in Calls :
            phase'[d] = "commit" /\ request'[d].kind = "draft" /\ report[d] = NoReport =>
              \A r \in reports : r.case = request'[d].case => {d, r.by} \in overlapped'
    BY <1>1, <1>2, <1>3 DEF SarInv, OverlapInv, CaseOf
  <2> QED BY <1>1, <2>3, <2>4, <2>5 DEF OverlapInv, CaseOf
<1>11. LateInv'
  <2>1. ASSUME NEW d \in late
        PROVE  /\ phase'[d] \in {"find case", "find report", "failed"}
               /\ phase'[d] = "find case" => request'[d].kind # "submit"
               /\ TwoReports(request'[d].case)
    BY <1>3, <1>4, <1>6 DEF SarInv, LateInv, CaseOf
  <2>2. ASSUME Cardinality(ReportsOf(q.case)) > 1
        PROVE  TwoReports(q.case)
    <3>1. PICK r \in ReportsOf(q.case), s \in ReportsOf(q.case) : r # s
      BY <2>2, TwoElements
    <3> QED BY <3>1 DEF ReportsOf, SarInv, ReportInv, TwoReports
  <2>3. \A d \in late' : d \in late \/ (d = c /\ Cardinality(ReportsOf(q.case)) > 1)
    <3>1. CASE Cardinality(ReportsOf(q.case)) > 1
      BY <1>1, <3>1
    <3>2. CASE ~(Cardinality(ReportsOf(q.case)) > 1)
      BY <1>1, <3>2
    <3> QED BY <3>1, <3>2
  <2>4. \A d \in late' :
            /\ phase'[d] \in {"find case", "find report", "failed"}
            /\ phase'[d] = "find case" => request'[d].kind # "submit"
            /\ TwoReports(request'[d].case)
    BY <1>2, <1>3, <2>1, <2>2, <2>3
  <2> QED BY <1>1, <2>4 DEF LateInv, TwoReports, CaseOf
<1>12. SubmittedInv'
  BY <1>1, <1>3, <1>4, <1>6 DEF SarInv, SubmittedInv, Submitted, CaseOf
<1>13. AlertInv'
  <2>1. \A k \in Cases : phase'[k] = phase[k]
    BY <1>1, CasesAssumption DEF SarInv, SarTypes
  <2> QED BY <1>1, <2>1 DEF SarInv, AlertInv, AlertedIsStamped
<1> QED BY <1>7, <1>8, <1>9, <1>10, <1>11, <1>12, <1>13 DEF SarInv

\* The case is read as it is.
LEMMA FindCasePreserves ==
    ASSUME SarInv, NEW c \in Calls, FindCase(c)
    PROVE  SarInv'
<1>1. phase[c] = "find case" /\ cases[CaseOf(c)] # NoCase
  BY DEF FindCase
<1>2. CaseOf(c) \in Cases
  BY <1>1, CaseOfCall DEF SarInv
<1>3. PICK p \in {"find report", "commit"}, row \in CaseRow :
        /\ \/ p = "find report" /\ request[c].kind = "draft"
           \/ p = "commit" /\ request[c].kind = "submit"
        /\ row = cases[CaseOf(c)]
        /\ phase' = [phase EXCEPT ![c] = p]
        /\ loaded' = [loaded EXCEPT ![c] = row]
        /\ UNCHANGED <<cases, reports, alert, reverted, overtaken, request, report,
                       overlapped, late>>
  <2>1. cases[CaseOf(c)] \in CaseRow
    BY <1>1, <1>2 DEF SarInv, SarTypes
  <2> QED BY <2>1 DEF FindCase, Goto, kept
<1>4. AlertInv'
  <2>1. \A k \in Cases : phase'[k] = phase[k]
    BY <1>3, CasesAssumption DEF SarInv, SarTypes
  <2> QED BY <1>3, <2>1 DEF SarInv, AlertInv, AlertedIsStamped
<1>5. row # NoCase
  BY <1>3, NothingReadAssumption
<1>6. /\ \A d \in Calls \ {c} :
            phase'[d] = phase[d] /\ loaded'[d] = loaded[d] /\ report'[d] = report[d]
      /\ phase'[c] = p /\ loaded'[c] = row /\ report'[c] = report[c]
  BY <1>3 DEF SarInv, SarTypes
<1>7. \A r \in reports : r.by \in Calls /\ r.by # c
  BY <1>1, ReportFacts DEF SarInv, ReportInv
<1>8. SarTypes'
  BY <1>1, <1>3 DEF SarInv, SarTypes
<1>9. ReadInv'
  <2>1. ASSUME NEW d \in Calls \ {c} PROVE HasRead(d)'
    BY <1>3, <1>6, StillRead DEF SarInv, ReadInv
  <2>2. HasRead(c)
    BY DEF SarInv, ReadInv
  <2>3. CaseOf(c)' = CaseOf(c) /\ reports' = reports /\ cases' = cases
        /\ request' = request
    BY <1>3 DEF CaseOf
  <2>4. HasRead(c)'
    BY <1>1, <1>3, <1>5, <1>6, <2>2, <2>3 DEF HasRead
  <2> QED BY <2>1, <2>4 DEF ReadInv
<1>10. ReportInv'
  BY <1>3, <1>6, <1>7 DEF SarInv, ReportInv
<1>11. OverlapInv'
  <2>1. Open(c) /\ \A d \in Calls : Open(d)' => Open(d)
    BY <1>1, <1>3, <1>6 DEF Open
  <2> QED BY <1>1, <1>3, <1>6, <2>1 DEF SarInv, OverlapInv, CaseOf
<1>12. LateInv'
  <2>1. late \subseteq Calls BY DEF SarInv, SarTypes
  <2>2. c \in late => p = "find report"
    BY <1>1, <1>3 DEF SarInv, LateInv
  <2>3. ASSUME NEW d \in late
        PROVE  /\ phase'[d] \in {"find case", "find report", "failed"}
               /\ phase'[d] = "find case" => request[d].kind # "submit"
    BY <1>6, <2>1, <2>2 DEF SarInv, LateInv
  <2>4. \A d \in late : TwoReports(CaseOf(d))'
    BY <1>3 DEF SarInv, LateInv, TwoReports, CaseOf
  <2>5. late' = late /\ request' = request BY <1>3
  <2> QED BY <2>3, <2>4, <2>5 DEF LateInv
<1>13. SubmittedInv'
  <2>1. row.status = "submitted" => Submitted(CaseOf(c))
    BY <1>3 DEF Submitted
  <2>2. \A d \in Calls : loaded'[d] # NoCase /\ loaded'[d].status = "submitted" =>
            Submitted(CaseOf(d))
    BY <1>6, <2>1 DEF SarInv, SubmittedInv
  <2> QED BY <1>3, <2>2 DEF SarInv, SubmittedInv, Submitted, CaseOf
<1> QED BY <1>4, <1>8, <1>9, <1>10, <1>11, <1>12, <1>13 DEF SarInv

\* The one report of the case is read, or there is none.
LEMMA FindReportPreserves ==
    ASSUME SarInv, NEW c \in Calls, FindReport(c)
    PROVE  SarInv'
<1>1. PICK r \in ReportRow \union {NoReport} :
        /\ \/ /\ ReportsOf(CaseOf(c)) = {} /\ r = NoReport
              /\ request[c].kind = "draft"
           \/ ReportsOf(CaseOf(c)) = {r}
        /\ report' = [report EXCEPT ![c] = r]
  <2>1. ReportsOf(CaseOf(c)) \subseteq ReportRow
    BY DEF SarInv, SarTypes, ReportsOf
  <2> QED BY <2>1 DEF FindReport
<1>2. phase[c] = "find report"
  BY DEF FindReport
<1>3. HasRead(c)
  BY DEF SarInv, ReadInv
<1>4. PICK p \in {"commit", "find case"} :
        /\ \/ p = "commit" /\ request[c].kind = "draft"
           \/ p = "find case" /\ request[c].kind = "submit"
        /\ phase' = [phase EXCEPT ![c] = p]
        /\ UNCHANGED <<cases, reports, alert, reverted, overtaken, request, loaded,
                       overlapped, late>>
  BY <1>2, <1>3 DEF FindReport, Goto, kept, HasRead
<1>5. AlertInv'
  <2>1. \A k \in Cases : phase'[k] = phase[k]
    BY <1>4, CasesAssumption DEF SarInv, SarTypes
  <2> QED BY <1>4, <2>1 DEF SarInv, AlertInv, AlertedIsStamped
<1>6. /\ \A d \in Calls \ {c} :
            phase'[d] = phase[d] /\ loaded'[d] = loaded[d] /\ report'[d] = report[d]
      /\ phase'[c] = p /\ loaded'[c] = loaded[c] /\ report'[c] = r
  BY <1>1, <1>4 DEF SarInv, SarTypes
<1>7. \A s \in reports : s.by \in Calls /\ s.by # c
  BY <1>2, ReportFacts DEF SarInv, ReportInv
<1>8. r # NoReport => r \in reports /\ r.case = CaseOf(c)
  BY <1>1 DEF ReportsOf
<1>9. r = NoReport => /\ request[c].kind = "draft"
                      /\ \A s \in reports : s.case # CaseOf(c)
  <2>1. ReportsOf(CaseOf(c)) \subseteq ReportRow
    BY DEF SarInv, SarTypes, ReportsOf
  <2> QED BY <1>1, <2>1, NothingReadAssumption DEF ReportsOf
<1>10. SarTypes'
  BY <1>1, <1>2, <1>4 DEF SarInv, SarTypes
<1>11. ReadInv'
  <2>1. ASSUME NEW d \in Calls \ {c} PROVE HasRead(d)'
    BY <1>4, <1>6, StillRead DEF SarInv, ReadInv
  <2>2. CaseOf(c)' = CaseOf(c) /\ reports' = reports /\ cases' = cases
        /\ request' = request
    BY <1>4 DEF CaseOf
  <2>3. HasRead(c)'
    BY <1>2, <1>3, <1>4, <1>6, <1>8, <1>9, <2>2 DEF HasRead
  <2> QED BY <2>1, <2>3 DEF ReadInv
<1>12. ReportInv'
  BY <1>4, <1>6, <1>7 DEF SarInv, ReportInv
<1>13. OverlapInv'
  <2>1. Open(c) /\ \A d \in Calls : Open(d)' => Open(d)
    BY <1>2, <1>4, <1>6 DEF Open
  <2>2. \A d, e \in Calls : d # e /\ Open(d)' /\ Open(e)' => {d, e} \in overlapped
    BY <2>1 DEF SarInv, OverlapInv
  <2>3. \A s, t \in reports : s # t /\ s.case = t.case => {s.by, t.by} \in overlapped
    BY DEF SarInv, OverlapInv
  <2>4. ASSUME NEW d \in Calls, phase'[d] = "commit", request[d].kind = "draft",
               report'[d] = NoReport, NEW s \in reports, s.case = CaseOf(d)
        PROVE  {d, s.by} \in overlapped
    <3>1. CASE d = c BY <3>1, <2>4, <1>6, <1>9
    <3>2. CASE d # c
      <4>1. phase[d] = "commit" /\ report[d] = NoReport BY <3>2, <2>4, <1>6
      <4> QED BY <4>1, <2>4 DEF SarInv, OverlapInv
    <3> QED BY <3>1, <3>2
  <2>5. reports' = reports /\ overlapped' = overlapped /\ request' = request
        /\ \A d : CaseOf(d)' = CaseOf(d)
    BY <1>4 DEF CaseOf
  <2> QED BY <2>2, <2>3, <2>4, <2>5 DEF OverlapInv
<1>14. LateInv'
  <2>1. late \subseteq Calls BY DEF SarInv, SarTypes
  <2>2. c \notin late
    <3>1. \A a \in reports : a.case = CaseOf(c) => a = r
      <4>1. \A a \in reports : a.case = CaseOf(c) => a \in ReportsOf(CaseOf(c))
        BY DEF ReportsOf
      <4> QED BY <1>1, <4>1
    <3>2. ~TwoReports(CaseOf(c))
      BY <3>1 DEF TwoReports
    <3> QED BY <3>2 DEF SarInv, LateInv
  <2>3. \A d \in late : TwoReports(CaseOf(d))'
    BY <1>4 DEF SarInv, LateInv, TwoReports, CaseOf
  <2>4. ASSUME NEW d \in late
        PROVE  /\ phase'[d] \in {"find case", "find report", "failed"}
               /\ phase'[d] = "find case" => request[d].kind # "submit"
    BY <1>6, <2>1, <2>2 DEF SarInv, LateInv
  <2>5. late' = late /\ request' = request BY <1>4
  <2> QED BY <2>3, <2>4, <2>5 DEF LateInv
<1>15. SubmittedInv'
  BY <1>4 DEF SarInv, SubmittedInv, Submitted, CaseOf
<1> QED BY <1>5, <1>10, <1>11, <1>12, <1>13, <1>14, <1>15 DEF SarInv

\* A draft that found no report creates one; others may have come since, by
\* drafts that overlap this one.  What was not read is not written: the case
\* of a draft that had read it in review keeps its status.
LEMMA DraftPreserves ==
    ASSUME SarInv, NEW c \in Calls, upsert_sar_draft(c)
    PROVE  SarInv'
<1> DEFINE k == CaseOf(c)
           row == CaseWritten(c, "in_review")
           new == [by |-> c, case |-> k, status |-> "draft"]
<1>1. /\ phase[c] = "commit" /\ request[c].kind = "draft"
      /\ cases' = [cases EXCEPT ![k] = row]
      /\ phase' = [phase EXCEPT ![c] = "answered"]
      /\ loaded' = [loaded EXCEPT ![c] = NoCase]
      /\ report' = [report EXCEPT ![c] = NoReport]
      /\ UNCHANGED <<alert, request, overlapped, late, overtaken>>
  BY DEF upsert_sar_draft, Goto, Forget
<1>2. \/ report[c] # NoReport /\ reports' = reports
      \/ report[c] = NoReport /\ reports' = reports \union {new}
  BY DEF upsert_sar_draft
<1>3. reverted' = IF loaded[c].status = "submitted"
                  THEN reverted \union {c} ELSE reverted
  BY DEF upsert_sar_draft
<1>4. k \in Cases
  BY <1>1, CaseOfCall DEF SarInv
<1>5. cases[k] # NoCase /\ loaded[c] # NoCase
  BY <1>1 DEF SarInv, ReadInv, HasRead
<1>6. cases[k] \in CaseRow /\ loaded[c] \in CaseRow
  BY <1>4, <1>5 DEF SarInv, SarTypes
<1>7. /\ row \in CaseRow /\ row.stamped = cases[k].stamped
      /\ loaded[c].status # "submitted" => row.status = cases[k].status
  BY <1>6 DEF CaseWritten, CaseRow
<1>8. row # NoCase
  BY <1>7, NothingReadAssumption
<1>9. new \in ReportRow /\ new.by = c /\ new.case = k /\ new.status = "draft"
  BY <1>4 DEF ReportRow
<1> HIDE DEF row, new
<1>10. /\ \A d \in Calls \ {c} :
             phase'[d] = phase[d] /\ loaded'[d] = loaded[d] /\ report'[d] = report[d]
       /\ phase'[c] = "answered" /\ loaded'[c] = NoCase /\ report'[c] = NoReport
  BY <1>1 DEF SarInv, SarTypes
<1>11. \A j \in Cases : cases[j] # NoCase =>
           cases'[j] # NoCase /\ cases'[j].stamped = cases[j].stamped
  BY <1>1, <1>4, <1>7, <1>8 DEF SarInv, SarTypes
<1>12. \A r \in reports : /\ r.by \in Calls /\ r.by # c /\ r.case \in Cases
                          /\ cases[r.case] # NoCase
  BY <1>1, ReportFacts DEF SarInv, ReportInv
<1>13. \A d \in Calls : phase[d] # "idle" => CaseOf(d) \in Cases
  BY CaseOfCall DEF SarInv
<1>14. c \notin late /\ late \subseteq Calls /\ reverted \subseteq Calls
  BY <1>1 DEF SarInv, LateInv, SarTypes
<1>15. reports \subseteq reports'
       /\ \A r \in reports' : r \in reports \/ (r = new /\ report[c] = NoReport)
  <2>1. CASE reports' = reports
    BY <2>1
  <2>2. CASE report[c] = NoReport /\ reports' = reports \union {new}
    BY <2>2
  <2> QED BY <1>2, <2>1, <2>2
<1>16. reverted \subseteq reverted' /\ reverted' \subseteq reverted \union {c}
  BY <1>3
<1>17. SarTypes'
  <2>1. reports' \subseteq ReportRow
    BY <1>9, <1>15 DEF SarInv, SarTypes
  <2>2. /\ cases' \in [Cases -> CaseRow \union {NoCase}]
        /\ phase' \in [Cases \union Calls ->
                          {"idle", "find case", "find report", "commit",
                           "answered", "failed"}]
        /\ loaded' \in [Calls -> CaseRow \union {NoCase}]
        /\ report' \in [Calls -> ReportRow \union {NoReport}]
    BY <1>1, <1>7 DEF SarInv, SarTypes
  <2>3. /\ reverted' \subseteq Calls
        /\ \A d \in Calls : phase'[d] # "idle" => request'[d] \in SarRequest
        /\ \A d \in reverted' \union late' : phase'[d] # "idle"
    BY <1>1, <1>10, <1>14, <1>16 DEF SarInv, SarTypes
  <2> QED BY <1>1, <2>1, <2>2, <2>3 DEF SarInv, SarTypes
<1>18. ReadInv'
  <2>1. ASSUME NEW d \in Calls \ {c} PROVE HasRead(d)'
    <3>1. HasRead(d)
      BY DEF SarInv, ReadInv
    <3>2. loaded[d] # NoCase => CaseOf(d) \in Cases
      BY <1>13, <3>1 DEF HasRead
    <3>3. loaded[d] # NoCase /\ cases[CaseOf(d)] # NoCase => cases'[CaseOf(d)] # NoCase
      BY <1>11, <3>2
    <3>4. \A r \in reports : \E s \in reports' : s.by = r.by /\ s.case = r.case
      BY <1>15
    <3> QED BY <1>1, <1>10, <3>1, <3>3, <3>4, StillRead
  <2>2. HasRead(c)'
    BY <1>10 DEF HasRead
  <2> QED BY <2>1, <2>2 DEF ReadInv
<1>19. ReportInv'
  <2>1. \A r \in reports' : phase'[r.by] = "answered" /\ cases'[r.case] # NoCase
    <3>1. ASSUME NEW r \in reports
          PROVE  phase'[r.by] = "answered" /\ cases'[r.case] # NoCase
      BY <1>10, <1>11, <1>12 DEF SarInv, ReportInv
    <3>2. cases'[k] # NoCase
      BY <1>4, <1>5, <1>11
    <3> QED BY <1>9, <1>10, <1>15, <3>1, <3>2
  <2>2. \A r, s \in reports' : r.by = s.by => r = s
    BY <1>9, <1>12, <1>15 DEF SarInv, ReportInv
  <2> QED BY <2>1, <2>2 DEF ReportInv
<1>20. OverlapInv'
  <2>1. \A d, e \in Calls : d # e /\ Open(d)' /\ Open(e)' => {d, e} \in overlapped'
    <3>1. \A d \in Calls : Open(d)' => d # c /\ Open(d)
      BY <1>10 DEF Open
    <3> QED BY <1>1, <3>1 DEF SarInv, OverlapInv
  <2>2. ASSUME report[c] = NoReport, NEW r \in reports, r.case = k
        PROVE  {c, r.by} \in overlapped /\ {r.by, c} \in overlapped
    <3>1. {c, r.by} \in overlapped
      BY <1>1, <2>2 DEF SarInv, OverlapInv
    <3>2. {c, r.by} = {r.by, c}
      OBVIOUS
    <3> QED BY <3>1, <3>2
  <2>3. ASSUME NEW r \in reports', NEW s \in reports', r # s, r.case = s.case
        PROVE  {r.by, s.by} \in overlapped'
    <3>1. CASE r \in reports /\ s \in reports
      BY <1>1, <2>3, <3>1 DEF SarInv, OverlapInv
    <3>2. CASE r \in reports /\ s = new /\ report[c] = NoReport
      BY <1>1, <1>9, <2>2, <2>3, <3>2
    <3>3. CASE s \in reports /\ r = new /\ report[c] = NoReport
      BY <1>1, <1>9, <2>2, <2>3, <3>3
    <3> QED BY <1>15, <2>3, <3>1, <3>2, <3>3
  <2>4. ASSUME NEW d \in Calls, phase'[d] = "commit", request'[d].kind = "draft",
               report'[d] = NoReport, NEW r \in reports', r.case = CaseOf(d)'
        PROVE  {d, r.by} \in overlapped'
    <3>1. d # c /\ phase[d] = "commit" /\ report[d] = NoReport
      BY <1>10, <2>4
    <3>2. CASE r \in reports
      BY <1>1, <2>4, <3>1, <3>2 DEF SarInv, OverlapInv, CaseOf
    <3>3. CASE r = new
      <4>1. {d, c} \in overlapped
        BY <1>1, <3>1 DEF SarInv, OverlapInv, Open
      <4> QED BY <1>1, <1>9, <3>3, <4>1
    <3> QED BY <1>15, <3>2, <3>3
  <2> QED BY <2>1, <2>3, <2>4 DEF OverlapInv
<1>21. LateInv'
  <2>1. ASSUME NEW d \in late
        PROVE  /\ phase'[d] \in {"find case", "find report", "failed"}
               /\ phase'[d] = "find case" => request'[d].kind # "submit"
    BY <1>1, <1>10, <1>14 DEF SarInv, LateInv
  <2>2. ASSUME NEW d \in late
        PROVE  TwoReports(CaseOf(d))'
    <3>1. PICK r \in reports, s \in reports :
              r.by # s.by /\ r.case = CaseOf(d) /\ s.case = CaseOf(d)
      BY DEF SarInv, LateInv, TwoReports
    <3>2. CaseOf(d)' = CaseOf(d)
      BY <1>1 DEF CaseOf
    <3> QED BY <1>15, <3>1, <3>2 DEF TwoReports
  <2> QED BY <1>1, <2>1, <2>2 DEF LateInv
<1>22. SubmittedInv'
  <2>1. ASSUME NEW j \in Cases, Submitted(j)
        PROVE  cases'[j].status = "submitted" \/ \E d \in reverted' : request[d].case = j
    <3>1. CASE \E d \in reverted : CaseOf(d) = j
      BY <1>16, <3>1 DEF CaseOf
    <3>2. CASE cases[j].status = "submitted" /\ j # k
      BY <1>1, <3>2 DEF SarInv, SarTypes
    <3>3. CASE cases[j].status = "submitted" /\ j = k
      <4>1. CASE loaded[c].status = "submitted"
        BY <1>3, <3>3, <4>1 DEF CaseOf
      <4>2. CASE loaded[c].status # "submitted"
        BY <1>1, <1>4, <1>7, <3>3, <4>2 DEF SarInv, SarTypes
      <4> QED BY <4>1, <4>2
    <3> QED BY <2>1, <3>1, <3>2, <3>3 DEF Submitted
  <2>2. \A r \in reports' : r.status = "consent_pending" => r \in reports
    BY <1>9, <1>15
  <2>3. \A r \in reports' : r.status = "consent_pending" =>
            \/ cases'[r.case].status = "submitted"
            \/ \E d \in reverted' : request[d].case = r.case
    BY <1>12, <2>1, <2>2 DEF SarInv, SubmittedInv
  <2>4. ASSUME NEW d \in Calls, loaded'[d] # NoCase, loaded'[d].status = "submitted"
        PROVE  \/ cases'[CaseOf(d)].status = "submitted"
               \/ \E e \in reverted' : request[e].case = CaseOf(d)
    <3>1. d # c /\ loaded[d] # NoCase /\ loaded[d].status = "submitted"
      BY <1>10, <2>4
    <3>2. phase[d] # "idle"
      BY <3>1 DEF SarInv, ReadInv, HasRead
    <3>3. Submitted(CaseOf(d))
      BY <3>1 DEF SarInv, SubmittedInv
    <3> QED BY <1>13, <2>1, <3>2, <3>3
  <2> QED BY <1>1, <2>3, <2>4 DEF SubmittedInv, Submitted, CaseOf
<1>23. AlertInv'
  <2>1. \A j \in Cases : phase'[j] = phase[j]
    BY <1>1, CasesAssumption DEF SarInv, SarTypes
  <2>2. \A j \in Cases : cases[j] = NoCase <=> cases'[j] = NoCase
    BY <1>1, <1>4, <1>5, <1>8 DEF SarInv, SarTypes
  <2> QED BY <1>1, <1>11, <2>1, <2>2 DEF SarInv, AlertInv, AlertedIsStamped
<1> QED BY <1>17, <1>18, <1>19, <1>20, <1>21, <1>22, <1>23 DEF SarInv

\* The report the submission has read is still the only one with its creator,
\* and its case is submitted, or was when it was read.
LEMMA SubmitPreserves ==
    ASSUME SarInv, NEW c \in Calls, submit_sar(c)
    PROVE  SarInv'
<1> DEFINE k == CaseOf(c)
           row == CaseWritten(c, "submitted")
           filed(r) == IF r.by = report[c].by
                       THEN [r EXCEPT !.status = "consent_pending"] ELSE r
<1>1. /\ phase[c] = "commit" /\ request[c].kind = "submit"
      /\ cases' = [cases EXCEPT ![k] = row]
      /\ phase' = [phase EXCEPT ![c] = "answered"]
      /\ loaded' = [loaded EXCEPT ![c] = NoCase]
      /\ report' = [report EXCEPT ![c] = NoReport]
      /\ UNCHANGED <<alert, request, overlapped, late, reverted, overtaken>>
  BY DEF submit_sar, Goto, Forget
<1>2. reports' = {filed(r) : r \in reports}
  BY DEF submit_sar
<1>3. k \in Cases
  BY <1>1, CaseOfCall DEF SarInv
<1>4. HasRead(c)
  BY DEF SarInv, ReadInv
<1>5. cases[k] # NoCase /\ loaded[c] # NoCase /\ report[c] # NoReport
  BY <1>1, <1>4 DEF HasRead
<1>6. cases[k] \in CaseRow /\ loaded[c] \in CaseRow
  BY <1>3, <1>5 DEF SarInv, SarTypes
<1>7. /\ row \in CaseRow /\ row.stamped = cases[k].stamped
      /\ row.status = cases[k].status \/ row.status = "submitted"
      /\ loaded[c].status # "submitted" => row.status = "submitted"
  BY <1>6 DEF CaseWritten, CaseRow
<1>8. row # NoCase
  BY <1>7, NothingReadAssumption
<1>9. ASSUME NEW r \in reports, r.by = report[c].by
      PROVE  r.case = k
  BY <1>4, <1>5, <1>9 DEF HasRead, SarInv, ReportInv
<1>10. ASSUME NEW r \in reports
       PROVE  /\ filed(r) \in ReportRow
              /\ filed(r).by = r.by /\ filed(r).case = r.case
              /\ filed(r).status = "consent_pending" =>
                     r.status = "consent_pending" \/ r.case = k
  <2>1. r \in ReportRow
    BY DEF SarInv, SarTypes
  <2> QED BY <1>9, <2>1 DEF ReportRow
<1> HIDE DEF row, filed
<1>11. /\ \A d \in Calls \ {c} :
             phase'[d] = phase[d] /\ loaded'[d] = loaded[d] /\ report'[d] = report[d]
       /\ phase'[c] = "answered" /\ loaded'[c] = NoCase /\ report'[c] = NoReport
  BY <1>1 DEF SarInv, SarTypes
<1>12. \A j \in Cases : cases[j] # NoCase =>
           cases'[j] # NoCase /\ cases'[j].stamped = cases[j].stamped
  BY <1>1, <1>3, <1>7, <1>8 DEF SarInv, SarTypes
<1>13. \A r \in reports : /\ r.by \in Calls /\ r.by # c /\ r.case \in Cases
                          /\ cases[r.case] # NoCase
  BY <1>1, ReportFacts DEF SarInv, ReportInv
<1>14. \A d \in Calls : phase[d] # "idle" => CaseOf(d) \in Cases
  BY CaseOfCall DEF SarInv
<1>15. c \notin late /\ late \subseteq Calls
  BY <1>1 DEF SarInv, LateInv, SarTypes
<1>16. \A r \in reports : \E s \in reports' : s.by = r.by /\ s.case = r.case
  BY <1>2, <1>10
<1>17. SarTypes'
  <2>1. reports' \subseteq ReportRow
    BY <1>2, <1>10
  <2>2. /\ cases' \in [Cases -> CaseRow \union {NoCase}]
        /\ phase' \in [Cases \union Calls ->
                          {"idle", "find case", "find report", "commit",
                           "answered", "failed"}]
        /\ loaded' \in [Calls -> CaseRow \union {NoCase}]
        /\ report' \in [Calls -> ReportRow \union {NoReport}]
    BY <1>1, <1>7 DEF SarInv, SarTypes
  <2>3. /\ \A d \in Calls : phase'[d] # "idle" => request'[d] \in SarRequest
        /\ \A d \in reverted' \union late' : phase'[d] # "idle"
    BY <1>1, <1>11 DEF SarInv, SarTypes
  <2> QED BY <1>1, <2>1, <2>2, <2>3 DEF SarInv, SarTypes
<1>18. ReadInv'
  <2>1. ASSUME NEW d \in Calls \ {c} PROVE HasRead(d)'
    <3>1. HasRead(d)
      BY DEF SarInv, ReadInv
    <3>2. loaded[d] # NoCase => CaseOf(d) \in Cases
      BY <1>14, <3>1 DEF HasRead
    <3>3. loaded[d] # NoCase /\ cases[CaseOf(d)] # NoCase => cases'[CaseOf(d)] # NoCase
      BY <1>12, <3>2
    <3> QED BY <1>1, <1>11, <1>16, <3>1, <3>3, StillRead
  <2>2. HasRead(c)'
    BY <1>11 DEF HasRead
  <2> QED BY <2>1, <2>2 DEF ReadInv
<1>19. ReportInv'
  <2>1. ASSUME NEW r \in reports
        PROVE  phase'[filed(r).by] = "answered" /\ cases'[filed(r).case] # NoCase
    BY <1>10, <1>11, <1>12, <1>13 DEF SarInv, ReportInv
  <2>2. ASSUME NEW r \in reports, NEW s \in reports, filed(r).by = filed(s).by
        PROVE  filed(r) = filed(s)
    <3>1. r = s
      BY <1>10, <2>2 DEF SarInv, ReportInv
    <3> QED BY <3>1
  <2> QED BY <1>2, <2>1, <2>2 DEF ReportInv
<1>20. OverlapInv'
  <2>1. \A d, e \in Calls : d # e /\ Open(d)' /\ Open(e)' => {d, e} \in overlapped'
    <3>1. \A d \in Calls : Open(d)' => d # c /\ Open(d)
      BY <1>11 DEF Open
    <3> QED BY <1>1, <3>1 DEF SarInv, OverlapInv
  <2>2. ASSUME NEW r \in reports, NEW s \in reports, filed(r) # filed(s),
               filed(r).case = filed(s).case
        PROVE  {filed(r).by, filed(s).by} \in overlapped'
    <3>1. r # s /\ r.case = s.case
      BY <1>10, <2>2
    <3>2. {r.by, s.by} \in overlapped
      BY <3>1 DEF SarInv, OverlapInv
    <3> QED BY <1>1, <1>10, <3>2
  <2>3. ASSUME NEW d \in Calls, phase'[d] = "commit", request'[d].kind = "draft",
               report'[d] = NoReport,
               NEW r \in reports, filed(r).case = CaseOf(d)'
        PROVE  {d, filed(r).by} \in overlapped'
    <3>1. d # c /\ phase[d] = "commit" /\ report[d] = NoReport
      BY <1>11, <2>3
    <3> QED BY <1>1, <1>10, <2>3, <3>1 DEF SarInv, OverlapInv, CaseOf
  <2>4. \A r, s \in reports' : r # s /\ r.case = s.case => {r.by, s.by} \in overlapped'
    BY <1>2, <2>2
  <2>5. \A d \in Calls :
            phase'[d] = "commit" /\ request'[d].kind = "draft" /\ report'[d] = NoReport =>
                \A r \in reports' : r.case = CaseOf(d)' => {d, r.by} \in overlapped'
    BY <1>2, <2>3
  <2> QED BY <2>1, <2>4, <2>5 DEF OverlapInv
<1>21. LateInv'
  <2>1. ASSUME NEW d \in late
        PROVE  /\ phase'[d] \in {"find case", "find report", "failed"}
               /\ phase'[d] = "find case" => request'[d].kind # "submit"
    BY <1>1, <1>11, <1>15 DEF SarInv, LateInv
  <2>2. ASSUME NEW d \in late
        PROVE  TwoReports(CaseOf(d))'
    <3>1. PICK r \in reports, s \in reports :
              r.by # s.by /\ r.case = CaseOf(d) /\ s.case = CaseOf(d)
      BY DEF SarInv, LateInv, TwoReports
    <3>2. CaseOf(d)' = CaseOf(d)
      BY <1>1 DEF CaseOf
    <3> QED BY <1>16, <3>1, <3>2 DEF TwoReports
  <2> QED BY <1>1, <2>1, <2>2 DEF LateInv
<1>22. SubmittedInv'
  <2>1. \A j \in Cases : j # k => cases'[j] = cases[j]
    BY <1>1 DEF SarInv, SarTypes
  <2>2. cases'[k] = row
    BY <1>1, <1>3 DEF SarInv, SarTypes
  <2>3. row.status = "submitted" \/ \E d \in reverted : CaseOf(d) = k
    <3>1. CASE loaded[c].status # "submitted"
      BY <1>7, <3>1
    <3>2. CASE loaded[c].status = "submitted"
      <4>1. cases[k].status = "submitted" \/ \E d \in reverted : CaseOf(d) = k
        BY <1>5, <3>2 DEF SarInv, SubmittedInv, Submitted
      <4> QED BY <1>7, <4>1
    <3> QED BY <3>1, <3>2
  <2>4. ASSUME NEW j \in Cases, Submitted(j) \/ j = k
        PROVE  cases'[j].status = "submitted" \/ \E d \in reverted : request[d].case = j
    BY <2>1, <2>2, <2>3, <2>4 DEF Submitted, CaseOf
  <2>5. ASSUME NEW r \in reports, filed(r).status = "consent_pending"
        PROVE  \/ cases'[filed(r).case].status = "submitted"
               \/ \E d \in reverted : request[d].case = filed(r).case
    <3>1. r.case \in Cases /\ (Submitted(r.case) \/ r.case = k)
      BY <1>10, <1>13, <2>5 DEF SarInv, SubmittedInv
    <3> QED BY <1>10, <2>4, <3>1
  <2>6. ASSUME NEW d \in Calls, loaded'[d] # NoCase, loaded'[d].status = "submitted"
        PROVE  \/ cases'[CaseOf(d)].status = "submitted"
               \/ \E e \in reverted : request[e].case = CaseOf(d)
    <3>1. d # c /\ loaded[d] # NoCase /\ loaded[d].status = "submitted"
      BY <1>11, <2>6
    <3>2. phase[d] # "idle"
      BY <3>1 DEF SarInv, ReadInv, HasRead
    <3>3. Submitted(CaseOf(d))
      BY <3>1 DEF SarInv, SubmittedInv
    <3> QED BY <1>14, <2>4, <3>2, <3>3
  <2>7. \A r \in reports' : r.status = "consent_pending" =>
            \/ cases'[r.case].status = "submitted"
            \/ \E d \in reverted : request[d].case = r.case
    BY <1>2, <2>5
  <2> QED BY <1>1, <2>6, <2>7 DEF SubmittedInv, Submitted, CaseOf
<1>23. AlertInv'
  <2>1. \A j \in Cases : phase'[j] = phase[j]
    BY <1>1, CasesAssumption DEF SarInv, SarTypes
  <2>2. \A j \in Cases : cases[j] = NoCase <=> cases'[j] = NoCase
    BY <1>1, <1>3, <1>5, <1>8 DEF SarInv, SarTypes
  <2> QED BY <1>1, <1>12, <2>1, <2>2 DEF SarInv, AlertInv, AlertedIsStamped
<1> QED BY <1>17, <1>18, <1>19, <1>20, <1>21, <1>22, <1>23 DEF SarInv

-----------------------------------------------------------------------------
(* The desk.                                                                *)

\* A step that leaves the cases alone.
LEMMA StutterPreserves ==
    ASSUME SarInv, UNCHANGED sarVars
    PROVE  SarInv'
<1>1. UNCHANGED <<cases, reports, alert, phase, request, loaded, report, overlapped,
                  late, reverted, overtaken>>
  BY DEF sarVars
<1>2. SarTypes'
  BY <1>1 DEF SarInv, SarTypes
<1>3. ReadInv'
  BY <1>1 DEF SarInv, ReadInv, HasRead, CaseOf
<1>4. ReportInv' /\ AlertInv'
  BY <1>1 DEF SarInv, ReportInv, AlertInv, AlertedIsStamped
<1>5. OverlapInv'
  BY <1>1 DEF SarInv, OverlapInv, Open, CaseOf
<1>6. LateInv'
  <2>1. \A c \in late : TwoReports(CaseOf(c))'
    BY <1>1 DEF SarInv, LateInv, TwoReports, CaseOf
  <2> QED BY <1>1, <2>1 DEF SarInv, LateInv
<1>7. SubmittedInv'
  BY <1>1 DEF SarInv, SubmittedInv, Submitted, CaseOf
<1> QED BY <1>2, <1>3, <1>4, <1>5, <1>6, <1>7 DEF SarInv

LEMMA SarInitial ==
    ASSUME SarInit
    PROVE  SarInv
<1>1. SarTypes
  BY DEF SarInit, SarTypes
<1>2. ReadInv /\ ReportInv /\ OverlapInv /\ LateInv /\ SubmittedInv
  BY DEF SarInit, ReadInv, HasRead, ReportInv, OverlapInv, Open, LateInv, SubmittedInv
<1>3. AlertInv
  BY DEF SarInit, AlertInv, AlertedIsStamped
<1> QED BY <1>1, <1>2, <1>3 DEF SarInv

LEMMA SarStep ==
    ASSUME SarInv, SarNext
    PROVE  SarInv'
<1>1. ASSUME NEW k \in Cases,
             \/ ingest_aml_signal(k) \/ CommitCase(k) \/ FailIngestion(k)
             \/ send_aml_alert(k) \/ AlertLost(k)
      PROVE  SarInv'
  BY <1>1, IngestPreserves, CommitCasePreserves, FailIngestionPreserves,
     AlertPreserves, AlertLostPreserves
<1>2. ASSUME NEW c \in Calls, NEW q \in SarRequest, BeginCall(c, q)
      PROVE  SarInv'
  BY <1>2, BeginPreserves
<1>3. ASSUME NEW c \in Calls,
             \/ FindCase(c) \/ FindReport(c) \/ upsert_sar_draft(c) \/ submit_sar(c)
      PROVE  SarInv'
  BY <1>3, FindCasePreserves, FindReportPreserves, DraftPreserves, SubmitPreserves
<1>4. ASSUME NEW c \in Calls,
             \/ CaseNotFound(c) \/ generate_sar_draft(c) \/ MultipleReports(c)
             \/ NoReportYet(c) \/ HalfDraft(c) \/ FailCall(c)
      PROVE  SarInv'
  <2>1. Open(c) /\ Ends(c)
    BY <1>4 DEF CaseNotFound, generate_sar_draft, MultipleReports, NoReportYet,
                HalfDraft, FailCall, Open
  <2> QED BY <2>1, EndsPreserves
<1> QED BY <1>1, <1>2, <1>3, <1>4 DEF SarNext

LEMMA DeskInvariant == Spec => []SarInv
<1>1. Init => SarInv
  BY SarInitial DEF Init
<1>2. SarInv /\ [Next]_vars => SarInv'
  <2> SUFFICES ASSUME SarInv, [Next]_vars PROVE SarInv'
    OBVIOUS
  <2>1. CASE SarNext
    BY <2>1, SarStep
  <2>2. CASE UNCHANGED sarVars
    BY <2>2, StutterPreserves
  <2> QED BY <2>1, <2>2 DEF Next, vars
<1> QED BY <1>1, <1>2, PTL DEF Spec

\* Two reports of a case come from drafts that were open together, and no draft
\* or submission of the case that begins afterwards succeeds
\* (upsert_sar_draft, submit_sar).
THEOREM DuplicateBlocksTheCase == Spec => []DuplicatedReportBlocks
<1>1. SarInv => DuplicatedReportBlocks
  BY DEF SarInv, OverlapInv, LateInv, DuplicatedReportBlocks
<1> QED BY <1>1, DeskInvariant, PTL

\* A case whose report awaits consent is submitted, whatever drafts were on
\* their way, unless a draft read it as submitted and was saved
\* (CaseWritten: a commit writes what differs from what was read).
THEOREM SubmittedStays == Spec => []SubmittedUnlessRedrafted
<1>1. SarInv => SubmittedUnlessRedrafted
  BY DEF SarInv, SubmittedInv, Submitted, SubmittedUnlessRedrafted
<1> QED BY <1>1, DeskInvariant, PTL

\* The stamp of an alert that was not too early is not lost to drafts and
\* submissions that had read the case before it (send_aml_alert, CaseWritten).
THEOREM StampStays == Spec => []AlertedIsStamped
<1>1. SarInv => AlertedIsStamped
  BY DEF SarInv, AlertInv
<1> QED BY <1>1, DeskInvariant, PTL

-----------------------------------------------------------------------------
(* The registers: what is there, and what a reader has read of it.          *)

Found(f) == Listing(f).found
\* The rows listed before x.
Before(f, x) == {s \in Found(f) : Precedes(s, x, Listing(f).ascending)}
Tied(f) == \E s, t \in Found(f) : s # t /\ s.row.order = t.row.order

RegistersShape ==
    /\ register \in Tables /\ clock \in Nat
    /\ creation = [c \in Creations |-> creation[c]]
    /\ reader = [w \in Readers |-> reader[w]]

\* Rows are ordered by dates and names.
RowsOrdered ==
    /\ IsFiniteSet(rows)
    /\ \A x \in rows : x.row.order \in Nat
    /\ \A c \in Creations :
          creation[c].phase = "commit" => creation[c].own.row.order \in Nat

IsWalk(r) ==
    /\ r.phase \in {"count", "page", "done"}
    /\ r = [phase |-> r.phase, filter |-> r.filter, limit |-> r.limit, stop |-> r.stop,
            offset |-> r.offset, total |-> r.total, seen |-> r.seen,
            there |-> r.there, raced |-> r.raced]
    /\ r.limit \in 1..200 /\ r.offset \in Nat /\ r.stop \in {"short", "total"}
    /\ register \in Registers \ {"aml_signals"}

\* What a client has not seen of what was there comes after what it has asked for.
WalkInv(r) ==
    \/ Tied(r.filter)
    \/ /\ r.phase # "done"
       /\ \A x \in r.there \ r.seen :
             x \in Found(r.filter) /\ Cardinality(Before(r.filter, x)) >= r.offset
    \/ r.phase = "done" /\ r.there \subseteq r.seen
    \/ r.phase = "done" /\ r.stop = "total" /\ r.raced

IsView(r) ==
    /\ r.phase \in {"add", "added"}
    /\ r = [phase |-> r.phase, now |-> r.now, next |-> r.next, there |-> r.there,
            answer |-> r.answer]
    /\ r.now \in Nat
    /\ register \in {"aml_signals", "ropa_activities", "esg_metrics"}
    /\ r.next \in 1..(Len(Counts) + 1)
    /\ r.next <= Len(Counts) <=> r.phase = "add"
    /\ DOMAIN r.answer = {Counts[i] : i \in 1..(r.next - 1)}

\* What was counted is there, and nothing else as long as no row was committed.
ViewInv(r) ==
    /\ r.there \subseteq rows
    /\ \A k \in DOMAIN r.answer :
          /\ r.answer[k] \in Nat /\ r.answer[k] <= Cardinality(Counted(k, r.now))
          /\ rows = r.there => r.answer[k] = Cardinality(Counted(k, r.now))
    /\ register = "aml_signals" /\ r.phase = "added" =>
          r.answer["high"] <= r.answer["all"]

ReaderInv(r) ==
    \/ r = [phase |-> "idle"]
    \/ IsWalk(r) /\ WalkInv(r)
    \/ IsView(r) /\ ViewInv(r)
ReadersInv == \A w \in Readers : ReaderInv(reader[w])

RegistersInv == RegistersShape /\ RowsOrdered /\ ReadersInv

-----------------------------------------------------------------------------
(* What listings and dashboards find when rows are added.                   *)

LEMMA StoredOrder ==
  ASSUME register \in Registers, NEW q \in Requests[register], NEW now \in Nat
  PROVE  Stored(q, now).order \in Nat
<1>1. q.key \in Nat \union {None}
  BY KeysAssumption
<1>2. Or(q.key, Never) \in Nat /\ Or(q.key, now) \in Nat
  BY <1>1 DEF Or, Never
<1>3. CASE register \in {"esg_metrics", "suppliers", "hs_incidents", "competitors"}
  <2>1. q.key \in Nat
    BY <1>1, <1>3, KeysAssumption
  <2>2. Stored(q, now) \in {create_esg_metric(q, now), create_supplier_profile(q, now),
                            create_hs_incident(q, now), create_competitor_profile(q, now)}
    BY <1>3 DEF Stored
  <2> QED BY <2>1, <2>2 DEF create_esg_metric, create_supplier_profile,
             create_hs_incident, create_competitor_profile, Row
<1>4. CASE register \in {"obligations", "rd_tax_activities"}
  <2>1. Stored(q, now) \in {create_obligation(q, now), create_rd_tax_activity(q, now)}
    BY <1>4 DEF Stored
  <2> QED BY <1>2, <2>1 DEF create_obligation, create_rd_tax_activity, Row
<1>5. CASE register \in {"covenants", "sla_contracts", "retention_policies",
                         "ropa_activities", "aml_signals"}
  <2>1. Stored(q, now) \in {create_covenant(q, now), create_sla_contract(q, now),
                            create_gdpr_retention_policy(q, now),
                            create_ropa_activity(q, now), log_aml_signal(q, now)}
    BY <1>5 DEF Stored
  <2> QED BY <2>1 DEF create_covenant, create_sla_contract, log_aml_signal,
             create_gdpr_retention_policy, create_ropa_activity, Row
<1> QED BY <1>3, <1>4, <1>5 DEF Registers

LEMMA FoundGrows ==
  ASSUME register \in Registers \ {"aml_signals"}, register' = register,
         rows \subseteq rows', NEW f
  PROVE  /\ Found(f) \subseteq rows
         /\ Found(f) \subseteq Found(f)' /\ Found(f)' \subseteq rows'
         /\ rows' = rows => Found(f)' = Found(f)
         /\ Listing(f).ascending' = Listing(f).ascending
<1> USE DEF Found, Ascending, Descending, Where, WithText
<1>1. CASE register = "obligations"
  BY <1>1 DEF Listing, list_obligations
<1>2. CASE register = "covenants"
  BY <1>2 DEF Listing, list_covenants
<1>3. CASE register = "sla_contracts"
  BY <1>3 DEF Listing, list_sla_contracts
<1>4. CASE register = "retention_policies"
  BY <1>4 DEF Listing, list_gdpr_retention_policies
<1>5. CASE register = "ropa_activities"
  BY <1>5 DEF Listing, list_ropa_activities
<1>6. CASE register = "rd_tax_activities"
  BY <1>6 DEF Listing, list_rd_tax_activities
<1>7. CASE register = "esg_metrics"
  BY <1>7 DEF Listing, list_esg_metrics
<1>8. CASE register = "suppliers"
  BY <1>8 DEF Listing, list_supplier_profiles
<1>9. CASE register = "hs_incidents"
  BY <1>9 DEF Listing, list_hs_incidents
<1>10. CASE register = "competitors"
  BY <1>10 DEF Listing, list_competitor_profiles
<1> QED BY <1>1, <1>2, <1>3, <1>4, <1>5, <1>6, <1>7, <1>8, <1>9, <1>10 DEF Registers

LEMMA FoundThere ==
  ASSUME register \in Registers \ {"aml_signals"}, NEW f
  PROVE  Found(f) \subseteq rows
<1> USE DEF Found, Ascending, Descending, Where, WithText
<1>1. CASE register \in {"obligations", "covenants", "sla_contracts",
                         "retention_policies", "ropa_activities"}
  BY <1>1 DEF Listing, list_obligations, list_covenants, list_sla_contracts,
              list_gdpr_retention_policies, list_ropa_activities
<1>2. CASE register \in {"rd_tax_activities", "esg_metrics", "suppliers",
                         "hs_incidents", "competitors"}
  BY <1>2 DEF Listing, list_rd_tax_activities, list_esg_metrics,
              list_supplier_profiles, list_hs_incidents, list_competitor_profiles
<1> QED BY <1>1, <1>2 DEF Registers

LEMMA CountsAre ==
  /\ register = "aml_signals" => Counts = <<"high", "all">>
  /\ register = "esg_metrics" => Counts = <<"all", "flagged">>
  /\ register = "ropa_activities" =>
        Counts = <<"all", "overdue", "due soon", "flagged">>
<1>1. register = "aml_signals" => Counts = <<"high", "all">>
  BY DEF Counts, aml_dashboard
<1>2. register = "esg_metrics" => Counts = <<"all", "flagged">>
  BY DEF Counts, esg_csrd_dashboard
<1>3. register = "ropa_activities" =>
        Counts = <<"all", "overdue", "due soon", "flagged">>
  BY DEF Counts, ropa_dashboard
<1> QED BY <1>1, <1>2, <1>3

LEMMA CountsLength ==
  ASSUME register \in {"aml_signals", "ropa_activities", "esg_metrics"}
  PROVE  /\ Len(Counts) \in 2..4 /\ DOMAIN Counts = 1..Len(Counts)
         /\ Cardinality(DOMAIN Counts) = Len(Counts)
<1>1. ASSUME NEW a, NEW b, Counts = <<a, b>>
      PROVE  Len(Counts) = 2 /\ DOMAIN Counts = 1..2
  BY <1>1
<1>2. ASSUME NEW a, NEW b, NEW c, NEW d, Counts = <<a, b, c, d>>
      PROVE  Len(Counts) = 4 /\ DOMAIN Counts = 1..4
  BY <1>2
<1>3. Len(Counts) \in 2..4 /\ DOMAIN Counts = 1..Len(Counts)
  <2>1. CASE register = "ropa_activities"
    <3>1. Counts = <<"all", "overdue", "due soon", "flagged">>
      BY <2>1, CountsAre
    <3>2. PICK a, b, c, d : Counts = <<a, b, c, d>>
      BY <3>1
    <3> QED BY <3>2, <1>2
  <2>2. CASE register # "ropa_activities"
    <3>1. Counts = <<"high", "all">> \/ Counts = <<"all", "flagged">>
      BY <2>2, CountsAre
    <3> QED BY <3>1, <1>1
  <2> QED BY <2>1, <2>2
<1>4. Cardinality(1..Len(Counts)) = Len(Counts)
  BY <1>3, FS_Interval
<1> QED BY <1>3, <1>4

LEMMA RopaCounts ==
  ASSUME register = "ropa_activities"
  PROVE  /\ 1..Len(Counts) = 1..4
         /\ Counts[1] = "all" /\ Counts[2] = "overdue"
         /\ Counts[3] = "due soon" /\ Counts[4] = "flagged"
<1>1. ASSUME NEW a, NEW b, NEW c, NEW d, Counts = <<a, b, c, d>>
      PROVE  /\ 1..Len(Counts) = 1..4
             /\ Counts[1] = a /\ Counts[2] = b /\ Counts[3] = c /\ Counts[4] = d
  BY <1>1
<1> QED BY <1>1, CountsAre, Zenon

LEMMA CountsMembers ==
  ASSUME register \in {"aml_signals", "ropa_activities", "esg_metrics"},
         NEW i \in 1..Len(Counts)
  PROVE  Counts[i] \in {"all", "high", "flagged", "overdue", "due soon"}
<1>1. ASSUME NEW a, NEW b, Counts = <<a, b>> PROVE Counts[i] \in {a, b}
  <2>1. i \in 1..2
    BY <1>1
  <2> QED BY <1>1, <2>1
<1>2. ASSUME NEW a, NEW b, NEW c, NEW d, Counts = <<a, b, c, d>>
      PROVE  Counts[i] \in {a, b, c, d}
  <2>1. i \in 1..4
    BY <1>2
  <2> QED BY <1>2, <2>1
<1>3. CASE register = "ropa_activities"
  <2>1. Counts[i] \in {"all", "overdue", "due soon", "flagged"}
    BY <1>2, <1>3, CountsAre, Zenon
  <2> QED BY <2>1
<1>4. CASE register # "ropa_activities"
  <2>1. Counts[i] \in {"high", "all"} \/ Counts[i] \in {"all", "flagged"}
    BY <1>1, <1>4, CountsAre, Zenon
  <2> QED BY <2>1
<1> QED BY <1>3, <1>4

LEMMA CountedFinite ==
  ASSUME IsFiniteSet(rows), NEW k, NEW now
  PROVE  IsFiniteSet(Counted(k, now)) /\ Cardinality(Counted(k, now)) \in Nat
<1>1. Counted(k, now) \subseteq rows
  BY DEF Counted
<1> QED BY <1>1, FS_Subset, FS_CardinalityType

LEMMA BeforeFinite ==
  ASSUME IsFiniteSet(rows), register \in Registers \ {"aml_signals"}, NEW f, NEW x
  PROVE  /\ IsFiniteSet(Found(f)) /\ Cardinality(Found(f)) \in Nat
         /\ IsFiniteSet(Before(f, x)) /\ Cardinality(Before(f, x)) \in Nat
<1>1. Before(f, x) \subseteq Found(f) /\ Found(f) \subseteq rows
  BY FoundThere DEF Before
<1>2. IsFiniteSet(Found(f))
  BY <1>1, FS_Subset
<1> QED BY <1>1, <1>2, FS_Subset, FS_CardinalityType

-----------------------------------------------------------------------------
(* What a reader has read stays right when rows are added.                  *)

LEMMA WalkKept ==
  ASSUME rows \subseteq rows', register' = register, IsFiniteSet(rows)', NEW r,
         IsWalk(r), WalkInv(r)
  PROVE  IsWalk(r)' /\ WalkInv(r)'
<1>1. IsWalk(r)'
  BY DEF IsWalk
<1>2. register \in Registers \ {"aml_signals"} /\ r.offset \in Nat
  BY DEF IsWalk
<1>3. /\ Found(r.filter) \subseteq Found(r.filter)'
      /\ Listing(r.filter).ascending' = Listing(r.filter).ascending
  BY <1>2, FoundGrows
<1>4. CASE Tied(r.filter)
  <2>1. Tied(r.filter)'
    BY <1>3, <1>4 DEF Tied
  <2> QED BY <1>1, <2>1 DEF WalkInv
<1>5. CASE /\ r.phase # "done"
           /\ \A x \in r.there \ r.seen :
                 x \in Found(r.filter) /\ Cardinality(Before(r.filter, x)) >= r.offset
  <2>1. ASSUME NEW x \in r.there \ r.seen
        PROVE  x \in Found(r.filter)' /\ Cardinality(Before(r.filter, x))' >= r.offset
    <3>1. Before(r.filter, x) \subseteq Before(r.filter, x)'
      BY <1>3 DEF Before
    <3>2. IsFiniteSet(Before(r.filter, x))' /\ Cardinality(Before(r.filter, x))' \in Nat
      <4>1. Before(r.filter, x)' \subseteq rows'
        <5>1. Found(r.filter)' \subseteq rows'
          BY <1>2, FoundGrows
        <5> QED BY <5>1 DEF Before
      <4> QED BY <4>1, FS_Subset, FS_CardinalityType
    <3>3. /\ Cardinality(Before(r.filter, x)) <= Cardinality(Before(r.filter, x))'
          /\ Cardinality(Before(r.filter, x)) \in Nat
      BY <3>1, <3>2, FS_Subset, FS_CardinalityType
    <3> QED BY <1>2, <1>3, <1>5, <3>2, <3>3
  <2> QED BY <1>1, <1>5, <2>1 DEF WalkInv
<1>6. CASE \/ r.phase = "done" /\ r.there \subseteq r.seen
           \/ r.phase = "done" /\ r.stop = "total" /\ r.raced
  BY <1>1, <1>6 DEF WalkInv
<1> QED BY <1>4, <1>5, <1>6 DEF WalkInv

LEMMA ViewKept ==
  ASSUME rows \subseteq rows', register' = register, IsFiniteSet(rows)', NEW r,
         IsView(r), ViewInv(r)
  PROVE  IsView(r)' /\ ViewInv(r)'
<1>1. Counts' = Counts
  BY DEF Counts
<1>2. IsView(r)'
  BY <1>1 DEF IsView
<1>3. ASSUME NEW k \in DOMAIN r.answer
      PROVE  /\ r.answer[k] \in Nat /\ r.answer[k] <= Cardinality(Counted(k, r.now))'
             /\ rows' = r.there => r.answer[k] = Cardinality(Counted(k, r.now))'
  <2>1. k \in {"all", "high", "flagged", "overdue", "due soon"}
    <3>1. PICK i \in 1..(r.next - 1) : k = Counts[i]
      BY <1>3 DEF IsView
    <3>2. r.next \in 1..(Len(Counts) + 1) /\ Len(Counts) \in Nat
      <4>1. /\ register \in {"aml_signals", "ropa_activities", "esg_metrics"}
            /\ r.next \in 1..(Len(Counts) + 1)
        BY DEF IsView
      <4> QED BY <4>1, CountsLength
    <3>3. i \in 1..Len(Counts)
      BY <3>2
    <3> QED BY <3>1, <3>3, CountsMembers DEF IsView
  <2>2. /\ Counted(k, r.now) \subseteq Counted(k, r.now)'
        /\ rows' = rows => Counted(k, r.now)' = Counted(k, r.now)
    BY <2>1 DEF Counted
  <2>3. Counted(k, r.now)' \subseteq rows'
    BY DEF Counted
  <2>4. IsFiniteSet(Counted(k, r.now)') /\ Cardinality(Counted(k, r.now)') \in Nat
    BY <2>3, FS_Subset, FS_CardinalityType
  <2>5. /\ Cardinality(Counted(k, r.now)) <= Cardinality(Counted(k, r.now)')
        /\ Cardinality(Counted(k, r.now)) \in Nat
    BY <2>2, <2>4, FS_Subset, FS_CardinalityType
  <2>6. r.answer[k] \in Nat /\ r.answer[k] <= Cardinality(Counted(k, r.now))
    BY <1>3 DEF ViewInv
  <2>7. ASSUME rows' = r.there
        PROVE  r.answer[k] = Cardinality(Counted(k, r.now)')
    <3>1. rows = r.there /\ rows' = rows
      BY <2>7 DEF ViewInv
    <3>2. r.answer[k] = Cardinality(Counted(k, r.now))
      BY <1>3, <3>1 DEF ViewInv
    <3> QED BY <2>2, <3>1, <3>2
  <2> QED BY <2>4, <2>5, <2>6, <2>7
<1> QED BY <1>2, <1>3 DEF ViewInv

LEMMA ReaderKept ==
  ASSUME rows \subseteq rows', register' = register, IsFiniteSet(rows)', NEW r,
         ReaderInv(r)
  PROVE  ReaderInv(r)'
  BY WalkKept, ViewKept DEF ReaderInv

LEMMA ReadersKept ==
  ASSUME rows \subseteq rows', register' = register, IsFiniteSet(rows)',
         \A w \in Readers : \E r : ReaderInv(r) /\ reader'[w] = r
  PROVE  ReadersInv'
<1> SUFFICES ASSUME NEW w \in Readers PROVE ReaderInv(reader[w])'
  BY DEF ReadersInv
<1>1. PICK r : ReaderInv(r) /\ reader'[w] = r
  OBVIOUS
<1>2. ReaderInv(r)'
  BY <1>1, ReaderKept
<1> QED BY <1>1, <1>2

-----------------------------------------------------------------------------
(* Pages.                                                                   *)

LEMMA FirstsFacts ==
  ASSUME NEW found, IsFiniteSet(found), NEW n \in Nat, NEW ascending,
         NEW first \in Firsts(found, n, ascending)
  PROVE  /\ first \subseteq found /\ IsFiniteSet(first)
         /\ Cardinality(first) \in Nat /\ Cardinality(first) <= n
         /\ Cardinality(first) = n \/ first = found
         /\ \A r \in first, s \in found \ first : ~Precedes(s, r, ascending)
<1>1. /\ first \subseteq found
      /\ Cardinality(first) = Min({n, Cardinality(found)})
      /\ \A r \in first, s \in found \ first : ~Precedes(s, r, ascending)
  BY DEF Firsts, kSubset
<1>2. Cardinality(found) \in Nat
  BY FS_CardinalityType
<1>3. /\ Min({n, Cardinality(found)}) \in {n, Cardinality(found)}
      /\ \A y \in {n, Cardinality(found)} : Min({n, Cardinality(found)}) <= y
  <2> DEFINE least(x) == \A y \in {n, Cardinality(found)} : x <= y
  <2>1. \E x \in {n, Cardinality(found)} : least(x)
    <3>1. n <= Cardinality(found) \/ Cardinality(found) <= n
      BY <1>2
    <3>2. least(n) \/ least(Cardinality(found))
      BY <1>2, <3>1
    <3> QED BY <3>2
  <2> QED BY <2>1 DEF Min
<1>4. IsFiniteSet(first) /\ Cardinality(first) = Cardinality(found) => first = found
  BY <1>1, FS_Subset
<1> QED BY <1>1, <1>2, <1>3, <1>4, FS_Subset, FS_CardinalityType

LEMMA PageReaches ==
  ASSUME RowsOrdered, register \in Registers \ {"aml_signals"}, NEW f, ~Tied(f),
         NEW offset \in Nat, NEW limit \in 1..200, NEW page \in Pages(f, offset, limit),
         NEW x \in Found(f) \ page, Cardinality(Before(f, x)) >= offset
  PROVE  /\ Cardinality(page) = limit
         /\ Cardinality(Before(f, x)) >= offset + limit
<1> DEFINE ascending == Listing(f).ascending
           found == Found(f)
<1>1. PICK skipped \in Firsts(found, offset, ascending) :
         page \in Firsts(found \ skipped, limit, ascending)
  BY DEF Pages, Found
<1>2. /\ IsFiniteSet(found) /\ found \subseteq rows
      /\ IsFiniteSet(Before(f, x)) /\ Cardinality(Before(f, x)) \in Nat
  BY BeforeFinite, FoundThere DEF RowsOrdered
<1>3. \A y \in found : y.row.order \in Nat
  BY <1>2 DEF RowsOrdered
<1>4. \A y \in found : y # x /\ ~Precedes(x, y, ascending) => y \in Before(f, x)
  BY <1>3 DEF Tied, Precedes, Before
<1>5. ~Precedes(x, x, ascending)
  BY <1>3 DEF Precedes
<1>6. \A y \in Before(f, x) : y \in found /\ Precedes(y, x, ascending)
  BY DEF Before
<1> HIDE DEF ascending, found
<1>7. /\ skipped \subseteq found /\ IsFiniteSet(skipped)
      /\ Cardinality(skipped) \in Nat /\ Cardinality(skipped) <= offset
      /\ Cardinality(skipped) = offset \/ skipped = found
      /\ \A r \in skipped, s \in found \ skipped : ~Precedes(s, r, ascending)
  BY <1>1, <1>2, FirstsFacts
<1>8. IsFiniteSet(found \ skipped)
  BY <1>2, FS_Subset
<1>9. /\ page \subseteq found \ skipped /\ IsFiniteSet(page)
      /\ Cardinality(page) \in Nat
      /\ Cardinality(page) = limit \/ page = found \ skipped
      /\ \A r \in page, s \in (found \ skipped) \ page : ~Precedes(s, r, ascending)
  <2>1. limit \in Nat
    OBVIOUS
  <2> HIDE DEF ascending
  <2> QED BY <1>1, <1>8, <2>1, FirstsFacts
<1>10. x \in found /\ x \notin page
  BY DEF found
<1>11. x \notin skipped
  <2> SUFFICES ASSUME x \in skipped PROVE FALSE
    OBVIOUS
  <2>1. Before(f, x) \subseteq skipped \ {x}
    BY <1>5, <1>6, <1>7
  <2>2. IsFiniteSet(skipped \ {x}) /\ Cardinality(skipped \ {x}) = Cardinality(skipped) - 1
    BY <1>7, FS_RemoveElement
  <2>3. Cardinality(Before(f, x)) <= Cardinality(skipped \ {x})
    BY <2>1, <2>2, FS_Subset
  <2> QED BY <1>2, <1>7, <2>2, <2>3
<1>12. Cardinality(page) = limit /\ Cardinality(skipped) = offset
  BY <1>7, <1>9, <1>10, <1>11
<1>13. skipped \union page \subseteq Before(f, x)
  BY <1>4, <1>7, <1>9, <1>10, <1>11
<1>14. /\ IsFiniteSet(skipped \union page)
       /\ Cardinality(skipped \union page) = offset + limit
  <2>1. skipped \cap page = {}
    BY <1>9
  <2>2. Cardinality(skipped \cap page) = 0
    BY <2>1, FS_EmptySet
  <2> QED BY <1>7, <1>9, <1>12, <2>2, FS_Union
<1>15. Cardinality(skipped \union page) <= Cardinality(Before(f, x))
  BY <1>2, <1>13, FS_Subset
<1> QED BY <1>2, <1>12, <1>14, <1>15

\* A row is not among those before it.
LEMMA FewerBefore ==
  ASSUME RowsOrdered, register \in Registers \ {"aml_signals"}, NEW f,
         NEW x \in Found(f)
  PROVE  Cardinality(Before(f, x)) < Cardinality(Found(f))
<1>1. /\ IsFiniteSet(Found(f)) /\ Cardinality(Found(f)) \in Nat
      /\ IsFiniteSet(Before(f, x)) /\ Cardinality(Before(f, x)) \in Nat
  BY BeforeFinite DEF RowsOrdered
<1>2. x \notin Before(f, x) /\ Before(f, x) \subseteq Found(f)
  <2>1. x.row.order \in Nat
    BY FoundThere DEF RowsOrdered
  <2> QED BY <2>1 DEF Before, Precedes
<1>3. /\ Cardinality(Before(f, x)) <= Cardinality(Found(f))
      /\ Cardinality(Found(f)) = Cardinality(Before(f, x)) => Found(f) = Before(f, x)
  BY <1>1, <1>2, FS_Subset
<1> QED BY <1>1, <1>2, <1>3

-----------------------------------------------------------------------------
(* One step per operation of a reader.                                      *)

LEMMA StartWalkReads ==
  ASSUME RegistersShape, RowsOrdered, NEW w \in Readers, NEW f \in Filters,
         NEW limit \in Limits, NEW stop \in {"short", "total"},
         StartWalk(w, f, limit, stop)
  PROVE  ReaderInv(reader'[w])
<1> DEFINE r == [phase |-> "count", filter |-> f, limit |-> limit, stop |-> stop,
                 offset |-> 0, total |-> 0, seen |-> {},
                 there |-> Listing(f).found, raced |-> FALSE]
<1>1. reader'[w] = r /\ register \in Registers \ {"aml_signals"}
  BY DEF StartWalk, Reads, RegistersShape
<1>2. IsWalk(r)
  BY <1>1, LimitsAssumption DEF IsWalk
<1>3. WalkInv(r)
  <2>1. \A x \in Found(f) : Cardinality(Before(f, x)) >= 0
    BY <1>1, BeforeFinite DEF RowsOrdered
  <2> QED BY <2>1 DEF WalkInv, Found
<1> QED BY <1>1, <1>2, <1>3 DEF ReaderInv

LEMMA CountReads ==
  ASSUME RegistersShape, NEW w \in Readers, ReaderInv(reader[w]), Count(w)
  PROVE  ReaderInv(reader'[w])
<1>1. PICK r : r = reader[w]
  OBVIOUS
<1>2. IsWalk(r) /\ WalkInv(r) /\ r.phase = "count"
  BY <1>1 DEF Count, ReaderInv, IsView
<1>3. PICK n : n = Cardinality(Listing(r.filter).found)
  OBVIOUS
<1> DEFINE s == [phase |-> "page", filter |-> r.filter, limit |-> r.limit,
                 stop |-> r.stop, offset |-> r.offset, total |-> n, seen |-> r.seen,
                 there |-> r.there, raced |-> r.raced]
<1>4. reader'[w] = s
  BY <1>1, <1>2, <1>3 DEF Count, Reads, RegistersShape, IsWalk
<1>5. IsWalk(s)
  BY <1>2 DEF IsWalk
<1>6. WalkInv(s)
  BY <1>2 DEF WalkInv
<1> QED BY <1>4, <1>5, <1>6 DEF ReaderInv

LEMMA PageReads ==
  ASSUME RegistersShape, RowsOrdered, NEW w \in Readers, ReaderInv(reader[w]), Page(w)
  PROVE  ReaderInv(reader'[w])
<1>1. PICK r : r = reader[w]
  OBVIOUS
<1>2. IsWalk(r) /\ WalkInv(r) /\ r.phase = "page"
  BY <1>1 DEF Page, ReaderInv, IsView
<1>3. PICK page \in Pages(r.filter, r.offset, r.limit) :
         reader' = [reader EXCEPT ![w] =
            [r EXCEPT
               !.phase = IF IF r.stop = "short" THEN Cardinality(page) < r.limit
                            ELSE r.offset + r.limit >= r.total
                         THEN "done" ELSE "count",
               !.offset = r.offset + r.limit, !.seen = @ \union page,
               !.raced = Cardinality(Listing(r.filter).found) # r.total]]
  BY <1>1 DEF Page, Reads
<1> DEFINE f == r.filter
           ends == IF r.stop = "short" THEN Cardinality(page) < r.limit
                   ELSE r.offset + r.limit >= r.total
           raced == Cardinality(Found(f)) # r.total
           s == [phase |-> IF ends THEN "done" ELSE "count", filter |-> r.filter,
                 limit |-> r.limit, stop |-> r.stop, offset |-> r.offset + r.limit,
                 total |-> r.total, seen |-> r.seen \union page,
                 there |-> r.there, raced |-> raced]
<1>4. reader'[w] = s
  BY <1>2, <1>3 DEF RegistersShape, IsWalk, Found
<1>5. /\ r.limit \in 1..200 /\ r.offset \in Nat /\ r.stop \in {"short", "total"}
      /\ register \in Registers \ {"aml_signals"}
  BY <1>2 DEF IsWalk
<1>6. IsWalk(s)
  <2>1. r.offset + r.limit \in Nat
    BY <1>5
  <2> QED BY <1>5, <2>1 DEF IsWalk
<1>7. CASE Tied(f)
  BY <1>4, <1>6, <1>7 DEF ReaderInv, WalkInv
<1>8. CASE ~Tied(f)
  <2>1. \A x \in r.there \ r.seen :
           x \in Found(f) /\ Cardinality(Before(f, x)) >= r.offset
    BY <1>2, <1>8 DEF WalkInv
  <2>2. \A x \in r.there \ (r.seen \union page) :
           /\ x \in Found(f) /\ Cardinality(page) = r.limit
           /\ Cardinality(Before(f, x)) >= r.offset + r.limit
    BY <1>3, <1>5, <1>8, <2>1, PageReaches
  <2>3. CASE ~ends
    BY <1>4, <1>6, <2>2, <2>3 DEF ReaderInv, WalkInv
  <2>4. CASE ends /\ r.stop = "short"
    <3>1. Cardinality(page) # r.limit
      BY <1>3, <1>5, <2>4
    <3>2. r.there \subseteq r.seen \union page
      BY <2>2, <3>1
    <3> QED BY <1>4, <1>6, <2>4, <3>2 DEF ReaderInv, WalkInv
  <2>5. CASE ends /\ r.stop = "total" /\ raced
    <3>1. s.phase = "done" /\ s.stop = "total" /\ s.raced
      BY <2>5, Zenon
    <3>2. WalkInv(s)
      <4> HIDE DEF s
      <4> QED BY <3>1 DEF WalkInv
    <3> QED BY <1>4, <1>6, <3>2 DEF ReaderInv
  <2>6. CASE ends /\ r.stop = "total" /\ ~raced
    <3>1. r.offset + r.limit >= Cardinality(Found(f))
      BY <1>3, <2>6
    <3>2. \A x \in Found(f) : /\ Cardinality(Before(f, x)) < Cardinality(Found(f))
                              /\ Cardinality(Before(f, x)) \in Nat
                              /\ Cardinality(Found(f)) \in Nat
      BY <1>5, FewerBefore, BeforeFinite DEF RowsOrdered
    <3>3. r.there \subseteq r.seen \union page
      BY <1>5, <2>2, <3>1, <3>2
    <3> QED BY <1>4, <1>6, <2>6, <3>3 DEF ReaderInv, WalkInv
  <2> QED BY <1>5, <2>3, <2>4, <2>5, <2>6
<1> QED BY <1>7, <1>8

LEMMA StartDashboardReads ==
  ASSUME RegistersShape, NEW w \in Readers, StartDashboard(w)
  PROVE  ReaderInv(reader'[w])
<1>1. PICK now \in {clock, clock + 1} :
         reader' = [reader EXCEPT ![w] =
                       [phase |-> "add", now |-> now, next |-> 1, there |-> rows,
                        answer |-> [count \in {} |-> 0]]]
  BY DEF StartDashboard, Reads
<1> DEFINE r == [phase |-> "add", now |-> now, next |-> 1, there |-> rows,
                 answer |-> [count \in {} |-> 0]]
<1>2. reader'[w] = r /\ now \in Nat
  BY <1>1 DEF RegistersShape
<1>3. register \in {"aml_signals", "ropa_activities", "esg_metrics"}
  BY DEF StartDashboard
<1>4. IsView(r)
  <2>1. Len(Counts) \in 2..4
    BY <1>3, CountsLength
  <2>2. {Counts[i] : i \in 1..(1 - 1)} = {}
    OBVIOUS
  <2>3. DOMAIN r.answer = {}
    OBVIOUS
  <2>4. 1 \in 1..(Len(Counts) + 1) /\ 1 <= Len(Counts)
    BY <2>1
  <2> QED BY <1>2, <1>3, <2>2, <2>3, <2>4 DEF IsView
<1>5. ViewInv(r)
  BY DEF ViewInv
<1> QED BY <1>2, <1>4, <1>5 DEF ReaderInv

\* The count of a statement is what it found, and the part counted first fits.
LEMMA CountNextReads ==
  ASSUME RegistersShape, RowsOrdered, NEW w \in Readers, ReaderInv(reader[w]),
         CountNext(w)
  PROVE  ReaderInv(reader'[w])
<1>1. PICK r : r = reader[w]
  OBVIOUS
<1>2. IsView(r) /\ ViewInv(r) /\ r.phase = "add"
  BY <1>1 DEF CountNext, ReaderInv, IsWalk
<1>3. PICK count, found, size : /\ count = Counts[r.next]
                                /\ found = Counted(count, r.now)
                                /\ size = Cardinality(DOMAIN Counts)
  OBVIOUS
<1> DEFINE answered == [k \in DOMAIN r.answer \union {count} |->
                           IF k = count THEN Cardinality(found) ELSE r.answer[k]]
           s == [phase |-> IF r.next = size THEN "added" ELSE "add", now |-> r.now,
                 next |-> r.next + 1, there |-> r.there, answer |-> answered]
<1>4. reader'[w] = s
  BY <1>1, <1>2, <1>3 DEF CountNext, Reads, RegistersShape, IsView
<1>5. /\ register \in {"aml_signals", "ropa_activities", "esg_metrics"}
      /\ r.now \in Nat /\ r.next \in 1..(Len(Counts) + 1) /\ r.next <= Len(Counts)
      /\ DOMAIN r.answer = {Counts[i] : i \in 1..(r.next - 1)}
  BY <1>2 DEF IsView
<1>6. Len(Counts) \in 2..4 /\ size = Len(Counts)
  BY <1>3, <1>5, CountsLength
<1>7. r.next \in 1..Len(Counts) /\ r.next \in Nat
  BY <1>5, <1>6
<1>8. IsView(s)
  <2>1. r.next + 1 \in 1..(Len(Counts) + 1)
    BY <1>6, <1>7
  <2>2. s.phase \in {"add", "added"}
    OBVIOUS
  <2>3. r.next + 1 <= Len(Counts) <=> s.phase = "add"
    BY <1>6, <1>7
  <2>4. DOMAIN answered = {Counts[i] : i \in 1..r.next}
    <3>1. 1..r.next = (1..(r.next - 1)) \union {r.next}
      BY <1>7
    <3>2. DOMAIN answered = DOMAIN r.answer \union {count}
      OBVIOUS
    <3> QED BY <1>3, <1>5, <3>1, <3>2
  <2>5. r.next + 1 - 1 = r.next
    BY <1>7
  <2>6. /\ s = [phase |-> s.phase, now |-> s.now, next |-> s.next,
                 there |-> s.there, answer |-> s.answer]
        /\ s.now = r.now /\ s.next = r.next + 1 /\ s.answer = answered
    OBVIOUS
  <2> HIDE DEF s, answered
  <2> QED BY <1>5, <2>1, <2>2, <2>3, <2>4, <2>5, <2>6 DEF IsView
<1>9. ASSUME NEW k \in DOMAIN answered
      PROVE  /\ answered[k] \in Nat /\ answered[k] <= Cardinality(Counted(k, r.now))
             /\ rows = r.there => answered[k] = Cardinality(Counted(k, r.now))
  <2>1. Cardinality(found) \in Nat
    BY <1>3, CountedFinite DEF RowsOrdered
  <2>2. CASE k = count
    BY <1>3, <2>1, <2>2
  <2>3. CASE k # count
    <3>1. k \in DOMAIN r.answer /\ answered[k] = r.answer[k]
      BY <1>9, <2>3
    <3> HIDE DEF answered
    <3> QED BY <1>2, <3>1 DEF ViewInv
  <2> QED BY <2>2, <2>3
<1>10. ASSUME register = "aml_signals", s.phase = "added"
       PROVE  answered["high"] <= answered["all"]
  <2>1. Counts = <<"high", "all">>
    BY <1>10, CountsAre
  <2>2. Len(Counts) = 2 /\ Counts[1] = "high" /\ Counts[2] = "all"
    BY <2>1
  <2>3. r.next = 2
    BY <1>6, <1>10, <2>2
  <2>4. DOMAIN r.answer = {"high"}
    <3>1. 1..(r.next - 1) = {1}
      BY <2>3
    <3> QED BY <1>5, <2>2, <3>1
  <2>5. count = "all"
    BY <1>3, <2>2, <2>3
  <2>6. answered["high"] = r.answer["high"] /\ answered["all"] = Cardinality(found)
    BY <2>4, <2>5
  <2>7. Counted("high", r.now) \subseteq found
    BY <1>3, <2>5 DEF Counted
  <2>8. IsFiniteSet(found) /\ Cardinality(found) \in Nat
    BY <1>3, CountedFinite DEF RowsOrdered
  <2>9. /\ Cardinality(Counted("high", r.now)) <= Cardinality(found)
        /\ Cardinality(Counted("high", r.now)) \in Nat
    BY <2>7, <2>8, FS_Subset, FS_CardinalityType
  <2>10. r.answer["high"] \in Nat /\ r.answer["high"] <= Cardinality(Counted("high", r.now))
    BY <1>2, <2>4 DEF ViewInv
  <2> HIDE DEF answered
  <2> QED BY <2>6, <2>8, <2>9, <2>10
<1>11. ViewInv(s)
  <2>1. s.there = r.there /\ s.answer = answered /\ s.now = r.now
    OBVIOUS
  <2>2. r.there \subseteq rows
    BY <1>2 DEF ViewInv
  <2> HIDE DEF s, answered
  <2> QED BY <1>9, <1>10, <2>1, <2>2 DEF ViewInv
<1> QED BY <1>4, <1>8, <1>11 DEF ReaderInv

-----------------------------------------------------------------------------
(* The steps that create rows.                                              *)

LEMMA CreatePreserves ==
  ASSUME RegistersInv, register \in Registers, NEW c \in Creations,
         NEW q \in Requests[register], Create(c, q)
  PROVE  RegistersInv'
<1>1. PICK now \in {clock, clock + 1} :
         /\ clock' = now
         /\ creation' = [creation EXCEPT ![c] =
               IF Rejected(q) THEN [phase |-> "failed"]
               ELSE [phase |-> "commit",
                     own |-> [by |-> c, sent |-> q, row |-> Stored(q, now)]]]
  BY DEF Create
<1>2. now \in Nat /\ rows' = rows /\ reader' = reader /\ register' = register
  BY DEF Create, RegistersInv, RegistersShape
<1>3. Stored(q, now).order \in Nat
  BY <1>2, StoredOrder
<1>4. RegistersShape'
  BY <1>1, <1>2 DEF RegistersInv, RegistersShape
<1>5. RowsOrdered'
  <2>1. ASSUME NEW d \in Creations, creation'[d].phase = "commit"
        PROVE  creation'[d].own.row.order \in Nat
    <3>1. CASE d = c
      <4>1. ~Rejected(q)
        BY <1>1, <2>1, <3>1 DEF RegistersInv, RegistersShape
      <4> QED BY <1>1, <1>3, <3>1, <4>1 DEF RegistersInv, RegistersShape
    <3>2. CASE d # c
      BY <1>1, <2>1, <3>2 DEF RegistersInv, RegistersShape, RowsOrdered
    <3> QED BY <3>1, <3>2
  <2> QED BY <1>2, <2>1 DEF RegistersInv, RowsOrdered
<1>6. ReadersInv'
  BY <1>2, <1>5, ReadersKept DEF RegistersInv, ReadersInv, RowsOrdered
<1> QED BY <1>4, <1>5, <1>6 DEF RegistersInv

LEMMA CommitRowPreserves ==
  ASSUME RegistersInv, NEW c \in Creations, CommitRow(c) \/ FailRow(c)
  PROVE  RegistersInv'
<1>1. /\ register' = register /\ clock' = clock /\ reader' = reader
      /\ rows \subseteq rows'
  BY DEF CommitRow, FailRow
<1>2. RegistersShape'
  BY <1>1 DEF RegistersInv, RegistersShape, CommitRow, FailRow
<1>3. RowsOrdered'
  <2>1. IsFiniteSet(rows') /\ \A x \in rows' : x.row.order \in Nat
    BY FS_AddElement DEF CommitRow, FailRow, RegistersInv, RowsOrdered
  <2>2. ASSUME NEW d \in Creations, creation'[d].phase = "commit"
        PROVE  creation'[d].own.row.order \in Nat
    <3>1. d # c /\ creation'[d] = creation[d]
      BY <2>2 DEF CommitRow, FailRow, RegistersInv, RegistersShape
    <3> QED BY <2>2, <3>1 DEF RegistersInv, RowsOrdered
  <2> QED BY <2>1, <2>2 DEF RowsOrdered
<1>4. ReadersInv'
  BY <1>1, <1>3, ReadersKept DEF RegistersInv, ReadersInv, RowsOrdered
<1> QED BY <1>2, <1>3, <1>4 DEF RegistersInv

-----------------------------------------------------------------------------

LEMMA ReadsPreserves ==
  ASSUME RegistersInv, NEW w \in Readers, ReaderInv(reader'[w]),
         \E step : Reads(w, step), clock' \in Nat,
         UNCHANGED <<register, rows, creation>>
  PROVE  RegistersInv'
<1>1. \A v \in Readers \ {w} : reader'[v] = reader[v]
  BY DEF Reads, RegistersInv, RegistersShape
<1>2. RegistersShape'
  BY DEF Reads, RegistersInv, RegistersShape
<1>3. RowsOrdered'
  BY DEF RegistersInv, RowsOrdered
<1>4. \A v \in Readers : \E r : ReaderInv(r) /\ reader'[v] = r
  BY <1>1 DEF RegistersInv, ReadersInv
<1>5. ReadersInv'
  BY <1>3, <1>4, ReadersKept DEF RowsOrdered
<1> QED BY <1>2, <1>3, <1>5 DEF RegistersInv

LEMMA RegistersStep ==
  ASSUME RegistersInv, register \in Registers, RegistersNext
  PROVE  RegistersInv'
<1>1. ASSUME NEW c \in Creations, NEW q \in Requests[register], Create(c, q)
      PROVE  RegistersInv'
  BY <1>1, CreatePreserves
<1>2. ASSUME NEW c \in Creations, CommitRow(c) \/ FailRow(c)
      PROVE  RegistersInv'
  BY <1>2, CommitRowPreserves
<1>3. ASSUME NEW w \in Readers, NEW f \in Filters, NEW limit \in Limits,
             NEW stop \in {"short", "total"}, StartWalk(w, f, limit, stop)
      PROVE  RegistersInv'
  <2>1. ReaderInv(reader'[w])
    BY <1>3, StartWalkReads DEF RegistersInv
  <2>2. /\ \E step : Reads(w, step)
        /\ UNCHANGED <<register, clock, rows, creation>>
    BY <1>3 DEF StartWalk
  <2> QED BY <2>1, <2>2, ReadsPreserves DEF RegistersInv, RegistersShape
<1>4. ASSUME NEW w \in Readers, Count(w) \/ Page(w) \/ CountNext(w)
      PROVE  RegistersInv'
  <2>1. ReaderInv(reader[w])
    BY DEF RegistersInv, ReadersInv
  <2>2. ReaderInv(reader'[w])
    BY <1>4, <2>1, CountReads, PageReads, CountNextReads DEF RegistersInv
  <2>3. /\ \E step : Reads(w, step)
        /\ UNCHANGED <<register, clock, rows, creation>>
    BY <1>4 DEF Count, Page, CountNext
  <2> QED BY <2>2, <2>3, ReadsPreserves DEF RegistersInv, RegistersShape
<1>5. ASSUME NEW w \in Readers, StartDashboard(w)
      PROVE  RegistersInv'
  <2>1. ReaderInv(reader'[w])
    BY <1>5, StartDashboardReads DEF RegistersInv
  <2>2. /\ \E step : Reads(w, step)
        /\ UNCHANGED <<register, rows, creation>> /\ clock' \in {clock, clock + 1}
    BY <1>5 DEF StartDashboard
  <2>3. clock' \in Nat
    BY <2>2 DEF RegistersInv, RegistersShape
  <2> QED BY <2>1, <2>2, <2>3, ReadsPreserves
<1> QED BY <1>1, <1>2, <1>3, <1>4, <1>5 DEF RegistersNext

LEMMA RegistersStutter ==
  ASSUME RegistersInv, UNCHANGED registerVars
  PROVE  RegistersInv'
<1>1. RegistersShape' /\ RowsOrdered'
  BY DEF RegistersInv, RegistersShape, RowsOrdered, registerVars
<1>2. ReadersInv'
  BY <1>1, ReadersKept DEF RegistersInv, ReadersInv, RowsOrdered, registerVars
<1> QED BY <1>1, <1>2 DEF RegistersInv

LEMMA RegistersInvariant == Spec => []RegistersInv
<1>1. Init => RegistersInv
  <2> SUFFICES ASSUME RegistersInit PROVE RegistersInv
    BY DEF Init
  <2>1. RegistersShape
    BY DEF RegistersInit, RegistersShape
  <2>2. RowsOrdered
    BY FS_EmptySet DEF RegistersInit, RowsOrdered
  <2>3. ReadersInv
    BY DEF RegistersInit, ReadersInv, ReaderInv
  <2> QED BY <2>1, <2>2, <2>3 DEF RegistersInv
<1>2. RegistersInv /\ [Next]_vars => RegistersInv'
  <2> SUFFICES ASSUME RegistersInv, [Next]_vars PROVE RegistersInv'
    OBVIOUS
  <2>1. CASE register \in Registers /\ RegistersNext
    BY <2>1, RegistersStep
  <2>2. CASE UNCHANGED registerVars
    BY <2>2, RegistersStutter
  <2> QED BY <2>1, <2>2 DEF Next, vars
<1> QED BY <1>1, <1>2, PTL DEF Spec

LEMMA PartsFit ==
  ASSUME IsFiniteSet(rows), register \in {"ropa_activities", "esg_metrics"}, NEW now \in Nat
  PROVE  /\ Cardinality(Counted("flagged", now)) <= Cardinality(Counted("all", now))
         /\ Cardinality(Counted("overdue", now)) + Cardinality(Counted("due soon", now))
               <= Cardinality(Counted("all", now))
<1>1. \A k \in {"flagged", "overdue", "due soon"} :
         Counted(k, now) \subseteq Counted("all", now)
  BY DEF Counted
<1>2. Counted("overdue", now) \cap Counted("due soon", now) = {}
  BY DEF Counted
<1>3. \A k : IsFiniteSet(Counted(k, now)) /\ Cardinality(Counted(k, now)) \in Nat
  BY CountedFinite
<1>4. Cardinality(Counted("flagged", now)) <= Cardinality(Counted("all", now))
  BY <1>1, <1>3, FS_Subset
<1>5. Cardinality(Counted("overdue", now) \union Counted("due soon", now))
         = Cardinality(Counted("overdue", now)) + Cardinality(Counted("due soon", now))
  <2>1. Cardinality(Counted("overdue", now) \cap Counted("due soon", now)) = 0
    BY <1>2, FS_EmptySet
  <2>2. Cardinality(Counted("overdue", now) \union Counted("due soon", now))
           = Cardinality(Counted("overdue", now)) + Cardinality(Counted("due soon", now))
                - Cardinality(Counted("overdue", now) \cap Counted("due soon", now))
    BY <1>3, FS_Union
  <2>3. PICK overdue \in Nat, soon \in Nat :
           /\ overdue = Cardinality(Counted("overdue", now))
           /\ soon = Cardinality(Counted("due soon", now))
    BY <1>3
  <2>4. overdue + soon - 0 = overdue + soon
    OBVIOUS
  <2> QED BY <2>1, <2>2, <2>3, <2>4
<1>6. Cardinality(Counted("overdue", now) \union Counted("due soon", now))
         <= Cardinality(Counted("all", now))
  BY <1>1, <1>3, FS_Subset
<1> QED BY <1>4, <1>5, <1>6

\* A client that walks a register to its end has seen every row that was there
\* when it started, but for rows with the same key and, when it stops at the
\* total, a row committed since the count (the list_... functions).
THEOREM PagesComplete == Spec => []PagesMissNothing
<1>1. RegistersInv => PagesMissNothing
  <2> SUFFICES ASSUME RegistersInv, NEW w \in Readers, reader[w].phase = "done"
               PROVE  \/ reader[w].there \subseteq reader[w].seen
                      \/ Tied(reader[w].filter)
                      \/ reader[w].stop = "total" /\ reader[w].raced
    BY DEF PagesMissNothing, Tied, Found
  <2>1. ReaderInv(reader[w])
    BY DEF RegistersInv, ReadersInv
  <2>2. WalkInv(reader[w])
    BY <2>1 DEF ReaderInv, IsView
  <2> QED BY <2>2 DEF WalkInv
<1> QED BY <1>1, RegistersInvariant, PTL

\* The parts a dashboard counts fit in its whole, unless a row was committed
\* meanwhile; those of the AML dashboard always fit (aml_dashboard,
\* ropa_dashboard, esg_csrd_dashboard).
THEOREM DashboardsConsistent == Spec => []DashboardsAddUp
<1>1. RegistersInv => DashboardsAddUp
  <2> SUFFICES ASSUME RegistersInv, NEW w \in Readers, NEW r, r = reader[w],
                      r.phase = "added"
               PROVE  CASE register = "aml_signals" -> r.answer["high"] <= r.answer["all"]
                        [] OTHER ->
                              \/ rows # r.there
                              \/ /\ r.answer["flagged"] <= r.answer["all"]
                                 /\ register = "ropa_activities" =>
                                      r.answer["overdue"] + r.answer["due soon"]
                                         <= r.answer["all"]
    BY DEF DashboardsAddUp
  <2>1. IsView(r) /\ ViewInv(r)
    <3>1. ReaderInv(r)
      BY DEF RegistersInv, ReadersInv
    <3> QED BY <3>1 DEF ReaderInv, IsWalk
  <2>2. CASE register = "aml_signals"
    BY <2>1, <2>2 DEF ViewInv
  <2>3. CASE register # "aml_signals" /\ rows # r.there
    BY <2>3
  <2>4. CASE register # "aml_signals" /\ rows = r.there
    <3>1. /\ register \in {"ropa_activities", "esg_metrics"} /\ r.now \in Nat
          /\ r.next \in 1..(Len(Counts) + 1) /\ ~(r.next <= Len(Counts))
          /\ DOMAIN r.answer = {Counts[i] : i \in 1..(r.next - 1)}
      BY <2>1, <2>4 DEF IsView
    <3>2. Len(Counts) \in 2..4
      BY <3>1, CountsLength
    <3>3. 1..(r.next - 1) = 1..Len(Counts)
      BY <3>1, <3>2
    <3>4. {"all", "flagged"} \subseteq DOMAIN r.answer
      <4>1. CASE register = "ropa_activities"
        <5>1. 1 \in 1..4 /\ 4 \in 1..4
          OBVIOUS
        <5> QED BY <3>1, <3>3, <4>1, <5>1, RopaCounts
      <4>2. CASE register = "esg_metrics"
        <5>1. Counts = <<"all", "flagged">>
          BY <4>2, CountsAre
        <5>2. 1 \in 1..Len(Counts) /\ 2 \in 1..Len(Counts)
              /\ Counts[1] = "all" /\ Counts[2] = "flagged"
          BY <5>1
        <5> QED BY <3>1, <3>3, <5>2
      <4> QED BY <3>1, <4>1, <4>2
    <3>5. register = "ropa_activities" => {"overdue", "due soon"} \subseteq DOMAIN r.answer
      <4> SUFFICES ASSUME register = "ropa_activities"
                   PROVE  {"overdue", "due soon"} \subseteq DOMAIN r.answer
        OBVIOUS
      <4>1. 2 \in 1..4 /\ 3 \in 1..4
        OBVIOUS
      <4> QED BY <3>1, <3>3, <4>1, RopaCounts
    <3>6. \A k \in DOMAIN r.answer : r.answer[k] = Cardinality(Counted(k, r.now))
      BY <2>1, <2>4 DEF ViewInv
    <3>7. /\ Cardinality(Counted("flagged", r.now)) <= Cardinality(Counted("all", r.now))
          /\ Cardinality(Counted("overdue", r.now)) + Cardinality(Counted("due soon", r.now))
                <= Cardinality(Counted("all", r.now))
      BY <3>1, PartsFit DEF RegistersInv, RowsOrdered
    <3>8. r.answer["flagged"] <= r.answer["all"]
      BY <3>4, <3>6, <3>7
    <3>9. register = "ropa_activities" =>
             r.answer["overdue"] + r.answer["due soon"] <= r.answer["all"]
      BY <3>4, <3>5, <3>6, <3>7
    <3> QED BY <2>4, <3>8, <3>9
  <2> QED BY <2>2, <2>3, <2>4
<1> QED BY <1>1, RegistersInvariant, PTL
=============================================================================
