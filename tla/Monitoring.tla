----------------------------- MODULE Monitoring -----------------------------
(***************************************************************************)
(* The evaluations of engine/compliance/service.py (SLA, retention, ROPA,  *)
(* R&D tax, ESG, suppliers, incidents, competitors, covenants) and the     *)
(* ingestion of AML signals, as concurrent requests: each assesses its     *)
(* observations one after the other, creates or reuses a compliance case   *)
(* for those that call for one, and records a finding for each.            *)
(*                                                                         *)
(* A request is one transaction at READ COMMITTED.  There is no unique     *)
(* index on the title of a case, and nothing sets the status of the cases  *)
(* that are reused to a final one.  Subjects stand for what a title        *)
(* names.  An INSERT is a step together with the SELECT before it: nobody  *)
(* else can tell them apart before the commit.                             *)
(***************************************************************************)
EXTENDS Assessments, FiniteSets, Sequences

CONSTANTS Evaluations,   \* requests, each made once
          Subjects,      \* contracts, suppliers, activities, ...
          Summaries,     \* what the text of a case may say
          Requests       \* what they may be asked to evaluate

Item == [subject : Subjects, observation : Observation, summary : Summaries]

\* All items of a request are for one monitor; a signal comes alone.
Request ==
    {q \in [create_cases : BOOLEAN, items : Seq(Item)] :
        \A i, j \in 1..Len(q.items) :
            /\ q.items[i].observation.monitor = q.items[j].observation.monitor
            /\ q.items[i].observation.monitor = "aml" => i = j}

ASSUME RequestsAssumption == Requests \subseteq Request

NoCase == <<>>
NoChange == <<>>
NoRequest == [create_cases |-> FALSE, items |-> <<>>]

VARIABLES
    cases,      \* committed cases
    findings,   \* committed assessments, evaluations, signals
    phase,      \* of each request: "idle", "open", "committed", "failed"
    request,    \* what it evaluates: of each item, what Assessed says
    pos,        \* the item it is at
    created,    \* its uncommitted cases
    recorded,   \* its uncommitted findings
    dirty,      \* the change of a case it has made in memory only
    updated,    \* the committed rows it has updated, as it leaves them
    overlapped, \* history: pairs of requests that were open at the same time,
                \* without those rolled back
    blocked     \* history: titles that were duplicated when it began

vars == <<cases, findings, phase, request, pos, created, recorded, dirty,
          updated, overlapped, blocked>>

-----------------------------------------------------------------------------
CaseIds == Evaluations \X Nat   \* who created it, and at which item

\* What is compared to find a case to reuse: domain and title, and the type.
Key(item) ==
    [monitor |-> item.observation.monitor, subject |-> item.subject,
     type |-> CaseType(item.observation)]

\* An assessment depends on its observation only.
Assessed(item) ==
    [key |-> Key(item), status |-> Status(item.observation),
     summary |-> item.summary]

Open(r) == phase[r] = "open"
AtEnd(r) == pos[r] > Len(request[r].items)
Here(r) == request[r].items[pos[r]].key
Says(r) == request[r].items[pos[r]].summary

\* Covenants and signals always get a new case, asked for or not.
AlwaysNew(key) == key.monitor \in {"covenant", "aml"}
CaseWanted(r, key) ==
    /\ key.type # "none"
    /\ request[r].create_cases \/ AlwaysNew(key)

\* The rows it has updated are locked until it ends.
Locked(r) == {c.id : c \in updated[r]}

\* The committed rows with its updates: nobody else can change those.
Updated(r) == updated[r] \union {c \in cases : c.id \notin Locked(r)}

\* Variant: the session's own rows are not flushed before the query.
Found_committed(r, key) == {c \in cases : c.key = key}

\* Variant: dirty reads.
Found_dirty(r, key) ==
    {c \in cases \union UNION {created[s] : s \in Evaluations} : c.key = key}

\* The cases the SELECT returns: committed ones and the request's own.  Between
\* two items nobody holds the object of a case, so that its row is loaded anew.
Found(r, key) == {c \in Updated(r) \union created[r] : c.key = key}

\* Variant: the query takes the first case, .scalars().first().
Ambiguous_never(found) == FALSE

\* scalar_one_or_none raises MultipleResultsFound.
Ambiguous(found) == \E c, d \in found : c # d

Duplicated(key) ==
    \E c, d \in cases : c # d /\ c.key = key /\ d.key = key

Duplicates == {k \in {c.key : c \in cases} : Duplicated(k)}

Init ==
    /\ cases = {} /\ findings = {} /\ overlapped = {}
    /\ phase = [r \in Evaluations |-> "idle"]
    /\ request = [r \in Evaluations |-> NoRequest]
    /\ pos = [r \in Evaluations |-> 1]
    /\ created = [r \in Evaluations |-> {}]
    /\ recorded = [r \in Evaluations |-> {}]
    /\ dirty = [r \in Evaluations |-> NoChange]
    /\ updated = [r \in Evaluations |-> {}]
    /\ blocked = [r \in Evaluations |-> {}]

Begin(r, q) ==
    /\ phase[r] = "idle"
    /\ phase' = [phase EXCEPT ![r] = "open"]
    /\ request' = [request EXCEPT
          ![r] = [create_cases |-> q.create_cases,
                  items |-> [i \in 1..Len(q.items) |-> Assessed(q.items[i])]]]
    /\ overlapped' = overlapped \union {{r, s} : s \in {t \in Evaluations : Open(t)}}
    /\ blocked' = [blocked EXCEPT ![r] = Duplicates]
    /\ UNCHANGED <<cases, findings, pos, created, recorded, dirty, updated>>

\* A row of its own, but for the items of monitor_ropa, which are answered only.
NewFinding(r, case) ==
    [by |-> r, item |-> pos[r], key |-> Here(r),
     status |-> request[r].items[pos[r]].status, summary |-> Says(r),
     case |-> case]

\* The assessment is added and the loop goes on.
Record(r, case) ==
    /\ recorded' = [recorded EXCEPT ![r] = @ \union {NewFinding(r, case)}]
    /\ pos' = [pos EXCEPT ![r] = @ + 1]

AssessOnly(r) ==
    /\ Open(r) /\ ~AtEnd(r)
    /\ ~CaseWanted(r, Here(r))
    /\ Record(r, NoCase)
    /\ UNCHANGED <<cases, findings, phase, request, created, dirty, updated,
                   overlapped, blocked>>

CreateCase(r) ==
    LET id == <<r, pos[r]>>
    IN  /\ created' = [created EXCEPT
              ![r] = @ \union {[id |-> id, key |-> Here(r), summary |-> Says(r)]}]
        /\ Record(r, id)
        /\ UNCHANGED <<cases, findings, phase, request, dirty, updated,
                       overlapped, blocked>>

\* evaluate_covenants and ingest_aml_signal do not look for a case.
NewCase(r) ==
    /\ Open(r) /\ ~AtEnd(r)
    /\ CaseWanted(r, Here(r)) /\ AlwaysNew(Here(r))
    /\ CreateCase(r)

\* The next thing the request does is a query or the commit: before it, the
\* session writes what it has changed.
Queries(r) ==
    /\ Open(r)
    /\ ~AtEnd(r) => CaseWanted(r, Here(r)) /\ ~AlwaysNew(Here(r))

Looks(r) ==
    /\ Queries(r) /\ ~AtEnd(r)
    /\ dirty[r] = NoChange

NoneFound(r) ==
    /\ Looks(r)
    /\ Found(r, Here(r)) = {}
    /\ CreateCase(r)

\* Variant: the case is not one the session follows.
Touch_detached(r, c) == UNCHANGED dirty

\* summary and updated_at are set in memory.  A summary that is set to what
\* was read is no change: the UPDATE will leave it alone.
Touch(r, c) ==
    dirty' = [dirty EXCEPT
        ![r] = [case |-> c.id, summary |-> Says(r),
                changed |-> c.summary # Says(r)]]

ReuseCase(r) ==
    /\ Looks(r)
    /\ ~Ambiguous(Found(r, Here(r)))
    /\ \E c \in Found(r, Here(r)) :
          /\ Touch(r, c)
          /\ Record(r, c.id)
    /\ UNCHANGED <<cases, findings, phase, request, created, updated,
                   overlapped, blocked>>

-----------------------------------------------------------------------------
(* Row locks, and the end of a transaction.                                *)

WaitsFor(r, s) ==
    /\ r # s
    /\ Queries(r)
    /\ dirty[r] # NoChange
    /\ dirty[r].case \in Locked(s)

Applied(change, c) ==
    IF c.id = change.case /\ change.changed
    THEN [c EXCEPT !.summary = change.summary] ELSE c

\* UPDATE compliance_cases: waits for the lock of the row, and applies to the
\* row as it is then.
Flush(r) ==
    /\ Queries(r)
    /\ dirty[r] # NoChange
    /\ \A s \in Evaluations : ~WaitsFor(r, s)
    /\ updated' = [updated EXCEPT
          ![r] = {Applied(dirty[r], c) : c \in
                    {d \in Updated(r) : d.id \in Locked(r) \union {dirty[r].case}}}]
    /\ created' = [created EXCEPT ![r] = {Applied(dirty[r], c) : c \in @}]
    /\ dirty' = [dirty EXCEPT ![r] = NoChange]
    /\ UNCHANGED <<cases, findings, phase, request, pos, recorded,
                   overlapped, blocked>>

Ends(r, result) ==
    /\ phase' = [phase EXCEPT ![r] = result]
    /\ request' = [request EXCEPT ![r] = NoRequest]
    /\ pos' = [pos EXCEPT ![r] = 1]
    /\ created' = [created EXCEPT ![r] = {}]
    /\ recorded' = [recorded EXCEPT ![r] = {}]
    /\ dirty' = [dirty EXCEPT ![r] = NoChange]
    /\ updated' = [updated EXCEPT ![r] = {}]
    /\ blocked' = [blocked EXCEPT ![r] = {}]

Commit(r) ==
    /\ Open(r) /\ AtEnd(r)
    /\ dirty[r] = NoChange
    /\ cases' = Updated(r) \union created[r]
    /\ findings' = findings \union recorded[r]
    /\ Ends(r, "committed")
    /\ UNCHANGED overlapped

Rollback(r) ==
    /\ Ends(r, "failed")
    /\ overlapped' = {pair \in overlapped : r \notin pair}
    /\ UNCHANGED <<cases, findings>>

MultipleResultsFound(r) ==
    /\ Looks(r)
    /\ Ambiguous(Found(r, Here(r)))
    /\ Rollback(r)

\* Requests that wait in a ring, each for one of the others.
Deadlocked(r) ==
    \E ring \in SUBSET Evaluations :
        /\ r \in ring
        /\ \A s \in ring : \E t \in ring : WaitsFor(s, t)

\* Variant: lock waits are unbounded and deadlocks go unnoticed.
DeadlockDetected_never(r) == FALSE /\ Rollback(r)

DeadlockDetected(r) == Deadlocked(r) /\ Rollback(r)

\* Any other failure: of a statement, of the connection, of the process.
Fail(r) == Open(r) /\ Rollback(r)

Progress(r) ==
    \/ AssessOnly(r) \/ NewCase(r)
    \/ NoneFound(r) \/ ReuseCase(r) \/ MultipleResultsFound(r)
    \/ Flush(r) \/ Commit(r)

Next ==
    \E r \in Evaluations :
        \/ \E q \in Requests : Begin(r, q)
        \/ Progress(r)
        \/ DeadlockDetected(r)
        \/ Fail(r)

Spec == Init /\ [][Next]_vars

\* A request that can go on does; the database queues those that wait for a
\* row and looks for deadlocks.  No fairness on beginning or failing.
FairSpec ==
    Spec /\ \A r \in Evaluations :
               SF_vars(Progress(r)) /\ WF_vars(DeadlockDetected(r))

-----------------------------------------------------------------------------
(* Properties.                                                             *)

Items == UNION {{q.items[i] : i \in 1..Len(q.items)} : q \in Requests}
Keys == {Key(i) : i \in Items}
Statuses == {Status(i.observation) : i \in Items}
Evaluation ==
    [create_cases : BOOLEAN,
     items : Seq([key : Keys, status : Statuses, summary : Summaries])]
Case == [id : CaseIds, key : Keys, summary : Summaries]
Change == [case : CaseIds, summary : Summaries, changed : BOOLEAN]
Finding ==
    [by : Evaluations, item : Nat, key : Keys, status : Statuses,
     summary : Summaries, case : CaseIds \union {NoCase}]

\* Every variable has its type, and an open request has one finding for each
\* item it is past.
TypeOK ==
    /\ cases \subseteq Case
    /\ findings \subseteq Finding
    /\ phase \in [Evaluations -> {"idle", "open", "committed", "failed"}]
    /\ request \in [Evaluations -> Evaluation]
    /\ pos \in [Evaluations -> Nat \ {0}]
    /\ created \in [Evaluations -> SUBSET Case]
    /\ recorded \in [Evaluations -> SUBSET Finding]
    /\ dirty \in [Evaluations -> Change \union {NoChange}]
    /\ updated \in [Evaluations -> SUBSET Case]
    /\ overlapped \subseteq SUBSET Evaluations
    /\ blocked \in [Evaluations -> SUBSET Keys]
    /\ \A r \in Evaluations :
          {f.item : f \in recorded[r]} = 1..(pos[r] - 1)

Creator(c) == c.id[1]

\* Two cases of one title and type exist only if the requests that created
\* them were open at the same time: an evaluation never duplicates what it
\* could see, itself included (_create_or_reuse_*_case; covenants and signals
\* are never compared).
DuplicatesNeedOverlap ==
    \A c, d \in cases :
        c # d /\ c.key = d.key /\ ~AlwaysNew(c.key) =>
            {Creator(c), Creator(d)} \in overlapped /\ Creator(c) # Creator(d)

\* A finding names a committed case of its own title and type, and a case
\* shows the summary of a committed finding that names it, also when requests
\* that created, reused or updated it were rolled back (case_id is no foreign
\* key).
CasesAndFindingsAgree ==
    /\ \A f \in findings :
          f.case # NoCase => \E c \in cases : c.id = f.case /\ c.key = f.key
    /\ \A c \in cases :
          \E f \in findings : f.case = c.id /\ f.summary = c.summary

\* Once a title is duplicated, an evaluation begun later that needs its case
\* cannot commit at all, so none of its findings is kept, whatever other
\* subjects they are about (scalar_one_or_none).
DuplicatedTitleBlocks ==
    [][\A f \in findings' \ findings :
          f.case # NoCase /\ ~AlwaysNew(f.key) => f.key \notin blocked[f.by]]_vars

\* When an evaluation commits, every case it reports says what it, or another
\* open at the same time, said of it: never something older, though the UPDATE
\* leaves out a summary that is what was read, and others update the same rows.
CommittedSummaryShows ==
    [][\A f \in findings' \ findings :
          f.case # NoCase =>
              \E c \in cases', g \in findings' :
                  /\ c.id = f.case /\ g.case = f.case
                  /\ c.summary = g.summary
                  /\ g.by = f.by \/ {f.by, g.by} \in overlapped]_vars

\* Every evaluation ends: those that wait for each other's rows are not left
\* waiting.
EvaluationsEnd == \A r \in Evaluations : Open(r) ~> ~Open(r)
=============================================================================
