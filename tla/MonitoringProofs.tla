-------------------------- MODULE MonitoringProofs --------------------------
(* What the evaluations, the dashboards over them and the assessments they  *)
(* make guarantee for any number of requests, subjects and observations.    *)
EXTENDS Dashboards, Observing, SequenceTheorems, FiniteSetTheorems, TLAPS

-----------------------------------------------------------------------------
(* The invariant.                                                           *)

\* A request that is not open holds nothing; what one has created carries its
\* name; committed cases and findings are of requests that committed.
OwnInv ==
    /\ \A r \in Evaluations :
          ~Open(r) => /\ created[r] = {} /\ recorded[r] = {}
                      /\ dirty[r] = NoChange /\ updated[r] = {}
                      /\ blocked[r] = {}
    /\ \A r \in Evaluations : \A c \in created[r] :
          c.id[1] = r /\ c.id[2] < pos[r]
    /\ \A c \in cases : phase[c.id[1]] = "committed"
    /\ \A f \in findings : phase[f.by] = "committed"

\* Cases have different ids.
IdInv ==
    /\ \A c, d \in cases : c.id = d.id => c = d
    /\ \A r \in Evaluations : \A c, d \in created[r] : c.id = d.id => c = d

\* What a request has updated are committed cases, that nobody else updates.
LockInv ==
    \A r \in Evaluations :
        /\ \A u \in updated[r] : \E c \in cases : c.id = u.id /\ c.key = u.key
        /\ \A u, v \in updated[r] : u.id = v.id => u = v
        /\ \A s \in Evaluations : s # r => Locked(r) \intersect Locked(s) = {}

Touched(r, id) ==
    id \in Locked(r) \/ (dirty[r] # NoChange /\ id = dirty[r].case)

\* An uncommitted finding names a case of its title that the request created,
\* or a committed one that it has updated or is about to.
RefInv ==
    \A r \in Evaluations : \A f \in recorded[r] :
        /\ f.by = r
        /\ f.case # NoCase =>
              \/ \E c \in created[r] : c.id = f.case /\ c.key = f.key
              \/ /\ Touched(r, f.case)
                 /\ \E c \in cases : c.id = f.case /\ c.key = f.key

Said(S, id, summary) == \E f \in S : f.case = id /\ f.summary = summary

\* What a request writes to a case is in a finding of its own; an update that
\* leaves the summary alone leaves the committed one.
SaidInv ==
    \A r \in Evaluations :
        /\ \A c \in created[r] : Said(recorded[r], c.id, c.summary)
        /\ \A u \in updated[r] :
              u \in cases \/ Said(recorded[r], u.id, u.summary)
        /\ dirty[r] # NoChange =>
              Said(recorded[r], dirty[r].case, dirty[r].summary)

Fresh(r, c) ==
    \E g \in findings \union recorded[r] :
        /\ g.case = c.id /\ g.summary = c.summary
        /\ g.by = r \/ {r, g.by} \in overlapped

\* What a case says that a request has updated, or will without its summary,
\* is from the request or from one that overlapped it.
FreshInv ==
    \A r \in Evaluations : \A c \in Updated(r) :
        \/ c.id \in Locked(r)
        \/ dirty[r] # NoChange /\ dirty[r].case = c.id /\ ~dirty[r].changed
        => Fresh(r, c)

AllCases == cases \union UNION {created[r] : r \in Evaluations}

\* Uncommitted cases included, one title has two cases only if their creators
\* overlapped; open requests do.
OverlapInv ==
    /\ \A r, s \in Evaluations :
          Open(r) /\ Open(s) /\ r # s => {r, s} \in overlapped
    /\ \A c, d \in AllCases :
          c.id # d.id /\ c.key = d.key /\ ~AlwaysNew(c.key) =>
              {Creator(c), Creator(d)} \in overlapped /\ Creator(c) # Creator(d)

\* A duplicated title stays so, and a request that began after it was has no
\* finding with its case.
BlockInv ==
    \A r \in Evaluations :
        /\ \A k \in blocked[r] : Duplicated(k)
        /\ \A f \in recorded[r] :
              f.case # NoCase /\ ~AlwaysNew(f.key) => f.key \notin blocked[r]

IInv ==
    /\ TypeOK /\ OwnInv /\ IdInv /\ LockInv /\ RefInv /\ SaidInv
    /\ FreshInv /\ CasesAndFindingsAgree /\ OverlapInv /\ BlockInv

-----------------------------------------------------------------------------
(* Types.                                                                   *)

\* No case has the value that stands for none.
LEMMA NoCaseIsNone == NoCase \notin CaseIds
  BY DEF NoCase, CaseIds

\* The title, the status and the text of the item a request is at.
LEMMA HereIsKey ==
    ASSUME TypeOK, NEW r \in Evaluations, ~AtEnd(r)
    PROVE  /\ Here(r) \in Keys /\ Says(r) \in Summaries
           /\ request[r].items[pos[r]].status \in Statuses
<1> DEFINE items == request[r].items
<1>1. /\ items \in Seq([key : Keys, status : Statuses, summary : Summaries])
      /\ pos[r] \in Nat \ {0}
  BY DEF TypeOK, Evaluation
<1>2. pos[r] \in 1..Len(items)
  BY <1>1 DEF AtEnd
<1>3. items[pos[r]] \in [key : Keys, status : Statuses, summary : Summaries]
  BY <1>1, <1>2, ElementOfSeq
<1> QED BY <1>3 DEF Here, Says

\* A request to evaluate becomes a sequence of assessments.
LEMMA BeginType ==
    ASSUME NEW q \in Requests
    PROVE  [create_cases |-> q.create_cases,
            items |-> [i \in 1..Len(q.items) |-> Assessed(q.items[i])]]
              \in Evaluation
<1>1. q.create_cases \in BOOLEAN /\ q.items \in Seq(Item)
  BY RequestsAssumption DEF Request
<1>2. \A i \in 1..Len(q.items) :
         Assessed(q.items[i]) \in [key : Keys, status : Statuses, summary : Summaries]
  <2> SUFFICES ASSUME NEW i \in 1..Len(q.items)
               PROVE  Assessed(q.items[i])
                         \in [key : Keys, status : Statuses, summary : Summaries]
    OBVIOUS
  <2>1. q.items[i] \in Item BY <1>1, ElementOfSeq
  <2>2. q.items[i] \in Items BY DEF Items
  <2> QED BY <2>1, <2>2 DEF Assessed, Keys, Statuses, Item
<1>3. [i \in 1..Len(q.items) |-> Assessed(q.items[i])]
        \in Seq([key : Keys, status : Statuses, summary : Summaries])
  BY <1>1, <1>2, LenProperties
<1> QED BY <1>1, <1>3 DEF Evaluation

\* One more item.
LEMMA OneMore ==
    ASSUME NEW S, NEW e, NEW n \in Nat \ {0},
           {f.item : f \in S} = 1..(n - 1), e.item = n
    PROVE  {f.item : f \in S \union {e}} = 1..n
<1>1. {f.item : f \in S \union {e}} = {f.item : f \in S} \union {e.item}
  OBVIOUS
<1>2. 1..(n - 1) \union {n} = 1..n OBVIOUS
<1> QED BY <1>1, <1>2

\* Recording a finding keeps the types.
LEMMA RecordType ==
    ASSUME TypeOK, NEW r \in Evaluations, ~AtEnd(r),
           NEW case \in CaseIds \union {NoCase}, Record(r, case)
    PROVE  /\ recorded' \in [Evaluations -> SUBSET Finding]
           /\ pos' \in [Evaluations -> Nat \ {0}]
           /\ \A s \in Evaluations :
                 {f.item : f \in recorded'[s]} = 1..(pos'[s] - 1)
<1> DEFINE new == NewFinding(r, case)
<1>1. new \in Finding
  BY HereIsKey DEF TypeOK, Finding, NewFinding
<1>2. /\ recorded' = [recorded EXCEPT ![r] = @ \union {new}]
      /\ pos' = [pos EXCEPT ![r] = @ + 1]
  BY DEF Record
<1>3. recorded' \in [Evaluations -> SUBSET Finding]
  BY <1>1, <1>2 DEF TypeOK
<1>4. pos' \in [Evaluations -> Nat \ {0}]
  BY <1>2 DEF TypeOK
<1>5. ASSUME NEW s \in Evaluations
      PROVE  {f.item : f \in recorded'[s]} = 1..(pos'[s] - 1)
  <2>1. {f.item : f \in recorded[s]} = 1..(pos[s] - 1) /\ pos[s] \in Nat \ {0}
    BY DEF TypeOK
  <2>2. CASE s # r
    BY <1>2, <2>1, <2>2 DEF TypeOK
  <2>3. CASE s = r
    <3>1. recorded'[s] = recorded[s] \union {new} /\ pos'[s] = pos[s] + 1
      BY <1>2, <2>3 DEF TypeOK
    <3>2. new.item = pos[s] BY <2>3 DEF NewFinding
    <3> HIDE DEF new
    <3>3. {f.item : f \in recorded[s] \union {new}} = 1..pos[s]
      BY <2>1, <3>2, OneMore
    <3> QED BY <2>1, <3>1, <3>3
  <2> QED BY <2>2, <2>3
<1> QED BY <1>3, <1>4, <1>5

-----------------------------------------------------------------------------
(* The steps.                                                               *)

\* Updates change what a case says only.
LEMMA UpdatedProperties ==
    ASSUME TypeOK, IdInv, LockInv, NEW r \in Evaluations
    PROVE  /\ \A c \in cases : \E d \in Updated(r) : d.id = c.id /\ d.key = c.key
           /\ \A d \in Updated(r) : \E c \in cases : d.id = c.id /\ d.key = c.key
           /\ \A c, d \in Updated(r) : c.id = d.id => c = d
           /\ Updated(r) \subseteq Case
<1>1. ASSUME NEW c \in cases
      PROVE  \E d \in Updated(r) : d.id = c.id /\ d.key = c.key
  <2>1. CASE c.id \in Locked(r)
    BY <2>1 DEF Locked, Updated, LockInv, IdInv
  <2> QED BY <2>1 DEF Updated
<1>2. \A d \in Updated(r) : \E c \in cases : d.id = c.id /\ d.key = c.key
  BY DEF Updated, LockInv
<1>3. \A c, d \in Updated(r) : c.id = d.id => c = d
  BY DEF Updated, Locked, LockInv, IdInv
<1>4. Updated(r) \subseteq Case BY DEF Updated, TypeOK
<1> QED BY <1>1, <1>2, <1>3, <1>4

LEMMA InitHolds == Init => IInv
<1> SUFFICES ASSUME Init PROVE IInv OBVIOUS
<1> USE DEF Init
<1>1. TypeOK
  <2>1. NoRequest \in Evaluation BY EmptySeq DEF NoRequest, Evaluation
  <2> QED BY <2>1 DEF TypeOK
<1>2. OwnInv BY DEF OwnInv
<1>3. IdInv BY DEF IdInv
<1>4. RefInv BY DEF RefInv
<1>5. LockInv /\ SaidInv /\ FreshInv
  BY DEF LockInv, Locked, SaidInv, FreshInv
<1>6. CasesAndFindingsAgree BY DEF CasesAndFindingsAgree
<1>7. OverlapInv BY DEF OverlapInv, AllCases, Open
<1>8. BlockInv BY DEF BlockInv
<1> QED BY <1>1, <1>2, <1>3, <1>4, <1>5, <1>6, <1>7, <1>8 DEF IInv

LEMMA StutterPreserves ==
    ASSUME IInv, UNCHANGED vars
    PROVE  IInv'
<1> USE DEF vars, IInv
<1>1. TypeOK' BY DEF TypeOK
<1>2. OwnInv' BY DEF OwnInv, Open
<1>3. IdInv' BY DEF IdInv
<1>4. RefInv' BY DEF RefInv, Touched, Locked
<1>5. LockInv' /\ SaidInv' /\ FreshInv'
  <2>1. \A s \in Evaluations : Updated(s)' = Updated(s) /\ Locked(s)' = Locked(s)
    BY DEF Updated, Locked
  <2>2. LockInv' BY <2>1 DEF LockInv
  <2>3. SaidInv' BY DEF SaidInv, Said
  <2>4. FreshInv'
    <3>1. FreshInv OBVIOUS
    <3> HIDE DEF IInv
    <3>2. \A s \in Evaluations : \A c : Fresh(s, c)' = Fresh(s, c)
      BY DEF Fresh
    <3>3. dirty' = dirty OBVIOUS
    <3> HIDE DEF vars
    <3> QED BY <2>1, <3>1, <3>2, <3>3 DEF FreshInv
  <2> QED BY <2>2, <2>3, <2>4
<1>6. CasesAndFindingsAgree' BY DEF CasesAndFindingsAgree
<1>7. OverlapInv' BY DEF OverlapInv, AllCases, Open
<1>8. BlockInv' BY DEF BlockInv, Duplicated
<1> QED BY <1>1, <1>2, <1>3, <1>4, <1>5, <1>6, <1>7, <1>8

LEMMA BeginPreserves ==
    ASSUME IInv, NEW r \in Evaluations, NEW q \in Requests, Begin(r, q)
    PROVE  IInv'
<1> USE DEF IInv
<1>0. /\ phase[r] = "idle" /\ phase' = [phase EXCEPT ![r] = "open"]
      /\ overlapped' =
            overlapped \union {{r, s} : s \in {t \in Evaluations : Open(t)}}
      /\ blocked' = [blocked EXCEPT ![r] = Duplicates]
      /\ UNCHANGED <<cases, findings, pos, created, recorded, dirty, updated>>
  BY DEF Begin
<1>a. phase \in [Evaluations -> {"idle", "open", "committed", "failed"}]
  BY DEF TypeOK
<1>1. TypeOK'
  <2>1. request' \in [Evaluations -> Evaluation]
    BY BeginType DEF TypeOK, Begin
  <2>2. Duplicates \subseteq Keys
    BY DEF Duplicates, TypeOK, Case
  <2>3. blocked' \in [Evaluations -> SUBSET Keys]
    BY <1>0, <2>2 DEF TypeOK
  <2>4. overlapped' \subseteq SUBSET Evaluations
    <3>1. {{r, s} : s \in {t \in Evaluations : Open(t)}} \subseteq SUBSET Evaluations
      OBVIOUS
    <3> QED BY <1>0, <3>1 DEF TypeOK
  <2> QED BY <1>0, <2>1, <2>3, <2>4 DEF TypeOK
<1>2. OwnInv'
  BY <1>0, <1>a DEF OwnInv, Open, TypeOK
<1>3. IdInv' BY <1>0 DEF IdInv
<1>4. RefInv' BY <1>0 DEF RefInv, Touched, Locked
<1>5. LockInv' /\ SaidInv' /\ FreshInv'
  <2>1. SaidInv' BY <1>0 DEF SaidInv, Said
  <2>2. \A s \in Evaluations : Updated(s)' = Updated(s) /\ Locked(s)' = Locked(s)
    BY <1>0 DEF Updated, Locked
  <2>3. LockInv' BY <1>0, <2>2 DEF LockInv
  <2>4. \A s \in Evaluations : \A c : Fresh(s, c) => Fresh(s, c)'
    BY <1>0 DEF Fresh
  <2> QED BY <1>0, <2>1, <2>2, <2>3, <2>4 DEF FreshInv
<1>6. CasesAndFindingsAgree' BY <1>0 DEF CasesAndFindingsAgree
<1>7. OverlapInv'
  <2>1. ASSUME NEW s \in Evaluations, NEW t \in Evaluations,
               Open(s)', Open(t)', s # t
        PROVE  {s, t} \in overlapped'
    <3>1. CASE s = r
      <4>1. Open(t) BY <1>0, <1>a, <2>1, <3>1 DEF Open
      <4>2. {r, t} \in overlapped' BY <1>0, <4>1
      <4> QED BY <3>1, <4>2
    <3>2. CASE t = r
      <4>1. Open(s) BY <1>0, <1>a, <2>1, <3>2 DEF Open
      <4>2. {r, s} \in overlapped' BY <1>0, <4>1
      <4> QED BY <3>2, <4>2
    <3>3. CASE s # r /\ t # r
      BY <1>0, <1>a, <2>1, <3>3 DEF Open, OverlapInv
    <3> QED BY <3>1, <3>2, <3>3
  <2>2. AllCases' = AllCases BY <1>0 DEF AllCases
  <2> QED BY <1>0, <2>1, <2>2 DEF OverlapInv
<1>8. BlockInv'
  <2>1. recorded[r] = {} BY <1>0 DEF OwnInv, Open
  <2>2. \A k \in Duplicates : Duplicated(k) BY DEF Duplicates
  <2>3. \A k : Duplicated(k) => Duplicated(k)' BY <1>0 DEF Duplicated
  <2>4. ASSUME NEW s \in Evaluations
        PROVE  \/ s = r /\ blocked'[s] = Duplicates
               \/ s # r /\ blocked'[s] = blocked[s]
    BY <1>0 DEF TypeOK
  <2> QED BY <1>0, <2>1, <2>2, <2>3, <2>4 DEF BlockInv
<1> QED BY <1>1, <1>2, <1>3, <1>4, <1>5, <1>6, <1>7, <1>8

\* What recording a finding does.
LEMMA RecordEffect ==
    ASSUME TypeOK, NEW r \in Evaluations, NEW case, Record(r, case)
    PROVE  /\ pos'[r] = pos[r] + 1
           /\ recorded'[r] = recorded[r] \union {NewFinding(r, case)}
           /\ LET f == NewFinding(r, case)
              IN  /\ f.by = r /\ f.key = Here(r) /\ f.case = case
                  /\ f.summary = Says(r)
           /\ \A s \in Evaluations :
                 s # r => recorded'[s] = recorded[s] /\ pos'[s] = pos[s]
  BY DEF Record, NewFinding, TypeOK

\* Recording keeps what is said of the rows, if they and the changes stay.
LEMMA RecordKeeps ==
    ASSUME SaidInv, FreshInv, LockInv, TypeOK,
           NEW r \in Evaluations, NEW case, Record(r, case),
           UNCHANGED <<cases, findings, updated, overlapped>>
    PROVE  /\ LockInv'
           /\ \A s \in Evaluations :
                 /\ Updated(s)' = Updated(s) /\ Locked(s)' = Locked(s)
                 /\ \A id, summary : Said(recorded[s], id, summary) =>
                                        Said(recorded'[s], id, summary)
                 /\ \A c : Fresh(s, c) => Fresh(s, c)'
<1>1. \A s \in Evaluations : recorded[s] \subseteq recorded'[s]
  BY RecordEffect
<1>2. \A s \in Evaluations : Updated(s)' = Updated(s) /\ Locked(s)' = Locked(s)
  BY DEF Updated, Locked
<1>3. LockInv' BY DEF LockInv, Locked
<1>4. \A s \in Evaluations : \A c : Fresh(s, c) => Fresh(s, c)'
  BY <1>1 DEF Fresh
<1> QED BY <1>1, <1>2, <1>3, <1>4 DEF Said

LEMMA AssessOnlyPreserves ==
    ASSUME IInv, NEW r \in Evaluations, AssessOnly(r)
    PROVE  IInv'
<1> USE DEF IInv
<1>0. /\ Open(r) /\ ~AtEnd(r) /\ Record(r, NoCase)
      /\ UNCHANGED <<cases, findings, phase, request, created, dirty, updated,
                     overlapped, blocked>>
  BY DEF AssessOnly
<1>r. /\ pos'[r] = pos[r] + 1
      /\ recorded'[r] = recorded[r] \union {NewFinding(r, NoCase)}
      /\ NewFinding(r, NoCase).by = r /\ NewFinding(r, NoCase).case = NoCase
      /\ \A s \in Evaluations :
            s # r => recorded'[s] = recorded[s] /\ pos'[s] = pos[s]
  BY <1>0, RecordEffect
<1>p. \A s \in Evaluations : pos[s] \in Nat /\ recorded[s] \subseteq recorded'[s]
  BY <1>r DEF TypeOK
<1>1. TypeOK' BY <1>0, RecordType DEF TypeOK
<1>2. OwnInv'
  <2>1. \A s \in Evaluations : Open(s)' = Open(s) BY <1>0 DEF Open
  <2>2. \A s \in Evaluations : \A c \in created[s] : c.id[2] \in Nat
    BY DEF TypeOK, Case, CaseIds
  <2> QED BY <1>0, <1>r, <1>p, <2>1, <2>2 DEF OwnInv
<1>3. IdInv' BY <1>0 DEF IdInv
<1>4. RefInv' BY <1>0, <1>r DEF RefInv, Touched, Locked
<1>5. LockInv' /\ SaidInv' /\ FreshInv'
  BY <1>0, RecordKeeps DEF SaidInv, FreshInv
<1>6. CasesAndFindingsAgree' BY <1>0 DEF CasesAndFindingsAgree
<1>7. OverlapInv' BY <1>0 DEF OverlapInv, AllCases, Open
<1>8. BlockInv' BY <1>0, <1>r DEF BlockInv, Duplicated
<1> QED BY <1>1, <1>2, <1>3, <1>4, <1>5, <1>6, <1>7, <1>8

\* A new case: of a title that is never compared, or that neither a committed
\* case nor one of the request's own has.
LEMMA CreateCasePreserves ==
    ASSUME IInv, NEW r \in Evaluations, Open(r), ~AtEnd(r), CreateCase(r),
           AlwaysNew(Here(r)) \/ (Looks(r) /\ Found(r, Here(r)) = {})
    PROVE  IInv'
<1> USE DEF IInv
<1> DEFINE id == <<r, pos[r]>>
           new == [id |-> id, key |-> Here(r), summary |-> Says(r)]
           f0 == NewFinding(r, id)
<1>0. /\ created' = [created EXCEPT ![r] = @ \union {new}]
      /\ Record(r, id)
      /\ UNCHANGED <<cases, findings, phase, request, dirty, updated,
                     overlapped, blocked>>
  BY DEF CreateCase
<1>c. /\ created'[r] = created[r] \union {new}
      /\ \A s \in Evaluations : s # r => created'[s] = created[s]
  BY <1>0 DEF TypeOK
<1>r. /\ pos'[r] = pos[r] + 1
      /\ recorded'[r] = recorded[r] \union {f0}
      /\ \A s \in Evaluations :
            s # r => recorded'[s] = recorded[s] /\ pos'[s] = pos[s]
  BY <1>0, RecordEffect
<1>p. \A s \in Evaluations : pos[s] \in Nat /\ recorded[s] \subseteq recorded'[s]
  BY <1>r DEF TypeOK
<1>i. id \in CaseIds /\ id # NoCase
  BY <1>p, NoCaseIsNone DEF CaseIds
<1>n. /\ new.id = id /\ new.key = Here(r) /\ new.summary = Says(r)
      /\ id[1] = r /\ id[2] = pos[r]
  OBVIOUS
<1>f. f0.by = r /\ f0.key = Here(r) /\ f0.case = id /\ f0.summary = Says(r)
  BY DEF NewFinding
<1>1. TypeOK'
  <2>1. new \in Case BY <1>i, HereIsKey DEF Case
  <2>2. created' \in [Evaluations -> SUBSET Case] BY <1>0, <2>1 DEF TypeOK
  <2> QED BY <1>0, <1>i, <2>2, RecordType DEF TypeOK
<1>2. OwnInv'
  <2>1. \A s \in Evaluations : Open(s)' = Open(s) BY <1>0 DEF Open
  <2>2. \A s \in Evaluations : \A c \in created[s] : c.id[2] \in Nat
    BY DEF TypeOK, Case, CaseIds
  <2> HIDE DEF new, f0, id
  <2> QED BY <1>0, <1>c, <1>r, <1>p, <1>n, <2>1, <2>2 DEF OwnInv
<1>3. IdInv'
  <2>1. \A c \in created[r] : c.id # id
    BY <1>p, <1>n DEF OwnInv, TypeOK, Case, CaseIds
  <2> HIDE DEF new, f0, id
  <2> QED BY <1>0, <1>c, <1>n, <2>1 DEF IdInv
<1> HIDE DEF new, f0, id
<1>4. RefInv'
  <2> SUFFICES ASSUME NEW s \in Evaluations, NEW f \in recorded'[s]
               PROVE  /\ f.by = s
                      /\ f.case # NoCase =>
                            \/ \E c \in created'[s] : c.id = f.case /\ c.key = f.key
                            \/ /\ Touched(s, f.case)'
                               /\ \E c \in cases' : c.id = f.case /\ c.key = f.key
    BY DEF RefInv
  <2>1. CASE s = r /\ f = f0
    BY <1>c, <1>n, <1>f, <2>1
  <2>2. CASE f \in recorded[s]
    BY <1>0, <1>c, <2>2 DEF RefInv, Touched, Locked
  <2> QED BY <1>r, <2>1, <2>2
<1>5. LockInv' /\ SaidInv' /\ FreshInv'
  <2>k. /\ LockInv'
        /\ \A s \in Evaluations :
              /\ Updated(s)' = Updated(s) /\ Locked(s)' = Locked(s)
              /\ \A i, summary : Said(recorded[s], i, summary) =>
                                   Said(recorded'[s], i, summary)
              /\ \A c : Fresh(s, c) => Fresh(s, c)'
    BY <1>0, RecordKeeps
  <2>1. Said(recorded'[r], new.id, new.summary)
    BY <1>r, <1>n, <1>f DEF Said
  <2>2. SaidInv'
    BY <1>0, <1>c, <2>k, <2>1 DEF SaidInv
  <2> QED BY <1>0, <2>k, <2>2 DEF FreshInv
<1>6. CasesAndFindingsAgree' BY <1>0 DEF CasesAndFindingsAgree
<1>7. OverlapInv'
  <2>1. AllCases' = AllCases \union {new}
    BY <1>0, <1>c DEF AllCases
  <2>2. ASSUME NEW d \in AllCases, d.key = Here(r), ~AlwaysNew(Here(r))
        PROVE  {r, Creator(d)} \in overlapped /\ r # Creator(d)
    <3>1. d \notin cases /\ d \notin created[r]
      BY <2>2, UpdatedProperties DEF Found
    <3>2. PICK s \in Evaluations : d \in created[s] BY <3>1 DEF AllCases
    <3>3. s # r BY <3>1, <3>2
    <3>4. Open(s) /\ Creator(d) = s BY <3>2 DEF OwnInv, Creator
    <3> QED BY <3>3, <3>4 DEF OverlapInv
  <2>3. Creator(new) = r BY <1>n DEF Creator
  <2>4. ASSUME NEW c \in AllCases', NEW d \in AllCases',
               c.id # d.id, c.key = d.key, ~AlwaysNew(c.key)
        PROVE  {Creator(c), Creator(d)} \in overlapped /\ Creator(c) # Creator(d)
    <3>1. CASE c \in AllCases /\ d \in AllCases
      BY <2>4, <3>1 DEF OverlapInv
    <3>2. CASE c = new
      <4>1. d \in AllCases /\ d.key = Here(r) BY <1>n, <2>1, <2>4, <3>2
      <4> QED BY <1>n, <2>2, <2>3, <2>4, <3>2, <4>1
    <3>3. CASE d = new
      <4>1. c \in AllCases /\ c.key = Here(r) BY <1>n, <2>1, <2>4, <3>3
      <4>2. {r, Creator(c)} \in overlapped /\ r # Creator(c)
        BY <2>2, <2>4, <4>1
      <4>3. {Creator(c), r} = {r, Creator(c)} OBVIOUS
      <4> QED BY <2>3, <3>3, <4>2, <4>3
    <3> QED BY <2>1, <3>1, <3>2, <3>3
  <2> QED BY <1>0, <2>4 DEF OverlapInv, Open, AlwaysNew, Creator
<1>8. BlockInv'
  <2>1. ~AlwaysNew(Here(r)) => Here(r) \notin blocked[r]
    BY UpdatedProperties DEF BlockInv, Duplicated, Found
  <2> QED BY <1>0, <1>r, <1>f, <2>1 DEF BlockInv, Duplicated, AlwaysNew
<1> QED BY <1>1, <1>2, <1>3, <1>4, <1>5, <1>6, <1>7, <1>8

LEMMA ReuseCasePreserves ==
    ASSUME IInv, NEW r \in Evaluations, ReuseCase(r)
    PROVE  IInv'
<1> USE DEF IInv
<1>l. Looks(r) /\ Open(r) /\ ~AtEnd(r) /\ dirty[r] = NoChange
  BY DEF ReuseCase, Looks, Queries
<1>0. PICK c0 \in Found(r, Here(r)) :
         /\ dirty' = [dirty EXCEPT
               ![r] = [case |-> c0.id, summary |-> Says(r),
                       changed |-> c0.summary # Says(r)]]
         /\ Record(r, c0.id)
         /\ UNCHANGED <<cases, findings, phase, request, created, updated,
                        overlapped, blocked>>
  BY DEF ReuseCase, Touch
<1> DEFINE f0 == NewFinding(r, c0.id)
           change == [case |-> c0.id, summary |-> Says(r),
                      changed |-> c0.summary # Says(r)]
<1>d. dirty'[r] = change /\ \A s \in Evaluations : s # r => dirty'[s] = dirty[s]
  BY <1>0 DEF TypeOK
<1>r. /\ pos'[r] = pos[r] + 1
      /\ recorded'[r] = recorded[r] \union {f0}
      /\ \A s \in Evaluations :
            s # r => recorded'[s] = recorded[s] /\ pos'[s] = pos[s]
  BY <1>0, RecordEffect
<1>p. \A s \in Evaluations : pos[s] \in Nat /\ recorded[s] \subseteq recorded'[s]
  BY <1>r DEF TypeOK
<1>u. /\ \A c \in cases : \E d \in Updated(r) : d.id = c.id /\ d.key = c.key
      /\ \A d \in Updated(r) : \E c \in cases : d.id = c.id /\ d.key = c.key
      /\ \A c, d \in Updated(r) : c.id = d.id => c = d
      /\ Updated(r) \subseteq Case
  BY UpdatedProperties
<1>c. /\ c0 \in Updated(r) \union created[r] /\ c0.key = Here(r)
      /\ c0.id \in CaseIds
  BY <1>u DEF Found, TypeOK, Case
<1>f. f0.by = r /\ f0.key = Here(r) /\ f0.case = c0.id /\ f0.summary = Says(r)
  BY DEF NewFinding
<1>g. /\ change.case = c0.id /\ change.summary = Says(r)
      /\ change.changed = (c0.summary # Says(r)) /\ change # NoChange
  <2>1. DOMAIN change # DOMAIN NoChange
    BY DEF NoChange
  <2> QED BY <2>1
<1>1. TypeOK'
  <2>1. change \in Change
    BY <1>l, <1>c, HereIsKey DEF Change
  <2>2. dirty' \in [Evaluations -> Change \union {NoChange}]
    BY <1>0, <2>1 DEF TypeOK
  <2> QED BY <1>0, <1>l, <1>c, <2>2, RecordType DEF TypeOK
<1> HIDE DEF f0, change
<1>2. OwnInv'
  <2>1. \A s \in Evaluations : Open(s)' = Open(s) BY <1>0 DEF Open
  <2>2. \A s \in Evaluations : \A c \in created[s] : c.id[2] \in Nat
    BY DEF TypeOK, Case, CaseIds
  <2> QED BY <1>0, <1>l, <1>d, <1>r, <1>p, <2>1, <2>2 DEF OwnInv
<1>3. IdInv' BY <1>0 DEF IdInv
<1>4. RefInv'
  <2> SUFFICES ASSUME NEW s \in Evaluations, NEW f \in recorded'[s]
               PROVE  /\ f.by = s
                      /\ f.case # NoCase =>
                            \/ \E c \in created'[s] : c.id = f.case /\ c.key = f.key
                            \/ /\ Touched(s, f.case)'
                               /\ \E c \in cases' : c.id = f.case /\ c.key = f.key
    BY DEF RefInv
  <2>1. CASE s = r /\ f = f0
    BY <1>0, <1>d, <1>u, <1>c, <1>f, <1>g, <2>1 DEF Touched
  <2>2. CASE f \in recorded[s]
    BY <1>0, <1>l, <1>d, <2>2 DEF RefInv, Touched, Locked
  <2> QED BY <1>r, <2>1, <2>2
<1>k. /\ LockInv'
      /\ \A s \in Evaluations :
            /\ Updated(s)' = Updated(s) /\ Locked(s)' = Locked(s)
            /\ \A i, summary : Said(recorded[s], i, summary) =>
                                 Said(recorded'[s], i, summary)
            /\ \A c : Fresh(s, c) => Fresh(s, c)'
  BY <1>0, RecordKeeps
<1>5. SaidInv'
  <2>1. Said(recorded'[r], c0.id, Says(r)) BY <1>r, <1>f DEF Said
  <2> QED BY <1>0, <1>d, <1>g, <1>k, <2>1 DEF SaidInv
<1>6. FreshInv'
  <2> SUFFICES ASSUME NEW s \in Evaluations, NEW c \in Updated(s),
                      \/ c.id \in Locked(s)
                      \/ dirty'[s] # NoChange /\ dirty'[s].case = c.id
                         /\ ~dirty'[s].changed
               PROVE  Fresh(s, c)'
    BY <1>k DEF FreshInv
  <2>1. CASE s # r \/ c.id \in Locked(s)
    BY <1>d, <1>k, <2>1 DEF FreshInv
  <2>2. CASE s = r /\ c.id \notin Locked(s)
    <3>1. c.id = c0.id /\ c0.summary = Says(r)
      BY <1>d, <1>g, <2>2
    <3>2. PICK b \in cases : b.id = c.id BY <1>u, <2>2
    <3>3. c0 \notin created[r]
      BY <1>l, <3>1, <3>2 DEF OwnInv, Open
    <3>4. c = c0 BY <1>c, <1>u, <2>2, <3>1, <3>3
    <3> QED BY <1>r, <1>f, <2>2, <3>1, <3>4 DEF Fresh
  <2> QED BY <2>1, <2>2
<1>7. CasesAndFindingsAgree' BY <1>0 DEF CasesAndFindingsAgree
<1>8. OverlapInv' BY <1>0 DEF OverlapInv, AllCases, Open
<1>9. BlockInv'
  <2>1. Here(r) \notin blocked[r]
    <3> SUFFICES ASSUME Duplicated(Here(r)) PROVE FALSE
      BY DEF BlockInv
    <3>1. PICK c, d \in cases : c # d /\ c.key = Here(r) /\ d.key = Here(r)
      BY DEF Duplicated
    <3>2. c.id # d.id BY <3>1 DEF IdInv
    <3>3. \E c1, d1 \in Updated(r) :
             c1 # d1 /\ c1.key = Here(r) /\ d1.key = Here(r)
      BY <1>u, <3>1, <3>2
    <3> QED BY <3>3 DEF ReuseCase, Ambiguous, Found
  <2> QED BY <1>0, <1>r, <1>f, <2>1 DEF BlockInv, Duplicated
<1> QED BY <1>1, <1>2, <1>3, <1>4, <1>k, <1>5, <1>6, <1>7, <1>8, <1>9

\* An UPDATE changes no more than the summary.
LEMMA AppliedProperties ==
    ASSUME NEW change \in Change, NEW c \in Case
    PROVE  /\ Applied(change, c) \in Case
           /\ Applied(change, c).id = c.id /\ Applied(change, c).key = c.key
           /\ \/ Applied(change, c) = c
                 /\ (c.id # change.case \/ ~change.changed)
              \/ /\ c.id = change.case
                 /\ Applied(change, c).summary = change.summary
  BY DEF Applied, Change, Case

\* Rows that keep their ids and titles keep what is said of their creators.
LEMMA SameTitlesOverlap ==
    ASSUME OverlapInv, \A c \in AllCases' : \E d \in AllCases :
                          d.id = c.id /\ d.key = c.key,
           UNCHANGED overlapped
    PROVE  \A c, d \in AllCases' :
              c.id # d.id /\ c.key = d.key /\ ~AlwaysNew(c.key) =>
                 {Creator(c), Creator(d)} \in overlapped' /\ Creator(c) # Creator(d)
  BY DEF OverlapInv, Creator

LEMMA FlushPreserves ==
    ASSUME IInv, NEW r \in Evaluations, Flush(r)
    PROVE  IInv'
<1> USE DEF IInv
<1> DEFINE ap(c) == Applied(dirty[r], c)
           id == dirty[r].case
           rows == {d \in Updated(r) : d.id \in Locked(r) \union {id}}
<1>0. /\ Open(r) /\ dirty[r] # NoChange
      /\ \A s \in Evaluations : ~WaitsFor(r, s)
      /\ updated' = [updated EXCEPT ![r] = {ap(c) : c \in rows}]
      /\ created' = [created EXCEPT ![r] = {ap(c) : c \in @}]
      /\ dirty' = [dirty EXCEPT ![r] = NoChange]
      /\ UNCHANGED <<cases, findings, phase, request, pos, recorded,
                     overlapped, blocked>>
  BY DEF Flush, Queries
<1>d. /\ dirty'[r] = NoChange
      /\ updated'[r] = {ap(c) : c \in rows}
      /\ created'[r] = {ap(c) : c \in created[r]}
      /\ \A s \in Evaluations : s # r =>
            dirty'[s] = dirty[s] /\ updated'[s] = updated[s] /\ created'[s] = created[s]
  BY <1>0 DEF TypeOK
<1>u. /\ \A c \in cases : \E d \in Updated(r) : d.id = c.id /\ d.key = c.key
      /\ \A d \in Updated(r) : \E c \in cases : d.id = c.id /\ d.key = c.key
      /\ \A c, d \in Updated(r) : c.id = d.id => c = d
      /\ Updated(r) \subseteq Case
  BY UpdatedProperties
<1>t. dirty[r] \in Change /\ created[r] \subseteq Case /\ id \in CaseIds
  BY <1>0 DEF TypeOK, Change
<1>a. \A c \in Updated(r) \union created[r] :
         /\ ap(c) \in Case /\ ap(c).id = c.id /\ ap(c).key = c.key
         /\ \/ ap(c) = c /\ (c.id # id \/ ~dirty[r].changed)
            \/ c.id = id /\ ap(c).summary = dirty[r].summary
  BY <1>u, <1>t, AppliedProperties
<1> HIDE DEF ap, id
<1>1. TypeOK'
  <2>1. {ap(c) : c \in rows} \subseteq Case /\ {ap(c) : c \in created[r]} \subseteq Case
    BY <1>a
  <2>2. /\ updated' \in [Evaluations -> SUBSET Case]
        /\ created' \in [Evaluations -> SUBSET Case]
        /\ dirty' \in [Evaluations -> Change \union {NoChange}]
    BY <1>0, <2>1 DEF TypeOK
  <2> QED BY <1>0, <2>2 DEF TypeOK
<1>2. OwnInv'
  <2>1. \A c \in created'[r] : \E d \in created[r] : c.id = d.id
    BY <1>a, <1>d
  <2> QED BY <1>0, <1>d, <2>1 DEF OwnInv, Open
<1>3. IdInv'
  <2>1. \A c, d \in created'[r] : c.id = d.id => c = d
    BY <1>a, <1>d DEF IdInv
  <2> QED BY <1>0, <1>d, <2>1 DEF IdInv
<1>k. /\ Locked(r) \subseteq Locked(r)' /\ Locked(r)' \subseteq Locked(r) \union {id}
      /\ \A c \in cases : c.id = id => id \in Locked(r)'
  <2>1. Locked(r)' = {c.id : c \in updated'[r]} BY DEF Locked
  <2>2. \A c \in rows : c.id \in Locked(r)' BY <1>a, <1>d, <2>1
  <2>3. Locked(r)' \subseteq Locked(r) \union {id}
    BY <1>a, <1>d, <2>1
  <2>4. \A u \in updated[r] : u \in rows BY DEF Updated, Locked
  <2> QED BY <1>u, <2>2, <2>3, <2>4 DEF Locked
<1>n. \A s \in Evaluations : s # r =>
         /\ Updated(s)' = Updated(s) /\ Locked(s)' = Locked(s)
         /\ id \notin Locked(s)
  BY <1>0, <1>d DEF Updated, Locked, WaitsFor, Flush, id
<1>4. RefInv'
  <2> SUFFICES ASSUME NEW s \in Evaluations, NEW f \in recorded[s]
               PROVE  /\ f.by = s
                      /\ f.case # NoCase =>
                            \/ \E c \in created'[s] : c.id = f.case /\ c.key = f.key
                            \/ /\ Touched(s, f.case)'
                               /\ \E c \in cases' : c.id = f.case /\ c.key = f.key
    BY <1>0 DEF RefInv
  <2>1. CASE s # r
    BY <1>0, <1>d, <1>n, <2>1 DEF RefInv, Touched
  <2>2. CASE s = r
    <3>1. CASE \E c \in created[r] : c.id = f.case /\ c.key = f.key
      BY <1>a, <1>d, <2>2, <3>1 DEF RefInv
    <3>2. CASE Touched(r, f.case) /\ \E c \in cases : c.id = f.case /\ c.key = f.key
      <4>1. f.case \in Locked(r) \/ f.case = id BY <3>2 DEF Touched, id
      <4>2. f.case \in Locked(r)' BY <1>k, <3>2, <4>1
      <4> QED BY <1>0, <2>2, <3>2, <4>2 DEF RefInv, Touched
    <3> QED BY <2>2, <3>1, <3>2 DEF RefInv
  <2> QED BY <2>1, <2>2
<1>5. LockInv'
  <2>1. ASSUME NEW u \in updated'[r] PROVE \E c \in cases' : c.id = u.id /\ c.key = u.key
    <3>1. PICK c \in rows : u = ap(c) BY <1>d
    <3> QED BY <1>0, <1>a, <1>u, <3>1
  <2>2. \A u, v \in updated'[r] : u.id = v.id => u = v
    BY <1>a, <1>d, <1>u
  <2>3. \A s \in Evaluations : s # r => Locked(r)' \intersect Locked(s)' = {}
    BY <1>k, <1>n DEF LockInv
  <2>4. ASSUME NEW s \in Evaluations, s # r
        PROVE  /\ \A u \in updated'[s] : \E c \in cases' : c.id = u.id /\ c.key = u.key
               /\ \A u, v \in updated'[s] : u.id = v.id => u = v
               /\ \A q \in Evaluations : q # s => Locked(s)' \intersect Locked(q)' = {}
    BY <1>0, <1>d, <1>n, <2>3, <2>4 DEF LockInv
  <2> QED BY <2>1, <2>2, <2>3, <2>4 DEF LockInv
<1>s. Said(recorded[r], id, dirty[r].summary)
  BY <1>0 DEF SaidInv, id
<1>6. SaidInv'
  <2>1. \A c \in created'[r] : Said(recorded[r], c.id, c.summary)
    BY <1>a, <1>d, <1>s DEF SaidInv
  <2>2. ASSUME NEW u \in updated'[r]
        PROVE  u \in cases \/ Said(recorded[r], u.id, u.summary)
    <3>1. PICK c \in rows : u = ap(c) BY <1>d
    <3>2. c \in cases \/ c \in updated[r] BY DEF Updated
    <3> QED BY <1>a, <1>s, <3>1, <3>2 DEF SaidInv
  <2> QED BY <1>0, <1>d, <2>1, <2>2 DEF SaidInv
<1>7. FreshInv'
  <2>f. \A s \in Evaluations : \A c : Fresh(s, c)' <=> Fresh(s, c)
    BY <1>0 DEF Fresh
  <2> SUFFICES ASSUME NEW s \in Evaluations, NEW c \in Updated(s)',
                      \/ c.id \in Locked(s)'
                      \/ dirty'[s] # NoChange /\ dirty'[s].case = c.id
                         /\ ~dirty'[s].changed
               PROVE  Fresh(s, c)
    BY <2>f DEF FreshInv
  <2>1. CASE s # r
    BY <1>d, <1>n, <2>1 DEF FreshInv
  <2>2. CASE s = r
    <3>1. c \in updated'[r]
      BY <1>d, <2>2 DEF Updated
    <3>2. PICK b \in rows : c = ap(b) BY <1>d, <3>1
    <3>3. CASE ap(b) = b /\ (b.id # id \/ ~dirty[r].changed)
      BY <1>0, <2>2, <3>2, <3>3 DEF FreshInv, id
    <3>4. CASE b.id = id /\ ap(b).summary = dirty[r].summary
      BY <1>a, <1>s, <2>2, <3>2, <3>4 DEF Fresh, Said, RefInv
    <3> QED BY <1>a, <3>2, <3>3, <3>4
  <2> QED BY <2>1, <2>2
<1>8. CasesAndFindingsAgree' BY <1>0 DEF CasesAndFindingsAgree
<1>9. OverlapInv'
  <2>1. \A s \in Evaluations : \A c \in created'[s] :
           \E d \in created[s] : d.id = c.id /\ d.key = c.key
    BY <1>a, <1>d
  <2>2. \A c \in AllCases' : \E d \in AllCases : d.id = c.id /\ d.key = c.key
    BY <1>0, <2>1 DEF AllCases
  <2>3. \A s, t \in Evaluations :
           Open(s)' /\ Open(t)' /\ s # t => {s, t} \in overlapped'
    BY <1>0 DEF OverlapInv, Open
  <2> QED BY <1>0, <2>2, <2>3, SameTitlesOverlap DEF OverlapInv, AlwaysNew, Creator
<1>10. BlockInv' BY <1>0 DEF BlockInv, Duplicated
<1> QED BY <1>1, <1>2, <1>3, <1>4, <1>5, <1>6, <1>7, <1>8, <1>9, <1>10

\* What the end of a request does to it, and not to the others.
LEMMA EndsEffect ==
    ASSUME TypeOK, NEW r \in Evaluations, NEW result, Ends(r, result)
    PROVE  /\ phase'[r] = result
           /\ created'[r] = {} /\ recorded'[r] = {} /\ dirty'[r] = NoChange
           /\ updated'[r] = {} /\ blocked'[r] = {}
           /\ \A s \in Evaluations : s # r =>
                 /\ phase'[s] = phase[s] /\ pos'[s] = pos[s]
                 /\ created'[s] = created[s] /\ recorded'[s] = recorded[s]
                 /\ dirty'[s] = dirty[s] /\ updated'[s] = updated[s]
                 /\ blocked'[s] = blocked[s]
  BY DEF Ends, TypeOK

LEMMA EndsType ==
    ASSUME TypeOK, NEW r \in Evaluations, NEW result \in {"committed", "failed"},
           Ends(r, result), cases' \subseteq Case, findings' \subseteq Finding,
           overlapped' \subseteq overlapped
    PROVE  TypeOK'
<1>1. NoRequest \in Evaluation BY EmptySeq DEF NoRequest, Evaluation
<1>2. request' \in [Evaluations -> Evaluation]
  BY <1>1 DEF TypeOK, Ends
<1>3. /\ phase' \in [Evaluations -> {"idle", "open", "committed", "failed"}]
      /\ pos' \in [Evaluations -> Nat \ {0}]
      /\ created' \in [Evaluations -> SUBSET Case]
      /\ recorded' \in [Evaluations -> SUBSET Finding]
      /\ dirty' \in [Evaluations -> Change \union {NoChange}]
      /\ updated' \in [Evaluations -> SUBSET Case]
      /\ overlapped' \subseteq SUBSET Evaluations
      /\ blocked' \in [Evaluations -> SUBSET Keys]
  BY DEF TypeOK, Ends
<1>4. ASSUME NEW s \in Evaluations
      PROVE  {f.item : f \in recorded'[s]} = 1..(pos'[s] - 1)
  <2>1. CASE s = r
    <3>1. recorded'[s] = {} /\ pos'[s] = 1 BY <2>1 DEF TypeOK, Ends
    <3> QED BY <3>1
  <2>2. CASE s # r
    BY <2>2, EndsEffect DEF TypeOK
  <2> QED BY <2>1, <2>2
<1> QED BY <1>2, <1>3, <1>4 DEF TypeOK

LEMMA RollbackPreserves ==
    ASSUME IInv, NEW r \in Evaluations, Open(r), Rollback(r)
    PROVE  IInv'
<1> USE DEF IInv
<1>0. /\ Ends(r, "failed")
      /\ overlapped' = {pair \in overlapped : r \notin pair}
      /\ UNCHANGED <<cases, findings>>
  BY DEF Rollback
<1>e. /\ phase'[r] = "failed"
      /\ created'[r] = {} /\ recorded'[r] = {} /\ dirty'[r] = NoChange
      /\ updated'[r] = {} /\ blocked'[r] = {}
      /\ \A s \in Evaluations : s # r =>
            /\ phase'[s] = phase[s] /\ pos'[s] = pos[s]
            /\ created'[s] = created[s] /\ recorded'[s] = recorded[s]
            /\ dirty'[s] = dirty[s] /\ updated'[s] = updated[s]
            /\ blocked'[s] = blocked[s]
  BY <1>0, EndsEffect
<1>1. TypeOK' BY <1>0, EndsType DEF TypeOK
<1>2. OwnInv'
  <2>1. \A c \in cases : c.id[1] \in Evaluations /\ c.id[1] # r
    BY DEF OwnInv, Open, TypeOK, Case, CaseIds
  <2>2. \A f \in findings : f.by \in Evaluations /\ f.by # r
    BY DEF OwnInv, Open, TypeOK, Finding
  <2> QED BY <1>0, <1>e, <2>1, <2>2 DEF OwnInv, Open
<1>3. IdInv' BY <1>0, <1>e DEF IdInv
<1>4. RefInv'
  <2> SUFFICES ASSUME NEW s \in Evaluations, s # r, NEW f \in recorded[s]
               PROVE  /\ f.by = s
                      /\ f.case # NoCase =>
                            \/ \E c \in created'[s] : c.id = f.case /\ c.key = f.key
                            \/ /\ Touched(s, f.case)'
                               /\ \E c \in cases' : c.id = f.case /\ c.key = f.key
    BY <1>e DEF RefInv
  <2> QED BY <1>0, <1>e DEF RefInv, Touched, Locked
<1>n. \A s \in Evaluations :
         /\ s # r => Locked(s)' = Locked(s) /\ Updated(s)' = Updated(s)
         /\ Locked(r)' = {}
  BY <1>0, <1>e DEF Locked, Updated
<1>5. LockInv' /\ SaidInv' /\ FreshInv'
  <2>1. LockInv'
    BY <1>0, <1>e, <1>n DEF LockInv
  <2>2. SaidInv' BY <1>0, <1>e DEF SaidInv, Said
  <2>3. ASSUME NEW s \in Evaluations, s # r, NEW c, Fresh(s, c) PROVE Fresh(s, c)'
    <3>1. \A g \in findings : g.by # r
      BY DEF OwnInv, Open
    <3>2. \A g \in recorded[s] : g.by = s BY DEF RefInv
    <3> QED BY <1>0, <1>e, <2>3, <3>1, <3>2 DEF Fresh
  <2>4. FreshInv'
    BY <1>e, <1>n, <2>3 DEF FreshInv
  <2> QED BY <2>1, <2>2, <2>4
<1>6. CasesAndFindingsAgree' BY <1>0 DEF CasesAndFindingsAgree
<1>7. OverlapInv'
  <2>1. \A c \in AllCases' : c \in AllCases /\ Creator(c) # r
    <3>1. \A c \in cases : Creator(c) # r
      BY DEF OwnInv, Open, Creator
    <3>2. \A s \in Evaluations : \A c \in created'[s] :
             c \in created[s] /\ Creator(c) # r
      BY <1>e DEF OwnInv, Creator
    <3> QED BY <1>0, <3>1, <3>2 DEF AllCases
  <2>2. \A c, d \in AllCases' :
           c.id # d.id /\ c.key = d.key /\ ~AlwaysNew(c.key) =>
              {Creator(c), Creator(d)} \in overlapped' /\ Creator(c) # Creator(d)
    BY <1>0, <2>1 DEF OverlapInv
  <2>3. \A s, t \in Evaluations :
           Open(s)' /\ Open(t)' /\ s # t => {s, t} \in overlapped'
    BY <1>0, <1>e DEF OverlapInv, Open
  <2> QED BY <2>2, <2>3 DEF OverlapInv, AlwaysNew, Creator
<1>8. BlockInv' BY <1>0, <1>e DEF BlockInv, Duplicated
<1> QED BY <1>1, <1>2, <1>3, <1>4, <1>5, <1>6, <1>7, <1>8

LEMMA CommitPreserves ==
    ASSUME IInv, NEW r \in Evaluations, Commit(r)
    PROVE  IInv'
<1> USE DEF IInv
<1>0. /\ Open(r) /\ dirty[r] = NoChange
      /\ cases' = Updated(r) \union created[r]
      /\ findings' = findings \union recorded[r]
      /\ Ends(r, "committed")
      /\ overlapped' = overlapped
  BY DEF Commit
<1>e. /\ phase'[r] = "committed"
      /\ created'[r] = {} /\ recorded'[r] = {} /\ dirty'[r] = NoChange
      /\ updated'[r] = {} /\ blocked'[r] = {}
      /\ \A s \in Evaluations : s # r =>
            /\ phase'[s] = phase[s] /\ pos'[s] = pos[s]
            /\ created'[s] = created[s] /\ recorded'[s] = recorded[s]
            /\ dirty'[s] = dirty[s] /\ updated'[s] = updated[s]
            /\ blocked'[s] = blocked[s]
  BY <1>0, EndsEffect
<1>u. /\ \A c \in cases : \E d \in Updated(r) : d.id = c.id /\ d.key = c.key
      /\ \A d \in Updated(r) : \E c \in cases : d.id = c.id /\ d.key = c.key
      /\ \A c, d \in Updated(r) : c.id = d.id => c = d
      /\ Updated(r) \subseteq Case
  BY UpdatedProperties
<1>k. \A c \in cases : \E d \in cases' : d.id = c.id /\ d.key = c.key
  BY <1>0, <1>u
<1>x. /\ \A c \in cases : c.id[1] \in Evaluations /\ c.id[1] # r
      /\ \A c \in created[r] : c.id[1] = r
  BY <1>0 DEF OwnInv, Open, TypeOK, Case, CaseIds
<1>1. TypeOK'
  <2>1. cases' \subseteq Case /\ findings' \subseteq Finding
    BY <1>0, <1>u DEF TypeOK
  <2> QED BY <1>0, <2>1, EndsType
<1>2. OwnInv'
  <2>1. \A c \in cases' : phase'[c.id[1]] = "committed"
    BY <1>0, <1>e, <1>u, <1>x DEF OwnInv
  <2>2. \A f \in findings : f.by \in Evaluations /\ f.by # r
    BY <1>0 DEF OwnInv, Open, TypeOK, Finding
  <2>3. \A f \in findings' : phase'[f.by] = "committed"
    BY <1>0, <1>e, <2>2 DEF OwnInv, RefInv
  <2> QED BY <1>e, <2>1, <2>3 DEF OwnInv, Open
<1>3. IdInv'
  <2>1. \A c \in Updated(r), d \in created[r] : c.id # d.id
    BY <1>u, <1>x
  <2> QED BY <1>0, <1>e, <1>u, <2>1 DEF IdInv
<1>4. RefInv'
  <2> SUFFICES ASSUME NEW s \in Evaluations, s # r, NEW f \in recorded[s]
               PROVE  /\ f.by = s
                      /\ f.case # NoCase =>
                            \/ \E c \in created'[s] : c.id = f.case /\ c.key = f.key
                            \/ /\ Touched(s, f.case)'
                               /\ \E c \in cases' : c.id = f.case /\ c.key = f.key
    BY <1>e DEF RefInv
  <2> QED BY <1>k, <1>e DEF RefInv, Touched, Locked
<1>n. \A s \in Evaluations :
         /\ s # r => Locked(s)' = Locked(s)
         /\ Locked(r)' = {}
  BY <1>0, <1>e DEF Locked
<1>5. LockInv' /\ SaidInv' /\ FreshInv'
  <2>1. LockInv'
    BY <1>e, <1>k, <1>n DEF LockInv
  <2>2. ASSUME NEW s \in Evaluations, s # r, NEW u \in updated[s], u \in cases
        PROVE  u \in cases'
    <3>1. u.id \notin Locked(r) BY <2>2 DEF LockInv, Locked
    <3> QED BY <1>0, <2>2, <3>1 DEF Updated
  <2>3. SaidInv' BY <1>e, <2>2 DEF SaidInv
  <2>4. ASSUME NEW s \in Evaluations, s # r, NEW c, Fresh(s, c) PROVE Fresh(s, c)'
    BY <1>0, <1>e, <2>4 DEF Fresh
  <2>5. ASSUME NEW s \in Evaluations, s # r, NEW c \in Updated(s)',
               \/ c.id \in Locked(s)
               \/ dirty[s] # NoChange /\ dirty[s].case = c.id
                  /\ ~dirty[s].changed
        PROVE  Fresh(s, c)'
    <3>1. CASE c \in Updated(s)
      BY <2>4, <2>5, <3>1 DEF FreshInv
    <3>2. CASE c \notin Updated(s)
      <4>1. /\ c \in cases' /\ c.id \notin Locked(s) /\ c \notin cases
            /\ dirty[s] # NoChange /\ dirty[s].case = c.id
        BY <1>e, <1>n, <2>5, <3>2 DEF Updated
      <4>2. Open(s) /\ {s, r} \in overlapped
        BY <1>0, <2>5, <4>1 DEF OwnInv, OverlapInv
      <4>3. PICK f \in recorded[s] : f.case = c.id /\ f.case \in CaseIds
        BY <4>1 DEF SaidInv, Said, TypeOK, Change
      <4>4. \/ \E d \in created[s] : d.id = c.id
            \/ \E d \in cases : d.id = c.id
        BY <4>3, NoCaseIsNone DEF RefInv
      <4>5. c \notin created[r]
        BY <1>x, <2>5, <4>4 DEF OwnInv
      <4>6. c \in updated[r] BY <1>0, <4>1, <4>5 DEF Updated
      <4>7. PICK g \in recorded[r] : g.case = c.id /\ g.summary = c.summary
        BY <4>1, <4>6 DEF SaidInv, Said
      <4>8. g.by = r BY <4>7 DEF RefInv
      <4> QED BY <1>0, <4>2, <4>7, <4>8 DEF Fresh
    <3> QED BY <3>1, <3>2
  <2>6. FreshInv'
    BY <1>e, <1>n, <2>5 DEF FreshInv
  <2> QED BY <2>1, <2>3, <2>6
<1>6. CasesAndFindingsAgree'
  <2>1. ASSUME NEW f \in findings', f.case # NoCase
        PROVE  \E c \in cases' : c.id = f.case /\ c.key = f.key
    <3>1. CASE f \in findings
      BY <1>k, <2>1, <3>1 DEF CasesAndFindingsAgree
    <3>2. CASE f \in recorded[r]
      BY <1>0, <1>k, <2>1, <3>2 DEF RefInv
    <3> QED BY <1>0, <3>1, <3>2
  <2>2. ASSUME NEW c \in cases'
        PROVE  \E f \in findings' : f.case = c.id /\ f.summary = c.summary
    <3>1. CASE c \in created[r] \/ (c \in updated[r] /\ c \notin cases)
      BY <1>0, <3>1 DEF SaidInv, Said
    <3>2. CASE c \in cases
      BY <1>0, <3>2 DEF CasesAndFindingsAgree
    <3> QED BY <1>0, <3>1, <3>2 DEF Updated
  <2> QED BY <2>1, <2>2 DEF CasesAndFindingsAgree
<1>7. OverlapInv'
  <2>1. \A s \in Evaluations : created'[s] \subseteq created[s]
    BY <1>e
  <2>2. \A c \in AllCases' : \E d \in AllCases : d.id = c.id /\ d.key = c.key
    BY <1>0, <1>u, <2>1 DEF AllCases
  <2>3. \A s, t \in Evaluations :
           Open(s)' /\ Open(t)' /\ s # t => {s, t} \in overlapped'
    BY <1>0, <1>e DEF OverlapInv, Open
  <2> QED BY <1>0, <2>2, <2>3, SameTitlesOverlap DEF OverlapInv, AlwaysNew, Creator
<1>8. BlockInv'
  <2>1. ASSUME NEW k, Duplicated(k) PROVE Duplicated(k)'
    <3>1. PICK c, d \in cases : c # d /\ c.key = k /\ d.key = k
      BY <2>1 DEF Duplicated
    <3>2. PICK c1 \in cases' : c1.id = c.id /\ c1.key = k BY <1>k, <3>1
    <3>3. PICK d1 \in cases' : d1.id = d.id /\ d1.key = k BY <1>k, <3>1
    <3>4. c1 # d1 BY <3>1, <3>2, <3>3 DEF IdInv
    <3> QED BY <3>2, <3>3, <3>4 DEF Duplicated
  <2> QED BY <1>e, <2>1 DEF BlockInv, AlwaysNew
<1> QED BY <1>1, <1>2, <1>3, <1>4, <1>5, <1>6, <1>7, <1>8

-----------------------------------------------------------------------------
(* The theorems.                                                            *)

\* Every step preserves the invariant.
LEMMA StepPreserves == IInv /\ [Next]_vars => IInv'
<1> SUFFICES ASSUME IInv, [Next]_vars PROVE IInv' OBVIOUS
<1>1. CASE UNCHANGED vars BY <1>1, StutterPreserves
<1>2. ASSUME NEW r \in Evaluations, NEW q \in Requests, Begin(r, q) PROVE IInv'
  BY <1>2, BeginPreserves
<1>3. ASSUME NEW r \in Evaluations, Progress(r) PROVE IInv'
  <2>1. CASE AssessOnly(r) BY <2>1, AssessOnlyPreserves
  <2>2. CASE NewCase(r) BY <2>2, CreateCasePreserves DEF NewCase
  <2>3. CASE NoneFound(r)
    BY <2>3, CreateCasePreserves DEF NoneFound, Looks, Queries
  <2>4. CASE ReuseCase(r) BY <2>4, ReuseCasePreserves
  <2>5. CASE MultipleResultsFound(r)
    BY <2>5, RollbackPreserves DEF MultipleResultsFound, Looks, Queries
  <2>6. CASE Flush(r) BY <2>6, FlushPreserves
  <2>7. CASE Commit(r) BY <2>7, CommitPreserves
  <2> QED BY <1>3, <2>1, <2>2, <2>3, <2>4, <2>5, <2>6, <2>7 DEF Progress
<1>4. ASSUME NEW r \in Evaluations, DeadlockDetected(r) PROVE IInv'
  <2>1. Open(r)
    <3>1. \E t \in Evaluations : WaitsFor(r, t)
      BY <1>4 DEF DeadlockDetected, Deadlocked
    <3> QED BY <3>1 DEF WaitsFor, Queries
  <2> QED BY <1>4, <2>1, RollbackPreserves DEF DeadlockDetected
<1>5. ASSUME NEW r \in Evaluations, Fail(r) PROVE IInv'
  BY <1>5, RollbackPreserves DEF Fail
<1> QED BY <1>1, <1>2, <1>3, <1>4, <1>5 DEF Next

LEMMA Invariant == Spec => []IInv
  BY InitHolds, StepPreserves, PTL DEF Spec

\* For any requests: the variables keep their types, and an open request has
\* one finding for each item it is past.
THEOREM TypeCorrect == Spec => []TypeOK
<1>1. IInv => TypeOK BY DEF IInv
<1> QED BY <1>1, Invariant, PTL

\* For any requests: two cases of one title and type were created by requests
\* open at the same time.
THEOREM DuplicatesOnlyByOverlap == Spec => []DuplicatesNeedOverlap
<1>1. IInv => DuplicatesNeedOverlap
  BY DEF IInv, IdInv, OverlapInv, AllCases, DuplicatesNeedOverlap
<1> QED BY <1>1, Invariant, PTL

\* For any requests: findings and cases refer to each other, whatever was
\* rolled back.
THEOREM FindingsAndCasesAgree == Spec => []CasesAndFindingsAgree
<1>1. IInv => CasesAndFindingsAgree BY DEF IInv
<1> QED BY <1>1, Invariant, PTL

\* New findings come from commits.
LEMMA NewFindingsCommitted ==
    ASSUME IInv, [Next]_vars, NEW f \in findings' \ findings
    PROVE  \E r \in Evaluations : Commit(r) /\ f \in recorded[r]
<1>1. PICK r \in Evaluations :
         \/ \E q \in Requests : Begin(r, q)
         \/ Progress(r) \/ DeadlockDetected(r) \/ Fail(r)
  BY DEF Next, vars
<1>2. Commit(r)
  BY <1>1 DEF Begin, Progress, AssessOnly, NewCase, NoneFound, ReuseCase,
     MultipleResultsFound, Flush, CreateCase, DeadlockDetected, Fail, Rollback
<1> QED BY <1>2 DEF Commit

\* For any requests: an evaluation begun after a title was duplicated commits
\* no finding that needs its case.
THEOREM DuplicatesBlock == Spec => DuplicatedTitleBlocks
<1>1. IInv /\ [Next]_vars =>
        [\A f \in findings' \ findings :
           f.case # NoCase /\ ~AlwaysNew(f.key) => f.key \notin blocked[f.by]]_vars
  <2> SUFFICES ASSUME IInv, [Next]_vars, NEW f \in findings' \ findings,
                      f.case # NoCase, ~AlwaysNew(f.key)
               PROVE  f.key \notin blocked[f.by]
    OBVIOUS
  <2>1. PICK r \in Evaluations : Commit(r) /\ f \in recorded[r]
    BY NewFindingsCommitted
  <2> QED BY <2>1 DEF IInv, RefInv, BlockInv
<1> QED BY <1>1, Invariant, PTL DEF Spec, DuplicatedTitleBlocks

\* For any requests: when an evaluation commits, each case it reports says what
\* it, or one that overlapped it, said.
THEOREM CommitShows == Spec => CommittedSummaryShows
<1>1. IInv /\ [Next]_vars =>
        [\A f \in findings' \ findings :
           f.case # NoCase =>
             \E c \in cases', g \in findings' :
               /\ c.id = f.case /\ g.case = f.case
               /\ c.summary = g.summary
               /\ g.by = f.by \/ {f.by, g.by} \in overlapped]_vars
  <2> SUFFICES ASSUME IInv, [Next]_vars, NEW f \in findings' \ findings,
                      f.case # NoCase
               PROVE  \E c \in cases', g \in findings' :
                        /\ c.id = f.case /\ g.case = f.case
                        /\ c.summary = g.summary
                        /\ g.by = f.by \/ {f.by, g.by} \in overlapped
    OBVIOUS
  <2>1. PICK r \in Evaluations : Commit(r) /\ f \in recorded[r]
    BY NewFindingsCommitted
  <2>2. /\ cases' = Updated(r) \union created[r] /\ dirty[r] = NoChange
        /\ findings' = findings \union recorded[r]
        /\ f.by = r
    BY <2>1 DEF Commit, IInv, RefInv
  <2>3. PICK c \in cases' : c.id = f.case /\ Fresh(r, c)
    <3>1. CASE \E c \in created[r] : c.id = f.case
      BY <2>2, <3>1 DEF IInv, SaidInv, Said, Fresh, RefInv
    <3>2. CASE f.case \in Locked(r)
      BY <2>2, <3>2 DEF IInv, FreshInv, Updated, Locked
    <3> QED BY <2>1, <2>2, <3>1, <3>2 DEF IInv, RefInv, Touched
  <2> QED BY <2>2, <2>3 DEF Fresh
<1> QED BY <1>1, Invariant, PTL DEF Spec, CommittedSummaryShows

-----------------------------------------------------------------------------
(* The dashboards.                                                          *)

\* Cases are created, and findings recorded, one by one.
FiniteInv ==
    /\ IsFiniteSet(cases) /\ IsFiniteSet(findings)
    /\ \A r \in Evaluations :
          /\ IsFiniteSet(created[r]) /\ IsFiniteSet(recorded[r])
          /\ IsFiniteSet(updated[r])

\* A function has no more values than arguments.
LEMMA ImageFinite ==
    ASSUME NEW S, IsFiniteSet(S), NEW T, NEW f \in [S -> T]
    PROVE  /\ IsFiniteSet({f[x] : x \in S})
           /\ Cardinality({f[x] : x \in S}) <= Cardinality(S)
<1> DEFINE image == {f[x] : x \in S}
<1>1. f \in Surjection(S, image)
  BY DEF Surjection
<1> HIDE DEF image
<1> QED BY <1>1, FS_Surjection DEF image

\* An UPDATE of rows adds none.
LEMMA AppliedFinite ==
    ASSUME NEW change, NEW S, IsFiniteSet(S)
    PROVE  IsFiniteSet({Applied(change, c) : c \in S})
<1> DEFINE T == {Applied(change, c) : c \in S}
           f == [c \in S |-> Applied(change, c)]
<1>1. f \in [S -> T] OBVIOUS
<1>2. T = {f[c] : c \in S} OBVIOUS
<1>3. IsFiniteSet({f[c] : c \in S})
  <2> HIDE DEF f, T
  <2> QED BY <1>1, ImageFinite
<1> QED BY <1>2, <1>3

LEMMA UpdatedFinite ==
    ASSUME NEW r \in Evaluations, FiniteInv
    PROVE  IsFiniteSet(Updated(r))
<1>1. IsFiniteSet({c \in cases : c.id \notin Locked(r)})
  BY FS_Subset DEF FiniteInv
<1> QED BY <1>1, FS_Union DEF FiniteInv, Updated

LEMMA FiniteStep ==
    ASSUME TypeOK, FiniteInv, [Next]_vars
    PROVE  FiniteInv'
<1> SUFFICES ASSUME NEW r \in Evaluations,
                    \/ \E q \in Requests : Begin(r, q)
                    \/ Progress(r) \/ DeadlockDetected(r) \/ Fail(r)
             PROVE  FiniteInv'
  BY DEF Next, vars, FiniteInv
<1>r. ASSUME NEW case, Record(r, case)
      PROVE  \A s \in Evaluations : IsFiniteSet(recorded'[s])
  <2>1. \A s \in Evaluations :
           \/ s # r /\ recorded'[s] = recorded[s]
           \/ s = r /\ recorded'[s] = recorded[s] \union {NewFinding(r, case)}
    BY <1>r, RecordEffect
  <2>2. IsFiniteSet(recorded[r] \union {NewFinding(r, case)})
    BY FS_AddElement DEF FiniteInv
  <2> QED BY <2>1, <2>2 DEF FiniteInv
<1>1. CASE UNCHANGED <<cases, findings, created, recorded, updated>>
  BY <1>1 DEF FiniteInv
<1>2. CASE UNCHANGED <<cases, findings, created, updated>> /\ \E case : Record(r, case)
  BY <1>r, <1>2 DEF FiniteInv
<1>3. CASE CreateCase(r)
  <2> DEFINE new == [id |-> <<r, pos[r]>>, key |-> Here(r), summary |-> Says(r)]
  <2>1. /\ cases' = cases /\ findings' = findings /\ updated' = updated
        /\ created' = [created EXCEPT ![r] = @ \union {new}]
        /\ Record(r, <<r, pos[r]>>)
    BY <1>3 DEF CreateCase
  <2>2. IsFiniteSet(created[r] \union {new})
    BY FS_AddElement DEF FiniteInv
  <2> QED BY <1>r, <2>1, <2>2 DEF FiniteInv, TypeOK
<1>4. ASSUME NEW result, Ends(r, result)
      PROVE  \A s \in Evaluations :
                /\ IsFiniteSet(created'[s]) /\ IsFiniteSet(recorded'[s])
                /\ IsFiniteSet(updated'[s])
  BY <1>4, EndsEffect, FS_EmptySet DEF FiniteInv
<1>5. CASE Rollback(r)
  BY <1>4, <1>5 DEF Rollback, FiniteInv
<1>6. CASE Commit(r)
  <2>1. /\ cases' = Updated(r) \union created[r]
        /\ findings' = findings \union recorded[r]
        /\ Ends(r, "committed")
    BY <1>6 DEF Commit
  <2>2. IsFiniteSet(cases') /\ IsFiniteSet(findings')
    BY <2>1, UpdatedFinite, FS_Union DEF FiniteInv
  <2> QED BY <1>4, <2>1, <2>2 DEF FiniteInv
<1>7. CASE Flush(r)
  <2> DEFINE rows == {d \in Updated(r) :
                        d.id \in Locked(r) \union {dirty[r].case}}
  <2>1. /\ updated' = [updated EXCEPT ![r] = {Applied(dirty[r], c) : c \in rows}]
        /\ created' = [created EXCEPT ![r] = {Applied(dirty[r], c) : c \in @}]
        /\ UNCHANGED <<cases, findings, recorded>>
    BY <1>7 DEF Flush
  <2>2. IsFiniteSet(rows) BY UpdatedFinite, FS_Subset
  <2> HIDE DEF rows
  <2>3. /\ IsFiniteSet({Applied(dirty[r], c) : c \in rows})
        /\ IsFiniteSet({Applied(dirty[r], c) : c \in created[r]})
    BY <2>2, AppliedFinite DEF FiniteInv
  <2> QED BY <2>1, <2>3 DEF FiniteInv, TypeOK
<1> QED
  BY <1>1, <1>2, <1>3, <1>5, <1>6, <1>7
  DEF Begin, Progress, AssessOnly, NewCase, NoneFound, ReuseCase,
      MultipleResultsFound, DeadlockDetected, Fail

\* What the reader has: the cases named so far are committed ones of its
\* monitor, and no count of cases is followed by one of findings.
ViewType ==
    view \in [monitor : Looked \union {"none"}, answers : Seq(Nat),
              named : SUBSET CaseIds]

ViewInv ==
    /\ ViewType
    /\ \A id \in view.named : \E c \in OpenCases(view.monitor) : c.id = id
    /\ view.monitor = "none" => view = Closed
    /\ view # Closed => view.monitor \in Watched
    /\ DashboardShowsCases

DashboardsIInv == IInv /\ FiniteInv /\ ViewInv

LEMMA LastOfThree ==
    ASSUME NEW a, NEW b, NEW c, a # "cases", b # "cases"
    PROVE  \A s \in {<<a, b>>, <<a, b, c>>} :
              /\ Len(s) \in Nat
              /\ \A i \in 1..Len(s) : s[i] = "cases" => i = Len(s)
<1>1. /\ Len(<<a, b>>) = 2 /\ Len(<<a, b, c>>) = 3
      /\ \A i \in 1..2 : i = 1 \/ i = 2
      /\ \A i \in 1..3 : i = 1 \/ i = 2 \/ i = 3
  OBVIOUS
<1>2. /\ <<a, b>>[1] = a /\ <<a, b>>[2] = b
      /\ <<a, b, c>>[1] = a /\ <<a, b, c>>[2] = b
  OBVIOUS
<1>3. \A i \in 1..2 : <<a, b>>[i] # "cases" BY <1>1, <1>2
<1>4. \A i \in 1..3 : <<a, b, c>>[i] = "cases" => i = 3 BY <1>1, <1>2
<1> QED BY <1>1, <1>3, <1>4

\* The cases are counted last.
LEMMA CasesLast ==
    ASSUME NEW monitor \in Watched
    PROVE  LET s == Counts(monitor)
           IN  /\ Len(s) \in Nat
               /\ \A i \in 1..Len(s) : s[i] = "cases" => i = Len(s)
<1>1. CASE monitor \in {"covenant", "sla", "retention"}
  BY <1>1, LastOfThree
  DEF Counts, covenant_dashboard, sla_dashboard, gdpr_retention_dashboard
<1>2. CASE monitor \in {"rd_tax", "esg", "supplier"}
  BY <1>2, LastOfThree
  DEF Counts, rd_tax_dashboard, esg_csrd_dashboard, supplier_risk_dashboard
<1>3. CASE monitor \in {"hs", "competitor"}
  BY <1>3, LastOfThree
  DEF Counts, hs_riddor_dashboard, competitor_signals_dashboard
<1> QED BY <1>1, <1>2, <1>3 DEF Watched

\* A committed case keeps its id and its title.
LEMMA CasesStay ==
    ASSUME IInv, [Next]_vars, NEW c \in cases
    PROVE  \E d \in cases' : d.id = c.id /\ d.key = c.key
<1>1. CASE cases' = cases BY <1>1
<1>2. ASSUME NEW r \in Evaluations, Commit(r)
      PROVE  \E d \in cases' : d.id = c.id /\ d.key = c.key
  <2>1. cases' = Updated(r) \union created[r] BY <1>2 DEF Commit
  <2> QED BY <2>1, UpdatedProperties DEF IInv
<1> QED
  BY <1>1, <1>2
  DEF Next, vars, Begin, Progress, AssessOnly, NewCase, NoneFound, ReuseCase,
      MultipleResultsFound, Flush, CreateCase, DeadlockDetected, Fail, Rollback

\* No more cases are named than are open.
LEMMA NamedAtMostOpen ==
    ASSUME FiniteInv, ViewInv
    PROVE  /\ Cardinality(OpenCases(view.monitor)) \in Nat
           /\ Cardinality(view.named) <= Cardinality(OpenCases(view.monitor))
<1> DEFINE open == OpenCases(view.monitor)
           f == [c \in open |-> c.id]
           ids == {f[c] : c \in open}
<1>1. IsFiniteSet(open) /\ Cardinality(open) \in Nat
  BY FS_Subset, FS_CardinalityType DEF FiniteInv, OpenCases
<1>2. f \in [open -> {c.id : c \in open}] OBVIOUS
<1>3. view.named \subseteq ids
  BY DEF ViewInv
<1>4. IsFiniteSet(ids) /\ Cardinality(ids) <= Cardinality(open)
  <2> HIDE DEF f, open
  <2> QED BY <1>1, <1>2, ImageFinite
<1>5. Cardinality(ids) \in Nat /\ Cardinality(view.named) \in Nat
      /\ Cardinality(view.named) <= Cardinality(ids)
  <2> HIDE DEF ids
  <2> QED BY <1>3, <1>4, FS_Subset, FS_CardinalityType
<1> HIDE DEF open, ids
<1> QED BY <1>1, <1>4, <1>5 DEF open

\* Counting findings.
LEMMA CountStep ==
    ASSUME DashboardsIInv, CountFindings
    PROVE  ViewInv'
<1> DEFINE m == view.monitor
           counted == CountedFindings(m, Counts(m)[Asked])
           n == Cardinality(counted)
<1> USE DEF DashboardsIInv
<1>1. /\ view # Closed /\ Asked <= Len(Counts(m)) /\ Counts(m)[Asked] # "cases"
      /\ view' = [view EXCEPT
            !.answers = Append(@, n),
            !.named = @ \union ({f.case : f \in counted} \ {NoCase})]
      /\ UNCHANGED vars
  BY DEF CountFindings
<1>2. m \in Watched /\ m \in Looked /\ view.answers \in Seq(Nat)
      /\ view.named \subseteq CaseIds
  BY <1>1 DEF ViewInv, ViewType
<1>3. n \in Nat
  BY FS_Subset, FS_CardinalityType DEF FiniteInv, CountedFindings
<1>4. /\ view'.monitor = m
      /\ view'.answers = Append(view.answers, n)
      /\ view'.named = view.named \union ({f.case : f \in counted} \ {NoCase})
      /\ DOMAIN view' = DOMAIN view
  BY <1>1 DEF ViewInv, ViewType
<1>5. \A f \in counted : f.case # NoCase =>
          f.case \in CaseIds /\ \E c \in OpenCases(m) : c.id = f.case
  <2> SUFFICES ASSUME NEW f \in counted, f.case # NoCase
               PROVE  f.case \in CaseIds /\ \E c \in OpenCases(m) : c.id = f.case
    OBVIOUS
  <2>1. f \in findings /\ f.key.monitor = m BY DEF CountedFindings
  <2>2. PICK c \in cases : c.id = f.case /\ c.key = f.key
    BY <2>1 DEF IInv, CasesAndFindingsAgree
  <2>3. f.case \in CaseIds
    BY <2>1 DEF IInv, TypeOK, Finding
  <2> QED BY <2>1, <2>2, <2>3 DEF OpenCases
<1>6. ViewType'
  <2>1. Append(view.answers, n) \in Seq(Nat) BY <1>2, <1>3, AppendProperties
  <2>2. view.named \union ({f.case : f \in counted} \ {NoCase}) \subseteq CaseIds
    BY <1>2, <1>5
  <2> HIDE DEF n, counted
  <2> QED BY <1>1, <2>1, <2>2 DEF ViewInv, ViewType
<1>7. \A id \in view'.named : \E c \in OpenCases(m) : c.id = id
  BY <1>4, <1>5 DEF ViewInv
<1>8. OpenCases(view.monitor)' = OpenCases(m)
  BY <1>1, <1>4 DEF OpenCases, vars
<1>9. DashboardShowsCases'
  <2> SUFFICES ASSUME NEW i \in 1..Len(view'.answers), Counts(m)[i] = "cases"
               PROVE  FALSE
    BY <1>4 DEF DashboardShowsCases
  <2>1. i <= Asked /\ i # Asked
    BY <1>1, <1>2, <1>3, <1>4 DEF Asked
  <2>2. Len(view.answers) \in Nat BY <1>2
  <2> QED BY <1>1, <1>2, <2>1, <2>2, CasesLast DEF Asked
<1>10. view'.monitor # "none"
  BY <1>2, <1>4 DEF Watched
<1> QED BY <1>2, <1>4, <1>6, <1>7, <1>8, <1>9, <1>10 DEF ViewInv

\* Counting the open cases.
LEMMA CountCasesStep ==
    ASSUME DashboardsIInv, CountCases
    PROVE  ViewInv'
<1> DEFINE m == view.monitor
           n == Cardinality(OpenCases(m))
<1> USE DEF DashboardsIInv
<1>1. /\ view # Closed /\ Asked <= Len(Counts(m))
      /\ view' = [view EXCEPT !.answers = Append(@, n)]
      /\ UNCHANGED vars
  BY DEF CountCases
<1>2. /\ m \in Watched /\ view.answers \in Seq(Nat)
      /\ n \in Nat /\ Cardinality(view.named) <= n
  BY <1>1, NamedAtMostOpen DEF ViewInv, ViewType
<1>3. /\ view'.monitor = m /\ view'.named = view.named
      /\ view'.answers = Append(view.answers, n)
  BY <1>1 DEF ViewInv, ViewType
<1> HIDE DEF n
<1>4. ViewType'
  BY <1>1, <1>2, AppendProperties DEF ViewInv, ViewType
<1>5. OpenCases(view.monitor)' = OpenCases(m)
  BY <1>1, <1>3 DEF OpenCases, vars
<1>6. DashboardShowsCases'
  <2> SUFFICES ASSUME NEW i \in 1..Len(view'.answers),
                      Counts(m)[i] = "cases"
               PROVE  Cardinality(view.named) <= view'.answers[i]
    BY <1>3 DEF DashboardShowsCases
  <2>1. CASE i = Asked
    BY <1>2, <1>3, <2>1 DEF Asked
  <2>2. CASE i # Asked
    <3>1. i \in 1..Len(view.answers) /\ view'.answers[i] = view.answers[i]
      BY <1>2, <1>3, <2>2 DEF Asked
    <3> QED BY <3>1 DEF ViewInv, DashboardShowsCases
  <2> QED BY <2>1, <2>2
<1>7. view'.monitor # "none"
  BY <1>2, <1>3 DEF Watched
<1> QED BY <1>2, <1>3, <1>4, <1>5, <1>6, <1>7 DEF ViewInv

\* Opening a dashboard, and the evaluations meanwhile.
LEMMA LookStep ==
    ASSUME NEW monitor \in Looked, Look(monitor)
    PROVE  ViewInv'
<1>1. /\ view' = [Closed EXCEPT !.monitor = monitor]
      /\ view'.monitor = monitor /\ view'.answers = <<>> /\ view'.named = {}
  BY DEF Look, Closed
<1>2. monitor \in Watched /\ monitor # "none"
  BY LookedAssumption DEF Watched
<1>3. ViewType'
  BY <1>1, EmptySeq DEF ViewType, Closed
<1> QED BY <1>1, <1>2, <1>3 DEF ViewInv, DashboardShowsCases

LEMMA EvaluationStep ==
    ASSUME DashboardsIInv, [Next]_vars, UNCHANGED view
    PROVE  ViewInv'
<1>1. \A id \in view.named : \E c \in OpenCases(view.monitor)' : c.id = id
  BY CasesStay DEF DashboardsIInv, IInv, ViewInv, OpenCases
<1> QED BY <1>1 DEF DashboardsIInv, ViewInv, ViewType, DashboardShowsCases

LEMMA DashboardsInvariant == DashboardsSpec => []DashboardsIInv
<1>1. DashboardsInit => DashboardsIInv
  <2> SUFFICES ASSUME Init, view = Closed PROVE DashboardsIInv
    BY DEF DashboardsInit
  <2>1. FiniteInv BY FS_EmptySet DEF Init, FiniteInv
  <2>2. ViewInv
    BY EmptySeq DEF ViewInv, ViewType, Closed, DashboardShowsCases
  <2> QED BY <2>1, <2>2, InitHolds DEF DashboardsIInv
<1>2. DashboardsIInv /\ [DashboardsNext]_dashboardVars => DashboardsIInv'
  <2> SUFFICES ASSUME DashboardsIInv, [DashboardsNext]_dashboardVars
               PROVE  DashboardsIInv'
    OBVIOUS
  <2>1. [Next]_vars
    BY DEF DashboardsNext, dashboardVars, Read, Look, CountFindings, CountCases
  <2>2. IInv' /\ FiniteInv'
    BY <2>1, StepPreserves, FiniteStep DEF DashboardsIInv, IInv
  <2>3. ASSUME UNCHANGED view PROVE ViewInv'
    BY <2>1, <2>3, EvaluationStep
  <2>4. ASSUME Read PROVE ViewInv'
    BY <2>4, LookStep, CountStep, CountCasesStep DEF Read
  <2> QED
    BY <2>2, <2>3, <2>4 DEF DashboardsNext, dashboardVars, DashboardsIInv
<1> QED BY <1>1, <1>2, PTL DEF DashboardsSpec

\* For any requests: a dashboard shows at least as many open cases as the
\* findings it has counted name.
THEOREM DashboardsShowCases == DashboardsSpec => []DashboardShowsCases
<1>1. DashboardsIInv => DashboardShowsCases BY DEF DashboardsIInv, ViewInv
<1> QED BY <1>1, DashboardsInvariant, PTL

-----------------------------------------------------------------------------
(* The assessments are monotone for all observations, not only at the       *)
(* boundaries that are model-checked.                                       *)

\* Every point of an AML signal counts upwards, and the bound at 100 is above
\* the threshold.
LEMMA SignalMonotone ==
    ASSUME NEW o \in AmlSignal, NEW p \in AmlSignal, WorseSignal(o, p)
    PROVE  Severity(aml_status(o)) <= Severity(aml_status(p))
<1>1. score_aml_signal(o) <= score_aml_signal(p)
  BY DEF AmlSignal, WorseSignal, score_aml_signal, Points, AtMost
<1>2. score_aml_signal(o) \in Int /\ score_aml_signal(p) \in Int
  BY DEF AmlSignal, score_aml_signal, Points, AtMost
<1>3. CASE aml_status(o) = "logged"
  BY <1>3 DEF aml_status, Severity, Severe
<1>4. CASE aml_status(o) = "escalated"
  <2>1. aml_status(p) = "escalated"
    BY <1>1, <1>2, <1>4 DEF aml_status, WorseSignal, AmlSignal
  <2> QED BY <1>4, <2>1 DEF Severity, Severe
<1> QED BY <1>3, <1>4 DEF aml_status

\* On each side of the threshold, a worse value is closer to it or beyond.
LEMMA MetricMonotone ==
    ASSUME NEW o \in CovenantMetric \union SlaObservation,
           NEW p \in CovenantMetric \union SlaObservation, WorseMetric(o, p)
    PROVE  /\ Severity(evaluate_covenant_value(o))
                <= Severity(evaluate_covenant_value(p))
           /\ Breached(o) =>
                /\ Breached(p)
                /\ Distance(o.value, o.threshold)
                     <= Distance(p.value, p.threshold)
<1>1. /\ o.comparator \in Comparators /\ p.comparator = o.comparator
      /\ o.value \in Int /\ p.value \in Int
      /\ o.threshold \in Int /\ p.threshold = o.threshold
      /\ o.warning_buffer_pct \in Nat
      /\ p.warning_buffer_pct = o.warning_buffer_pct
  BY DEF CovenantMetric, SlaObservation, WorseMetric
<1>2. Breached(o) => Breached(p)
  BY <1>1 DEF Breached, WorseMetric, Comparators, Distance
<1>3. Breached(o) =>
          Distance(o.value, o.threshold) <= Distance(p.value, p.threshold)
  BY <1>1 DEF Breached, WorseMetric, Comparators, Distance
<1>4. ASSUME ~Breached(p), o.comparator # "="
      PROVE  Distance(p.value, p.threshold) <= Distance(o.value, o.threshold)
  BY <1>1, <1>4 DEF Breached, WorseMetric, Comparators, Distance
<1>5. ASSUME ~Breached(p), o.comparator # "=", NearThreshold(o)
      PROVE  NearThreshold(p)
  <2> DEFINE bound == o.warning_buffer_pct * Distance(o.threshold, 0)
  <2>1. bound \in Int BY <1>1 DEF Distance
  <2>2. Distance(p.value, p.threshold) \in Int
        /\ Distance(o.value, o.threshold) \in Int
    BY <1>1 DEF Distance
  <2>3. 100 * Distance(o.value, o.threshold) <= bound
    BY <1>5 DEF NearThreshold
  <2>4. 100 * Distance(p.value, p.threshold) <= bound
    <3> HIDE DEF bound
    <3> QED BY <1>4, <1>5, <2>1, <2>2, <2>3
  <2> QED BY <1>1, <1>5, <2>4 DEF NearThreshold
<1>6. ASSUME Breached(p)
      PROVE  Severity(evaluate_covenant_value(o))
               <= Severity(evaluate_covenant_value(p))
  BY <1>6 DEF evaluate_covenant_value, Severity, Severe
<1>7. ASSUME ~Breached(p)
      PROVE  Severity(evaluate_covenant_value(o))
               <= Severity(evaluate_covenant_value(p))
  BY <1>1, <1>2, <1>5, <1>7 DEF evaluate_covenant_value, Severity, Severe
<1> QED BY <1>2, <1>3, <1>6, <1>7

\* Multiplication by a natural number keeps the order.
LEMMA TimesMonotone ==
    ASSUME NEW c \in Nat, NEW m \in Int, NEW n \in Int, m <= n
    PROVE  c * m <= c * n /\ c * m \in Int /\ c * n \in Int
  OBVIOUS

\* With the rate and the maximum of the contract, the credit follows the
\* distance.
LEMMA CreditMonotone ==
    ASSUME NEW o \in SlaObservation, NEW p \in SlaObservation,
           WorseMetric(o, p)
    PROVE  estimate_sla_credit(o) <= estimate_sla_credit(p)
<1> DEFINE unit == Distance(o.threshold, 0)
           apart(x) == 10 * Distance(x.value, x.threshold)
           factor(x) == IF apart(x) > unit THEN apart(x) ELSE unit
<1>1. /\ o.value \in Int /\ p.value \in Int /\ o.threshold \in Int
      /\ o.credit_rate_pct \in Nat /\ o.max_credit_pct \in Nat
      /\ p.threshold = o.threshold /\ p.credit_rate_pct = o.credit_rate_pct
      /\ p.max_credit_pct = o.max_credit_pct
  BY DEF SlaObservation, WorseMetric
<1>2. /\ unit \in Nat /\ factor(o) \in Nat /\ factor(p) \in Nat
  BY <1>1 DEF Distance
<1>3. /\ o.credit_rate_pct * factor(o) \in Nat
      /\ o.credit_rate_pct * factor(p) \in Nat
      /\ o.max_credit_pct * unit \in Nat
  BY <1>1, <1>2
<1>4. CASE ~Breached(o)
  <2>1. estimate_sla_credit(o) = 0
    BY <1>4 DEF estimate_sla_credit, evaluate_covenant_value
  <2>2. 0 <= estimate_sla_credit(p)
    <3> HIDE DEF factor, unit
    <3>1. estimate_sla_credit(p) \in
            {0, p.credit_rate_pct,
             AtMost(o.max_credit_pct * unit, o.credit_rate_pct * factor(p))}
      BY <1>1 DEF estimate_sla_credit, factor, unit, apart
    <3> QED BY <1>1, <1>3, <3>1 DEF AtMost
  <2> QED BY <2>1, <2>2
<1>5. CASE Breached(o)
  <2>1. Breached(p) /\ factor(o) <= factor(p)
    BY <1>1, <1>5, MetricMonotone DEF Distance
  <2>2. o.credit_rate_pct * factor(o) <= o.credit_rate_pct * factor(p)
    BY <1>1, <1>2, <2>1, TimesMonotone
  <2>3. evaluate_covenant_value(o) = "breached"
        /\ evaluate_covenant_value(p) = "breached"
    BY <1>5, <2>1 DEF evaluate_covenant_value
  <2>4. CASE o.threshold = 0
    BY <1>1, <2>3, <2>4 DEF estimate_sla_credit
  <2>5. CASE o.threshold # 0
    <3>1. /\ estimate_sla_credit(o) = AtMost(o.max_credit_pct * unit,
                                            o.credit_rate_pct * factor(o))
          /\ estimate_sla_credit(p) = AtMost(o.max_credit_pct * unit,
                                            o.credit_rate_pct * factor(p))
      BY <1>1, <2>3, <2>5 DEF estimate_sla_credit
    <3> HIDE DEF factor, unit
    <3> QED BY <1>3, <2>2, <3>1 DEF AtMost
  <2> QED BY <2>4, <2>5
<1> QED BY <1>4, <1>5

\* An older record, or a shorter period, comes closer to the limit.
LEMMA RetentionMonotone ==
    ASSUME NEW o \in RetentionObservation, NEW p \in RetentionObservation,
           WorseRetention(o, p)
    PROVE  Severity(evaluate_gdpr_retention_observation(o))
             <= Severity(evaluate_gdpr_retention_observation(p))
  BY DEF RetentionObservation, WorseRetention,
         evaluate_gdpr_retention_observation, Severity, Severe

\* Every gap is critical, and the planned review only comes closer.
LEMMA RopaMonotone ==
    ASSUME NEW o \in RopaActivity, NEW p \in RopaActivity, WorseRopa(o, p)
    PROVE  Severity(assess_ropa_activity(o))
             <= Severity(assess_ropa_activity(p))
<1>1. Days(p.review_in) <= Days(o.review_in)
      /\ Days(p.review_in) \in Int /\ Days(o.review_in) \in Int
  BY DEF RopaActivity, WorseRopa, Days
<1> QED
  BY <1>1 DEF RopaActivity, WorseRopa, assess_ropa_activity, Severity, Severe

\* With the same costs, a project qualifies for less of them.
LEMMA ProjectMonotone ==
    ASSUME NEW o \in RdProject, NEW p \in RdProject, WorseProject(o, p)
    PROVE  Severity(evaluate_rd_tax_project(o))
             <= Severity(evaluate_rd_tax_project(p))
<1>1. /\ o.first \in RdActivity /\ p.first \in RdActivity
      /\ o.second \in RdActivity /\ p.second \in RdActivity
      /\ o.min_qualifying_ratio_pct \in Nat
  BY DEF RdProject
<1>2. /\ total_cost(o) = total_cost(p) /\ total_cost(o) \in Nat
      /\ o.first.cost \in Nat /\ o.second.cost \in Nat
  BY <1>1 DEF WorseProject, WorseActivity, RdActivity, total_cost
<1>3. /\ Qualifies(p.first) => Qualifies(o.first)
      /\ Qualifies(p.second) => Qualifies(o.second)
  BY <1>1 DEF WorseProject, WorseActivity, RdActivity, Qualifies
<1>4. /\ MissesEvidence(o.first) => MissesEvidence(p.first)
      /\ MissesEvidence(o.second) => MissesEvidence(p.second)
  BY <1>1 DEF WorseProject, WorseActivity, RdActivity, Qualifies,
              MissesEvidence
<1>5. /\ qualifying_cost(p) <= qualifying_cost(o)
      /\ qualifying_cost(o) \in Nat /\ qualifying_cost(p) \in Nat
  BY <1>1, <1>2, <1>3
  DEF WorseProject, WorseActivity, qualifying_cost, Points
<1>6. ASSUME NEW pct \in Nat, RatioBelow(o, pct) PROVE RatioBelow(p, pct)
  <2> DEFINE share == pct * total_cost(o)
  <2>1. share \in Int BY <1>2
  <2>2. 100 * qualifying_cost(o) < share BY <1>6 DEF RatioBelow
  <2>3. 100 * qualifying_cost(p) < share
    <3> HIDE DEF share
    <3> QED BY <1>5, <2>1, <2>2
  <2> QED BY <1>2, <2>3 DEF RatioBelow
<1>7. p.min_qualifying_ratio_pct = o.min_qualifying_ratio_pct
  BY DEF WorseProject
<1>8. RatioBelow(o, o.min_qualifying_ratio_pct) =>
          RatioBelow(p, p.min_qualifying_ratio_pct)
  BY <1>1, <1>6, <1>7
<1>9. RatioBelow(o, o.min_qualifying_ratio_pct + 10) =>
          RatioBelow(p, p.min_qualifying_ratio_pct + 10)
  BY <1>1, <1>6, <1>7
<1> HIDE DEF RatioBelow, MissesEvidence, total_cost
<1> QED
  BY <1>2, <1>4, <1>8, <1>9 DEF evaluate_rd_tax_project, Severity, Severe

\* A disclosure gets older, or loses its value or its evidence.
LEMMA DisclosureMonotone ==
    ASSUME NEW o \in EsgDisclosure, NEW p \in EsgDisclosure,
           WorseDisclosure(o, p)
    PROVE  Severity(evaluate_esg_metric_observation(o))
             <= Severity(evaluate_esg_metric_observation(p))
<1>1. Days(o.age) <= Days(p.age) /\ Days(o.age) \in Int /\ Days(p.age) \in Int
  BY DEF EsgDisclosure, WorseDisclosure, Days
<1> QED
  BY <1>1 DEF EsgDisclosure, WorseDisclosure, evaluate_esg_metric_observation,
              Severity, Severe

\* Each of the four weights only adds to the score.
LEMMA SupplierMonotone ==
    ASSUME NEW o \in SupplierObservation, NEW p \in SupplierObservation,
           WorseSupplier(o, p)
    PROVE  Severity(assess_supplier_risk(o))
             <= Severity(assess_supplier_risk(p))
<1>1. /\ SupplierScore(o) <= SupplierScore(p)
      /\ SupplierScore(o) \in Int /\ SupplierScore(p) \in Int
  BY DEF SupplierObservation, WorseSupplier, SupplierScore, Points, AtMost
<1> QED BY <1>1 DEF assess_supplier_risk, Severity, Severe

\* Worse incidents have the shorter deadline.
LEMMA IncidentMonotone ==
    ASSUME NEW o \in HsIncident, NEW p \in HsIncident, WorseIncident(o, p)
    PROVE  Severity(assess_hs_riddor(o)) <= Severity(assess_hs_riddor(p))
<1>1. /\ Deadline(p) <= Deadline(o)
      /\ Deadline(o) \in Int /\ Deadline(p) \in Int
  BY DEF HsIncident, WorseIncident, Deadline
<1>2. /\ Days(Deadline(p) - p.elapsed) <= Days(Deadline(o) - o.elapsed)
      /\ Days(Deadline(p) - p.elapsed) \in Int
      /\ Days(Deadline(o) - o.elapsed) \in Int
  BY <1>1 DEF HsIncident, WorseIncident, Days
<1> QED
  BY <1>1, <1>2
  DEF HsIncident, WorseIncident, assess_hs_riddor, Severity, Severe

\* Rounding keeps the order, also at the halves.
LEMMA RoundMonotone ==
    ASSUME NEW m \in Int, NEW n \in Int, m <= n
    PROVE  RoundTenths(m) <= RoundTenths(n) /\ RoundTenths(m) \in Int
  BY DEF RoundTenths

\* The weighted score, bounded at 100, grows with every part of it.
LEMMA CompetitorMonotone ==
    ASSUME NEW o \in CompetitorSignal, NEW p \in CompetitorSignal,
           WorseCompetitor(o, p)
    PROVE  Severity(assess_competitor_signal(o))
             <= Severity(assess_competitor_signal(p))
<1> DEFINE sum(x) == 5 * x.signal_strength + 2 * x.source_confidence_pct
                       + 3 * x.revenue_impact_pct
                       + Points(x.high_impact_type, 100)
<1>1. sum(o) <= sum(p) /\ sum(o) \in Int /\ sum(p) \in Int
  BY DEF CompetitorSignal, WorseCompetitor, Points
<1>2. /\ RoundTenths(sum(o)) <= RoundTenths(sum(p))
      /\ RoundTenths(sum(o)) \in Int /\ RoundTenths(sum(p)) \in Int
  BY <1>1, RoundMonotone
<1>3. /\ priority_score(o) <= priority_score(p)
      /\ priority_score(o) \in Int /\ priority_score(p) \in Int
  BY <1>2 DEF priority_score, AtMost
<1> QED BY <1>3 DEF assess_competitor_signal, Severity, Severe

-----------------------------------------------------------------------------
\* The monitor of an observation tells what it is an observation of.
LEMMA MonitorTells ==
    ASSUME NEW o \in Observation
    PROVE  /\ o.monitor = "aml" => o \in AmlSignal
           /\ o.monitor = "covenant" => o \in CovenantMetric
           /\ o.monitor = "sla" => o \in SlaObservation
           /\ o.monitor = "retention" => o \in RetentionObservation
           /\ o.monitor = "ropa" => o \in RopaActivity
           /\ o.monitor = "rd_tax" => o \in RdProject
           /\ o.monitor = "esg" => o \in EsgDisclosure
           /\ o.monitor = "supplier" => o \in SupplierObservation
           /\ o.monitor = "hs" => o \in HsIncident
           /\ o.monitor = "competitor" => o \in CompetitorSignal
           /\ o.monitor \in {"aml", "covenant", "sla", "retention", "ropa",
                             "rd_tax", "esg", "supplier", "hs", "competitor"}
  BY DEF Observation, AmlSignal, CovenantMetric, SlaObservation,
         RetentionObservation, RopaActivity, RdProject, EsgDisclosure,
         SupplierObservation, HsIncident, CompetitorSignal

\* A worse observation is at least as severe.
LEMMA StatusMonotone ==
    ASSUME NEW o \in Observation, NEW p \in Observation, Worse(o, p)
    PROVE  Severity(Status(o)) <= Severity(Status(p))
<1>0. p.monitor = o.monitor BY DEF Worse
<1>1. CASE o.monitor = "aml"
  BY <1>0, <1>1, MonitorTells, SignalMonotone DEF Worse, Status
<1>2. CASE o.monitor \in {"covenant", "sla"}
  BY <1>0, <1>2, MonitorTells, MetricMonotone DEF Worse, Status
<1>3. CASE o.monitor = "retention"
  BY <1>0, <1>3, MonitorTells, RetentionMonotone DEF Worse, Status
<1>4. CASE o.monitor = "ropa"
  BY <1>0, <1>4, MonitorTells, RopaMonotone DEF Worse, Status
<1>5. CASE o.monitor = "rd_tax"
  BY <1>0, <1>5, MonitorTells, ProjectMonotone DEF Worse, Status
<1>6. CASE o.monitor = "esg"
  BY <1>0, <1>6, MonitorTells, DisclosureMonotone DEF Worse, Status
<1>7. CASE o.monitor = "supplier"
  BY <1>0, <1>7, MonitorTells, SupplierMonotone DEF Worse, Status
<1>8. CASE o.monitor = "hs"
  BY <1>0, <1>8, MonitorTells, IncidentMonotone DEF Worse, Status
<1>9. CASE o.monitor = "competitor"
  BY <1>0, <1>9, MonitorTells, CompetitorMonotone DEF Worse, Status
<1> QED
  BY <1>1, <1>2, <1>3, <1>4, <1>5, <1>6, <1>7, <1>8, <1>9, MonitorTells

\* How severe a status calls for a case, monitor by monitor.
CaseSeverity(monitor) ==
    CASE monitor \in {"covenant", "esg"} -> 1
      [] monitor = "hs" -> 3
      [] OTHER -> 2

LEMMA CaseBySeverity ==
    ASSUME NEW o \in Observation
    PROVE  CaseType(o) # "none" <=> Severity(Status(o)) >= CaseSeverity(o.monitor)
<1>1. CASE o.monitor = "aml"
  <2>1. aml_status(o) \in {"escalated", "logged"}
    BY DEF aml_status
  <2>2. Status(o) = aml_status(o) /\ CaseType(o) = ingest_aml_signal(o)
    BY <1>1 DEF Status, CaseType
  <2> QED
    BY <1>1, <2>1, <2>2 DEF ingest_aml_signal, CaseIf, Severity, Severe, CaseSeverity
<1>2. CASE o.monitor = "covenant"
  <2>1. evaluate_covenant_value(o) \in {"breached", "at_risk", "compliant"}
    BY DEF evaluate_covenant_value
  <2>2. Status(o) = evaluate_covenant_value(o) /\ CaseType(o) = evaluate_covenants(o)
    BY <1>2 DEF Status, CaseType
  <2> QED
    BY <1>2, <2>1, <2>2 DEF evaluate_covenants, CaseIf, Severity, Severe, CaseSeverity
<1>3. CASE o.monitor = "sla"
  <2>1. evaluate_covenant_value(o) \in {"breached", "at_risk", "compliant"}
    BY DEF evaluate_covenant_value
  <2>2. Status(o) = evaluate_covenant_value(o) /\ CaseType(o) = evaluate_sla(o)
    BY <1>3 DEF Status, CaseType
  <2> QED
    BY <1>3, <2>1, <2>2 DEF evaluate_sla, CaseIf, Severity, Severe, CaseSeverity
<1>4. CASE o.monitor = "retention"
  <2>1. evaluate_gdpr_retention_observation(o) \in {"no_policy", "breach", "warning", "compliant"}
    BY DEF evaluate_gdpr_retention_observation
  <2>2. Status(o) = evaluate_gdpr_retention_observation(o) /\ CaseType(o) = evaluate_gdpr_retention(o)
    BY <1>4 DEF Status, CaseType
  <2> QED
    BY <1>4, <2>1, <2>2 DEF evaluate_gdpr_retention, CaseIf, Severity, Severe, CaseSeverity
<1>5. CASE o.monitor = "ropa"
  <2>1. assess_ropa_activity(o) \in {"critical", "warning", "compliant"}
    BY DEF assess_ropa_activity
  <2>2. Status(o) = assess_ropa_activity(o) /\ CaseType(o) = monitor_ropa(o)
    BY <1>5 DEF Status, CaseType
  <2> QED
    BY <1>5, <2>1, <2>2 DEF monitor_ropa, CaseIf, Severity, Severe, CaseSeverity
<1>6. CASE o.monitor = "rd_tax"
  <2>1. evaluate_rd_tax_project(o) \in {"non_compliant", "at_risk", "eligible"}
    BY DEF evaluate_rd_tax_project
  <2>2. Status(o) = evaluate_rd_tax_project(o) /\ CaseType(o) = evaluate_rd_tax(o)
    BY <1>6 DEF Status, CaseType
  <2> QED
    BY <1>6, <2>1, <2>2 DEF evaluate_rd_tax, CaseIf, Severity, Severe, CaseSeverity
<1>7. CASE o.monitor = "esg"
  <2>1. evaluate_esg_metric_observation(o) \in {"missing_required", "not_required",
                                                   "stale", "compliant"}
    BY DEF evaluate_esg_metric_observation
  <2>2. Status(o) = evaluate_esg_metric_observation(o) /\ CaseType(o) = evaluate_esg_csrd(o)
    BY <1>7 DEF Status, CaseType
  <2> QED
    BY <1>7, <2>1, <2>2 DEF evaluate_esg_csrd, CaseIf, Severity, Severe, CaseSeverity
<1>8. CASE o.monitor = "supplier"
  <2>1. assess_supplier_risk(o) \in {"critical", "warning", "stable"}
    BY DEF assess_supplier_risk
  <2>2. Status(o) = assess_supplier_risk(o) /\ CaseType(o) = evaluate_supplier_risk(o)
    BY <1>8 DEF Status, CaseType
  <2> QED
    BY <1>8, <2>1, <2>2 DEF evaluate_supplier_risk, CaseIf, Severity, Severe, CaseSeverity
<1>9. CASE o.monitor = "hs"
  <2>1. assess_hs_riddor(o) \in {"not_reportable", "reported_on_time",
                       "reported_late", "overdue", "due_soon", "pending_report"}
    BY DEF assess_hs_riddor
  <2>2. Status(o) = assess_hs_riddor(o) /\ CaseType(o) = monitor_hs_riddor(o)
    BY <1>9 DEF Status, CaseType
  <2> QED
    BY <1>9, <2>1, <2>2 DEF monitor_hs_riddor, CaseIf, Severity, Severe, CaseSeverity
<1>10. CASE o.monitor = "competitor"
  <2>1. assess_competitor_signal(o) \in {"critical", "warning", "tracking"}
    BY DEF assess_competitor_signal
  <2>2. Status(o) = assess_competitor_signal(o) /\ CaseType(o) = evaluate_competitor_signals(o)
    BY <1>10 DEF Status, CaseType
  <2> QED
    BY <1>10, <2>1, <2>2 DEF evaluate_competitor_signals, CaseIf, Severity, Severe, CaseSeverity
<1> QED
  BY <1>1, <1>2, <1>3, <1>4, <1>5, <1>6, <1>7, <1>8, <1>9, <1>10, MonitorTells

\* The observation is one of those considered.
LEMMA AlwaysObservation == ObservingSpec => [](observation \in Observations)
<1>1. ObservingInit => observation \in Observations BY DEF ObservingInit
<1>2. observation \in Observations /\ [ObservingNext]_observation
        => (observation \in Observations)'
  BY DEF ObservingNext, Worsen
<1> QED BY <1>1, <1>2, PTL DEF ObservingSpec

\* For every set of observations: a worse observation never gets a milder
\* status from any of the assessment functions.
THEOREM AssessmentsMonotone == ObservingSpec => WorseNeverLooksBetter
<1>1. observation \in Observations /\ [ObservingNext]_observation
        => [Severity(Status(observation))
              <= Severity(Status(observation'))]_observation
  BY StatusMonotone, ObservationsAssumption DEF ObservingNext, Worsen
<1> QED BY <1>1, AlwaysObservation, PTL DEF ObservingSpec, WorseNeverLooksBetter

\* For every set of observations: missing an SLA target by more never makes
\* the estimated credit smaller.
THEOREM CreditsMonotone == ObservingSpec => CreditNeverShrinks
<1>1. observation \in Observations /\ [ObservingNext]_observation
        => [observation.monitor = "sla" =>
              estimate_sla_credit(observation)
                <= estimate_sla_credit(observation')]_observation
  <2> SUFFICES ASSUME observation \in Observations,
                      NEW p \in Observations, Worsen(p),
                      observation.monitor = "sla"
               PROVE  estimate_sla_credit(observation)
                        <= estimate_sla_credit(observation')
    BY DEF ObservingNext
  <2>1. p.monitor = "sla" /\ WorseMetric(observation, p) /\ observation' = p
    BY DEF Worsen, Worse
  <2>2. observation \in SlaObservation /\ p \in SlaObservation
    BY <2>1, MonitorTells, ObservationsAssumption
  <2> QED BY <2>1, <2>2, CreditMonotone
<1> QED BY <1>1, AlwaysObservation, PTL DEF ObservingSpec, CreditNeverShrinks

\* For every set of observations: in a worse condition a subject that calls
\* for a case still calls for one.
THEOREM CasesKept == ObservingSpec => WorseStillNeedsCase
<1>1. observation \in Observations /\ [ObservingNext]_observation
        => [CaseType(observation) # "none"
              => CaseType(observation') # "none"]_observation
  <2> SUFFICES ASSUME observation \in Observations,
                      NEW p \in Observations, Worsen(p),
                      CaseType(observation) # "none"
               PROVE  CaseType(observation') # "none"
    BY DEF ObservingNext
  <2>1. observation \in Observation /\ p \in Observation /\ observation' = p
    BY ObservationsAssumption DEF Worsen
  <2>2. /\ observation.monitor = p.monitor
        /\ Severity(Status(observation)) <= Severity(Status(p))
    BY <2>1, StatusMonotone DEF Worsen, Worse
  <2>3. /\ Severity(Status(observation)) \in Int
        /\ Severity(Status(p)) \in Int
        /\ CaseSeverity(p.monitor) \in Int
    BY DEF Severity, CaseSeverity
  <2>4. Severity(Status(p)) >= CaseSeverity(p.monitor)
    BY <2>1, <2>2, <2>3, CaseBySeverity
  <2> QED BY <2>1, <2>4, CaseBySeverity
<1> QED BY <1>1, AlwaysObservation, PTL DEF ObservingSpec, WorseStillNeedsCase
=============================================================================
