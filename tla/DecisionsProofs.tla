--------------------------- MODULE DecisionsProofs ---------------------------
(* What holds of the unified decisions for any number of calls, request     *)
(* ids, contents and configurations.                                        *)
EXTENDS Decisions, TLAPS

-----------------------------------------------------------------------------
(* The invariant.                                                           *)

Outcomes == {"allow", "review", "block"}
VerdictRow ==
    [request_id : RequestIds, by : Calls, policy_version : 1..MaxVersion,
     config : DOMAIN Configs, action : Outcomes]
AuditRow == [by : Calls, outcome : Outcomes]
SignedAnswer == [signed : {TRUE}, decision : DecisionRow]
UnsignedAnswer ==
    [signed : {FALSE}, outcome : Outcomes, policy_version : 1..MaxVersion]
Phases ==
    {"idle", "find decision", "read policy", "read again", "insert policy",
     "check version", "find verdict", "insert verdict", "scan",
     "insert decision", "commit", "answered", "failed"}

Types ==
    /\ policy \in PolicyRow \union {NoRow}
    /\ verdicts \subseteq VerdictRow
    /\ decisions \subseteq DecisionRow
    /\ audited \subseteq AuditRow
    /\ phase \in [Calls -> Phases]
    /\ request \in [Calls -> Request \union {NoRequest}]
    /\ first \in [Calls -> PolicyRow \union {NoRow}]
    /\ read \in [Calls -> PolicyRow \union {NoRow}]
    /\ verdict \in [Calls -> VerdictRow \union {NoRow}]
    /\ answer \in [Calls -> SignedAnswer \union UnsignedAnswer \union {NoRow}]
    /\ own \in [Calls -> [policy : PolicyRow \union {NoRow},
                          verdicts : SUBSET VerdictRow,
                          decisions : SUBSET DecisionRow,
                          audited : SUBSET AuditRow]]

\* What a call is about and has read at each point.
AtPhase(c) ==
    /\ phase[c] \notin {"idle", "failed"} => request[c] \in Request
    /\ phase[c] \in {"find decision", "read again", "scan", "insert decision"} =>
          request[c].kind = "decide"
    /\ phase[c] = "read again" =>
          own[c].policy \in PolicyRow \/ (own[c].policy = NoRow /\ policy # NoRow)
    /\ phase[c] = "check version" => request[c].kind = "update"
    /\ phase[c] \in {"find verdict", "insert verdict"} =>
          request[c].kind \in {"decide", "screen"}
    /\ phase[c] \in {"check version", "find verdict", "insert verdict", "scan",
                     "insert decision"} =>
          first[c] \in PolicyRow /\ read[c] \in PolicyRow
    /\ phase[c] = "read again" => first[c] \in PolicyRow
    /\ phase[c] \in {"insert verdict", "scan"} => verdict[c] \in VerdictRow

\* The call has flushed the audit entry of the decision it has taken itself.
Decides(c) ==
    /\ request[c].kind = "decide"
    /\ answer[c] \in SignedAnswer
    /\ answer[c].decision.by = c /\ answer[c].decision.request_id = Id(c)
    /\ own[c].audited = {[by |-> c, outcome |-> answer[c].decision.outcome]}

\* The call answers a committed decision, or none.
Repeats(c) ==
    \/ answer[c] \in UnsignedAnswer
    \/ /\ answer[c] \in SignedAnswer
       /\ answer[c].decision \in decisions
       /\ answer[c].decision.request_id = Id(c)

\* The decision and its audit entry are flushed and committed together.
Flushed(c) ==
    /\ phase[c] \notin {"insert decision", "commit"} =>
          own[c].audited = {} /\ own[c].decisions = {}
    /\ phase[c] = "insert decision" => own[c].decisions = {} /\ Decides(c)
    /\ phase[c] = "commit" =>
          \/ own[c].decisions = {answer[c].decision} /\ Decides(c)
          \/ /\ own[c].audited = {} /\ own[c].decisions = {}
             /\ request[c].kind = "decide" => Repeats(c)
    /\ phase[c] = "answered" /\ request[c].kind = "decide" => Repeats(c)

CallInv == \A c \in Calls : AtPhase(c) /\ Flushed(c)

\* The unique index: neither committed nor flushed rows share a request id.
IndexInv ==
    /\ \A d, e \in decisions : d.request_id = e.request_id => d = e
    /\ \A c \in Calls : own[c].decisions # {} => With(decisions, Id(c)) = {}
    /\ \A c, d \in Calls :
          own[c].decisions # {} /\ own[d].decisions # {} /\ Id(c) = Id(d) => c = d

\* What is committed was committed by a call that is over.
AuditInv ==
    /\ AuditedOnce
    /\ \A d \in decisions : phase[d.by] = "answered"
    /\ \A a \in audited : phase[a.by] = "answered"

DecisionInv == Types /\ CallInv /\ IndexInv /\ AuditInv

-----------------------------------------------------------------------------
(* Facts about requests and outcomes.                                       *)

LEMMA RequestFacts ==
    ASSUME NEW q \in Request
    PROVE  /\ q.kind \in {"decide", "screen", "update", "show"}
           /\ q.kind \in {"decide", "screen"} =>
                  q.id \in RequestIds /\ q.content \in DOMAIN Contents
           /\ q.kind = "update" => q.config \in DOMAIN Configs
  BY DEF Request

LEMMA NextVersion ==
    ASSUME NEW n \in 1..MaxVersion, n < MaxVersion
    PROVE  n + 1 \in 1..MaxVersion
  BY VersionAssumption

\* Whatever the controls find, the action is one of three.
LEMMA ActionIsOutcome ==
    ASSUME NEW n \in DOMAIN Contents, NEW p \in DOMAIN Configs
    PROVE  ActionUnder[n][p] \in Outcomes
<1>1. ActionUnder[n][p] = SecurityAction(Contents[n], Configs[p])
  BY DEF ActionUnder
<1>2. \A results, config : _resolve_action(results, config) \in Outcomes
  BY DEF _resolve_action, Outcomes
<1> QED BY <1>1, <1>2 DEF SecurityAction

LEMMA OutcomeIsOutcome ==
    ASSUME NEW action \in Outcomes, NEW mode, NEW evidence
    PROVE  _resolve_outcome(action, mode, evidence) \in Outcomes
  BY DEF _resolve_outcome, Outcomes

-----------------------------------------------------------------------------
(* Steps that commit nothing.                                               *)

OthersRest(c) ==
    \A d \in Calls \ {c} :
        /\ phase'[d] = phase[d] /\ request'[d] = request[d]
        /\ first'[d] = first[d] /\ read'[d] = read[d]
        /\ verdict'[d] = verdict[d] /\ answer'[d] = answer[d] /\ own'[d] = own[d]

\* What holds of a call still does while the log only grows.
LEMMA StillHolds ==
    ASSUME NEW d, AtPhase(d), Flushed(d),
           phase'[d] = phase[d], request'[d] = request[d],
           first'[d] = first[d], read'[d] = read[d],
           verdict'[d] = verdict[d], answer'[d] = answer[d], own'[d] = own[d],
           decisions \subseteq decisions', policy # NoRow => policy' # NoRow
    PROVE  AtPhase(d)' /\ Flushed(d)'
<1>1. Id(d)' = Id(d)
  BY DEF Id
<1>2. AtPhase(d)'
  BY DEF AtPhase
<1>3. Repeats(d) => Repeats(d)'
  BY <1>1 DEF Repeats
<1>4. Decides(d) => Decides(d)'
  BY <1>1 DEF Decides
<1> QED BY <1>2, <1>3, <1>4 DEF Flushed

\* A step of one call that inserts no decision.
LEMMA StepPreserves ==
    ASSUME DecisionInv, NEW c \in Calls, OthersRest(c),
           UNCHANGED <<decisions, audited>>, phase[c] # "answered",
           Types', AtPhase(c)', Flushed(c)', policy # NoRow => policy' # NoRow,
           own'[c].decisions = {} \/ (own'[c] = own[c] /\ request'[c] = request[c])
    PROVE  DecisionInv'
<1>1. CallInv'
  <2>1. ASSUME NEW d \in Calls \ {c} PROVE AtPhase(d)' /\ Flushed(d)'
    BY StillHolds DEF DecisionInv, CallInv, OthersRest
  <2> QED BY <2>1 DEF CallInv
<1>2. IndexInv'
  <2>1. \A d \in Calls : own'[d].decisions # {} =>
            own[d].decisions # {} /\ request'[d].id = request[d].id
    BY DEF OthersRest
  <2> QED BY <2>1 DEF DecisionInv, IndexInv, Id, With
<1>3. AuditInv'
  <2>1. \A d \in decisions : d.by \in Calls
    BY DEF DecisionInv, Types, DecisionRow
  <2>2. \A a \in audited : a.by \in Calls
    BY DEF DecisionInv, Types, AuditRow
  <2> QED BY <2>1, <2>2 DEF DecisionInv, AuditInv, AuditedOnce, OthersRest
<1> QED BY <1>1, <1>2, <1>3 DEF DecisionInv

\* Each step below changes nothing of the other calls.
LEMMA BeginPreserves ==
    ASSUME DecisionInv, NEW c \in Calls, NEW q \in Requests, Begin(c, q)
    PROVE  DecisionInv'
<1> DEFINE p == IF q.kind = "decide" THEN "find decision" ELSE "read policy"
<1>1. /\ phase[c] = "idle"
      /\ phase' = [phase EXCEPT ![c] = p]
      /\ request' = [request EXCEPT ![c] = q]
      /\ UNCHANGED <<policy, verdicts, decisions, audited, updates, read, first,
                     verdict, answer, own>>
  BY DEF Begin, Goto, committed
<1>2. q \in Request
  BY RequestsAssumption
<1>3. /\ p \in {"find decision", "read policy"}
      /\ p = "find decision" => q.kind = "decide"
  OBVIOUS
<1> HIDE DEF p
<1>4. Types'
  BY <1>1, <1>2, <1>3 DEF DecisionInv, Types, Phases
<1>5. OthersRest(c) /\ phase'[c] = p /\ request'[c] = q
  BY <1>1 DEF DecisionInv, Types, OthersRest
<1>6. own[c].audited = {} /\ own[c].decisions = {}
  BY <1>1 DEF DecisionInv, CallInv, Flushed
<1>7. AtPhase(c)' /\ Flushed(c)'
  BY <1>1, <1>2, <1>3, <1>5, <1>6 DEF AtPhase, Flushed
<1> QED BY <1>1, <1>4, <1>5, <1>6, <1>7, StepPreserves

LEMMA RollbackPreserves ==
    ASSUME DecisionInv, NEW c \in Calls, Rollback(c), phase[c] # "answered"
    PROVE  DecisionInv'
<1>1. /\ phase' = [phase EXCEPT ![c] = "failed"]
      /\ own' = [own EXCEPT ![c] = NothingOwn]
      /\ request' = [request EXCEPT ![c] = NoRequest]
      /\ first' = [first EXCEPT ![c] = NoRow]
      /\ read' = [read EXCEPT ![c] = NoRow]
      /\ verdict' = [verdict EXCEPT ![c] = NoRow]
      /\ answer' = [answer EXCEPT ![c] = NoRow]
      /\ UNCHANGED <<policy, verdicts, decisions, audited, updates>>
  BY DEF Rollback, Goto, committed
<1>2. Types'
  BY <1>1 DEF DecisionInv, Types, Phases, NothingOwn
<1>3. OthersRest(c) /\ phase'[c] = "failed" /\ own'[c] = NothingOwn
  BY <1>1 DEF DecisionInv, Types, OthersRest
<1>4. own'[c].decisions = {} /\ own'[c].audited = {}
  BY <1>3 DEF NothingOwn
<1>5. AtPhase(c)' /\ Flushed(c)'
  BY <1>3, <1>4 DEF AtPhase, Flushed
<1> QED BY <1>1, <1>2, <1>3, <1>4, <1>5, StepPreserves

\* A committed decision is found, or none.
LEMMA FindDecisionPreserves ==
    ASSUME DecisionInv, NEW c \in Calls, RepeatDecision(c) \/ NoDecisionYet(c)
    PROVE  DecisionInv'
<1>1. phase[c] = "find decision" /\ request[c] \in Request /\ request[c].kind = "decide"
      /\ own[c].audited = {} /\ own[c].decisions = {}
  BY DEF RepeatDecision, NoDecisionYet, DecisionInv, CallInv, AtPhase, Flushed
<1>2. CASE NoDecisionYet(c)
  <2>1. /\ phase' = [phase EXCEPT ![c] = "read policy"]
        /\ UNCHANGED <<policy, verdicts, decisions, audited, updates, request, read,
                       first, verdict, answer, own>>
    BY <1>2 DEF NoDecisionYet, Goto, committed
  <2>2. Types'
    BY <2>1 DEF DecisionInv, Types, Phases
  <2>3. OthersRest(c) /\ phase'[c] = "read policy"
    BY <2>1 DEF DecisionInv, Types, OthersRest
  <2>4. AtPhase(c)' /\ Flushed(c)'
    BY <1>1, <2>1, <2>3 DEF AtPhase, Flushed
  <2> QED BY <1>1, <2>1, <2>2, <2>3, <2>4, StepPreserves
<1>3. CASE RepeatDecision(c)
  <2>1. PICK d \in decisions :
            /\ d.request_id = Id(c)
            /\ phase' = [phase EXCEPT ![c] = "commit"]
            /\ answer' = [answer EXCEPT ![c] = Signed(d)]
            /\ UNCHANGED <<policy, verdicts, decisions, audited, updates, request,
                           read, first, verdict, own>>
    BY <1>3 DEF RepeatDecision, Answers, With, Goto, committed
  <2>2. Signed(d) \in SignedAnswer /\ Signed(d).decision = d
    BY DEF Signed, SignedAnswer, DecisionInv, Types
  <2>3. Types'
    BY <2>1, <2>2 DEF DecisionInv, Types, Phases
  <2>4. OthersRest(c) /\ phase'[c] = "commit" /\ answer'[c] = Signed(d)
    BY <2>1 DEF DecisionInv, Types, OthersRest
  <2>5. Repeats(c)'
    BY <2>1, <2>2, <2>4 DEF Repeats, Id
  <2>6. AtPhase(c)' /\ Flushed(c)'
    BY <1>1, <2>1, <2>4, <2>5 DEF AtPhase, Flushed
  <2> QED BY <1>1, <2>1, <2>3, <2>4, <2>6, StepPreserves
<1> QED BY <1>2, <1>3

LEMMA ReadPolicyPreserves ==
    ASSUME DecisionInv, NEW c \in Calls, ReadPolicy(c)
    PROVE  DecisionInv'
<1> DEFINE p == IF policy = NoRow THEN "insert policy"
                ELSE IF request[c].kind = "update" THEN "check version"
                ELSE AfterPolicy(c)
<1>1. /\ phase[c] = "read policy"
      /\ phase' = [phase EXCEPT ![c] = p]
      /\ first' = [first EXCEPT ![c] = policy]
      /\ read' = [read EXCEPT ![c] = policy]
      /\ UNCHANGED <<policy, verdicts, decisions, audited, updates, request, verdict,
                     answer, own>>
  BY DEF ReadPolicy, Goto, committed
<1>2. /\ p \in {"insert policy", "check version", "read again", "find verdict", "commit"}
      /\ p \in {"check version", "read again", "find verdict"} => policy # NoRow
      /\ p = "check version" => request[c].kind = "update"
      /\ p = "read again" => request[c].kind = "decide"
      /\ p = "find verdict" => request[c].kind = "screen"
      /\ p = "commit" => request[c].kind # "decide"
  BY DEF AfterPolicy
<1> HIDE DEF p
<1>3. Types'
  BY <1>1, <1>2 DEF DecisionInv, Types, Phases
<1>4. OthersRest(c) /\ phase'[c] = p /\ first'[c] = policy /\ read'[c] = policy
  BY <1>1 DEF DecisionInv, Types, OthersRest
<1>5. request[c] \in Request /\ own[c].audited = {} /\ own[c].decisions = {}
  BY <1>1 DEF DecisionInv, CallInv, AtPhase, Flushed
<1>6. policy # NoRow => policy \in PolicyRow
  BY DEF DecisionInv, Types
<1>7. own[c].policy \in PolicyRow \union {NoRow}
  BY DEF DecisionInv, Types
<1>8. AtPhase(c)' /\ Flushed(c)'
  BY <1>1, <1>2, <1>4, <1>5, <1>6, <1>7 DEF AtPhase, Flushed
<1> QED BY <1>1, <1>3, <1>4, <1>5, <1>8, StepPreserves

LEMMA ReadAgainPreserves ==
    ASSUME DecisionInv, NEW c \in Calls, ReadAgain(c)
    PROVE  DecisionInv'
<1> DEFINE row == IF own[c].policy = NoRow THEN policy ELSE own[c].policy
<1>1. /\ phase[c] = "read again"
      /\ phase' = [phase EXCEPT ![c] = "find verdict"]
      /\ read' = [read EXCEPT ![c] = row]
      /\ UNCHANGED <<policy, verdicts, decisions, audited, updates, request, first,
                     verdict, answer, own>>
  BY DEF ReadAgain, Goto, committed
<1>2. /\ request[c] \in Request /\ request[c].kind = "decide"
      /\ first[c] \in PolicyRow /\ row \in PolicyRow
      /\ own[c].audited = {} /\ own[c].decisions = {}
  BY <1>1, NoRowAssumption DEF DecisionInv, Types, CallInv, AtPhase, Flushed
<1> HIDE DEF row
<1>3. Types'
  BY <1>1, <1>2 DEF DecisionInv, Types, Phases
<1>4. OthersRest(c) /\ phase'[c] = "find verdict" /\ read'[c] = row
  BY <1>1 DEF DecisionInv, Types, OthersRest
<1>5. AtPhase(c)' /\ Flushed(c)'
  BY <1>1, <1>2, <1>4 DEF AtPhase, Flushed
<1> QED BY <1>1, <1>2, <1>3, <1>4, <1>5, StepPreserves

LEMMA InsertPolicyPreserves ==
    ASSUME DecisionInv, NEW c \in Calls, InsertPolicy(c)
    PROVE  DecisionInv'
<1> DEFINE row == [version |-> 1,
                   config |-> IF request[c].kind = "update"
                              THEN request[c].config ELSE "default"]
           p == AfterPolicy(c)
           mine == [own[c] EXCEPT !.policy = row]
<1>1. /\ phase[c] = "insert policy"
      /\ phase' = [phase EXCEPT ![c] = p]
      /\ first' = [first EXCEPT ![c] = row]
      /\ read' = [read EXCEPT ![c] = row]
      /\ own' = [own EXCEPT ![c] = mine]
      /\ UNCHANGED <<policy, verdicts, decisions, audited, updates, request, verdict,
                     answer>>
  BY DEF InsertPolicy, Goto, committed
<1>2. /\ p \in {"read again", "find verdict", "commit"}
      /\ p = "read again" => request[c].kind = "decide"
      /\ p = "find verdict" => request[c].kind = "screen"
      /\ p = "commit" => request[c].kind # "decide"
  BY DEF AfterPolicy
<1>3. request[c] \in Request /\ own[c].audited = {} /\ own[c].decisions = {}
  BY <1>1 DEF DecisionInv, CallInv, AtPhase, Flushed
<1>4. row \in PolicyRow
  BY <1>3, RequestFacts, VersionAssumption, ConfigsAssumption DEF PolicyRow
<1> HIDE DEF row
<1>5. /\ mine \in [policy : PolicyRow \union {NoRow}, verdicts : SUBSET VerdictRow,
                   decisions : SUBSET DecisionRow, audited : SUBSET AuditRow]
      /\ mine.decisions = {} /\ mine.audited = {} /\ mine.policy = row
  BY <1>3, <1>4 DEF DecisionInv, Types
<1> HIDE DEF p, mine
<1>6. Types'
  BY <1>1, <1>2, <1>4, <1>5 DEF DecisionInv, Types, Phases
<1>7. /\ OthersRest(c) /\ phase'[c] = p /\ own'[c] = mine
      /\ first'[c] = row /\ read'[c] = row
  BY <1>1 DEF DecisionInv, Types, OthersRest
<1>8. AtPhase(c)' /\ Flushed(c)'
  BY <1>1, <1>2, <1>3, <1>4, <1>5, <1>7 DEF AtPhase, Flushed
<1> QED BY <1>1, <1>5, <1>6, <1>7, <1>8, StepPreserves

LEMMA UpdatePolicyPreserves ==
    ASSUME DecisionInv, NEW c \in Calls, UpdatePolicy(c)
    PROVE  DecisionInv'
<1> DEFINE row == [version |-> read[c].version + 1, config |-> request[c].config]
           mine == [own[c] EXCEPT !.policy = row]
<1>1. /\ phase[c] = "check version" /\ read[c].version < MaxVersion
      /\ phase' = [phase EXCEPT ![c] = "commit"]
      /\ own' = [own EXCEPT ![c] = mine]
      /\ UNCHANGED <<policy, verdicts, decisions, audited, updates, request, read,
                     first, verdict, answer>>
  BY DEF UpdatePolicy, Goto, committed
<1>2. /\ request[c] \in Request /\ request[c].kind = "update" /\ read[c] \in PolicyRow
      /\ own[c].audited = {} /\ own[c].decisions = {}
  BY <1>1 DEF DecisionInv, CallInv, AtPhase, Flushed
<1>3. row \in PolicyRow
  <2>1. request[c].config \in DOMAIN Configs
    BY <1>2, RequestFacts
  <2>2. read[c].version + 1 \in 1..MaxVersion
    <3>1. read[c].version \in 1..MaxVersion
      BY <1>2 DEF PolicyRow
    <3> QED BY <1>1, <3>1, NextVersion
  <2> QED BY <2>1, <2>2 DEF PolicyRow
<1> HIDE DEF row
<1>4. /\ mine \in [policy : PolicyRow \union {NoRow}, verdicts : SUBSET VerdictRow,
                   decisions : SUBSET DecisionRow, audited : SUBSET AuditRow]
      /\ mine.decisions = {} /\ mine.audited = {}
  BY <1>2, <1>3 DEF DecisionInv, Types
<1> HIDE DEF mine
<1>5. Types'
  BY <1>1, <1>4 DEF DecisionInv, Types, Phases
<1>6. OthersRest(c) /\ phase'[c] = "commit" /\ own'[c] = mine
  BY <1>1 DEF DecisionInv, Types, OthersRest
<1>7. AtPhase(c)' /\ Flushed(c)'
  BY <1>1, <1>2, <1>4, <1>6 DEF AtPhase, Flushed
<1> QED BY <1>1, <1>4, <1>5, <1>6, <1>7, StepPreserves

\* A stored verdict is taken as it is, a new one has the action of the policy
\* that was read.
LEMMA FindVerdictPreserves ==
    ASSUME DecisionInv, NEW c \in Calls, ReuseVerdict(c) \/ MakeVerdict(c)
    PROVE  DecisionInv'
<1>1. /\ phase[c] = "find verdict" /\ request[c] \in Request
      /\ request[c].kind \in {"decide", "screen"}
      /\ first[c] \in PolicyRow /\ read[c] \in PolicyRow
      /\ own[c].audited = {} /\ own[c].decisions = {}
  BY DEF ReuseVerdict, MakeVerdict, DecisionInv, CallInv, AtPhase, Flushed
<1>2. NewVerdict(c) \in VerdictRow
  <2>1. Id(c) \in RequestIds /\ request[c].content \in DOMAIN Contents
    BY <1>1, RequestFacts DEF Id
  <2>2. read[c].version \in 1..MaxVersion /\ read[c].config \in DOMAIN Configs
    BY <1>1 DEF PolicyRow
  <2>3. ActionUnder[request[c].content][read[c].config] \in Outcomes
    BY <2>1, <2>2, ActionIsOutcome
  <2> QED BY <2>1, <2>2, <2>3 DEF NewVerdict, VerdictRow
<1>3. PICK v \in VerdictRow, p \in {"scan", "commit", "insert verdict"} :
          /\ p = "scan" => request[c].kind = "decide"
          /\ p = "commit" => request[c].kind # "decide"
          /\ phase' = [phase EXCEPT ![c] = p]
          /\ verdict' = [verdict EXCEPT ![c] = v]
          /\ UNCHANGED <<policy, verdicts, decisions, audited, updates, request, read,
                         first, answer, own>>
  <2>1. CASE ReuseVerdict(c)
    <3>1. PICK v \in verdicts : verdict' = [verdict EXCEPT ![c] = v]
      BY <2>1 DEF ReuseVerdict, With
    <3>2. v \in VerdictRow
      BY DEF DecisionInv, Types
    <3> QED BY <2>1, <3>1, <3>2 DEF ReuseVerdict, AfterVerdict, Goto, committed
  <2>2. CASE MakeVerdict(c)
    BY <1>2, <2>2 DEF MakeVerdict, Goto, committed
  <2> QED BY <2>1, <2>2
<1>4. Types'
  BY <1>3 DEF DecisionInv, Types, Phases
<1>5. OthersRest(c) /\ phase'[c] = p /\ verdict'[c] = v
  BY <1>3 DEF DecisionInv, Types, OthersRest
<1>6. AtPhase(c)' /\ Flushed(c)'
  BY <1>1, <1>3, <1>5 DEF AtPhase, Flushed
<1> QED BY <1>1, <1>3, <1>4, <1>5, <1>6, StepPreserves

LEMMA InsertVerdictPreserves ==
    ASSUME DecisionInv, NEW c \in Calls, InsertVerdict(c)
    PROVE  DecisionInv'
<1> DEFINE mine == [own[c] EXCEPT !.verdicts = {verdict[c]}]
           p == AfterVerdict(c)
<1>1. /\ phase[c] = "insert verdict"
      /\ phase' = [phase EXCEPT ![c] = p]
      /\ own' = [own EXCEPT ![c] = mine]
      /\ UNCHANGED <<policy, verdicts, decisions, audited, updates, request, read,
                     first, verdict, answer>>
  BY DEF InsertVerdict, Goto, committed
<1>2. /\ request[c] \in Request /\ request[c].kind \in {"decide", "screen"}
      /\ first[c] \in PolicyRow /\ read[c] \in PolicyRow
      /\ verdict[c] \in VerdictRow
      /\ own[c].audited = {} /\ own[c].decisions = {}
  BY <1>1 DEF DecisionInv, CallInv, AtPhase, Flushed
<1>3. /\ p \in {"scan", "commit"}
      /\ p = "scan" => request[c].kind = "decide"
      /\ p = "commit" => request[c].kind # "decide"
  BY DEF AfterVerdict
<1>4. /\ mine \in [policy : PolicyRow \union {NoRow}, verdicts : SUBSET VerdictRow,
                   decisions : SUBSET DecisionRow, audited : SUBSET AuditRow]
      /\ mine.decisions = {} /\ mine.audited = {}
  BY <1>2 DEF DecisionInv, Types
<1> HIDE DEF mine, p
<1>5. Types'
  BY <1>1, <1>3, <1>4 DEF DecisionInv, Types, Phases
<1>6. OthersRest(c) /\ phase'[c] = p /\ own'[c] = mine
  BY <1>1 DEF DecisionInv, Types, OthersRest
<1>7. AtPhase(c)' /\ Flushed(c)'
  BY <1>1, <1>2, <1>3, <1>4, <1>6 DEF AtPhase, Flushed
<1> QED BY <1>1, <1>4, <1>5, <1>6, <1>7, StepPreserves

\* The audit entry is flushed with the decision that is going to be inserted.
LEMMA ScanPreserves ==
    ASSUME DecisionInv, NEW c \in Calls, Scan(c)
    PROVE  DecisionInv'
<1> DEFINE d == NewDecision(c)
           entry == [by |-> c, outcome |-> d.outcome]
           mine == [own[c] EXCEPT !.audited = {entry}]
<1>1. /\ phase[c] = "scan"
      /\ phase' = [phase EXCEPT ![c] = "insert decision"]
      /\ own' = [own EXCEPT ![c] = mine]
      /\ answer' = [answer EXCEPT ![c] = Signed(d)]
      /\ UNCHANGED <<policy, verdicts, decisions, audited, updates, request, read,
                     first, verdict>>
  BY DEF Scan, Goto, committed
<1>2. /\ request[c] \in Request /\ request[c].kind = "decide"
      /\ first[c] \in PolicyRow /\ read[c] \in PolicyRow /\ verdict[c] \in VerdictRow
      /\ own[c].audited = {} /\ own[c].decisions = {}
  BY <1>1 DEF DecisionInv, CallInv, AtPhase, Flushed
<1>3. d \in DecisionRow /\ d.by = c /\ d.request_id = Id(c)
  <2>1. Id(c) \in RequestIds
    BY <1>2, RequestFacts DEF Id
  <2>2. first[c].version \in 1..MaxVersion
    BY <1>2 DEF PolicyRow
  <2>3. _resolve_outcome(verdict[c].action, Configs[first[c].config].mode,
            _build_pii_evidence(Contents[request[c].content].pii)) \in Outcomes
    <3>1. verdict[c].action \in Outcomes
      BY <1>2 DEF VerdictRow
    <3> QED BY <3>1, OutcomeIsOutcome
  <2> QED BY <2>1, <2>2, <2>3 DEF NewDecision, DecisionRow, Outcomes
<1> HIDE DEF d
<1>4. entry \in AuditRow
  BY <1>3 DEF DecisionRow, AuditRow, Outcomes
<1>5. Signed(d) \in SignedAnswer /\ Signed(d).decision = d
  BY <1>3 DEF Signed, SignedAnswer
<1>6. /\ mine \in [policy : PolicyRow \union {NoRow}, verdicts : SUBSET VerdictRow,
                   decisions : SUBSET DecisionRow, audited : SUBSET AuditRow]
      /\ mine.decisions = {} /\ mine.audited = {entry}
  BY <1>2, <1>4 DEF DecisionInv, Types
<1> HIDE DEF mine
<1>7. Types'
  BY <1>1, <1>5, <1>6 DEF DecisionInv, Types, Phases
<1>8. /\ OthersRest(c) /\ phase'[c] = "insert decision" /\ own'[c] = mine
      /\ answer'[c] = Signed(d)
  BY <1>1 DEF DecisionInv, Types, OthersRest
<1>9. Decides(c)'
  BY <1>1, <1>2, <1>3, <1>5, <1>6, <1>8 DEF Decides, Id
<1>10. AtPhase(c)' /\ Flushed(c)'
  BY <1>1, <1>2, <1>6, <1>8, <1>9 DEF AtPhase, Flushed
<1> QED BY <1>1, <1>6, <1>7, <1>8, <1>10, StepPreserves

LEMMA ScanFailsPreserves ==
    ASSUME DecisionInv, NEW c \in Calls, ScanFails(c)
    PROVE  DecisionInv'
<1>1. /\ phase[c] = "scan"
      /\ phase' = [phase EXCEPT ![c] = "commit"]
      /\ answer' = [answer EXCEPT ![c] = Unsigned(c)]
      /\ UNCHANGED <<policy, verdicts, decisions, audited, updates, request, read,
                     first, verdict, own>>
  BY DEF ScanFails, Answers, Goto, committed
<1>2. /\ request[c] \in Request /\ first[c] \in PolicyRow /\ read[c] \in PolicyRow
      /\ own[c].audited = {} /\ own[c].decisions = {}
  BY <1>1 DEF DecisionInv, CallInv, AtPhase, Flushed
<1>3. Unsigned(c) \in UnsignedAnswer
  BY <1>2 DEF Unsigned, UnsignedAnswer, PolicyRow, Outcomes
<1>4. Types'
  BY <1>1, <1>3 DEF DecisionInv, Types, Phases
<1>5. OthersRest(c) /\ phase'[c] = "commit" /\ answer'[c] = Unsigned(c)
  BY <1>1 DEF DecisionInv, Types, OthersRest
<1>6. Repeats(c)'
  BY <1>3, <1>5 DEF Repeats
<1>7. AtPhase(c)' /\ Flushed(c)'
  BY <1>1, <1>2, <1>5, <1>6 DEF AtPhase, Flushed
<1> QED BY <1>1, <1>2, <1>4, <1>5, <1>7, StepPreserves

\* The index admits one row of a request id, committed or not.
LEMMA InsertDecisionPreserves ==
    ASSUME DecisionInv, NEW c \in Calls, InsertDecision(c)
    PROVE  DecisionInv'
<1> DEFINE mine == [own[c] EXCEPT !.decisions = {answer[c].decision}]
<1>1. /\ phase[c] = "insert decision"
      /\ ~DecisionHeld(c) /\ With(decisions, Id(c)) = {}
      /\ phase' = [phase EXCEPT ![c] = "commit"]
      /\ own' = [own EXCEPT ![c] = mine]
      /\ UNCHANGED <<policy, verdicts, decisions, audited, updates, request, read,
                     first, verdict, answer>>
  BY DEF InsertDecision, Goto, committed
<1>2. request[c] \in Request /\ Decides(c)
  BY <1>1 DEF DecisionInv, CallInv, AtPhase, Flushed
<1>3. answer[c].decision \in DecisionRow
  BY <1>2 DEF Decides, SignedAnswer
<1>4. /\ mine \in [policy : PolicyRow \union {NoRow}, verdicts : SUBSET VerdictRow,
                   decisions : SUBSET DecisionRow, audited : SUBSET AuditRow]
      /\ mine.decisions = {answer[c].decision} /\ mine.audited = own[c].audited
  BY <1>3 DEF DecisionInv, Types
<1> HIDE DEF mine
<1>5. Types'
  BY <1>1, <1>4 DEF DecisionInv, Types, Phases
<1>6. OthersRest(c) /\ phase'[c] = "commit" /\ own'[c] = mine
  BY <1>1 DEF DecisionInv, Types, OthersRest
<1>7. Decides(c)'
  BY <1>1, <1>2, <1>4, <1>6 DEF Decides, Id
<1>8. AtPhase(c)' /\ Flushed(c)'
  BY <1>1, <1>2, <1>4, <1>6, <1>7 DEF AtPhase, Flushed
<1>9. CallInv'
  <2>1. ASSUME NEW d \in Calls \ {c} PROVE AtPhase(d)' /\ Flushed(d)'
    BY <1>1, <1>6, StillHolds DEF DecisionInv, CallInv, OthersRest
  <2> QED BY <1>8, <2>1 DEF CallInv
<1>10. IndexInv'
  <2>1. ASSUME NEW d \in Calls \ {c}, own[d].decisions # {}
        PROVE  Id(d) # Id(c)
    <3>1. own[d].decisions = {answer[d].decision} /\ answer[d].decision.request_id = Id(d)
      BY <2>1 DEF DecisionInv, CallInv, Flushed, Decides
    <3>2. With(own[d].decisions, Id(c)) = {}
      BY <1>1 DEF DecisionHeld
    <3> QED BY <3>1, <3>2 DEF With
  <2>2. \A d \in Calls : own'[d].decisions # {} => With(decisions, Id(d)) = {}
    BY <1>1, <1>6 DEF DecisionInv, IndexInv, OthersRest
  <2>3. \A d, e \in Calls :
            own'[d].decisions # {} /\ own'[e].decisions # {} /\ Id(d) = Id(e) => d = e
    BY <1>6, <2>1 DEF DecisionInv, IndexInv, OthersRest
  <2>4. \A d, e \in decisions : d.request_id = e.request_id => d = e
    BY DEF DecisionInv, IndexInv
  <2> QED BY <1>1, <2>2, <2>3, <2>4 DEF IndexInv, With, Id
<1>11. AuditInv'
  <2>1. \A d \in decisions : d.by \in Calls
    BY DEF DecisionInv, Types, DecisionRow
  <2>2. \A a \in audited : a.by \in Calls
    BY DEF DecisionInv, Types, AuditRow
  <2> QED BY <1>1, <1>6, <2>1, <2>2 DEF DecisionInv, AuditInv, AuditedOnce, OthersRest
<1> QED BY <1>5, <1>9, <1>10, <1>11 DEF DecisionInv

-----------------------------------------------------------------------------
(* The commit.                                                              *)

\* What a commit adds: nothing, or the decision of the call with its entry.
LEMMA CommitAdds ==
    ASSUME DecisionInv, NEW c \in Calls, Commit(c)
    PROVE  \/ UNCHANGED <<decisions, audited>>
           \/ /\ Decides(c) /\ own[c].decisions = {answer[c].decision}
              /\ decisions' = decisions \union {answer[c].decision}
              /\ audited' = audited \union
                     {[by |-> c, outcome |-> answer[c].decision.outcome]}
<1>1. /\ phase[c] = "commit"
      /\ decisions' = decisions \union own[c].decisions
      /\ audited' = audited \union own[c].audited
  BY DEF Commit
<1>2. \/ own[c].decisions = {answer[c].decision} /\ Decides(c)
      \/ own[c].audited = {} /\ own[c].decisions = {}
  BY <1>1 DEF DecisionInv, CallInv, Flushed
<1>3. CASE own[c].decisions = {answer[c].decision} /\ Decides(c)
  BY <1>1, <1>3 DEF Decides
<1>4. CASE own[c].audited = {} /\ own[c].decisions = {}
  BY <1>1, <1>4
<1> QED BY <1>2, <1>3, <1>4

LEMMA CommitPreserves ==
    ASSUME DecisionInv, NEW c \in Calls, Commit(c)
    PROVE  DecisionInv'
<1> DEFINE x == answer[c].decision
           entry == [by |-> c, outcome |-> x.outcome]
<1>1. /\ phase[c] = "commit"
      /\ phase' = [phase EXCEPT ![c] = "answered"]
      /\ policy' \in {policy, own[c].policy} /\ (policy # NoRow => policy' # NoRow)
      /\ verdicts' = verdicts \union own[c].verdicts
      /\ own' = [own EXCEPT ![c] = NothingOwn]
      /\ verdict' = [verdict EXCEPT ![c] = NoRow]
      /\ UNCHANGED <<request, read, first, answer>>
  BY DEF Commit, Goto
<1>2. \/ UNCHANGED <<decisions, audited>>
      \/ /\ Decides(c) /\ own[c].decisions = {x}
         /\ decisions' = decisions \union {x} /\ audited' = audited \union {entry}
  BY CommitAdds
<1>3. Decides(c) => x \in DecisionRow /\ x.by = c /\ x.request_id = Id(c)
  BY DEF Decides, SignedAnswer
<1>4. Decides(c) => entry \in AuditRow /\ entry.by = c /\ entry.outcome = x.outcome
  BY <1>3 DEF DecisionRow, AuditRow, Outcomes
<1> HIDE DEF x, entry
<1>5. Types'
  <2>1. own[c] \in [policy : PolicyRow \union {NoRow}, verdicts : SUBSET VerdictRow,
                    decisions : SUBSET DecisionRow, audited : SUBSET AuditRow]
    BY DEF DecisionInv, Types
  <2>2. /\ policy' \in PolicyRow \union {NoRow} /\ verdicts' \subseteq VerdictRow
        /\ phase' \in [Calls -> Phases]
        /\ verdict' \in [Calls -> VerdictRow \union {NoRow}]
        /\ own' \in [Calls -> [policy : PolicyRow \union {NoRow},
                               verdicts : SUBSET VerdictRow,
                               decisions : SUBSET DecisionRow,
                               audited : SUBSET AuditRow]]
    BY <1>1, <2>1 DEF DecisionInv, Types, Phases, NothingOwn
  <2>3. decisions' \subseteq DecisionRow /\ audited' \subseteq AuditRow
    BY <1>2, <1>3, <1>4 DEF DecisionInv, Types
  <2> QED BY <1>1, <2>2, <2>3 DEF DecisionInv, Types
<1>6. /\ OthersRest(c) /\ phase'[c] = "answered" /\ own'[c] = NothingOwn
  BY <1>1 DEF DecisionInv, Types, OthersRest
<1>7. own'[c].audited = {} /\ own'[c].decisions = {}
  BY <1>6 DEF NothingOwn
<1>8. decisions \subseteq decisions' /\ audited \subseteq audited'
  BY <1>2
<1>9. CallInv'
  <2>1. ASSUME NEW d \in Calls \ {c} PROVE AtPhase(d)' /\ Flushed(d)'
    BY <1>1, <1>6, <1>8, StillHolds DEF DecisionInv, CallInv, OthersRest
  <2>2. AtPhase(c)'
    BY <1>1, <1>6 DEF DecisionInv, CallInv, AtPhase
  <2>3. request[c].kind = "decide" => Repeats(c)'
    <3>1. CASE Decides(c) /\ own[c].decisions = {x}
      <4>1. x \in decisions'
        BY <1>1, <3>1 DEF Commit
      <4> QED BY <1>1, <1>3, <3>1, <4>1 DEF Decides, Repeats, Id, x
    <3>2. CASE request[c].kind = "decide" => Repeats(c)
      BY <1>1, <1>8, <3>2 DEF Repeats, Id
    <3> QED BY <1>1, <3>1, <3>2 DEF DecisionInv, CallInv, Flushed, x
  <2>4. Flushed(c)'
    BY <1>1, <1>6, <1>7, <2>3 DEF Flushed
  <2> QED BY <2>1, <2>2, <2>4 DEF CallInv
<1>10. IndexInv'
  <2>1. ASSUME NEW d \in Calls, own'[d].decisions # {}
        PROVE  d # c /\ own[d].decisions # {}
    BY <1>6, <1>7, <2>1 DEF OthersRest
  <2>2. \A d, e \in decisions' : d.request_id = e.request_id => d = e
    <3>1. Decides(c) /\ own[c].decisions = {x} =>
              \A d \in decisions : d.request_id # x.request_id
      BY <1>3 DEF DecisionInv, IndexInv, With
    <3> QED BY <1>2, <3>1 DEF DecisionInv, IndexInv
  <2>3. \A d \in Calls : own'[d].decisions # {} => With(decisions', Id(d)) = {}
    <3>1. ASSUME NEW d \in Calls, own'[d].decisions # {}, Decides(c),
                 own[c].decisions = {x}
          PROVE  x.request_id # Id(d)
      BY <1>3, <2>1, <3>1 DEF DecisionInv, IndexInv
    <3> QED BY <1>2, <2>1, <3>1 DEF DecisionInv, IndexInv, With
  <2>4. \A d, e \in Calls :
            own'[d].decisions # {} /\ own'[e].decisions # {} /\ Id(d) = Id(e) => d = e
    BY <2>1 DEF DecisionInv, IndexInv
  <2> QED BY <1>1, <2>2, <2>3, <2>4 DEF IndexInv, With, Id
<1>11. AuditInv'
  <2>1. \A d \in decisions : d.by \in Calls \ {c}
    BY <1>1 DEF DecisionInv, Types, DecisionRow, AuditInv
  <2>2. \A a \in audited : a.by \in Calls \ {c}
    BY <1>1 DEF DecisionInv, Types, AuditRow, AuditInv
  <2>3. CASE UNCHANGED <<decisions, audited>>
    BY <1>6, <2>1, <2>2, <2>3 DEF DecisionInv, AuditInv, AuditedOnce, OthersRest
  <2>4. CASE /\ Decides(c)
             /\ decisions' = decisions \union {x} /\ audited' = audited \union {entry}
    <3>1. /\ \A d \in decisions' : phase'[d.by] = "answered"
          /\ \A a \in audited' : phase'[a.by] = "answered"
      BY <1>3, <1>4, <1>6, <2>1, <2>2, <2>4 DEF DecisionInv, AuditInv, OthersRest
    <3>2. \A d \in decisions' : \E a \in audited' : a.by = d.by /\ a.outcome = d.outcome
      BY <1>3, <1>4, <2>4 DEF DecisionInv, AuditInv, AuditedOnce
    <3>3. \A a \in audited' : \E d \in decisions' : a.by = d.by
      BY <1>3, <1>4, <2>4 DEF DecisionInv, AuditInv, AuditedOnce
    <3>4. \A a, b \in audited' : a.by = b.by => a = b
      BY <1>4, <2>2, <2>4 DEF DecisionInv, AuditInv, AuditedOnce
    <3> QED BY <3>1, <3>2, <3>3, <3>4 DEF AuditInv, AuditedOnce
  <2> QED BY <1>2, <2>3, <2>4
<1> QED BY <1>5, <1>9, <1>10, <1>11 DEF DecisionInv

-----------------------------------------------------------------------------
(* The log and its audit entries.                                           *)

LEMMA DecisionInitial == Init => DecisionInv
<1> SUFFICES ASSUME Init PROVE DecisionInv
  OBVIOUS
<1>1. Types
  BY DEF Init, Types, Phases, NothingOwn
<1>2. CallInv
  BY DEF Init, CallInv, AtPhase, Flushed, NothingOwn
<1>3. IndexInv
  BY DEF Init, IndexInv, NothingOwn
<1>4. AuditInv
  BY DEF Init, AuditInv, AuditedOnce
<1> QED BY <1>1, <1>2, <1>3, <1>4 DEF DecisionInv

LEMMA DecisionStep ==
    ASSUME DecisionInv, Next
    PROVE  DecisionInv'
<1>1. ASSUME NEW c \in Calls, NEW q \in Requests, Begin(c, q)
      PROVE  DecisionInv'
  BY <1>1, BeginPreserves
<1>2. ASSUME NEW c \in Calls,
             \/ PolicyExists(c) \/ VersionMismatch(c) \/ VerdictExists(c)
             \/ DecisionExists(c) \/ Fail(c)
      PROVE  DecisionInv'
  <2>1. Rollback(c) /\ phase[c] # "answered"
    BY <1>2 DEF PolicyExists, VersionMismatch, VerdictExists, DecisionExists, Fail, Open
  <2> QED BY <2>1, RollbackPreserves
<1>3. ASSUME NEW c \in Calls,
             \/ RepeatDecision(c) \/ NoDecisionYet(c) \/ ReadPolicy(c)
             \/ ReadAgain(c) \/ InsertPolicy(c) \/ UpdatePolicy(c)
      PROVE  DecisionInv'
  BY <1>3, FindDecisionPreserves, ReadPolicyPreserves, ReadAgainPreserves,
     InsertPolicyPreserves,
     UpdatePolicyPreserves
<1>4. ASSUME NEW c \in Calls,
             \/ ReuseVerdict(c) \/ MakeVerdict(c) \/ InsertVerdict(c) \/ Scan(c)
             \/ ScanFails(c) \/ InsertDecision(c) \/ Commit(c)
      PROVE  DecisionInv'
  BY <1>4, FindVerdictPreserves, InsertVerdictPreserves, ScanPreserves,
     ScanFailsPreserves, InsertDecisionPreserves, CommitPreserves
<1> QED BY <1>1, <1>2, <1>3, <1>4 DEF Next, Progress

LEMMA DecisionStutter ==
    ASSUME DecisionInv, UNCHANGED vars
    PROVE  DecisionInv'
<1>1. UNCHANGED <<policy, verdicts, decisions, audited, phase, request, read, first,
                  verdict, answer, own>>
  BY DEF vars
<1>2. Types'
  BY <1>1 DEF DecisionInv, Types
<1>3. CallInv'
  BY <1>1, StillHolds DEF DecisionInv, CallInv
<1>4. IndexInv'
  BY <1>1 DEF DecisionInv, IndexInv, With, Id
<1>5. AuditInv'
  BY <1>1 DEF DecisionInv, AuditInv, AuditedOnce
<1> QED BY <1>2, <1>3, <1>4, <1>5 DEF DecisionInv

LEMMA DecisionInvariant == Spec => []DecisionInv
<1>1. DecisionInv /\ [Next]_vars => DecisionInv'
  BY DecisionStep, DecisionStutter
<1> QED BY <1>1, DecisionInitial, PTL DEF Spec

\* A decision is stored with exactly one audit entry, of its outcome, and no
\* other entry is stored, whatever fails or loses the race for a request id
\* (evaluate_decision: the entry is flushed before the INSERT that may fail).
THEOREM EveryDecisionAuditedOnce == Spec => []AuditedOnce
<1>1. DecisionInv => AuditedOnce
  BY DEF DecisionInv, AuditInv
<1> QED BY <1>1, DecisionInvariant, PTL

-----------------------------------------------------------------------------
(* The refinement.                                                          *)

\* What the register's variables are mapped to.
Decided ==
    [i \in RequestIds |->
        IF With(decisions, i) = {} THEN NoRow
        ELSE CHOOSE d \in decisions : d.request_id = i]

\* The index makes the choice unique.
LEMMA DecidedIs ==
    ASSUME DecisionInv, NEW d \in decisions
    PROVE  d.request_id \in RequestIds /\ Decided[d.request_id] = d
<1>1. d.request_id \in RequestIds
  BY DEF DecisionInv, Types, DecisionRow
<1>2. d \in With(decisions, d.request_id)
  BY DEF With
<1>3. \A e \in decisions : e.request_id = d.request_id => e = d
  BY DEF DecisionInv, IndexInv
<1>4. (CHOOSE e \in decisions : e.request_id = d.request_id) = d
  BY <1>3
<1> QED BY <1>1, <1>2, <1>4 DEF Decided

LEMMA DecidedNothing ==
    ASSUME NEW i \in RequestIds, \A d \in decisions : d.request_id # i
    PROVE  Decided[i] = NoRow
  BY DEF Decided, With

\* A step that is not a commit decides and answers nothing.
LEMMA QuietStep ==
    ASSUME NEW c \in Calls, OthersRest(c), decisions' = decisions,
           phase[c] # "answered", phase'[c] # "answered"
    PROVE  UNCHANGED <<Decided, SignedAnswers>>
<1>1. Decided' = Decided
  BY DEF Decided, With
<1>2. \A d \in Calls :
          /\ (Answered(d) <=> Answered(d)')
          /\ Answered(d) => request'[d] = request[d] /\ answer'[d] = answer[d]
  BY DEF OthersRest, Answered
<1>3. SignedAnswers' = SignedAnswers
  BY <1>2 DEF SignedAnswers
<1> QED BY <1>1, <1>3

\* A commit decides a request id, repeats its decision, or does neither.
LEMMA CommitImplements ==
    ASSUME DecisionInv, DecisionInv', NEW c \in Calls, Commit(c)
    PROVE  [Register!Next]_<<Decided, SignedAnswers>>
<1> DEFINE x == answer[c].decision
           i == request[c].id
<1>1. /\ phase[c] = "commit" /\ phase' = [phase EXCEPT ![c] = "answered"]
      /\ UNCHANGED <<request, answer>>
  BY DEF Commit, Goto
<1>2. /\ \A d \in Calls \ {c} : Answered(d)' <=> Answered(d)
      /\ Answered(c)' /\ ~Answered(c)
  BY <1>1 DEF DecisionInv, Types, Answered
<1> DEFINE Then == Decided'
<1>5. Then = [j \in RequestIds |-> Then[j]] /\ Decided = [j \in RequestIds |-> Decided[j]]
  BY DEF Decided
<1>6. ASSUME NEW d \in decisions'
      PROVE  d.request_id \in RequestIds /\ Then[d.request_id] = d
  <2>1. d.request_id \in RequestIds
    BY DEF DecisionInv, Types, DecisionRow
  <2>2. d \in With(decisions', d.request_id)
    BY DEF With
  <2>3. \A e \in decisions' : e.request_id = d.request_id => e = d
    BY DEF DecisionInv, IndexInv
  <2>4. (CHOOSE e \in decisions' : e.request_id = d.request_id) = d
    BY <2>3
  <2> QED BY <2>1, <2>2, <2>4 DEF Decided, With
<1>7. ASSUME NEW j \in RequestIds, \A d \in decisions' : d.request_id # j
      PROVE  Then[j] = NoRow
  BY <1>7 DEF Decided, With
<1> HIDE DEF Then
<1>3. CASE request[c].kind = "decide" /\ answer[c].signed
  <2>1. SignedAnswers' = SignedAnswers \union {[call |-> c, decision |-> x]}
    BY <1>1, <1>2, <1>3 DEF SignedAnswers
  <2>2. x \in decisions' /\ x.request_id = i
    <3>1. Repeats(c)'
      BY <1>2, <1>1, <1>3 DEF DecisionInv, CallInv, Flushed, Answered
    <3> QED BY <1>1, <1>3, <3>1 DEF Repeats, UnsignedAnswer, Id
  <2>3. i \in RequestIds /\ Then[i] = x /\ x \in DecisionRow
    <3>1. x.request_id \in RequestIds /\ Then[x.request_id] = x
      BY <1>6, <2>2
    <3>2. x \in DecisionRow
      BY <2>2 DEF DecisionInv, Types
    <3> QED BY <2>2, <3>1, <3>2
  <2>4. CASE UNCHANGED <<decisions, audited>>
    <3>1. Decided' = Decided
      BY <2>4 DEF Decided, With
    <3>4. Then = Decided
      BY <3>1 DEF Then
    <3>2. Decided[i] # NoRow
      BY <2>3, <3>4, NoRowAssumption
    <3>3. Register!Repeat(c, i)
      BY <2>1, <2>3, <3>1, <3>2, <3>4 DEF Register!Repeat, Register!Answer, Decided
    <3> QED BY <2>3, <3>3 DEF Register!Next
  <2>5. CASE own[c].decisions = {x} /\ decisions' = decisions \union {x}
    <3>1. \A d \in decisions : d.request_id # i
      BY <2>5 DEF DecisionInv, IndexInv, With, Id
    <3>2. Decided[i] = NoRow
      BY <2>3, <3>1, DecidedNothing
    <3>3. \A j \in RequestIds \ {i} : Then[j] = Decided[j]
      <4>1. ASSUME NEW j \in RequestIds \ {i}, NEW d \in decisions, d.request_id = j
            PROVE  Then[j] = Decided[j]
        <5>1. d \in decisions'
          BY <2>5
        <5>2. Decided[j] = d
          BY <4>1, DecidedIs
        <5>3. Then[j] = d
          BY <1>6, <4>1, <5>1
        <5> QED BY <5>2, <5>3
      <4>2. ASSUME NEW j \in RequestIds \ {i}, \A d \in decisions : d.request_id # j
            PROVE  Then[j] = Decided[j]
        <5>1. \A d \in decisions' : d.request_id # j
          BY <2>2, <2>5, <4>2
        <5> QED BY <1>7, <4>2, <5>1, DecidedNothing
      <4> QED BY <4>1, <4>2
    <3>4. Then = [Decided EXCEPT ![i] = x]
      BY <1>5, <2>3, <3>3
    <3>5. Register!Next
      <4>1. /\ Decided[i] = NoRow /\ Decided'[i] = x /\ x \in DecisionRow
            /\ Decided' = [Decided EXCEPT ![i] = Decided'[i]]
        BY <2>3, <3>2, <3>4 DEF Then
      <4>2. \E j \in RequestIds : j = i /\ Register!Decide(c, j)
        BY <2>1, <2>3, <4>1 DEF Register!Decide, Register!Answer, Decided
      <4> QED BY <4>2 DEF Register!Next
    <3> QED BY <3>5
  <2> QED BY <2>4, <2>5, CommitAdds
<1>4. CASE ~(request[c].kind = "decide" /\ answer[c].signed)
  <2>1. SignedAnswers' = SignedAnswers
    BY <1>1, <1>2, <1>4 DEF SignedAnswers
  <2>2. ~Decides(c)
    BY <1>4 DEF Decides, SignedAnswer
  <2>3. decisions' = decisions
    BY <2>2, CommitAdds
  <2>4. Decided' = Decided
    BY <2>3 DEF Decided, With
  <2> QED BY <2>1, <2>4
<1> QED BY <1>3, <1>4

\* Only a commit makes a call an answered one.
LEMMA QuietUnlessCommit ==
    ASSUME DecisionInv, Next
    PROVE  \/ \E c \in Calls : Commit(c)
           \/ UNCHANGED <<Decided, SignedAnswers>>
<1>1. PICK c \in Calls : (\E q \in Requests : Begin(c, q)) \/ Progress(c) \/ Fail(c)
  BY DEF Next
<1>2. SUFFICES ASSUME ~Commit(c)
      PROVE  UNCHANGED <<Decided, SignedAnswers>>
  OBVIOUS
<1>3. phase \in [Calls -> Phases] /\ DOMAIN request = Calls
      /\ DOMAIN first = Calls /\ DOMAIN read = Calls
      /\ DOMAIN verdict = Calls /\ DOMAIN answer = Calls /\ DOMAIN own = Calls
  BY DEF DecisionInv, Types
<1>4. OthersRest(c) /\ decisions' = decisions /\ phase[c] # "answered"
      /\ phase'[c] # "answered"
  <2>1. CASE \E q \in Requests : Begin(c, q)
    BY <1>3, <2>1 DEF Begin, Goto, committed, OthersRest
  <2>2. CASE Rollback(c) /\ phase[c] # "answered"
    BY <1>3, <2>2 DEF Rollback, Goto, committed, OthersRest
  <2>3. CASE PolicyExists(c) \/ VersionMismatch(c) \/ VerdictExists(c)
             \/ DecisionExists(c) \/ Fail(c)
    BY <2>2, <2>3 DEF PolicyExists, VersionMismatch, VerdictExists, DecisionExists,
                      Fail, Open
  <2>4. CASE RepeatDecision(c) \/ NoDecisionYet(c) \/ ScanFails(c)
    BY <1>3, <2>4 DEF RepeatDecision, NoDecisionYet, ScanFails, Answers, Goto,
                      committed, OthersRest
  <2>5. CASE ReadPolicy(c) \/ ReadAgain(c) \/ InsertPolicy(c) \/ UpdatePolicy(c)
    BY <1>3, <2>5 DEF ReadPolicy, ReadAgain, InsertPolicy, UpdatePolicy, AfterPolicy,
                      Goto, committed, OthersRest
  <2>6. CASE ReuseVerdict(c) \/ MakeVerdict(c) \/ InsertVerdict(c)
    BY <1>3, <2>6 DEF ReuseVerdict, MakeVerdict, InsertVerdict, AfterVerdict, Goto,
                      committed, OthersRest
  <2>7. CASE Scan(c) \/ InsertDecision(c)
    BY <1>3, <2>7 DEF Scan, InsertDecision, Goto, committed, OthersRest
  <2> QED BY <1>1, <1>2, <2>1, <2>3, <2>4, <2>5, <2>6, <2>7 DEF Progress
<1> QED BY <1>4, QuietStep

\* The concurrent calls implement the register: a request id gets one decision,
\* and every signed answer is that one (evaluate_decision, the unique index of
\* unified_decision_logs).
THEOREM RegisterImplemented == Spec => ImplementsRegister
<1>1. Init => Register!Init
  BY DEF Init, Register!Init, With, SignedAnswers, Answered
<1>2. DecisionInv /\ DecisionInv' /\ [Next]_vars => [Register!Next]_(Register!vars)
  <2> SUFFICES ASSUME DecisionInv, DecisionInv', [Next]_vars
               PROVE  [Register!Next]_(Register!vars)
    OBVIOUS
  <2>1. ASSUME NEW c \in Calls, Commit(c)
        PROVE  [Register!Next]_(Register!vars)
    BY <2>1, CommitImplements DEF Register!vars, Decided
  <2>2. CASE UNCHANGED <<Decided, SignedAnswers>>
    BY <2>2 DEF Register!vars, Decided
  <2>3. CASE UNCHANGED vars
    <3>1. UNCHANGED <<decisions, phase, request, answer>>
      BY <2>3 DEF vars
    <3>2. UNCHANGED <<Decided, SignedAnswers>>
      BY <3>1 DEF Decided, With, SignedAnswers, Answered
    <3> QED BY <2>2, <3>2
  <2>4. CASE Next
    BY <2>1, <2>2, <2>4, QuietUnlessCommit
  <2> QED BY <2>3, <2>4
<1> QED BY <1>1, <1>2, DecisionInvariant, PTL DEF Spec, ImplementsRegister, Register!Spec

-----------------------------------------------------------------------------
(* Blocked requests that are allowed.                                       *)

Reused(c) == \E v \in verdicts : v.request_id = Id(c) /\ v.by # c
HasVerdict(c) == \E v \in verdicts \union own[c].verdicts : v.request_id = Id(c)
ActionNow(c) == ActionUnder[request[c].content][read[c].config]
Allows(c) ==
    IF answer[c].signed THEN answer[c].decision.outcome = "allow"
                        ELSE answer[c].outcome = "allow"
Relaxed(c) ==
    /\ ~answer[c].signed
    /\ first[c] # read[c] /\ Configs[first[c].config].mode = "monitor"
Excused(c) ==
    (read[c] # NoRow => ActionNow(c) = "block") /\ Allows(c) => Reused(c) \/ Relaxed(c)

\* Which verdict a call goes by.
GoesBy(c) ==
    /\ phase[c] = "insert verdict" => verdict[c] = NewVerdict(c)
    /\ \A v \in own[c].verdicts : v.by = c /\ v.request_id = Id(c)
    /\ own[c].verdicts # {} => phase[c] \in {"scan", "insert decision", "commit"}
    /\ phase[c] = "scan" =>
          HasVerdict(c) /\ (verdict[c].action = ActionNow(c) \/ Reused(c))
    /\ phase[c] = "insert decision" \/ own[c].decisions # {} => HasVerdict(c)
    /\ phase[c] \in {"insert decision", "commit", "answered"}
          /\ request[c].kind = "decide" => Excused(c)

\* Every decision has a verdict of its request id.
ReuseInv ==
    /\ \A v \in verdicts : phase[v.by] = "answered"
    /\ \A d \in decisions : \E v \in verdicts : v.request_id = d.request_id
    /\ \A c \in Calls : GoesBy(c)

LEMMA StillGoesBy ==
    ASSUME NEW d, GoesBy(d),
           phase'[d] = phase[d], request'[d] = request[d],
           first'[d] = first[d], read'[d] = read[d],
           verdict'[d] = verdict[d], answer'[d] = answer[d], own'[d] = own[d],
           verdicts \subseteq verdicts'
    PROVE  GoesBy(d)'
<1>1. /\ Id(d)' = Id(d) /\ NewVerdict(d)' = NewVerdict(d)
      /\ ActionNow(d)' = ActionNow(d) /\ Allows(d)' = Allows(d)
      /\ Relaxed(d)' = Relaxed(d)
  BY DEF Id, NewVerdict, ActionNow, Allows, Relaxed
<1>2. (Reused(d) => Reused(d)') /\ (HasVerdict(d) => HasVerdict(d)')
  BY <1>1 DEF Reused, HasVerdict
<1>3. Excused(d) => Excused(d)'
  BY <1>1, <1>2 DEF Excused
<1> QED BY <1>1, <1>2, <1>3 DEF GoesBy

\* A step of one call that commits nothing.
LEMMA StepKeepsReuse ==
    ASSUME DecisionInv, ReuseInv, NEW c \in Calls, OthersRest(c),
           UNCHANGED <<verdicts, decisions>>, phase[c] # "answered", GoesBy(c)'
    PROVE  ReuseInv'
<1>1. \A d \in Calls : GoesBy(d)'
  <2>1. ASSUME NEW d \in Calls \ {c} PROVE GoesBy(d)'
    BY StillGoesBy DEF ReuseInv, OthersRest
  <2> QED BY <2>1
<1>2. \A v \in verdicts : v.by \in Calls \ {c}
  BY DEF DecisionInv, Types, VerdictRow, ReuseInv
<1> QED BY <1>1, <1>2 DEF ReuseInv, OthersRest

\* Under a policy that only monitors nothing is blocked.
LEMMA MonitorBlocksNothing ==
    ASSUME NEW n \in DOMAIN Contents, NEW p \in DOMAIN Configs,
           ActionUnder[n][p] = "block"
    PROVE  Configs[p].mode = "enforce"
<1>1. ActionUnder[n][p] = SecurityAction(Contents[n], Configs[p])
  BY DEF ActionUnder
<1>2. \A results, config :
          _resolve_action(results, config) = "block" => config.mode # "monitor"
  BY DEF _resolve_action
<1>3. Configs[p].mode # "monitor"
  BY <1>1, <1>2 DEF SecurityAction
<1> QED BY <1>3, ConfigsAssumption DEF PolicyConfig

\* What the controls block is not allowed.
LEMMA BlockStays ==
    ASSUME NEW mode, NEW evidence
    PROVE  _resolve_outcome("block", mode, evidence) = "block"
  BY DEF _resolve_outcome

LEMMA ReuseStep ==
    ASSUME DecisionInv, ReuseInv, NEW c \in Calls,
           (\E q \in Requests : Begin(c, q)) \/ Progress(c) \/ Fail(c), ~Commit(c)
    PROVE  ReuseInv'
<1>1. phase \in [Calls -> Phases] /\ DOMAIN request = Calls
      /\ DOMAIN first = Calls /\ DOMAIN read = Calls
      /\ DOMAIN verdict = Calls /\ DOMAIN answer = Calls /\ DOMAIN own = Calls
      /\ own[c] \in [policy : PolicyRow \union {NoRow}, verdicts : SUBSET VerdictRow,
                     decisions : SUBSET DecisionRow, audited : SUBSET AuditRow]
  BY DEF DecisionInv, Types
<1>2. AtPhase(c) /\ Flushed(c) /\ GoesBy(c)
  BY DEF DecisionInv, CallInv, ReuseInv
<1>3. CASE \E q \in Requests : Begin(c, q)
  <2>1. PICK q \in Requests : Begin(c, q)
    BY <1>3
  <2>2. /\ OthersRest(c) /\ UNCHANGED <<verdicts, decisions>>
        /\ phase[c] = "idle" /\ phase'[c] \in {"find decision", "read policy"}
        /\ own' = own
    BY <1>1, <2>1 DEF Begin, Goto, committed, OthersRest
  <2>3. own[c].decisions = {}
    BY <1>2, <2>2 DEF Flushed
  <2>4. own[c].verdicts = {}
    BY <1>2, <2>2 DEF GoesBy
  <2> QED BY <2>2, <2>3, <2>4, StepKeepsReuse DEF GoesBy
<1>4. ASSUME Rollback(c), phase[c] # "answered"
      PROVE  ReuseInv'
  <2>1. /\ OthersRest(c) /\ UNCHANGED <<verdicts, decisions>>
        /\ phase'[c] = "failed" /\ own'[c] = NothingOwn
    BY <1>1, <1>4 DEF Rollback, Goto, committed, OthersRest
  <2>2. own'[c].verdicts = {} /\ own'[c].decisions = {}
    BY <2>1 DEF NothingOwn
  <2> QED BY <1>4, <2>1, <2>2, StepKeepsReuse DEF GoesBy
<1>5. CASE \/ PolicyExists(c) \/ VersionMismatch(c) \/ VerdictExists(c)
           \/ DecisionExists(c) \/ Fail(c)
  <2>1. Rollback(c) /\ phase[c] # "answered"
    BY <1>5 DEF PolicyExists, VersionMismatch, VerdictExists, DecisionExists, Fail, Open
  <2> QED BY <1>4, <2>1
<1>6. CASE RepeatDecision(c)
  <2>1. PICK d \in decisions : d.request_id = Id(c)
    BY <1>6 DEF RepeatDecision, With
  <2>2. /\ OthersRest(c) /\ UNCHANGED <<verdicts, decisions, request, read, first,
                                        own>>
        /\ phase[c] = "find decision" /\ phase'[c] = "commit"
    BY <1>1, <1>6 DEF RepeatDecision, Answers, Goto, committed, OthersRest
  <2>3. Reused(c)
    <3>1. PICK v \in verdicts : v.request_id = Id(c)
      BY <2>1 DEF ReuseInv
    <3>2. v.by # c
      BY <2>2 DEF ReuseInv
    <3> QED BY <3>1, <3>2 DEF Reused
  <2>4. Excused(c)'
    BY <2>2, <2>3 DEF Excused, Reused, Id
  <2>5. own[c].decisions = {} /\ own[c].verdicts = {}
    BY <1>2, <2>2 DEF Flushed, GoesBy
  <2> QED BY <2>2, <2>4, <2>5, StepKeepsReuse DEF GoesBy
<1>7. CASE \/ NoDecisionYet(c) \/ ReadPolicy(c) \/ ReadAgain(c)
           \/ InsertPolicy(c) \/ UpdatePolicy(c)
  <2>1. /\ OthersRest(c) /\ UNCHANGED <<verdicts, decisions>>
        /\ own'[c].decisions = own[c].decisions /\ own'[c].verdicts = own[c].verdicts
    <3>1. CASE NoDecisionYet(c) \/ ReadPolicy(c) \/ ReadAgain(c)
      BY <1>1, <3>1 DEF NoDecisionYet, ReadPolicy, ReadAgain, Goto, committed, OthersRest
    <3>2. CASE InsertPolicy(c)
      BY <1>1, <3>2 DEF InsertPolicy, Goto, committed, OthersRest
    <3>3. CASE UpdatePolicy(c)
      BY <1>1, <3>3 DEF UpdatePolicy, Goto, committed, OthersRest
    <3> QED BY <1>7, <3>1, <3>2, <3>3
  <2>2. /\ phase[c] \in {"find decision", "read policy", "read again",
                         "insert policy", "check version"}
        /\ phase'[c] \in {"read policy", "read again", "insert policy",
                          "check version", "find verdict", "commit"}
        /\ phase'[c] = "commit" => request'[c].kind # "decide"
    <3>1. phase[c] = "check version" => request[c].kind # "decide"
      BY <1>2 DEF AtPhase
    <3> QED BY <1>1, <1>7, <3>1 DEF NoDecisionYet, ReadPolicy, ReadAgain, InsertPolicy,
                                    UpdatePolicy, AfterPolicy, Goto
  <2>3. own[c].decisions = {} /\ own[c].verdicts = {}
    BY <1>2, <2>2 DEF Flushed, GoesBy
  <2> QED BY <2>1, <2>2, <2>3, StepKeepsReuse DEF GoesBy
<1>8. CASE ReuseVerdict(c)
  <2>1. PICK v \in verdicts : v.request_id = Id(c) /\ verdict' = [verdict EXCEPT ![c] = v]
    BY <1>8 DEF ReuseVerdict, With
  <2>2. /\ OthersRest(c) /\ UNCHANGED <<verdicts, decisions, request, read, first,
                                        own>>
        /\ phase[c] = "find verdict" /\ phase'[c] \in {"scan", "commit"}
        /\ phase'[c] = "commit" => request[c].kind # "decide"
    BY <1>1, <1>2, <1>8 DEF ReuseVerdict, AfterVerdict, Goto, committed, OthersRest
  <2>3. v.by # c
    BY <2>2 DEF ReuseInv
  <2>4. Reused(c)' /\ HasVerdict(c)'
    BY <2>1, <2>2, <2>3 DEF Reused, HasVerdict, Id
  <2>5. own[c].decisions = {} /\ own[c].verdicts = {}
    BY <1>2, <2>2 DEF Flushed, GoesBy
  <2> QED BY <2>2, <2>4, <2>5, StepKeepsReuse DEF GoesBy
<1>9. CASE MakeVerdict(c)
  <2>1. /\ OthersRest(c) /\ UNCHANGED <<verdicts, decisions, request, read, first,
                                        own>>
        /\ phase[c] = "find verdict" /\ phase'[c] = "insert verdict"
        /\ verdict'[c] = NewVerdict(c)
    BY <1>1, <1>9 DEF MakeVerdict, Goto, committed, OthersRest
  <2>2. NewVerdict(c)' = NewVerdict(c)
    BY <2>1 DEF NewVerdict, Id
  <2>3. own[c].decisions = {} /\ own[c].verdicts = {}
    BY <1>2, <2>1 DEF Flushed, GoesBy
  <2> QED BY <2>1, <2>2, <2>3, StepKeepsReuse DEF GoesBy
<1>10. CASE InsertVerdict(c)
  <2>1. /\ OthersRest(c) /\ UNCHANGED <<verdicts, decisions, request, read, first,
                                        verdict>>
        /\ phase[c] = "insert verdict" /\ phase'[c] \in {"scan", "commit"}
        /\ phase'[c] = "commit" => request[c].kind # "decide"
        /\ own'[c] = [own[c] EXCEPT !.verdicts = {verdict[c]}]
    BY <1>1, <1>2, <1>10 DEF InsertVerdict, AfterVerdict, Goto, committed, OthersRest
  <2>2. own'[c].verdicts = {verdict[c]} /\ own'[c].decisions = own[c].decisions
    BY <1>1, <2>1
  <2>3. /\ verdict[c].by = c /\ verdict[c].request_id = Id(c)
        /\ verdict[c].action = ActionNow(c)
    <3>1. verdict[c] = NewVerdict(c)
      BY <1>2, <2>1 DEF GoesBy
    <3> QED BY <3>1 DEF NewVerdict, ActionNow
  <2>4. own[c].decisions = {}
    BY <1>2, <2>1 DEF Flushed
  <2>5. Id(c)' = Id(c) /\ ActionNow(c)' = ActionNow(c)
    BY <2>1 DEF Id, ActionNow
  <2>6. HasVerdict(c)'
    BY <2>2, <2>3, <2>5 DEF HasVerdict
  <2> QED BY <2>1, <2>2, <2>3, <2>4, <2>5, <2>6, StepKeepsReuse DEF GoesBy
<1>11. ASSUME phase[c] = "scan"
       PROVE  /\ HasVerdict(c) /\ own[c].decisions = {}
              /\ request[c] \in Request /\ request[c].kind = "decide"
              /\ first[c] \in PolicyRow /\ read[c] \in PolicyRow /\ read[c] # NoRow
              /\ verdict[c].action = ActionNow(c) \/ Reused(c)
  BY <1>2, <1>11, NoRowAssumption DEF GoesBy, AtPhase, Flushed
<1>12. CASE Scan(c)
  <2>1. /\ OthersRest(c) /\ UNCHANGED <<verdicts, decisions, request, read, first>>
        /\ phase[c] = "scan" /\ phase'[c] = "insert decision"
        /\ answer'[c] = Signed(NewDecision(c))
        /\ own'[c].decisions = own[c].decisions /\ own'[c].verdicts = own[c].verdicts
    BY <1>1, <1>12 DEF Scan, Goto, committed, OthersRest
  <2>2. Id(c)' = Id(c) /\ ActionNow(c)' = ActionNow(c)
    BY <2>1 DEF Id, ActionNow
  <2>3. verdict[c].action = "block" => ~Allows(c)'
    <3>1. verdict[c].action = "block" => NewDecision(c).outcome = "block"
      BY BlockStays DEF NewDecision
    <3>2. answer'[c].signed = TRUE /\ answer'[c].decision = NewDecision(c)
      <4>1. \A d : Signed(d).signed = TRUE /\ Signed(d).decision = d
        BY DEF Signed
      <4> QED BY <2>1, <4>1
    <3> QED BY <3>1, <3>2 DEF Allows
  <2>4. Reused(c) => Reused(c)'
    BY <2>1, <2>2 DEF Reused
  <2>5. Excused(c)'
    BY <1>11, <2>1, <2>2, <2>3, <2>4 DEF Excused
  <2>6. HasVerdict(c)'
    BY <1>11, <2>1, <2>2 DEF HasVerdict
  <2> QED BY <1>2, <1>11, <2>1, <2>2, <2>5, <2>6, StepKeepsReuse DEF GoesBy
<1>13. CASE ScanFails(c)
  <2>1. /\ OthersRest(c) /\ UNCHANGED <<verdicts, decisions, request, read, first,
                                        own>>
        /\ phase[c] = "scan" /\ phase'[c] = "commit"
        /\ answer'[c] = Unsigned(c)
    BY <1>1, <1>13 DEF ScanFails, Answers, Goto, committed, OthersRest
  <2>2. Id(c)' = Id(c) /\ ActionNow(c)' = ActionNow(c)
    BY <2>1 DEF Id, ActionNow
  <2>3. ActionNow(c) = "block" /\ Allows(c)' => Relaxed(c)'
    <3>1. /\ request[c].content \in DOMAIN Contents
          /\ first[c].config \in DOMAIN Configs /\ read[c].config \in DOMAIN Configs
      BY <1>11, <2>1, RequestFacts DEF PolicyRow
    <3>2. ActionNow(c) = "block" => Configs[read[c].config].mode = "enforce"
      BY <3>1, MonitorBlocksNothing DEF ActionNow
    <3>3. Configs[first[c].config].mode \in {"enforce", "monitor"}
      BY <3>1, ConfigsAssumption DEF PolicyConfig
    <3>4. Allows(c)' => ~answer'[c].signed /\ Configs[first[c].config].mode # "enforce"
      BY <2>1 DEF Allows, Unsigned
    <3> QED BY <2>1, <3>2, <3>3, <3>4 DEF Relaxed
  <2>4. Excused(c)'
    BY <1>11, <2>1, <2>2, <2>3 DEF Excused
  <2> QED BY <1>2, <1>11, <2>1, <2>2, <2>4, StepKeepsReuse DEF GoesBy
<1>14. CASE InsertDecision(c)
  <2>1. /\ OthersRest(c) /\ UNCHANGED <<verdicts, decisions, request, read, first,
                                        answer>>
        /\ phase[c] = "insert decision" /\ phase'[c] = "commit"
        /\ own'[c].verdicts = own[c].verdicts
    BY <1>1, <1>14 DEF InsertDecision, Goto, committed, OthersRest
  <2>2. /\ Id(c)' = Id(c) /\ ActionNow(c)' = ActionNow(c)
        /\ Allows(c)' = Allows(c) /\ Relaxed(c)' = Relaxed(c)
    BY <2>1 DEF Id, ActionNow, Allows, Relaxed
  <2>3. (Reused(c) => Reused(c)') /\ (HasVerdict(c) => HasVerdict(c)')
    BY <2>1, <2>2 DEF Reused, HasVerdict
  <2>4. request[c].kind = "decide" => Excused(c)'
    BY <1>2, <2>1, <2>2, <2>3 DEF Excused, GoesBy
  <2> QED BY <1>2, <2>1, <2>2, <2>3, <2>4, StepKeepsReuse DEF GoesBy
<1> QED BY <1>3, <1>5, <1>6, <1>7, <1>8, <1>9, <1>10, <1>12, <1>13, <1>14 DEF Progress

\* The verdict is committed with the decision.
LEMMA CommitKeepsReuse ==
    ASSUME DecisionInv, ReuseInv, NEW c \in Calls, Commit(c)
    PROVE  ReuseInv'
<1>1. /\ phase[c] = "commit" /\ phase'[c] = "answered" /\ OthersRest(c)
      /\ verdicts' = verdicts \union own[c].verdicts
      /\ own'[c] = NothingOwn
      /\ UNCHANGED <<request, read, first, answer>>
  BY DEF Commit, Goto, OthersRest, DecisionInv, Types
<1>2. GoesBy(c) /\ own'[c].verdicts = {} /\ own'[c].decisions = {}
  BY <1>1 DEF ReuseInv, NothingOwn
<1>3. \A d \in Calls : GoesBy(d)'
  <2>1. ASSUME NEW d \in Calls \ {c} PROVE GoesBy(d)'
    BY <1>1, StillGoesBy DEF ReuseInv, OthersRest
  <2>2. Excused(c) => Excused(c)'
    <3>1. /\ Id(c)' = Id(c) /\ ActionNow(c)' = ActionNow(c)
          /\ Allows(c)' = Allows(c) /\ Relaxed(c)' = Relaxed(c)
      BY <1>1 DEF Id, ActionNow, Allows, Relaxed
    <3>2. Reused(c) => Reused(c)'
      BY <1>1, <3>1 DEF Reused
    <3> QED BY <1>1, <3>1, <3>2 DEF Excused
  <2>3. GoesBy(c)'
    BY <1>1, <1>2, <2>2 DEF GoesBy
  <2> QED BY <2>1, <2>3
<1>4. \A v \in verdicts' : phase'[v.by] = "answered"
  <2>1. \A v \in verdicts : v.by \in Calls \ {c}
    BY <1>1 DEF DecisionInv, Types, VerdictRow, ReuseInv
  <2>2. \A v \in verdicts : phase'[v.by] = "answered"
    BY <1>1, <2>1 DEF ReuseInv, OthersRest
  <2>3. \A v \in own[c].verdicts : v.by = c
    BY <1>2 DEF GoesBy
  <2> QED BY <1>1, <2>2, <2>3
<1>5. \A d \in decisions' : \E v \in verdicts' : v.request_id = d.request_id
  <2>1. ASSUME Decides(c), own[c].decisions = {answer[c].decision}
        PROVE  \E v \in verdicts' : v.request_id = answer[c].decision.request_id
    BY <1>1, <1>2, <2>1 DEF GoesBy, HasVerdict, Decides
  <2> QED BY <1>1, <2>1, CommitAdds DEF ReuseInv
<1> QED BY <1>3, <1>4, <1>5 DEF ReuseInv

LEMMA ReuseStutter ==
    ASSUME ReuseInv, UNCHANGED vars
    PROVE  ReuseInv'
<1>1. UNCHANGED <<verdicts, decisions, phase, request, read, first, verdict, answer,
                  own>>
  BY DEF vars
<1> QED BY <1>1, StillGoesBy DEF ReuseInv

\* A call that blocks what it is asked answers "allow" only by the verdict or
\* decision of another call with its request id, or unsigned under the mode of
\* a policy that was replaced before its controls read it: never because its
\* insert loses a race or its scan fails alone (evaluate_decision).
THEOREM AllowedOnlyByReuse == Spec => []BlockedAllowedOnlyByReuse
<1>1. Init => ReuseInv
  BY DEF Init, ReuseInv, GoesBy, NothingOwn
<1>2. DecisionInv /\ ReuseInv /\ [Next]_vars => ReuseInv'
  BY ReuseStep, CommitKeepsReuse, ReuseStutter DEF Next
<1>3. DecisionInv /\ ReuseInv => BlockedAllowedOnlyByReuse
  <2> SUFFICES ASSUME ReuseInv, NEW c \in Calls,
                      Answered(c), request[c].kind = "decide",
                      read[c] # NoRow => ActionNow(c) = "block", Allows(c)
               PROVE  Reused(c) \/ Relaxed(c)
    BY DEF BlockedAllowedOnlyByReuse, ActionNow, Allows, Reused, Relaxed
  <2> QED BY DEF ReuseInv, GoesBy, Answered, Excused
<1> QED BY <1>1, <1>2, <1>3, DecisionInvariant, PTL DEF Spec

-----------------------------------------------------------------------------
(* Versions of the policy.                                                  *)

Stored(p) == \E u \in updates : u.policy = p
Known(c, p) == p = own[c].policy \/ Stored(p)
Made(v) == [version |-> v.policy_version, config |-> v.config]
Conflict == \E u, w \in updates : u.by # w.by /\ {u.by, w.by} \in overlapped

\* A call goes by a policy that is committed, or is committed with its verdict.
Versioned(c) ==
    /\ own[c].policy # NoRow =>
          phase[c] \in {"read again", "find verdict", "insert verdict", "scan",
                        "insert decision", "commit"}
    /\ phase[c] = "check version" => Stored(read[c])
    /\ phase[c] \in {"find verdict", "insert verdict"} => Known(c, read[c])
    /\ \A v \in own[c].verdicts : Known(c, Made(v))

\* The version a call has read or is going to commit, and those it overlaps.
Later(c) ==
    /\ phase[c] = "check version" =>
          \A u \in updates :
              {c, u.by} \in overlapped \/ u.policy.version <= read[c].version
    /\ own[c].policy # NoRow =>
          \A u \in updates :
              {c, u.by} \in overlapped \/ u.policy.version < own[c].policy.version

InOrder ==
    /\ \A u, w \in updates : u.policy.version = w.policy.version => u = w
    /\ \A u \in updates : u.policy.version <= policy.version
    /\ \A c \in Calls : Later(c)

UpdateRow == [by : Calls, policy : PolicyRow]

VersionInv ==
    /\ \A c, d \in Calls : c # d /\ Open(c) /\ Open(d) => {c, d} \in overlapped
    /\ updates \subseteq UpdateRow
    /\ \A u \in updates : phase[u.by] = "answered"
    /\ policy = NoRow => updates = {}
    /\ policy # NoRow => Stored(policy)
    /\ \A v \in verdicts : Stored(Made(v))
    /\ \A c \in Calls : Versioned(c)
    /\ Conflict \/ InOrder

\* A step of one call that commits nothing.
LEMMA StepKeepsVersions ==
    ASSUME VersionInv, NEW c \in Calls, OthersRest(c),
           UNCHANGED <<policy, verdicts, updates>>, phase[c] # "answered",
           \A pair \in overlapped : c \notin pair => pair \in overlapped',
           \A d \in Calls \ {c} : Open(c)' /\ Open(d) => {c, d} \in overlapped',
           Versioned(c)', InOrder => Later(c)'
    PROVE  VersionInv'
<1>1. \A u \in updates : u.by \in Calls \ {c}
  BY DEF VersionInv, UpdateRow
<1>2. \A d \in Calls \ {c} : Open(d)' <=> Open(d)
  BY DEF OthersRest, Open
<1>3. \A d, e \in Calls : d # e /\ Open(d)' /\ Open(e)' => {d, e} \in overlapped'
  <2>1. ASSUME NEW d \in Calls, NEW e \in Calls, d # e, Open(d)', Open(e)'
        PROVE  {d, e} \in overlapped'
    <3>1. CASE d = c
      BY <1>2, <2>1, <3>1
    <3>2. CASE e = c
      <4>1. {d, e} = {e, d}
        OBVIOUS
      <4> QED BY <1>2, <2>1, <3>2, <4>1
    <3>3. CASE d # c /\ e # c
      <4>1. {d, e} \in overlapped
        BY <1>2, <2>1, <3>3 DEF VersionInv
      <4> QED BY <3>3, <4>1
    <3> QED BY <3>1, <3>2, <3>3
  <2> QED BY <2>1
<1>4. \A u \in updates : phase'[u.by] = "answered"
  BY <1>1 DEF VersionInv, OthersRest
<1>5. \A d \in Calls : Versioned(d)'
  <2>1. ASSUME NEW d \in Calls \ {c} PROVE Versioned(d)'
    <3>1. Versioned(d)
      BY DEF VersionInv
    <3>2. \A p : Stored(p)' = Stored(p) BY DEF Stored
    <3>3. \A v : Made(v)' = Made(v) BY DEF Made
    <3>4. phase'[d] = phase[d] /\ read'[d] = read[d] /\ own'[d] = own[d]
      BY DEF OthersRest
    <3> QED BY <3>1, <3>2, <3>3, <3>4 DEF Versioned, Known
  <2> QED BY <2>1
<1>6. Conflict => Conflict'
  BY <1>1 DEF Conflict
<1>7. InOrder => InOrder'
  <2> SUFFICES ASSUME InOrder PROVE InOrder'
    OBVIOUS
  <2>1. ASSUME NEW d \in Calls \ {c} PROVE Later(d)'
    <3>1. Later(d)
      BY DEF InOrder
    <3>2. \A u \in updates : {d, u.by} \in overlapped => {d, u.by} \in overlapped'
      BY <1>1
    <3> QED BY <3>1, <3>2 DEF Later, OthersRest
  <2> QED BY <2>1 DEF InOrder
<1>8. /\ updates' \subseteq UpdateRow
      /\ policy' = NoRow => updates' = {}
      /\ policy' # NoRow => Stored(policy)'
      /\ \A v \in verdicts' : Stored(Made(v))'
  BY DEF VersionInv, Stored, Made
<1> QED BY <1>3, <1>4, <1>5, <1>6, <1>7, <1>8 DEF VersionInv

LEMMA VersionStep ==
    ASSUME DecisionInv, ReuseInv, VersionInv, NEW c \in Calls,
           (\E q \in Requests : Begin(c, q)) \/ Progress(c) \/ Fail(c), ~Commit(c)
    PROVE  VersionInv'
<1>1. phase \in [Calls -> Phases] /\ DOMAIN request = Calls
      /\ DOMAIN first = Calls /\ DOMAIN read = Calls
      /\ DOMAIN verdict = Calls /\ DOMAIN answer = Calls /\ DOMAIN own = Calls
      /\ own[c] \in [policy : PolicyRow \union {NoRow}, verdicts : SUBSET VerdictRow,
                     decisions : SUBSET DecisionRow, audited : SUBSET AuditRow]
  BY DEF DecisionInv, Types
<1>2. AtPhase(c) /\ GoesBy(c) /\ Versioned(c)
  BY DEF DecisionInv, CallInv, ReuseInv, VersionInv
<1>3. InOrder => Later(c)
  BY DEF InOrder
<1>4. ASSUME Open(c), overlapped' = overlapped
      PROVE  /\ \A pair \in overlapped : c \notin pair => pair \in overlapped'
             /\ \A d \in Calls \ {c} : Open(c)' /\ Open(d) => {c, d} \in overlapped'
  BY <1>4 DEF VersionInv
<1>5. ASSUME NEW q \in Requests, Begin(c, q)
      PROVE  VersionInv'
  <2>1. /\ OthersRest(c) /\ UNCHANGED <<policy, verdicts, updates, own>>
        /\ phase[c] = "idle" /\ phase'[c] \in {"find decision", "read policy"}
        /\ overlapped' = overlapped \union {{c, d} : d \in {e \in Calls : Open(e)}}
    BY <1>1, <1>5 DEF Begin, Goto, committed, OthersRest
  <2>2. own[c].policy = NoRow /\ own[c].verdicts = {}
    BY <1>2, <2>1 DEF Versioned, GoesBy
  <2>3. Versioned(c)' /\ Later(c)'
    BY <2>1, <2>2 DEF Versioned, Later
  <2> QED BY <2>1, <2>3, StepKeepsVersions
<1>6. ASSUME Rollback(c), phase[c] # "answered"
      PROVE  VersionInv'
  <2>1. /\ OthersRest(c) /\ UNCHANGED <<policy, verdicts, updates>>
        /\ phase'[c] = "failed" /\ own'[c] = NothingOwn
        /\ overlapped' = {pair \in overlapped : c \notin pair}
    BY <1>1, <1>6 DEF Rollback, Goto, committed, OthersRest
  <2>2. own'[c].policy = NoRow /\ own'[c].verdicts = {}
    BY <2>1 DEF NothingOwn
  <2>3. Versioned(c)' /\ Later(c)' /\ ~Open(c)'
    BY <2>1, <2>2 DEF Versioned, Later, Open
  <2> QED BY <1>6, <2>1, <2>3, StepKeepsVersions
<1>7. CASE \/ PolicyExists(c) \/ VersionMismatch(c) \/ VerdictExists(c)
           \/ DecisionExists(c) \/ Fail(c)
  <2>1. Rollback(c) /\ phase[c] # "answered"
    BY <1>7 DEF PolicyExists, VersionMismatch, VerdictExists, DecisionExists, Fail, Open
  <2> QED BY <1>6, <2>1
<1>8. CASE RepeatDecision(c) \/ NoDecisionYet(c)
  <2>1. /\ OthersRest(c) /\ UNCHANGED <<policy, verdicts, updates, own, overlapped>>
        /\ phase[c] = "find decision" /\ phase'[c] \in {"commit", "read policy"}
    BY <1>1, <1>8 DEF RepeatDecision, NoDecisionYet, Answers, Goto, committed, OthersRest
  <2>2. own[c].policy = NoRow /\ own[c].verdicts = {} /\ Open(c)
    BY <1>2, <2>1 DEF Versioned, GoesBy, Open
  <2>3. Versioned(c)' /\ Later(c)'
    BY <2>1, <2>2 DEF Versioned, Later
  <2> QED BY <1>4, <2>1, <2>2, <2>3, StepKeepsVersions
<1>9. CASE ReadPolicy(c)
  <2>1. /\ OthersRest(c) /\ UNCHANGED <<policy, verdicts, updates, own, overlapped>>
        /\ phase[c] = "read policy" /\ read'[c] = policy
        /\ phase'[c] \in {"insert policy", "check version", "read again",
                          "find verdict", "commit"}
        /\ phase'[c] \in {"check version", "find verdict"} => policy # NoRow
    BY <1>1, <1>9 DEF ReadPolicy, AfterPolicy, Goto, committed, OthersRest
  <2>2. own[c].policy = NoRow /\ own[c].verdicts = {} /\ Open(c)
    BY <1>2, <2>1 DEF Versioned, GoesBy, Open
  <2>3. policy # NoRow => Stored(policy)
    BY DEF VersionInv
  <2>4. Versioned(c)'
    BY <2>1, <2>2, <2>3 DEF Versioned, Known, Stored
  <2>5. InOrder => Later(c)'
    BY <2>1, <2>2 DEF InOrder, Later
  <2> QED BY <1>4, <2>1, <2>2, <2>4, <2>5, StepKeepsVersions
<1>10. CASE InsertPolicy(c)
  <2>1. PICK row :
          /\ OthersRest(c) /\ UNCHANGED <<policy, verdicts, updates, overlapped>>
          /\ phase[c] = "insert policy"
          /\ phase'[c] \in {"read again", "find verdict", "commit"}
          /\ policy = NoRow /\ read'[c] = row
          /\ own'[c] = [own[c] EXCEPT !.policy = row]
    BY <1>1, <1>10 DEF InsertPolicy, AfterPolicy, Goto, committed, OthersRest
  <2>2. own'[c].policy = row /\ own'[c].verdicts = own[c].verdicts
    BY <1>1, <2>1
  <2>3. own[c].verdicts = {} /\ updates = {} /\ Open(c)
    BY <1>2, <2>1 DEF GoesBy, VersionInv, Open
  <2>4. Versioned(c)' /\ Later(c)'
    BY <2>1, <2>2, <2>3 DEF Versioned, Known, Later
  <2> QED BY <1>4, <2>1, <2>3, <2>4, StepKeepsVersions
<1>11. CASE UpdatePolicy(c)
  <2>1. PICK row :
          /\ OthersRest(c) /\ UNCHANGED <<policy, verdicts, updates, overlapped>>
          /\ phase[c] = "check version" /\ phase'[c] = "commit"
          /\ row = [version |-> read[c].version + 1, config |-> request[c].config]
          /\ own'[c] = [own[c] EXCEPT !.policy = row]
    BY <1>1, <1>11 DEF UpdatePolicy, Goto, committed, OthersRest
  <2>2. own'[c].policy = row /\ own'[c].verdicts = own[c].verdicts
    BY <1>1, <2>1
  <2>3. own[c].verdicts = {} /\ Open(c)
    BY <1>2, <2>1 DEF GoesBy, Open
  <2>4. Versioned(c)'
    BY <2>1, <2>2, <2>3 DEF Versioned
  <2>5. InOrder => Later(c)'
    <3>1. read[c].version \in Nat /\ row.version = read[c].version + 1
      <4>1. read[c] \in PolicyRow
        BY <1>2, <2>1 DEF AtPhase
      <4>2. read[c].version \in Nat
        BY <4>1 DEF PolicyRow
      <4> QED BY <2>1, <4>2
    <3>2. \A u \in updates : u.policy.version \in Nat
      BY DEF VersionInv, UpdateRow, PolicyRow
    <3>3. InOrder => \A u \in updates :
                         {c, u.by} \in overlapped \/ u.policy.version <= read[c].version
      BY <1>3, <2>1 DEF Later
    <3>4. InOrder => \A u \in updates :
                         {c, u.by} \in overlapped \/ u.policy.version < row.version
      BY <3>1, <3>2, <3>3
    <3> QED BY <2>1, <2>2, <3>4 DEF Later
  <2> QED BY <1>4, <2>1, <2>3, <2>4, <2>5, StepKeepsVersions
<1>12. CASE ReuseVerdict(c) \/ Scan(c) \/ ScanFails(c) \/ InsertDecision(c)
  <2>1. /\ OthersRest(c) /\ UNCHANGED <<policy, verdicts, updates, overlapped>>
        /\ phase[c] \in {"find verdict", "scan", "insert decision"}
        /\ phase'[c] \in {"scan", "insert decision", "commit"}
        /\ own'[c].policy = own[c].policy /\ own'[c].verdicts = own[c].verdicts
    <3>1. CASE ReuseVerdict(c)
      BY <1>1, <3>1 DEF ReuseVerdict, AfterVerdict, Goto, committed, OthersRest
    <3>2. CASE Scan(c)
      BY <1>1, <3>2 DEF Scan, Goto, committed, OthersRest
    <3>3. CASE ScanFails(c)
      BY <1>1, <3>3 DEF ScanFails, Answers, Goto, committed, OthersRest
    <3>4. CASE InsertDecision(c)
      BY <1>1, <3>4 DEF InsertDecision, Goto, committed, OthersRest
    <3> QED BY <1>12, <3>1, <3>2, <3>3, <3>4
  <2>2. Open(c)
    BY <2>1 DEF Open
  <2>3. Versioned(c)'
    BY <1>2, <2>1 DEF Versioned, Known, Stored, Made
  <2>4. InOrder => Later(c)'
    BY <1>3, <2>1 DEF Later
  <2> QED BY <1>4, <2>1, <2>2, <2>3, <2>4, StepKeepsVersions
<1>13. CASE MakeVerdict(c)
  <2>1. /\ OthersRest(c)
        /\ UNCHANGED <<policy, verdicts, updates, read, first, own, overlapped>>
        /\ phase[c] = "find verdict" /\ phase'[c] = "insert verdict"
    BY <1>1, <1>13 DEF MakeVerdict, Goto, committed, OthersRest
  <2>2. own[c].verdicts = {} /\ Open(c)
    BY <1>2, <2>1 DEF GoesBy, Open
  <2>3. Versioned(c)'
    BY <1>2, <2>1, <2>2 DEF Versioned, Known, Stored
  <2>4. InOrder => Later(c)'
    BY <1>3, <2>1 DEF Later
  <2> QED BY <1>4, <2>1, <2>2, <2>3, <2>4, StepKeepsVersions
<1>14. CASE InsertVerdict(c)
  <2>1. /\ OthersRest(c)
        /\ UNCHANGED <<policy, verdicts, updates, read, first, verdict, overlapped>>
        /\ phase[c] = "insert verdict" /\ phase'[c] \in {"scan", "commit"}
        /\ own'[c] = [own[c] EXCEPT !.verdicts = {verdict[c]}]
    BY <1>1, <1>14 DEF InsertVerdict, AfterVerdict, Goto, committed, OthersRest
  <2>2. own'[c].policy = own[c].policy /\ own'[c].verdicts = {verdict[c]} /\ Open(c)
    BY <1>1, <2>1 DEF Open
  <2>3. Made(verdict[c]) = read[c]
    <3>1. read[c] \in PolicyRow /\ verdict[c] = NewVerdict(c)
      BY <1>2, <2>1 DEF AtPhase, GoesBy
    <3> QED BY <3>1 DEF Made, NewVerdict, PolicyRow
  <2>4. Known(c, read[c])
    BY <1>2, <2>1 DEF Versioned
  <2>5. Versioned(c)'
    BY <1>2, <2>1, <2>2, <2>3, <2>4 DEF Versioned, Known, Stored
  <2>6. InOrder => Later(c)'
    BY <1>3, <2>1, <2>2 DEF Later
  <2> QED BY <1>4, <2>1, <2>2, <2>5, <2>6, StepKeepsVersions
<1>15. CASE ReadAgain(c)
  <2>1. /\ OthersRest(c) /\ UNCHANGED <<policy, verdicts, updates, own, overlapped>>
        /\ phase[c] = "read again" /\ phase'[c] = "find verdict"
        /\ read'[c] = IF own[c].policy = NoRow THEN policy ELSE own[c].policy
    BY <1>1, <1>15 DEF ReadAgain, Goto, committed, OthersRest
  <2>2. own[c].verdicts = {} /\ Open(c)
    BY <1>2, <2>1 DEF GoesBy, Open
  <2>3. own[c].policy = NoRow => Stored(policy)
    BY <1>2, <2>1, NoRowAssumption DEF AtPhase, VersionInv
  <2>4. Versioned(c)'
    BY <2>1, <2>2, <2>3 DEF Versioned, Known, Stored
  <2>5. InOrder => Later(c)'
    BY <1>3, <2>1 DEF Later
  <2> QED BY <1>4, <2>1, <2>2, <2>4, <2>5, StepKeepsVersions
<1> QED BY <1>5, <1>7, <1>8, <1>9, <1>10, <1>11, <1>12, <1>13, <1>14, <1>15
    DEF Progress

\* An update that committed while this call was open is in conflict with it;
\* without one the call commits the next version.
LEMMA CommitKeepsVersions ==
    ASSUME DecisionInv, VersionInv, NEW c \in Calls, Commit(c)
    PROVE  VersionInv'
<1> DEFINE new == [by |-> c, policy |-> own[c].policy]
<1>1. /\ phase[c] = "commit" /\ phase'[c] = "answered" /\ OthersRest(c)
      /\ policy' = IF own[c].policy = NoRow THEN policy ELSE own[c].policy
      /\ verdicts' = verdicts \union own[c].verdicts
      /\ own'[c] = NothingOwn
      /\ UNCHANGED <<request, read, first, answer, overlapped>>
  BY DEF Commit, Goto, OthersRest, DecisionInv, Types
<1>2. IF own[c].policy = NoRow THEN updates' = updates
                              ELSE updates' = updates \union {new}
  BY DEF Commit
<1>3. own[c].policy # NoRow => own[c].policy \in PolicyRow /\ new \in UpdateRow
  BY DEF DecisionInv, Types, UpdateRow
<1>4. new.by = c /\ new.policy = own[c].policy
  OBVIOUS
<1> HIDE DEF new
<1>5. updates \subseteq updates'
      /\ \A u \in updates' : u \in updates \/ (u = new /\ own[c].policy # NoRow)
  BY <1>2
<1>6. \A u \in updates : u.by \in Calls \ {c} /\ u.policy.version \in Nat
  BY <1>1 DEF VersionInv, UpdateRow, PolicyRow
<1>7. own'[c].policy = NoRow /\ own'[c].verdicts = {}
  BY <1>1 DEF NothingOwn
<1>8. \A p : Known(c, p) /\ p # NoRow => \E u \in updates' : u.policy = p
  BY <1>2, <1>4 DEF Known, Stored
<1>9. \A p : Stored(p) => \E u \in updates' : u.policy = p
  BY <1>5 DEF Stored
<1>10. \A d, e \in Calls : d # e /\ Open(d)' /\ Open(e)' => {d, e} \in overlapped'
  <2>1. \A d \in Calls : Open(d)' => d # c /\ Open(d)
    BY <1>1 DEF Open, OthersRest
  <2> QED BY <1>1, <2>1 DEF VersionInv
<1>11. updates' \subseteq UpdateRow /\ \A u \in updates' : phase'[u.by] = "answered"
  BY <1>1, <1>3, <1>4, <1>5, <1>6 DEF VersionInv, OthersRest
<1>12. /\ policy' = NoRow => updates' = {}
       /\ policy' # NoRow => \E u \in updates' : u.policy = policy'
  <2>1. CASE own[c].policy = NoRow
    BY <1>1, <1>2, <1>9, <2>1 DEF VersionInv
  <2>2. CASE own[c].policy # NoRow
    BY <1>1, <1>2, <1>4, <2>2
  <2> QED BY <2>1, <2>2
<1>13. \A v \in verdicts' : Stored(Made(v))'
  <2>1. \A v \in verdicts : \E u \in updates' : u.policy = Made(v)
    BY <1>9 DEF VersionInv
  <2>2. \A v \in own[c].verdicts : Known(c, Made(v)) /\ Made(v) # NoRow
    <3>1. \A v \in own[c].verdicts : v \in VerdictRow
      BY DEF DecisionInv, Types
    <3>2. \A v \in VerdictRow : Made(v) \in PolicyRow
      BY DEF Made, VerdictRow, PolicyRow
    <3> QED BY <3>1, <3>2, NoRowAssumption DEF VersionInv, Versioned
  <2>3. \A v \in own[c].verdicts : \E u \in updates' : u.policy = Made(v)
    BY <1>8, <2>2
  <2> QED BY <1>1, <2>1, <2>3 DEF Stored, Made
<1>14. \A d \in Calls : Versioned(d)'
  <2>1. ASSUME NEW d \in Calls \ {c} PROVE Versioned(d)'
    <3>1. Versioned(d)
      BY DEF VersionInv
    <3>2. phase'[d] = phase[d] /\ read'[d] = read[d] /\ own'[d] = own[d]
      BY <1>1 DEF OthersRest
    <3>3. \A p : Known(d, p) => (p = own[d].policy \/ \E u \in updates' : u.policy = p)
      BY <1>9 DEF Known
    <3>4. \A v \in own[d].verdicts :
              Made(v) = own[d].policy \/ \E u \in updates' : u.policy = Made(v)
      BY <3>1, <3>3 DEF Versioned
    <3>5. phase[d] = "check version" => \E u \in updates' : u.policy = read[d]
      BY <1>9, <3>1 DEF Versioned
    <3>6. phase[d] \in {"find verdict", "insert verdict"} =>
              read[d] = own[d].policy \/ \E u \in updates' : u.policy = read[d]
      BY <3>1, <3>3 DEF Versioned
    <3> QED BY <3>1, <3>2, <3>4, <3>5, <3>6 DEF Versioned, Known, Stored, Made
  <2>2. Versioned(c)'
    BY <1>1, <1>7 DEF Versioned
  <2> QED BY <2>1, <2>2
<1>15. Conflict' \/ InOrder'
  <2> SUFFICES ASSUME ~Conflict' PROVE InOrder'
    OBVIOUS
  <2>1. InOrder
    <3>1. ~Conflict
      BY <1>1, <1>5 DEF Conflict
    <3> QED BY <3>1 DEF VersionInv
  <2>2. CASE own[c].policy = NoRow
    <3>1. policy' = policy /\ updates' = updates
      BY <1>1, <1>2, <2>2
    <3>2. ASSUME NEW d \in Calls PROVE Later(d)'
      <4>1. CASE d = c
        BY <1>1, <1>7, <4>1 DEF Later
      <4>2. CASE d # c
        BY <1>1, <2>1, <3>1, <4>2 DEF InOrder, Later, OthersRest
      <4> QED BY <4>1, <4>2
    <3> QED BY <2>1, <3>1, <3>2 DEF InOrder
  <2>3. CASE own[c].policy # NoRow
    <3>1. policy' = own[c].policy /\ updates' = updates \union {new}
      BY <1>1, <1>2, <2>3
    <3>2. \A u \in updates : {c, u.by} \notin overlapped
      BY <1>1, <1>4, <1>6, <3>1 DEF Conflict
    <3>3. own[c].policy.version \in Nat
      BY <1>3, <2>3 DEF PolicyRow
    <3>4. \A u \in updates : u.policy.version < own[c].policy.version
      BY <2>1, <2>3, <3>2 DEF InOrder, Later
    <3>5. \A u, w \in updates' : u.policy.version = w.policy.version => u = w
      BY <1>4, <1>6, <2>1, <3>1, <3>3, <3>4 DEF InOrder
    <3>6. \A u \in updates' : u.policy.version <= policy'.version
      BY <1>4, <1>6, <3>1, <3>3, <3>4
    <3>7. ASSUME NEW d \in Calls PROVE Later(d)'
      <4>1. CASE d = c
        BY <1>1, <1>7, <4>1 DEF Later
      <4>2. CASE d # c
        <5>1. Open(d) => {d, c} \in overlapped
          BY <1>1, <4>2 DEF VersionInv, Open
        <5>2. phase[d] = "check version" \/ own[d].policy # NoRow => Open(d)
          BY DEF VersionInv, Versioned, Open
        <5>3. Later(d)
          BY <2>1 DEF InOrder
        <5> QED BY <1>1, <1>4, <3>1, <4>2, <5>1, <5>2, <5>3 DEF Later, OthersRest
      <4> QED BY <4>1, <4>2
    <3> QED BY <3>5, <3>6, <3>7 DEF InOrder
  <2> QED BY <2>2, <2>3
<1> QED BY <1>10, <1>11, <1>12, <1>13, <1>14, <1>15 DEF VersionInv, Stored, Made

LEMMA VersionStutter ==
    ASSUME VersionInv, UNCHANGED vars
    PROVE  VersionInv'
<1>1. UNCHANGED <<policy, verdicts, phase, read, first, own, updates, overlapped>>
  BY DEF vars
<1>2. \A c \in Calls : Versioned(c)'
  BY <1>1 DEF VersionInv, Versioned, Known, Stored, Made
<1>3. Conflict' \/ InOrder'
  BY <1>1 DEF VersionInv, Conflict, InOrder, Later
<1>4. /\ \A c, d \in Calls : c # d /\ Open(c)' /\ Open(d)' => {c, d} \in overlapped'
      /\ \A v \in verdicts' : Stored(Made(v))'
  BY <1>1 DEF VersionInv, Open, Stored, Made
<1> QED BY <1>1, <1>2, <1>3, <1>4 DEF VersionInv, Stored

\* While no two updates overlap, a version names one configuration; and every
\* stored verdict was made under a committed version, also when the update or
\* the first request that created it is the one that stored the verdict
\* (update_policy, get_or_create_policy).
THEOREM VersionsNameOnePolicy == Spec => []VersionsNamePolicies
<1>1. Init => ReuseInv
  BY DEF Init, ReuseInv, GoesBy, NothingOwn
<1>2. DecisionInv /\ ReuseInv /\ [Next]_vars => ReuseInv'
  BY ReuseStep, CommitKeepsReuse, ReuseStutter DEF Next
<1>3. Init => VersionInv
  <2> SUFFICES ASSUME Init PROVE VersionInv
    OBVIOUS
  <2>1. \A c \in Calls : Versioned(c) /\ Later(c) /\ ~Open(c)
    BY DEF Init, Versioned, Later, NothingOwn, Open
  <2> QED BY <2>1 DEF Init, VersionInv, InOrder
<1>4. DecisionInv /\ ReuseInv /\ VersionInv /\ [Next]_vars => VersionInv'
  BY VersionStep, CommitKeepsVersions, VersionStutter DEF Next
<1>5. VersionInv => VersionsNamePolicies
  BY DEF VersionInv, InOrder, Conflict, Stored, Made, VersionsNamePolicies
<1> QED BY <1>1, <1>2, <1>3, <1>4, <1>5, DecisionInvariant, PTL DEF Spec
=============================================================================
