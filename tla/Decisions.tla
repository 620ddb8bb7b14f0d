----------------------------- MODULE Decisions -----------------------------
(***************************************************************************)
(* Agent-security policies and decisions of one tenant, as concurrent      *)
(* calls: POST /v1/decisions/evaluate ("decide"), POST                     *)
(* /v1/agent-security/decision/evaluate ("screen"), PUT and GET            *)
(* /v1/agent-security/policy ("update", "show").                           *)
(*                                                                         *)
(* A call is one transaction at READ COMMITTED, committed by get_db after  *)
(* the handler returns.  The unique indexes on the tenant's policy and on  *)
(* (tenant, request id) in both logs make an INSERT wait for another       *)
(* uncommitted one and fail if that is committed.  A call without a        *)
(* request id gets a fresh one: an id of its own here.                     *)
(***************************************************************************)
EXTENDS AgentSecurity

CONSTANTS Calls,       \* calls, each made once
          RequestIds,
          Contents,    \* named contents of requests
          Configs,     \* named configurations of the policy
          Requests,    \* what the calls may ask for
          MaxVersion,  \* bound: versions of the policy
          NoRow        \* no policy, verdict or answer

\* A screening or decision on a content, or an update with its configuration
\* (expected is 0 when no version is expected).
Request ==
    [kind : {"decide", "screen"}, id : RequestIds, content : DOMAIN Contents]
    \union
    [kind : {"update"}, config : DOMAIN Configs, expected : 0..MaxVersion]
    \union
    [kind : {"show"}]

ASSUME CallsAssumption == IsFiniteSet(Calls)
ASSUME VersionAssumption == MaxVersion \in Nat \ {0}
ASSUME ConfigsAssumption ==
    /\ "default" \in DOMAIN Configs /\ Configs["default"] = DefaultConfig
    /\ \A n \in DOMAIN Configs : Configs[n] \in PolicyConfig
ASSUME RequestsAssumption == Requests \subseteq Request

\* The policy and the decision log.
PolicyRow == [version : 1..MaxVersion, config : DOMAIN Configs]
DecisionRow ==
    [request_id : RequestIds, by : Calls, policy_version : 1..MaxVersion,
     outcome : {"allow", "review", "block"}]

ASSUME NoRowAssumption == NoRow \notin PolicyRow \union DecisionRow

VARIABLES
    policy,     \* the committed policy row: version and configuration
    verdicts,   \* committed agent_security_decision_logs
    decisions,  \* committed unified_decision_logs
    audited,    \* committed audit entries of decisions
    phase,      \* what each call does next
    request,    \* what it asks for
    first,      \* the policy it has read first
    read,       \* the policy it has read last
    verdict,    \* the security decision it goes by
    answer,     \* what it is going to answer, or has answered
    own,        \* its uncommitted rows
    updates,    \* history: the policies committed, and by whom
    overlapped  \* history: pairs of calls open at the same time, without
                \* those rolled back

vars == <<policy, verdicts, decisions, audited, phase, request, first, read,
          verdict, answer, own, updates, overlapped>>

-----------------------------------------------------------------------------
NothingOwn == [policy |-> NoRow, verdicts |-> {}, decisions |-> {}, audited |-> {}]
NoRequest == [kind |-> "none"]

\* The security action on each content under each configuration.
ActionUnder ==
    [n \in DOMAIN Contents |->
        [p \in DOMAIN Configs |-> SecurityAction(Contents[n], Configs[p])]]

Open(c) == phase[c] \notin {"idle", "answered", "failed"}
With(log, id) == {row \in log : row.request_id = id}
Id(c) == request[c].id

Init ==
    /\ policy = NoRow
    /\ verdicts = {} /\ decisions = {} /\ audited = {}
    /\ phase = [c \in Calls |-> "idle"]
    /\ request = [c \in Calls |-> NoRequest]
    /\ first = [c \in Calls |-> NoRow]
    /\ read = [c \in Calls |-> NoRow]
    /\ verdict = [c \in Calls |-> NoRow]
    /\ answer = [c \in Calls |-> NoRow]
    /\ own = [c \in Calls |-> NothingOwn]
    /\ updates = {} /\ overlapped = {}

Goto(c, p) == phase' = [phase EXCEPT ![c] = p]

committed == <<policy, verdicts, decisions, audited, updates>>

\* Only a decision looks for an earlier answer before the policy is read.
Begin(c, q) ==
    /\ phase[c] = "idle"
    /\ Goto(c, IF q.kind = "decide" THEN "find decision" ELSE "read policy")
    /\ request' = [request EXCEPT ![c] = q]
    /\ overlapped' = overlapped \union {{c, d} : d \in {e \in Calls : Open(e)}}
    /\ UNCHANGED <<committed, read, first, verdict, answer, own>>

Answers(c, a) ==
    /\ answer' = [answer EXCEPT ![c] = a]
    /\ Goto(c, "commit")

Signed(d) == [signed |-> TRUE, decision |-> d]

RepeatDecision(c) ==
    /\ phase[c] = "find decision"
    /\ \E d \in With(decisions, Id(c)) : Answers(c, Signed(d))
    /\ UNCHANGED <<committed, request, read, first, verdict, own, overlapped>>

NoDecisionYet(c) ==
    /\ phase[c] = "find decision"
    /\ With(decisions, Id(c)) = {}
    /\ Goto(c, "read policy")
    /\ UNCHANGED <<committed, request, read, first, verdict, answer, own, overlapped>>

-----------------------------------------------------------------------------
(* The end of a transaction.                                               *)

\* Variant: the connection goes back to the pool in its transaction.
Rollback_pooled(c) ==
    /\ Goto(c, "failed")
    /\ request' = [request EXCEPT ![c] = NoRequest]
    /\ overlapped' = {pair \in overlapped : c \notin pair}
    /\ UNCHANGED <<committed, read, first, verdict, answer, own>>

Rollback(c) ==
    /\ Goto(c, "failed")
    /\ own' = [own EXCEPT ![c] = NothingOwn]
    /\ request' = [request EXCEPT ![c] = NoRequest]
    /\ first' = [first EXCEPT ![c] = NoRow]
    /\ read' = [read EXCEPT ![c] = NoRow]
    /\ verdict' = [verdict EXCEPT ![c] = NoRow]
    /\ answer' = [answer EXCEPT ![c] = NoRow]
    /\ overlapped' = {pair \in overlapped : c \notin pair}
    /\ UNCHANGED committed

\* Any failure of a statement, of the commit, of the process.  A failed flush
\* leaves a session that cannot commit, whoever catches the exception.
Fail(c) == Open(c) /\ Rollback(c)

Commit(c) ==
    /\ phase[c] = "commit"
    /\ Goto(c, "answered")
    /\ policy' = IF own[c].policy = NoRow THEN policy ELSE own[c].policy
    /\ updates' = updates \union
          {[by |-> c, policy |-> p] : p \in {own[c].policy} \ {NoRow}}
    /\ verdicts' = verdicts \union own[c].verdicts
    /\ decisions' = decisions \union own[c].decisions
    /\ audited' = audited \union own[c].audited
    /\ own' = [own EXCEPT ![c] = NothingOwn]
    /\ verdict' = [verdict EXCEPT ![c] = NoRow]
    /\ UNCHANGED <<request, read, first, answer, overlapped>>

-----------------------------------------------------------------------------
(* The policy: get_or_create_policy and update_policy.                     *)

\* What the policy is read for.  A decision calls get_or_create_policy once
\* for its own outcome and, in the security decision, once more.
AfterPolicy(c) ==
    IF request[c].kind = "decide" THEN "read again"
    ELSE IF request[c].kind = "screen" THEN "find verdict" ELSE "commit"

ReadPolicy(c) ==
    /\ phase[c] = "read policy"
    /\ first' = [first EXCEPT ![c] = policy]
    /\ read' = [read EXCEPT ![c] = policy]
    /\ Goto(c, IF policy = NoRow THEN "insert policy"
               ELSE IF request[c].kind = "update" THEN "check version"
               ELSE AfterPolicy(c))
    /\ UNCHANGED <<committed, request, verdict, answer, own, overlapped>>

\* The row of the call itself or the committed one.  The response read first
\* is a copy and its row is held by nobody, so that the second SELECT loads
\* what has been committed meanwhile.
ReadAgain(c) ==
    /\ phase[c] = "read again"
    /\ read' = [read EXCEPT ![c] =
                   IF own[c].policy = NoRow THEN policy ELSE own[c].policy]
    /\ Goto(c, "find verdict")
    /\ UNCHANGED <<committed, request, first, verdict, answer, own, overlapped>>

PolicyHeld(c) == \E d \in Calls \ {c} : own[d].policy # NoRow

\* The first version, of the update or the default.
InsertPolicy(c) ==
    /\ phase[c] = "insert policy"
    /\ ~PolicyHeld(c) /\ policy = NoRow
    /\ LET row == [version |-> 1,
                   config |-> IF request[c].kind = "update"
                              THEN request[c].config ELSE "default"]
       IN  /\ own' = [own EXCEPT ![c].policy = row]
           /\ first' = [first EXCEPT ![c] = row]
           /\ read' = [read EXCEPT ![c] = row]
    /\ Goto(c, AfterPolicy(c))
    /\ UNCHANGED <<committed, request, verdict, answer, overlapped>>

PolicyExists(c) ==
    /\ phase[c] = "insert policy"
    /\ ~PolicyHeld(c) /\ policy # NoRow
    /\ Rollback(c)

Mismatch(c) == request[c].expected \notin {0, read[c].version}

\* 409: the HTTPException rolls the session back.
VersionMismatch(c) ==
    /\ phase[c] = "check version"
    /\ Mismatch(c)
    /\ Rollback(c)

\* Variant: the configuration is replaced under the version that was read.
UpdatePolicy_in_place(c) ==
    /\ phase[c] = "check version"
    /\ ~Mismatch(c) /\ ~PolicyHeld(c)
    /\ own' = [own EXCEPT ![c].policy =
                  [version |-> read[c].version, config |-> request[c].config]]
    /\ Goto(c, "commit")
    /\ UNCHANGED <<committed, request, read, first, verdict, answer, overlapped>>

\* The version read is incremented in memory; the UPDATE waits for the row,
\* then finds it by its primary key whatever its version is by now.
UpdatePolicy(c) ==
    /\ phase[c] = "check version"
    /\ ~Mismatch(c) /\ ~PolicyHeld(c)
    /\ read[c].version < MaxVersion
    /\ own' = [own EXCEPT ![c].policy =
                  [version |-> read[c].version + 1, config |-> request[c].config]]
    /\ Goto(c, "commit")
    /\ UNCHANGED <<committed, request, read, first, verdict, answer, overlapped>>

-----------------------------------------------------------------------------
(* The security decision: AgentSecurityService.evaluate_decision.          *)

AfterVerdict(c) == IF request[c].kind = "decide" THEN "scan" ELSE "commit"

\* The decision logged for the request id, whatever its policy and content.
ReuseVerdict(c) ==
    /\ phase[c] = "find verdict"
    /\ \E v \in With(verdicts, Id(c)) : verdict' = [verdict EXCEPT ![c] = v]
    /\ Goto(c, AfterVerdict(c))
    /\ UNCHANGED <<committed, request, read, first, answer, own, overlapped>>

\* policy_version and action are stored; config is history.
NewVerdict(c) ==
    [request_id |-> Id(c), by |-> c, policy_version |-> read[c].version,
     config |-> read[c].config,
     action |-> ActionUnder[request[c].content][read[c].config]]

MakeVerdict(c) ==
    /\ phase[c] = "find verdict"
    /\ With(verdicts, Id(c)) = {}
    /\ verdict' = [verdict EXCEPT ![c] = NewVerdict(c)]
    /\ Goto(c, "insert verdict")
    /\ UNCHANGED <<committed, request, read, first, answer, own, overlapped>>

VerdictHeld(c) == \E d \in Calls \ {c} : With(own[d].verdicts, Id(c)) # {}

InsertVerdict(c) ==
    /\ phase[c] = "insert verdict"
    /\ ~VerdictHeld(c) /\ With(verdicts, Id(c)) = {}
    /\ own' = [own EXCEPT ![c].verdicts = {verdict[c]}]
    /\ Goto(c, AfterVerdict(c))
    /\ UNCHANGED <<committed, request, read, first, verdict, answer, overlapped>>

VerdictExists(c) ==
    /\ phase[c] = "insert verdict"
    /\ ~VerdictHeld(c) /\ With(verdicts, Id(c)) # {}
    /\ Rollback(c)

-----------------------------------------------------------------------------
(* The unified decision: UnifiedDecisionService.evaluate_decision.         *)

NewDecision(c) ==
    [request_id |-> Id(c), by |-> c, policy_version |-> first[c].version,
     outcome |-> _resolve_outcome(
                     verdict[c].action, Configs[first[c].config].mode,
                     _build_pii_evidence(Contents[request[c].content].pii))]

\* The detections are scanned and the outcome is audited.
Scan(c) ==
    /\ phase[c] = "scan"
    /\ LET d == NewDecision(c)
       IN  /\ own' = [own EXCEPT ![c].audited = {[by |-> c, outcome |-> d.outcome]}]
           /\ answer' = [answer EXCEPT ![c] = Signed(d)]
    /\ Goto(c, "insert decision")
    /\ UNCHANGED <<committed, request, read, first, verdict, overlapped>>

\* Variant: the request is let through when it could not be scanned.
Unsigned_open(c) ==
    [signed |-> FALSE, outcome |-> "allow", policy_version |-> first[c].version]

\* The answer when the scan raises: what the mode read first says.
Unsigned(c) ==
    [signed |-> FALSE,
     outcome |-> IF Configs[first[c].config].mode = "enforce" THEN "block" ELSE "allow",
     policy_version |-> first[c].version]

\* An exception that is not the database's is answered, and what has been
\* flushed by then (the policy, the verdict) is committed.
ScanFails(c) ==
    /\ phase[c] = "scan"
    /\ Answers(c, Unsigned(c))
    /\ UNCHANGED <<committed, request, read, first, verdict, own, overlapped>>

DecisionHeld(c) == \E d \in Calls \ {c} : With(own[d].decisions, Id(c)) # {}

\* Variant: the log has no unique index.
InsertDecision_unindexed(c) ==
    /\ phase[c] = "insert decision"
    /\ own' = [own EXCEPT ![c].decisions = {answer[c].decision}]
    /\ Goto(c, "commit")
    /\ UNCHANGED <<committed, request, read, first, verdict, answer, overlapped>>

InsertDecision(c) ==
    /\ phase[c] = "insert decision"
    /\ ~DecisionHeld(c) /\ With(decisions, Id(c)) = {}
    /\ own' = [own EXCEPT ![c].decisions = {answer[c].decision}]
    /\ Goto(c, "commit")
    /\ UNCHANGED <<committed, request, read, first, verdict, answer, overlapped>>

\* Variant: the exception handler answers, and the session commits the rest.
DecisionExists_answered(c) ==
    /\ phase[c] = "insert decision"
    /\ ~DecisionHeld(c) /\ With(decisions, Id(c)) # {}
    /\ Answers(c, Unsigned(c))
    /\ UNCHANGED <<committed, request, read, first, verdict, own, overlapped>>

DecisionExists(c) ==
    /\ phase[c] = "insert decision"
    /\ ~DecisionHeld(c) /\ With(decisions, Id(c)) # {}
    /\ Rollback(c)

Progress(c) ==
    \/ RepeatDecision(c) \/ NoDecisionYet(c)
    \/ ReadPolicy(c) \/ ReadAgain(c) \/ InsertPolicy(c) \/ PolicyExists(c)
    \/ VersionMismatch(c) \/ UpdatePolicy(c)
    \/ ReuseVerdict(c) \/ MakeVerdict(c) \/ InsertVerdict(c) \/ VerdictExists(c)
    \/ Scan(c) \/ ScanFails(c) \/ InsertDecision(c) \/ DecisionExists(c)
    \/ Commit(c)

Next ==
    \E c \in Calls :
        \/ \E q \in Requests : Begin(c, q)
        \/ Progress(c)
        \/ Fail(c)

Spec == Init /\ [][Next]_vars

\* A call that can go on does.  No fairness on beginning or failing.
FairSpec == Spec /\ \A c \in Calls : WF_vars(Progress(c))

-----------------------------------------------------------------------------
(* Properties.                                                             *)

Answered(c) == phase[c] = "answered"

\* The answers and the log implement the register of DecisionRegister: one
\* decision for each request id, and every signed answer is that one, whoever
\* asks, whatever runs at the same time, fails or is answered unsigned.
SignedAnswers ==
    {[call |-> c, decision |-> answer[c].decision] :
        c \in {d \in Calls : Answered(d) /\ request[d].kind = "decide"
                               /\ answer[d].signed}}
Register == INSTANCE DecisionRegister
    WITH Decisions <- DecisionRow, NoDecision <- NoRow,
         decided <- [i \in RequestIds |->
                        IF With(decisions, i) = {} THEN NoRow
                        ELSE CHOOSE d \in decisions : d.request_id = i],
         answers <- SignedAnswers
ImplementsRegister == Register!Spec

\* Every decision in the log has exactly one audit entry, of the same outcome,
\* and no other call has one: not those that lost the race for a request id,
\* failed or were answered unsigned.
AuditedOnce ==
    /\ \A d \in decisions : \E a \in audited : a.by = d.by /\ a.outcome = d.outcome
    /\ \A a \in audited : \E d \in decisions : a.by = d.by
    /\ \A a, b \in audited : a.by = b.by => a = b

\* A call that blocks what it is asked under the policy its controls go by
\* answers "allow" only if it goes by the verdict, or repeats the decision, of
\* another call with its request id, perhaps on other content or under an older
\* policy; or if its scan fails and the policy was replaced between its two
\* reads: the unsigned answer follows the first one's mode
\* (evaluate_decision, both of them).  A scan that fails opens no other way.
BlockedAllowedOnlyByReuse ==
    \A c \in Calls :
        /\ Answered(c) /\ request[c].kind = "decide"
        /\ read[c] # NoRow => ActionUnder[request[c].content][read[c].config] = "block"
        /\ IF answer[c].signed THEN answer[c].decision.outcome = "allow"
                               ELSE answer[c].outcome = "allow"
        => \/ \E v \in verdicts : v.request_id = Id(c) /\ v.by # c
           \/ /\ ~answer[c].signed
              /\ first[c] # read[c] /\ Configs[first[c].config].mode = "monitor"

\* While no two updates overlap, a version names one configuration, and every
\* verdict was made under a committed one.  Overlapping updates take the same
\* version, without and with expected_version.
VersionsNamePolicies ==
    \/ \E u, w \in updates : u.by # w.by /\ {u.by, w.by} \in overlapped
    \/ /\ \A u, w \in updates : u.policy.version = w.policy.version => u = w
       /\ \A v \in verdicts : \E u \in updates :
             u.policy = [version |-> v.policy_version, config |-> v.config]

\* Every call ends: those that wait for a row or an index entry of another are
\* not left waiting, nor do they wait for each other.
CallsEnd == \A c \in Calls : Open(c) ~> ~Open(c)
=============================================================================
