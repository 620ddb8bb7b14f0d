-------------------------- MODULE DecisionRegister --------------------------
(***************************************************************************)
(* What /v1/decisions/evaluate promises about request ids: a decision is    *)
(* taken once for each, and whoever asks gets that one.                    *)
(***************************************************************************)
CONSTANTS Calls, RequestIds,
          Decisions,   \* what can be decided
          NoDecision

VARIABLES
    decided,   \* the decision of each request id
    answers    \* the signed answers given: who got which decision

vars == <<decided, answers>>

Init ==
    /\ decided = [i \in RequestIds |-> NoDecision]
    /\ answers = {}

Answer(c, d) == answers' = answers \union {[call |-> c, decision |-> d]}

Decide(c, i) ==
    /\ decided[i] = NoDecision
    /\ decided'[i] \in Decisions
    /\ decided' = [decided EXCEPT ![i] = decided'[i]]
    /\ Answer(c, decided'[i])

Repeat(c, i) ==
    /\ decided[i] # NoDecision
    /\ Answer(c, decided[i])
    /\ UNCHANGED decided

Next ==
    \E c \in Calls, i \in RequestIds : Decide(c, i) \/ Repeat(c, i)

Spec == Init /\ [][Next]_vars
=============================================================================
