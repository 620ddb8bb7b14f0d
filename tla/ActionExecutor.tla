--------------------------- MODULE ActionExecutor ---------------------------
(***************************************************************************)
(* The compliance actions on one request: ActionExecutor.execute           *)
(* (engine/actions/executor.py) under ProxyInterceptor.process_request and *)
(* the transaction of the request (engine/dependencies.py, get_db).        *)
(*                                                                         *)
(* Detections are spans start..end-1 of the content, characters counted    *)
(* from 0; their data type matters through its action configuration, which *)
(* every data type of an active ruleset has (engine/rulesets/validator.py).*)
(* Overlaps are resolved first, detection by detection; those kept are     *)
(* then replaced from the end of the content to its start, so that         *)
(* positions stay valid.                                                   *)
(*                                                                         *)
(* Content is a sequence of items: character i is the number i, the text   *)
(* that replaces a detection, of whatever length, the one number           *)
(* Length + start.                                                         *)
(***************************************************************************)
EXTENDS Integers, Sequences, FiniteSets, SequencesExt

CONSTANTS Length,        \* characters in the content
          MaxDetections, \* bound on the detections of a request
          Configs        \* the action configurations in use

Actions == {"mask", "pseudonymize", "tokenize", "block"}

ASSUME LengthAssumption == Length \in Nat
ASSUME MaxDetectionsAssumption == MaxDetections \in Nat
ASSUME ConfigsAssumption == Configs \subseteq [primary : Actions, fallback : Actions]

VARIABLES detections,  \* what the detection engine reported
          pending,     \* sorted_dets still to be looked at for overlaps
          kept,        \* the detections kept, in the order of their starts
          resolved,    \* those still to be processed, last one first
          modified,    \* the content so far
          token_map,   \* session_token_map: starts of the spans with a token
          flushed,     \* tokens in the request's transaction
          vault,       \* tokens of this request in vault.vault_tokens
          poisoned,    \* a flush failed: the session can only be rolled back
          outcome      \* where the request is, or how it ended

overlapVars == <<detections, pending, kept>>
contentVars == <<resolved, modified>>
vaultVars == <<token_map, flushed, vault, poisoned>>

executorVars == <<overlapVars, contentVars, vaultVars, outcome>>

Starts == 0..(Length - 1)
Spans == {s \in Starts \X (1..Length) : s[1] < s[2]}
Found(span, config) ==
    [start |-> span[1], end |-> span[2], action |-> config]
Detection == {Found(s, c) : s \in Spans, c \in Configs}

Content == [i \in 1..Length |-> i - 1]
Replacement(d) == Length + d.start

-----------------------------------------------------------------------------
(* Overlaps.                                                               *)

\* ACTION_PRIORITY of the primary action.
Severity(d) ==
    [mask |-> 1, pseudonymize |-> 2, tokenize |-> 3, block |-> 4][d.action.primary]

Overlap(d, e) == d.start < e.end /\ e.start < d.end

\* By start, the longer one first (the engine reports a position once).
SortsBefore(d, e) ==
    d.start < e.start \/ (d.start = e.start /\ d.end > e.end)

Sorted(list) == \A i, j \in DOMAIN list : i < j => SortsBefore(list[i], list[j])

\* Any detections, sorted; the engine reports each position once
\* (_deduplicate).
ExecutorInit ==
    /\ pending \in {list \in UNION {[1..n -> Detection] : n \in 0..MaxDetections} :
                       Sorted(list)}
    /\ detections = Range(pending)
    /\ kept = <<>> /\ resolved = <<>>
    /\ modified = Content
    /\ token_map = {} /\ flushed = {} /\ vault = {} /\ poisoned = FALSE
    /\ outcome = "resolving"

last_end == IF kept = <<>> THEN -1 ELSE kept[Len(kept)].end

Keep(d) ==
    /\ d.start >= last_end
    /\ kept' = Append(kept, d)

\* Variant: an equally severe detection replaces the previous one too.
Supersede_equal(d) ==
    /\ d.start < last_end
    /\ Severity(d) >= Severity(kept[Len(kept)])
    /\ kept' = [kept EXCEPT ![Len(kept)] = d]

\* A more severe detection replaces the previous one.
Supersede(d) ==
    /\ d.start < last_end
    /\ Severity(d) > Severity(kept[Len(kept)])
    /\ kept' = [kept EXCEPT ![Len(kept)] = d]

Drop(d) ==
    /\ d.start < last_end
    /\ Severity(d) <= Severity(kept[Len(kept)])
    /\ UNCHANGED kept

\* One round of the loop of _resolve_overlaps.
ResolveOverlap ==
    /\ outcome = "resolving"
    /\ pending # <<>>
    /\ LET d == Head(pending) IN Keep(d) \/ Supersede(d) \/ Drop(d)
    /\ pending' = Tail(pending)
    /\ UNCHANGED <<detections, contentVars, vaultVars, outcome>>

\* Variant: from the start of the content to its end.
ProcessingOrder_ascending(list) == list

\* From the end of the content to its start.
ProcessingOrder(list) == Reverse(list)

StartActions ==
    /\ outcome = "resolving"
    /\ pending = <<>>
    /\ resolved' = ProcessingOrder(kept)
    /\ outcome' = "executing"
    /\ UNCHANGED <<overlapVars, modified, vaultVars>>

-----------------------------------------------------------------------------
(* The request.                                                            *)

\* content[:start] + replacement + content[end:], positions beyond the end
\* being clipped.
Replace(content, d) ==
    LET start == IF d.start <= Len(content) THEN d.start ELSE Len(content)
    IN  SubSeq(content, 1, start) \o <<Replacement(d)>>
          \o SubSeq(content, d.end + 1, Len(content))

Apply(d) ==
    /\ modified' = Replace(modified, d)
    /\ resolved' = Tail(resolved)
    /\ UNCHANGED <<overlapVars, vault, outcome>>

\* mask and pseudonymize: computed in memory.
Conceal(d) ==
    /\ Apply(d)
    /\ UNCHANGED <<token_map, flushed, poisoned>>

\* tokenize: TokenVault.store flushes the token's row; the session must work.
Tokenize(d) ==
    /\ ~poisoned
    /\ Apply(d)
    /\ token_map' = token_map \union {d.start}
    /\ flushed' = flushed \union {d.start}
    /\ UNCHANGED poisoned

\* block: ComplianceViolation, and get_db rolls the transaction back.
Reject(end) ==
    /\ outcome' = end
    /\ flushed' = {}
    /\ resolved' = <<>>
    /\ UNCHANGED <<overlapVars, modified, token_map, vault, poisoned>>

\* What follows a failed primary action: the fallback, once, and an error of
\* the request when that fails too.  A flush that fails poisons the session.
Fallback(d) ==
    \/ /\ d.action.fallback \in {"mask", "pseudonymize"}
       /\ Apply(d)
       /\ poisoned' \in {poisoned, TRUE}
       /\ flushed' = IF poisoned' THEN {} ELSE flushed
       /\ UNCHANGED token_map
    \/ /\ d.action.fallback = "tokenize"
       /\ Tokenize(d) \/ Reject("error")
    \/ /\ d.action.fallback = "block"
       /\ Reject("blocked")

\* One round of the loop of execute.
ProcessDetection ==
    /\ outcome = "executing"
    /\ resolved # <<>>
    /\ LET d == Head(resolved)
       IN  \/ d.action.primary \in {"mask", "pseudonymize"} /\ Conceal(d)
           \/ d.action.primary = "tokenize" /\ (Tokenize(d) \/ Fallback(d))
           \/ d.action.primary = "block" /\ Reject("blocked")

\* The sanitized content goes to the provider.
Forward ==
    /\ outcome = "executing"
    /\ resolved = <<>>
    /\ outcome' = "forwarding"
    /\ UNCHANGED <<overlapVars, contentVars, vaultVars>>

\* Variant: the answer is sent although the commit failed.
Answer_before_commit ==
    /\ outcome = "forwarding"
    /\ vault' = flushed
    /\ outcome' = "answered"
    /\ UNCHANGED <<overlapVars, contentVars, token_map, flushed, poisoned>>

\* The provider answered, the response is de-tokenized and get_db commits.
Answer ==
    /\ outcome = "forwarding"
    /\ ~poisoned
    /\ vault' = flushed
    /\ outcome' = "answered"
    /\ UNCHANGED <<overlapVars, contentVars, token_map, flushed, poisoned>>

\* The provider failed, or the commit did (always on a poisoned session).
FailRequest ==
    /\ outcome = "forwarding"
    /\ Reject("error")

ExecutorNext ==
    \/ ResolveOverlap \/ StartActions \/ ProcessDetection
    \/ Forward \/ Answer \/ FailRequest

ExecutorSpec == ExecutorInit /\ [][ExecutorNext]_executorVars

-----------------------------------------------------------------------------
(* Properties.                                                             *)

\* Where in the original content an item is, or what it replaces begins.
position(item) == IF item < Length THEN item ELSE item - Length

\* What is sent to the provider is the content with each detection that was
\* kept replaced by its text, and every other character in its place: a
\* replacement never shifts or eats a neighbour, whatever the overlaps and
\* whichever actions fell back (the reverse order of execute).
ReplacesExactly ==
    outcome \in {"forwarding", "answered"} =>
        LET outside == {i \in Starts :
                           \A d \in Range(kept) : i \notin d.start..(d.end - 1)}
        IN  /\ Range(modified) =
                  outside \union {Replacement(d) : d \in Range(kept)}
            /\ \A i, j \in DOMAIN modified :
                  i < j => position(modified[i]) < position(modified[j])

\* Once overlaps are resolved, a detection whose action no other detection's
\* exceeds is kept, or overlaps one that is kept with the same severity.
TopSeverityProtected ==
    outcome # "resolving" =>
        \A d \in detections :
            (\A e \in detections : Severity(e) <= Severity(d)) =>
                \E k \in Range(kept) : Severity(k) = Severity(d) /\ Overlap(k, d)

\* The tokens in an answered request are in the vault, each of them; a request
\* that was blocked or failed leaves none behind.
AnsweredTokensInVault ==
    vault = IF outcome = "answered" THEN token_map ELSE {}

\* execute, "modified_content: str (sensitive data replaced)": no character of
\* a detection is sent to the provider.
NoDetectedCharacterSent ==
    outcome = "forwarding" =>
        \A d \in detections :
            (d.start..(d.end - 1)) \intersect Range(modified) = {}
=============================================================================
