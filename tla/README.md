# Covenant AI engine: TLA+ models, model checking and proofs

This directory specifies the core of the Covenant AI ("Ironpass") engine, the
FastAPI service under `src/engine/` that sits between agents and model
providers: it detects sensitive data in a request, replaces, tokenizes or
blocks it, forwards the rest, and keeps a signed audit trail. Beside it stands
the enrichment service under `src/enrichall/`, a Node.js program of its own. The
modules are written from the code; `PROJECT.json` maps every definition to the lines it
stands for.

Contents: 1 the system, 2 the modules and the plan, 3 the modules one by one,
4 the runs, 5 fairness, 6 the proofs, 7 divergences between code and
documentation, 8 what is not modelled.

## 1. The system

### 1.1 Execution environment

All components share one environment, and most of the hard behaviour comes
from it:

- asyncio coroutines in one or more processes; every `await` on the database,
  KMS or a provider is a point where other requests run;
- one database session, hence one transaction, per request: `get_db`
  (`dependencies.py:31`) commits after the handler returned and rolls back on an
  exception. The commit runs before the response is sent, so a failed commit
  turns the request into an error. Once a flush has failed the session can only
  be rolled back (SQLAlchemy), whether or not the handler caught the exception;
- PostgreSQL at READ COMMITTED: a statement sees what is committed when it
  starts; an UPDATE picks rows from its snapshot, waits for their locks and then
  re-evaluates its condition; an INSERT waits for an uncommitted row with the
  same unique key and fails on a committed one;
- state shared by the requests of a process but not by processes: the key cache
  of the vault, the ruleset registry, the rate limiter.

### 1.2 Components

| Component | State | Operations | Interacts with | Hard behaviour | What makes it correct |
|---|---|---|---|---|---|
| Audit trail (`audit/`) | `audit_log` rows chained by `prev_entry_hash` | `log_request`, `verify_chain`, `verify_chain_integrity` | written by the proxy, decisions, policy and admin endpoints, in their transactions | two sessions read the same tail; commits out of id order; rollbacks | links resolve, tampering is found, an untouched chain verifies |
| Token vault and data key (`vault/`) | `vault_keys`, `vault_tokens`, per-process key cache | `store`, key creation, `invalidate_by_tenant` | executor, admin, health endpoint | cache filled before commit, concurrent creation, crash | a committed token can be decrypted |
| Authentication and offboarding (`auth/`, `admin/`, `dependencies.py`) | `tenants`, `tenant_api_keys`, row locks | authenticate, issue, revoke, delete tenant | every request; the vault | check-then-wait, sweep versus late commit | revoked means revoked; nothing survives offboarding |
| Versioned policies (`agent_security/policy_version_*`) | `tenant_policy_versions` | publish, draft, seed, activate, roll back | audit trail | concurrent numbering and activation, deadlock | one active version, linear history |
| Action executor (`actions/`) | one request's detections and content; vault tokens | resolve overlaps, apply, fall back, block | detection, vault, interceptor | shifting positions, failures half way | sensitive spans replaced, blocks hold, tokens recoverable |
| Rulesets and detection merge (`rulesets/`, `detection/engine.py`) | registry; detections of a request | scan, deduplicate, merge actions | executor | two orders of preference | the intended action is applied |
| Detectors (`detection/*_detector.py`, `normalizer.py`) | none | regular expressions, Luhn, NER, normalisation | rulesets | positions in normalised versus original text | every position refers to the original |
| Proxy pipeline (`proxy/`) | one request; retry state of audit delivery; dead letters | extract, process, rebuild, forward, log in background | everything above | fire-and-forget tasks, retries, provider failure | no event silently lost, content rebuilt in place |
| Deletion job (`deletion/`, `main.py`) | `deletion_jobs` with steps | create, run, resume, recover | tenants, keys, audit | crash between steps, concurrent creation | ends, runs each step, one active job |
| Unified decisions (`decisions/`) | `unified_decision_logs` | evaluate by request id | agent security, detection, audit | check-then-insert, swallowed errors | one decision per request id, audited once |
| Agent security (`agent_security/service.py`) | policy row, decision log | evaluate, update policy | decisions | version checked in memory, verdicts reused, clamped scores | worse input is never judged milder; a version names one configuration |
| SLA monitor (`sla/`) | policies, breaches | evaluate every 5 minutes, notify | audit log | several schedulers, notify before commit | one open breach per policy, it is resolved |
| Compliance operations (`compliance/`) | ten registers, their assessments, cases, SAR reports | create, list, count, ingest, evaluate (creating or reusing cases), draft, submit | notifier, model provider | overlapping evaluations and drafts, row locks, numeric boundaries, offset paging beside inserts | worse is never assessed as better; findings and cases agree; a listing misses nothing; one report per case |
| GDPR (`gdpr/`) | records of processing, erasure requests | record, erase, purge | audit | erasure racing late records | erased means erased |
| Agent operations (`agent_ops/`) | file-backed job queue | enqueue, claim, complete | desktop agent | several workers on one file | a job runs once |
| Enrichment (`enrichall/`) | `provider_keys`, `enrichment_cache`, `usage_log`, `batch_jobs`, rows of a worker in memory | look up, upload a batch, save and delete keys | Supabase, six providers | count-then-insert limit, lost answers, a worker nobody awaits, rows normalised twice | a found email is not paid for by a later lookup; jobs end and show what was done |
| Desktop agent, dashboards, SDKs, extension | clients of the engine | | HTTP | | |

`PROJECT.json` lists every component with its status, and every hazard of the
code at the line where it bites, also of the components still to be modelled.

## 2. Modules and plan

One module per component, an `MC` module that instantiates it for TLC, a
`Proofs` module for its theorems. Constants are parameters with named
assumptions, each operation (or each statement of it, where others can come
between) is one action, and no module that is proved about reaches a RECURSIVE
operator. A definition `X_something` beside `X` is a plausible wrong version of
`X` kept to show that a property notices it; it is not part of the model.

| Order | Module | State |
|---|---|---|
| 1 | `AuditChain`, `MCAuditChain`, `AuditChainProofs` | written, checked, proved |
| 2 | `VaultKeys`, `MCVaultKeys`, `RequestProofs` | written, checked, proved |
| 3 | `PolicyRegister` (abstract), `PolicyVersions`, `PolicyVersionsProofs` | written, checked, proved with refinement |
| 4 | `TenantAccess`, `TenantAccessProofs` | written, checked, proved |
| 5 | `ActionExecutor`, `MCActionExecutor` | written, checked, proved in `RequestProofs` |
| 6 | `RulesetMerge` | written, checked in 10, proved in `RequestProofs` |
| 7 | `Assessments` (the pure functions), `Observing`, `MCObserving` | written, checked in 10, proved in `MonitoringProofs` |
| 8 | `Monitoring` (uses 7), `Dashboards` (over it), `MCMonitoring`, `MonitoringProofs` | written, checked, proved |
| 9 | `AgentSecurity` (the pure functions), `Screening`, `MCScreening` | written, checked in 10 |
| 10 | `Judgements` (composes 6, 7 and 9), `MCJudgements` | written, checked |
| 11 | `DecisionRegister` (abstract), `Decisions` (uses 9), `MCDecisions`, `DecisionsProofs` | written, checked with refinement, proved |
| 12 | `Registers`, `SarReports`, `ComplianceDesk` (composes both), `MCComplianceDesk`, `ComplianceDeskProofs` | written, checked, proved |
| 13 | `Candidates` (the pure functions), `Enrichment`, `MCEnrichment`, `EnrichmentProofs` | written, checked, proved |
| 14 | Request pipeline: extraction, normalisation, rebuild, composed with 5 | not begun |
| 15 | GDPR erasure, agent operations queue, desktop agent loop | not begun |

Abstract specifications: `PolicyRegister` and `DecisionRegister` are written
and implemented. Worth stating next: a key store ("one key, then tokens under
it") that `VaultKeys` implements when no request that inserted the key rolls
back; an append-only log that `AuditChain` implements when sessions do not
overlap.

Theorems worth proving next: `WorseNeverMilder` and `OnlyReviewSoftensBlock` of
`Screening`, for which the sums of `AgentSecurity` over sets of controls, tools and
detections have to be reasoned about; and the two refinements above.

## 3. The modules

### AuditChain

State: `audit_log` (committed rows), `pending[s]` (rows a session has flushed),
`next_id` (the sequence, which a rollback does not rewind), `phase[s]` and
`tail[s]` (where `log_request` is, and the hash it read). Actions: `ReadTail` is
`_get_last_entry_hash`, `Append` the rest of `log_request` (sign, add, flush),
`Commit` and `Rollback` the end of the caller's transaction. `verify_chain`,
`verify_chain_integrity` and the window it reads are the verification operators. A
row's hash is represented by its id and the HMAC by the record of the fields it
covers: collisions and forgeries are excluded. An entry's signed columns are its
`body`; the token counts, `model` and `created_at`, which `sign_entry` leaves out,
are its `usage`. `overlapped` is a history
variable that tells whether two sessions were ever in flight together.

### VaultKeys

The `aws_kms` backend. State: the committed row `vault_key`, the keys of the
committed tokens, the class-level `cache` of each process, and for each session
where `_get_aws_kms_key` is (`phase`, `held`) and what its transaction has
inserted (`row`, `stored`). Actions follow the function's awaits: `CacheHit`,
`CacheMiss` (and the SELECT), `Decrypted`, `Generated`, `KmsFails`, `InsertKey`
or `InsertConflict`, `StoreToken`; then `Commit`, `Rollback`, `Crash` of a
process, `CacheLapses` (the TTL) and the two steps of the health check.

### PolicyVersions and PolicyRegister

State: committed `rows` and `active`, and for each request its phase, its
version, the rows its superseding UPDATE picked (`snapshot`) and has changed
(`off`). The endpoints are `create_policy_version` (publish or draft),
`seed_active_policy` (the first `get_active_policy`), `activate_policy_version`
and `rollback_to_version`; the statements they share are `NumberVersion`,
`Insert`, `SupersedeStarts`, `SupersedeEnds`, `LockVersion`, `SetVersionActive`
and `Commit`. Row locks, the two unique indexes and the detection of deadlocks
are the database's and marked external. `PolicyRegister` is what the service
promises: a counter of versions and the current one.

### TenantAccess

One tenant. A request reads its key (`ReadKey`), the tenant (`ReadTenant`),
writes `last_used_at` (`TouchKey`, which waits for the row and holds it to the
end), stores tokens and ends; with a JWT it only reads the tenant
(`ReadTenantOfJwt`). `IssueKey`/`CommitKey`,
`ReadKeyToRevoke`/`RevokeKey`/`CommitRevocation` are the key endpoints;
`BeginDeletion`, `PickKeys`, `LockKey`, `KeysLocked`, `SweepTokens` and
`CommitDeletion` are `delete_tenant`. `late` and `covered` are history
variables.

### ActionExecutor

One request. `ExecutorInit` takes any set of spans with any action configurations,
sorted (the engine reports a position once); `ResolveOverlap` is one round of the
loop of `_resolve_overlaps`, which keeps a detection (`Keep`), puts it in the place
of the last one kept (`Supersede`) or drops it (`Drop`). `StartActions` reverses
what is `kept` into `resolved`, each `ProcessDetection` is one round of `execute`
with the primary action, its failure and the fallback; `Forward`, `Answer` and
`FailRequest` are the rest of the request with its transaction (`flushed`,
`vault`, `poisoned`). A character is its position and a replacement text one
item, whatever its length; this keeps what the position arithmetic could get
wrong (slices beyond the end are clipped as in Python).

### RulesetMerge

One position of one request. `Match` and `ScanNextRuleset` are the loop of
`scan`, `Survivor` is `_deduplicate`, `MergeRuleset` one round of
`get_merged_actions` with the origin it tracks. Ranks differ in what an
unlisted ruleset gets (-1 and 0), as in the code.

Chains of rulesets and positions do not share state with anything else, so the
module is checked as a part of `Judgements`.

### Assessments and Observing

`Assessments` has no state: a record per monitor for what its function reads,
the ten functions of `compliance/service.py:194-664`, and what each handler does
with the result (`ingest_aml_signal`, `evaluate_sla`, ...: the type of the case
it opens, or none). A percentage of a threshold is compared by cross
multiplication, durations count half days so that the rounding of
`timedelta.days` shows, `RoundTenths` is Python's `round`. Whether an activity
of an R&D project qualifies is computed by the handler and is here, too, for
projects of two activities.

`Observing` is one subject observed again and again in a worse condition:
`Worse` says for each monitor what that means, in terms of the inputs only.

### Monitoring

The evaluations and the AML ingestion as concurrent requests, one transaction
each. State: committed `cases` and `findings`; of each request what it was asked,
the item it is at, its own uncommitted cases and findings, the reused case it
has changed in memory only (`dirty`), and the rows it has updated (`updated`,
locked to the end), as it will leave them. Of a summary matters only whether two are
equal: SQLAlchemy leaves one that equals what was read out of the UPDATE (`Touch`,
`Applied`), which then changes `updated_at` alone on whatever the row says by then.
The items of `monitor_ropa` are findings that are only answered, not stored.
`NoneFound`, `ReuseCase` and `MultipleResultsFound` are the three outcomes of
`_create_or_reuse_*_case`; `NewCase` is the covenants and signals that do not
look; `AssessOnly` an item that needs no case; `Flush` the UPDATE that SQLAlchemy
sends before the next query or the commit, which waits for the row. The database
ends deadlocks. `overlapped` and `blocked`
are history variables. Case types come from `Assessments`.

Requests with the same API key do not overlap here: `verify_api_key` updates
`last_used_at` in the same transaction, so that the row of the key serialises
them (see `TenantAccess`). The evaluations of the model are those of different
keys of a tenant, or of dashboard sessions with a JWT.

### Dashboards

The dashboards over what `Monitoring` commits, read beside the evaluations. Each is
a sequence of counts and each count a statement of its own (`CountFindings`,
`CountCases`), so that others commit between them; `Counts` gives the order of each
endpoint. `view` is one reader's answers; `view.named` is history: the cases named
by the findings counted so far. Counts of the registers are those of `Registers`;
watchlist hits, high revenue impacts, sums and the windows of 30 and 90 days are
left out.

### AgentSecurity and Screening

`AgentSecurity` has no state: the four controls
(`analyze_prompt_injection`, `analyze_context_exfiltration`,
`evaluate_tool_permissions`, `audit_memory_session`) with the weights of
`agent_security/service.py`, `hard_block` and `_resolve_action`, and of
`decisions/service.py` the evidence of detections, their score, the risk tier
and `_resolve_outcome`. A text is reduced to counts of matches, a tool to its
relevance, its scope and whether it was asked for. Unified scores are counted in
ten-thousandths, so that every comparison is one of integers.

`Screening` is one request to which more and more of what the controls look for
is added, and a policy that is tightened.

### Judgements

Composes `Observing`, `Screening` and `RulesetMerge`: what the engine decides
from its input alone. The parts share no state, so a behaviour is about one.

### Decisions and DecisionRegister

The policy row, both decision logs and the audit entries of one tenant; for each
call what it does next, what it has read and its uncommitted rows. The actions
are the statements of `get_or_create_policy`, `update_policy` and of the two
`evaluate_decision`: `ReadPolicy`, `InsertPolicy`, `UpdatePolicy`,
`ReuseVerdict` or `MakeVerdict` and `InsertVerdict`, `Scan` (detections and
audit entry), `InsertDecision`, `Commit`. `ScanFails` is the exception handler
that answers unsigned and lets the session commit what was flushed before;
`DecisionExists` is the same handler after a failed flush: the session is
poisoned, the commit fails and the client gets an error, not the unsigned answer.
The unique indexes and their waits are the database's and marked external.
`DecisionRegister` is what the endpoint promises: a decision for each request id,
taken once. `updates` and `overlapped` are history variables. A decision reads the
policy twice: for its own mode and version (`ReadPolicy`, kept in `first`) and, in
the controls, for their configuration (`ReadAgain`, in `read`). An update may commit
between the two.

### Registers, SarReports and ComplianceDesk

`Registers` has the create and list functions of ten registers, each with the
case and the spacing its texts are stored in and compared with, its filters and
its order (NULLs last, ties in any order and in another one in each query). A
reader walks the pages with the count and the fetch of each as two statements,
or adds up one of three dashboards. `KeysAssumption` says what the schemas require:
orders are dates or names, and only the dates that may be missing are `None`.

`SarReports` has the cases of escalated signals: ingestion with the alert task it
starts, draft, generation and submission, each with the rows it reads, and at
its commit the columns that differ from what it read. `reverted`, `late` and
`overtaken` are history variables.

`ComplianceDesk` composes both; they share no rows.

### Candidates and Enrichment

`Candidates` is `normalizer.js` and what each of the six adapters sends: how a
person asked for becomes a request and a cache key. A text is missing, blank (one
space) or a sequence of words; `trim` and the many ways to be missing are kept,
because they decide what a second normalisation changes. The full name is joined
from the names before they are trimmed (`join`), so that of the blank space around
a text that between the two names matters (`gap`). Cells of a file are as the CSV
parser leaves them: trimmed, unless they were in quotation marks. `Enrichment` is one user of
the service: single lookups and workers go through the steps of
`enrichCandidate` (`getCache`, `getUserProviders`, `findEmail`, `setCache`,
`logUsage`), a worker through those of `processBatchJob` around them. A call of
the database is done, refused, or done with its answer lost; `Restart` and the
unhandled rejection of `RecordFailure` end the process with everything in it.
`logged`, `peak`, `answered` and `stranded` are history variables.

## 4. The runs

| Run | Bounds | States | Shows |
|---|---|---|---|
| `audit_chain` | 2 sessions, 2 bodies, 2 usages, 4 ids, window 2 | 78,317 | links resolve, serial writers verify, removal and alteration of signed columns are found, that of unsigned ones never, a fork is permanent |
| `vault_keys` | 3 sessions in 2 processes, 2 keys, health checks | 685,064 | tokens are lost only with a key that was rolled back or never written; caches converge |
| `tenant_access` | 2 requests, 1 key | 16,492 | which tokens survive offboarding; covered keys are revoked; deletions end and requests drain after offboarding or revocation |
| `tenant_dangling` | 2 requests, 1 key | | a token is committed after the sweep |
| `policy_versions` | 2 requests, 3 versions | 10,272 | refinement of the register; lock waits and deadlocks end |
| `executor` | 4 characters, 3 detections, 6 configurations | 287,142 | exact replacement, top severity, tokens in the vault |
| `executor_leak` | 4 characters, 2 or more detections | | part of a detection is sent |
| `monitoring` | 3 evaluations, or 2 and a dashboard (ESG); 2 subjects, 5 requests, 5 summaries | 81,320 | duplicates need overlap and then block; findings and cases agree; a commit shows its own summary or an overlapping one's; a dashboard shows the cases its findings name; waits and deadlocks end |
| `judgements` | values at and beside every weight, band, buffer and deadline of ten monitors; 4 requests, 5 policies and 3 additions; 3 rulesets (1 listed), 2 data types, 2 hits | 565,004 | worse never looks better, a case stays called for; worse is never milder and only a review softens a block; order independence, the top detector decides |
| `decisions` | 3 calls, 1 request id, 2 contents, 2 configurations, 3 versions | 195,109 | refinement of the decision register; audited once; what a reused verdict may do; what a version names; calls end |
| `compliance_desk` | 3 creations and 1 reader per register, pages of 2; 1 case, 3 calls | 491,791 | pages miss nothing, dashboards add up; a second report blocks its case, submitted cases stay so, alerts stamp |
| `enrichment` | 2 lookups and a job of which 2 begin, 2 providers, 6 people, limit 1, 2 faults | 729,072 | the limit is overrun by concurrency only; a found email is not paid for by a later lookup; a batch asks the same; jobs show what was done and end |

Why the bounds are enough. The chain needs two writers to fork and a third to
link behind the fork; four ids give a fork with an entry before and after it and
a window smaller than the log. The vault needs two requests that share a cache
and one that does not, and a second key to be lost. In `PolicyVersions` two
requests suffice for a deadlock and for every conflict on the two unique
indexes. In `TenantAccess` the requests, a revocation and a deletion contend for
one key, which is enough for every wait; keys interact only through the
deletion. The safety properties of both are proved for any number of either. In
`ActionExecutor` four characters hold three mutually overlapping, nested and
adjacent spans. In `monitoring` one evaluation creates the cases that two others
reuse in opposite orders (the deadlock), or two create the same case and the
third meets the duplicate; one request needs the same case twice. Where a dashboard is
looked at, two evaluations begin (`MCSpec`): one that commits between its counts, and
one whose cases it finds and reuses. Two of the requests say the same of a subject
(the update leaves the summary out), others do not. The theorem about the dashboards has no such bound.

In `judgements` every comparison of the assessments has values on both sides and
on the boundary, and what is checked of them is proved for all values; the
requests of `Screening` start next to the thresholds of the controls and of the
risk tiers, and three additions cross them in every order; one listed and two
unlisted rulesets give all comparisons of ranks, and three active ones the
sequence "taken over, taken over again" in which a stale origin shows. In
`decisions` two calls race for each index, and the third is the one that reuses,
updates, or shows; different request ids meet only in the policy row, which calls
with one id share as well. In `compliance_desk` three rows fill a page and begin
a second, and a third creation falls between any two statements of the reader;
two drafts make the second report that the third call meets. In `enrichment` the six
people are given by names, by a URL alone (no, one or two slashes), by a full name,
with blank texts, with blank space between the names and with a malformed URL, and
rocketreach is the adapter that sends the full name. The two agents that begin are two lookups (the overrun), or a lookup and a worker
(the cache between them); two faults lose an answer and crash, or fail a job and
the record of its failure. Each bound is a constant and every cap in a guard
(`MaxId`, `Keys`, `MaxVersion`, `MaxHits`, `MaxAdditions`, `MaxFaults`) is
commented where it is declared. Symmetry is used only in runs without liveness
properties.

Deadlock is checked in the runs whose systems never stop. It is not in
`executor`, `judgements`, `monitoring`, `decisions`, `compliance_desk` and
`enrichment`: there each request, call or lookup is made once, and when all have
ended nothing is left to do; that none hangs is said by `EvaluationsEnd`,
`CallsEnd` and `JobsEnd`.

## 5. Fairness

- `TenantAccess!FairSpec`: weak fairness of a request's own next statement and of
  the deletion's (coroutines that are ready run; the provider call has a
  timeout), strong fairness of those that wait for a row lock, because PostgreSQL
  queues the waiters of a row. None on starting requests, none on failures.
- `PolicyVersions!FairSpec`: strong fairness of progress for the same reason, weak
  fairness of the deadlock detector (`deadlock_timeout`).
- `Monitoring!FairSpec`: strong fairness of a request's progress (rows are given
  to their waiters in turn), weak fairness of the deadlock detector. None on
  beginning or failing. `Dashboards!FairDashboardsSpec`, and `MCSpec` which restricts
  it, assume the same and nothing of the reader.
- `Decisions!FairSpec`: weak fairness of a call's progress. No call waits for a row
  that another can take from it in turn: waiters for an index entry either find it
  committed, which stays so, or free. None on beginning or failing.
- `Enrichment!Spec`: weak fairness of a worker's next step. It assumes that the
  database and the providers answer or that the connection ends (`fetchJson` sets
  no timeout of its own). None on lookups, faults, the user or the clock.

## 6. Proofs

`AuditChainProofs` proves, for any number of sessions, bodies, usages, ids and any
limit of the window: `TypeCorrect`, `LinksAlwaysResolve`, `SerialChainVerifies`,
`ModificationAlwaysDetected` and `BrokenChainStaysBroken`, from the assumptions
that `MaxId` is a natural number and `Limit` a positive one. The inductive
invariant `IInv` is the conjunction of

- `TypeOK`;
- `ViewInv`: the rows a session sees have ids below `next_id` and signatures that
  recompute, its own link to rows it sees, and its tail is one of them;
- `SigInv`: every committed row carries the signature of its own body and link;
- `LinksResolve`, which a commit preserves because `ViewInv` says the same of the
  pending rows;
- `SerialInv`: as long as no two sessions were in flight together, the rows the
  only writer sees verify.

There is one lemma per action, one step per conjunct. `ForkIsPermanent` is the
lemma behind `BrokenChainStaysBroken`: if a row's link and its predecessor
disagree, rows added later never come between them, because links resolve inside
the older set.

`IdsInv` says that no two rows, committed or pending, have the same id.
`ModificationAlwaysDetected` rests on it: an altered row stands where the old one
stood, with its id and signature, so the signature recomputes only for the same
body and link, and then nothing `verify_chain` reads has changed (`UsageUnread`).
The part of `TamperingDetected` about removed entries is `TamperingAlwaysDetected`. Of an
unbroken chain the row that follows a removed one is the one with the least id
above it (`LeastId`, by well-founded induction), it carries the hash of the removed
row (`SuccessorLinks`), and no other row has that hash, so that the link is missing
(`MissingLinkShows`). For the window one shows that this row is in it after the
removal, from the cardinalities that define the window.

`RequestProofs` is about the way of a request through the vault, the executor and
the rulesets.

Of `VaultKeys` it proves for any sessions, processes and keys `TypeCorrect`, that
the committed data key is never replaced (`DataKeyNeverReplaced`; what it would
break is in the run's `UndecryptableOnlyIfLost`), that a token
can be lost only with a key that was rolled back or never written
(`TokensLostOnlyWithKey`) and that caches only heal (`CachesOnlyHeal`). The last
two need to know where a key in use can come from: `RowInv` (at most one
session holds the uncommitted row, and none once a row is committed), `HeldInv`
(what a session holds at each point of `_get_aws_kms_key`) and `KeysAccounted`
(every key in a cache, in a session or under a token is the committed one, an
uncommitted one, a lost one or the stray one of the health check).

Of `ActionExecutor` it proves `TokensSavedWithAnswer`, `SeverestStaysProtected` and
`ReplacementsExact`, for a content of any length, any number of detections and any
configurations. The invariants are

- `VaultInv`: the tokens made so far are in the transaction unless a flush failed;
- `OverlapInv`: what is kept is disjoint, sorted and begins before everything still
  to be looked at, and each detection looked at is `Settled`. A detection that is
  superseded was not among the severest, and one that is dropped overlaps the last
  one kept, which is at least as severe;
- `ReplaceInv`: before the first detection replaced (`Untouched`) the content is the
  original, after it everything stands in order. It is this prefix that makes the
  positions of the detections still to come valid, and the reason why `execute` goes
  from the end to the start.

Of `RulesetMerge` it proves `TopActionAlwaysApplied`, from `OrderIgnored` and
`ActionOfTopDetector`, for any rulesets and detections. `HitsInv` says that a detection is of a type its ruleset
configures; `MergeInv` that what is merged is the action of the ruleset it came
from, and that no ruleset visited so far (`Merged`) has a stronger one
(`NoStronger`).

`PolicyVersionsProofs` proves for any requests and any `MaxVersion` in `Nat`
`TypeCorrect`, `OneVersionInForce`, `HistoryIsLinear`, `PolicyNeverLost` and
`RegisterImplemented`. `AtMostOneActive` is about committed rows only and not
inductive: whether a commit keeps it depends on what the committing request has
done to the other rows. The invariant adds

- `History`: the committed versions are 1, ..., n;
- `NumberInv`: a version that a request has numbered is the next one or has been
  overtaken, and an inserted one is the next one, with one inserter at a time
  (the unique index makes the others wait);
- `OffInv`: rows are set inactive only on the way to an activation;
- `ActiveInv`: at most one request has an uncommitted active version (the partial
  unique index), and it has set every other active version inactive.

The refinement has one lemma for `Commit` (`CommitImplements`), the only action
that is a step of the register; every other action leaves `rows` and `active`
alone and is a stutter.

`TenantAccessProofs` proves for any requests and keys `TypeCorrect`,
`CoveredKeysAreRevoked` and `TimelyTokensAreSwept`, from `JwtAssumption` (the JWT
is not a key). The argument is about row locks: `LocksExclude` (a row that a
revocation or a deletion has updated is used by no open request) gives
`RevokedMeansLate` (an open request with a revoked key got the row afterwards);
`DeletionPhase` says that what an open deletion has read is still to be locked,
or locked, or revoked, and is the latter two when the sweep starts; hence
`SweepComplete`: what commits after the sweep comes from late requests. The
lemma `EndRequestPreserves` is where these meet.

`MonitoringProofs` proves for any evaluations, subjects and requests
`TypeCorrect`, `DuplicatesOnlyByOverlap`, `FindingsAndCasesAgree`,
`DuplicatesBlock` and `CommitShows`. The inductive invariant adds to the
properties

- `OwnInv`, `IdInv`: ids are unique, an uncommitted case has the id of its
  creator and an item it is past, a request that is not open holds nothing, and what
  is committed is of requests that committed;
- `LockInv`: what a request has updated are committed cases, which no other request
  has updated;
- `RefInv`: an uncommitted finding names a case of its own title, which its
  request has created, has updated or is about to update;
- `SaidInv`: what a request writes to a case is in a finding of its own, and an
  update without the summary leaves the committed one;
- `FreshInv`: the summary of a case that a request has updated, or will update
  without its summary, is from a finding of its own or of a request that overlapped
  it. The one it read may be old, but is then the same text as its own;
- `OverlapInv`: `DuplicatesNeedOverlap` with the uncommitted cases, because the
  duplicate exists before it is committed;
- `BlockInv`: no uncommitted finding needs a case that was duplicated when its
  request began, and those titles stay duplicated.

Of `Dashboards` it proves `DashboardsShowCases`, for every dashboard. `FiniteInv`
makes the counts numbers; `ViewInv` says that the cases named so far are committed
ones of the monitor, which nothing removes, and that `DashboardShowsCases` holds
between the statements already, because no count of findings follows the count of
cases.

Of `Observing` it proves for all values, without bounds, `AssessmentsMonotone`,
`CreditsMonotone` and `CasesKept`. There is one lemma per assessment function;
`StatusMonotone` joins them by monitor and `CaseBySeverity` relates the condition
of each handler to the severity of the status, with the exceptions it has (an
ESG disclosure that is stale needs a case though its status is mild, a RIDDOR
report that is due soon does not). `AlwaysObservation` is the only invariant.

`DecisionsProofs` proves for any calls, request ids, contents and configurations
and any `MaxVersion` `EveryDecisionAuditedOnce`, `RegisterImplemented`,
`AllowedOnlyByReuse` and `VersionsNameOnePolicy`. None of the four properties is
inductive: they speak of committed rows and answers, and a call has taken its
decision several statements before it commits. The invariants are

- `DecisionInv`: types; `CallInv`, what a call has read and flushed at each point,
  in particular that a decision is flushed with its audit entry or not at all;
  `IndexInv`, no two rows of one request id, committed or flushed (the unique
  index makes the second inserter wait); `AuditInv`, committed rows are of calls
  that are over;
- `ReuseInv`: every committed decision has a verdict of its request id, and a
  call that is past its scan goes by its own verdict or one that another call
  committed. A call that loses the race for the index falls under the second;
- `VersionInv`: a call goes by a policy that is committed or that it commits with
  its verdict (`Versioned`), and as long as no two updates overlap, versions are
  in the order of their commits and a policy about to be committed is newer than
  all others (`InOrder`, `Later`).

The refinement has the abstract decision of a request id as the only committed
row of it (`DecidedIs`). Only `Commit` is a step of the register, and
`CommitImplements` shows it to decide, to repeat or to do neither;
`QuietUnlessCommit` shows that all other steps stutter.

`ComplianceDeskProofs` proves for any cases and calls `DuplicateBlocksTheCase`,
`SubmittedStays` and `StampStays`. Its invariant `SarInv` adds to types

- `ReadInv`: what a call has read at each point, and that the rows it has read are
  still there, whatever has changed in them;
- `ReportInv`: a report belongs to a committed case and a call creates one at most;
- `OverlapInv`: a draft that found no report overlaps the creators of all that
  have come since, which is `DuplicatedReportBlocks` before the second is stored;
- `LateInv`: a call begun when its case had two reports does not get past them;
- `SubmittedInv`: a case read as submitted is submitted or was reverted since, so
  that a draft which read it earlier cannot revert it unnoticed;
- `AlertInv`: an alert that has ended without a case came too early.

Of the registers it proves `PagesComplete` and `DashboardsConsistent`, for any rows,
clients, filters and page sizes. `RowsOrdered` says that there are finitely many
rows, ordered by numbers. For a walk (`WalkInv`): what was there at the start and has
not been seen has at least `offset` rows before it, unless two rows tie. Rows that
are committed meanwhile can only push it further back. The lemma `PageReaches` says
that a page which is not full contains everything that far back, and one that is
full leaves only what is `limit` further. For a dashboard (`ViewInv`): what was
counted is at most what is there now, and equal to it while no row was committed;
`PartsFit` compares the parts with the whole at one moment, and the AML dashboard
needs the inequality only, because it counts the whole last.

`EnrichmentProofs` proves for any lookups, jobs, people, files, providers and faults
`OverrunBounded`, `PaidOnce`, `AskedAlike` and `JobsShowTheirRows`. `Shape` says where
a lookup and a job can be and what they hold there. Beside it

- `LimitInv`: those counted or still open are at most `Limit - 1 + peak` together. A
  lookup is let in when fewer than `Limit` rows were counted, and is one of the open
  ones from then on; that its row is written moves it from one set to the other;
- `PaidInv`: who was answered with an email has some key in the cache
  (`AnsweredCached`), and a lookup that began when an email was known and has passed
  the cache asked under another key, which only happens with three slashes or more
  (`PaidAt`). The lemmas about `normalizeCandidate` say what a second and a third
  normalisation change: nothing but a missing name, a blank domain, a slash and the
  blank space inside the full name. They rest on facts about `trim` and give
  `AsksTheSame`, from which `AskedAlike` follows without further state;
- `JobsInv`: the row of a job fits what its worker has done at each of its points
  (`RowFits`), also when an update was refused or its answer lost.

The theorems about `ActionExecutor`, `RulesetMerge`, `Observing` and `Dashboards` are
about their own specifications (`ExecutorSpec`, `MergeSpec`, `ObservingSpec`,
`DashboardsSpec`). `Judgements` composes two of them without shared state, and the
`MCSpec` of `monitoring` allows fewer steps than `DashboardsSpec`.

The proofs rest on the named assumptions of the modules only. They give constants
their types, make some sets finite and keep names apart (a JWT is not a key, a job is
not a lookup); two say more: `KeysAssumption` (`Registers`: which keys the schemas
require) and `EnrichmentAssumption` (`Enrichment`: a file has at least one row, the
limit and the interval are positive).

Only model-checked are two safety properties, `WorseNeverMilder` and
`OnlyReviewSoftensBlock`: they compare sums over sets that `AgentSecurity` writes with
the folds of the community modules, about which nothing is proved (of
`AgentSecurity` the other proofs use only that the action is one of three values and
that a policy which monitors blocks nothing). All liveness properties
(`AccessDrains`, `RequestsEnd`, `EvaluationsEnd`, `CallsEnd`, `JobsEnd`) stay with TLC,
because fairness needs ENABLED, which the prover does not support. No recursive
operator is used in the modules proved about.

## 7. Divergences between the code and what it says

Two are runs that TLC finds violated, with the quoted line in `PROJECT.json`:

1. Offboarding sweeps the tokens committed by then (`admin/router.py:331`); a
   request already let in leaves a valid token behind.
2. Overlapping detections: the part of the replaced detection outside the one
   that replaced it, and a detection dropped for one that is replaced later, are
   sent in clear (`actions/executor.py:263-291`).

Others were met while modelling and are not runs of their own. The passing
properties state exactly what remains true beside them:

- The audit chain forks when two requests are logged at once
  (`audit/logger.py:153`), and verification reports tampering for ever after:
  `VerifiesUnlessOverlapped` and `BrokenStaysBroken`.
- The signature "covers ALL fields" (`audit/signer.py:52`) and "tampering with any
  entry breaks the chain" (`audit/models.py:48`), but the payload has neither the
  token counts nor `model` nor `created_at` (`signer.py:55-73`): a row altered in
  these alone verifies. `ModificationDetected`, in `TamperingDetected`, says that an
  alteration is found exactly when it touches a signed column or the link. (The
  row's `id` is not signed either: only the order it gives is checked.)
- A data key is cached before its row is committed (`vault/key_manager.py:329`);
  after a rollback other requests encrypt under a key nobody has:
  `UndecryptableOnlyIfLost` names the keys this happens to.
- `verify_chain_integrity` reads the oldest N rows, its docstring says the last N
  (`audit/logger.py:176,181`); `TamperingDetected` is about the window the code reads.
- The health check can put a key that is stored nowhere into the cache
  (`proxy/router.py:641`); `UndecryptableOnlyIfLost` names those keys.
- A request that waited for the row lock of its key goes on after a revocation
  that "stops working immediately" (`admin/router.py:257`), and a key issued while
  a deletion runs stays unrevoked; `TimelyRequestsAreSwept` and
  `CoveredKeysRevoked` except precisely these, and `AccessDrains` says they do
  not last.
- `get_merged_actions` and `_deduplicate` put the rank of the ruleset before the
  severity and the confidence that their docstrings name
  (`rulesets/registry.py:85`, `detection/engine.py:113`); `MergeIgnoresOrder` and
  `TopDetectorDecides` are what they do.
- Publishing or activating a policy version changes no decision: the decision
  service reads the legacy policy row (`agent_security/service.py`), not the
  versions.
- A request id stands for the first content decided under it
  (`docs/ADVISOR_FEATURE_SPEC_WALKTHROUGH.md:184-187` and `210-213` promise
  idempotency by request id, which is that): other content, or the same under a
  stricter policy, gets the old answer. An unsigned answer is not kept, and asking
  again decides anew. `BlockedAllowedOnlyByReuse` is what remains, with one more
  exception: the policy is read twice (`decisions/service.py:102`,
  `agent_security/service.py:246`), and when it is replaced in between, a call whose
  scan fails answers by the first one's mode what the second one blocks. For the
  same reason a decision may name an older policy version than its verdict.
- `expected_version` does not stop updates that overlap
  (`agent_security/service.py:223-228`): both pass the check and store the same
  version. `VersionsNamePolicies` holds without overlap only.
- A review asked for by the controls comes before a block asked for by a
  detection (`decisions/service.py:409`): more evidence may turn a block into a
  review. `OnlyReviewSoftensBlock` says this is the only way.
- The rule for invisible characters never matches: the normalisation removes them
  first (`agent_security/service.py:806-812`). A tool granted with a wildcard scope
  keeps it, and lowering `max_tools_per_task` can lower the score of a request,
  because a denied tool costs less than a granted wildcard.
- A generated SAR draft (`sar-draft` without a text) always fails: the report
  returned has no `report_id`, so the response cannot be built
  (`compliance/service.py:925-963`), and the dashboard's `sar-draft {}` cannot
  work. A draft with one of its two texts is refused by NOT NULL.
- A draft saved after the submission sets the case back to in review though its
  report awaits consent (`compliance/service.py:1015`):
  `SubmittedUnlessRedrafted`. Two first drafts at once make two reports, after
  which the case can be neither drafted nor submitted: `DuplicatedReportBlocks`.
- Listings page by offset while rows are inserted: a client that stops at the
  total may miss a row, and rows of equal keys may be seen twice or not at all
  (`PagesMissNothing`). The filters of the SLA, retention and R&D registers are
  compared as they come, while the stored texts are stripped. The AML dashboard
  counts its whole last, the ESG and ROPA dashboards theirs first
  (`DashboardsAddUp`).
- `list_aml_cases` selects tuples and reads `row.id` (`compliance/service.py:786-812`):
  any page with a row is an error 500.
- The daily limit of the enrichment service is not checked for batches, whose rows
  count all the same, and concurrent lookups pass it together. `LimitOverrunBounded`
  is about single lookups that have a row of today: rows of batches, and the second
  row of a lookup whose first one was logged with an error, are beyond it.
- A found email may be paid for more than once: by lookups that were past the cache
  when the first one was answered, and by one lookup, which asks the next provider
  when storing or logging what it found fails (`waterfall.js:99-101`).
  `EmailsPaidOnce` is about lookups that begin after another was answered.
- A job shows at most an interval of rows less than its worker has done, which is
  not made up when the update that was due is refused (`JobRowsAgree`).
- `normalizeCandidate` is applied twice to a row of a file and is not idempotent: a
  missing name is filled from the other, a blank domain is replaced by a guess, a
  slash goes from the end of a URL each time, so that one with three has another key
  in a file, and "Ann " and "Lee", joined untrimmed (`normalizer.js:51`), are sent to
  rocketreach with two spaces alone and with one from a file
  (`BatchAsksTheSame`, `EmailsPaidOnce`). A malformed escape in a LinkedIn URL
  fails the whole file.
- Nothing resumes a batch job: after a restart it stays "processing", after a lost
  answer of its creation "pending"; a failure to record a failure ends the process
  with all other jobs (`JobsEnd` names them as `stranded`).
- A case may show another summary than the last evaluation committed about it, when
  that one's equals what it read and another was committed meanwhile
  (`compliance/service.py:3701`): `CommittedSummaryShows` says that the other
  overlapped it.
- "case dedupe/reuse for open in-review states where implemented"
  (`docs/ADVISOR_FEATURE_SPEC_WALKTHROUGH.md:225`) holds only between evaluations
  that do not overlap (`compliance/service.py:3687`); `DuplicatesNeedOverlap` says
  so, and `DuplicatedTitleBlocks` what follows from a duplicate.
- An ESG disclosure without a date is never stale, and a stale optional one is
  assessed better if it is left out altogether; `WorseDisclosure` excludes
  precisely these two from what it calls worse.
- The alert about an escalated AML signal is sent for cases of priority "high"
  (`compliance/service.py:743`) and not for "critical" ones, the more severe.

## 8. Not modelled

Components with status `not_modelled` in `PROJECT.json`, with their reasons. Three
of them end, by the code, before what they are for:

- the audit tasks of the proxy look their tenant up by a Python property
  (`proxy/interceptor.py:340`), a condition that is constant false, so that no
  event is written, retried or dead-lettered;
- the SLA evaluator selects the same property (`sla/evaluator.py:58`), which is not
  a column: every policy fails and is logged, no breach is opened;
- the deletion job builds an UPDATE from a text() clause and names columns the
  schema lacks, so that the outcomes of its steps cannot be established from the
  code.

Within the modelled ones: cryptography (signatures and hashes are injective
records), the `local` and `hashicorp` key backends, tokens' expiry, API key
expiry, YAML loading, the wording of masks, pseudonyms, reports and evidence, the
recognition of sensitive data in text (positions are those of the original: the
normalisation before the detection, and the extraction and rebuild of messages,
are left out), an exception of the sweep of tokens that is not the database's
(`admin/router.py:337` logs it and deletes the tenant all the same), and performance
(latencies, rate limits of the proxy).
`TokenVault.retrieve`, `invalidate` and `cleanup_expired` are called only by
tests. Of the compliance service `list_aml_signals` and `list_aml_cases`, which
change nothing, and of the dashboards the sums, the windows and some counts of
registers; of the enrichment service the
authentication, the upload and parsing of files and the endpoints that only read.
