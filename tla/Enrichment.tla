----------------------------- MODULE Enrichment -----------------------------
(***************************************************************************)
(* The enrichment service (enrichall/src): single lookups (POST            *)
(* /api/enrich) and batch jobs (POST /api/enrich/batch) that a worker in   *)
(* the same Node process takes row by row through the cache and the user's *)
(* providers.  One user; each await is a step.                             *)
(*                                                                         *)
(* A call of the database may be refused, or be done and its answer lost:  *)
(* the client reports an error either way.  The process may crash and be   *)
(* restarted; nothing picks a job up again.                                *)
(***************************************************************************)
EXTENDS Candidates, FiniteSets, SequencesExt

CONSTANTS
    Singles,       \* single lookups, each made once
    Jobs,          \* batch jobs, each uploaded once
    Providers,     \* adapters a key may be stored for
    People,        \* who may be looked up
    Given,         \* what is asked for each of them
    Asked,         \* those of single lookups
    Files,         \* CSV files: sequences of people
    Limit,         \* FREE_LOOKUPS_PER_DAY
    ProgressEvery, \* rows between two updates of a job
    Priorities,    \* priorities of a stored key
    Inactive,      \* no key, or one that is not active
    MaxFaults      \* bound: failed calls of the database and crashes

ASSUME EnrichmentAssumption ==
    /\ Singles \intersect Jobs = {} /\ Providers \subseteq PROVIDERS
    /\ Limit \in Nat \ {0} /\ ProgressEvery \in Nat \ {0}
    /\ \A file \in Files : file \in Seq(People) /\ file # <<>>
    /\ Asked \subseteq People /\ Given \in [People -> Person]

VARIABLES
    config,   \* provider_keys: the priority of each active provider
    cache,    \* enrichment_cache: keys with an email that has not expired
    used,     \* usage_log: rows of today
    job,      \* batch_jobs
    lookup,   \* where each single lookup and each worker is
    output,   \* outputRows of each worker: whether a row got an email
    faults,
    logged,   \* history: single lookups with a row of today
    peak,     \* history: most single lookups open at once
    answered, \* history: inputs answered with an email that has not expired
    stranded  \* history: jobs whose worker was lost or never started

vars == <<config, cache, used, job, lookup, output, faults, logged, peak, answered, stranded>>
history == <<logged, peak, answered, stranded>>

-----------------------------------------------------------------------------
Agents == Singles \union Jobs
NoJob == [status |-> "none", file |-> <<>>, processed |-> 0, found |-> 0,
          url |-> FALSE]
At(place) == [at |-> place]
Open(a) == lookup[a].at \notin {"idle", "answered", "failed", "gone"}
OpenSingles == {s \in Singles : Open(s)}

\* What became of a call: done, refused, or done and its answer lost.
Outcomes == IF faults < MaxFaults THEN {"done", "refused", "lost"} ELSE {"done"}
Reads == Outcomes \ {"lost"}
Applied(outcome) == outcome # "refused"
Charge(outcome) == faults' = faults + IF outcome = "done" THEN 0 ELSE 1

Goto(a, place) == lookup' = [lookup EXCEPT ![a].at = place]
Leaves(a, place) == lookup' = [lookup EXCEPT ![a] = At(place)]

\* A worker is handed the row mapCsvRow has normalised.
candidate ==
    [a \in Agents |-> [q \in People |->
        normalizeCandidate(IF a \in Jobs THEN mapCsvRow(Given[q]) ELSE Given[q])]]
key == [a \in Agents |-> [q \in People |-> lookupKey(candidate[a][q])]]
KeyOf(a) == key[a][lookup[a].person]
Found(j, n) == Cardinality({i \in 1..n : output[j][i]})

EnrichmentInit ==
    /\ config \in [Providers -> Priorities \union {Inactive}]
    /\ cache = {} /\ used = 0
    /\ job = [j \in Jobs |-> NoJob]
    /\ lookup = [a \in Agents |-> At("idle")]
    /\ output = [j \in Jobs |-> <<>>]
    /\ faults = 0
    /\ logged = {} /\ peak = 0 /\ answered = {} /\ stranded = {}

-----------------------------------------------------------------------------
(* enrichCandidate, for a single lookup and for a row of a worker.         *)

\* known is history: when the lookup began the same person had been answered
\* with an email still cached ("yes"), or it has expired since ("expired").
Begin(a, q) ==
    IF Malformed(Given[q]) THEN At(IF a \in Jobs THEN "fail" ELSE "failed")
    ELSE [at |-> "cache", person |-> q, todo |-> <<>>,
          known |-> IF q \in answered THEN "yes" ELSE "no"]

Throws(a) == Leaves(a, IF a \in Jobs THEN "fail" ELSE "failed")

\* After its row, a worker reports progress or goes on.
Answers(a, found) ==
    /\ answered' = IF found /\ lookup[a].known # "expired"
                   THEN answered \union {lookup[a].person} ELSE answered
    /\ IF a \in Singles
       THEN Leaves(a, "answered") /\ UNCHANGED output
       ELSE LET n == Len(output[a]) + 1
            IN  /\ output' = [output EXCEPT ![a] = Append(@, found)]
                /\ Leaves(a, IF n % ProgressEvery = 0 \/ n = Len(job[a].file)
                             THEN "progress" ELSE "row")

\* Variant: a lookup more than the limit.
enforceDailyLookupLimit_above(s, q) ==
    /\ lookup[s].at = "idle"
    /\ \E outcome \in Reads :
          /\ Charge(outcome)
          /\ LET refused == outcome = "refused" \/ used > Limit
             IN  /\ lookup' = [lookup EXCEPT ![s] =
                                  IF refused THEN At("failed") ELSE Begin(s, q)]
                 /\ peak' = IF ~refused /\ Cardinality(OpenSingles) + 1 > peak
                            THEN Cardinality(OpenSingles) + 1 ELSE peak
    /\ UNCHANGED <<config, cache, used, job, output, logged,
                   answered, stranded>>

\* All rows of the day count, those of workers too; workers are not checked.
enforceDailyLookupLimit(s, q) ==
    /\ lookup[s].at = "idle"
    /\ \E outcome \in Reads :
          /\ Charge(outcome)
          /\ LET refused == outcome = "refused" \/ used >= Limit
             IN  /\ lookup' = [lookup EXCEPT ![s] =
                                  IF refused THEN At("failed") ELSE Begin(s, q)]
                 /\ peak' = IF ~refused /\ Cardinality(OpenSingles) + 1 > peak
                            THEN Cardinality(OpenSingles) + 1 ELSE peak
    /\ UNCHANGED <<config, cache, used, job, output, logged,
                   answered, stranded>>

getCache(a) ==
    /\ lookup[a].at = "cache"
    /\ \E outcome \in Reads :
          /\ Charge(outcome)
          /\ IF outcome = "refused" THEN Throws(a)
             ELSE Goto(a, IF KeyOf(a) \in cache THEN "log hit" ELSE "providers")
    /\ UNCHANGED <<config, cache, used, job, output, history>>

\* Answered without a row in the log when there is no provider.
getUserProviders(a) ==
    /\ lookup[a].at = "providers"
    /\ LET active == {p \in Providers : config[p] # Inactive}
       IN  \E outcome \in Reads :
              /\ Charge(outcome)
              /\ \/ /\ outcome = "refused"
                    /\ Throws(a)
                    /\ UNCHANGED <<output, answered>>
                 \/ /\ outcome = "done" /\ active = {}
                    /\ Answers(a, FALSE)
                 \/ /\ outcome = "done" /\ active # {}
                    /\ \E order \in SetToSeqs(active) :
                          /\ \A i, k \in 1..Len(order) :
                                i < k => config[order[i]] <= config[order[k]]
                          /\ lookup' = [lookup EXCEPT ![a].at = "try",
                                                      ![a].todo = order]
                    /\ UNCHANGED <<output, answered>>
    /\ UNCHANGED <<config, cache, used, job, logged, peak, stranded>>

\* The next provider, or the row of a lookup that found nothing.
Next_provider(a) ==
    lookup' = [lookup EXCEPT
        ![a].todo = Tail(@),
        ![a].at = IF Len(lookup[a].todo) = 1 THEN "log none" ELSE "try"]

\* An email, none, or an error.
findEmail(a) ==
    /\ lookup[a].at = "try"
    /\ \/ Goto(a, "save")
       \/ Next_provider(a)
    /\ UNCHANGED <<config, cache, used, job, output, faults, history>>

\* Variant: an error of the upsert is not looked at.
setCache_unchecked(a) ==
    /\ lookup[a].at = "save"
    /\ \E outcome \in Outcomes :
          /\ Charge(outcome)
          /\ cache' = IF Applied(outcome) THEN cache \union {KeyOf(a)} ELSE cache
          /\ Goto(a, "log found")
    /\ UNCHANGED <<config, used, job, output, history>>

\* An error counts against the provider: the next one is tried.
setCache(a) ==
    /\ lookup[a].at = "save"
    /\ \E outcome \in Outcomes :
          /\ Charge(outcome)
          /\ cache' = IF Applied(outcome) THEN cache \union {KeyOf(a)} ELSE cache
          /\ IF outcome = "done" THEN Goto(a, "log found") ELSE Next_provider(a)
    /\ UNCHANGED <<config, used, job, output, history>>

\* The three calls in enrichCandidate differ in what an error leads to.
logUsage(a) ==
    /\ lookup[a].at \in {"log hit", "log found", "log none"}
    /\ \E outcome \in Outcomes :
          /\ Charge(outcome)
          /\ used' = IF Applied(outcome) THEN used + 1 ELSE used
          /\ logged' = IF Applied(outcome) THEN logged \union ({a} \intersect Singles)
                       ELSE logged
          /\ \/ /\ outcome = "done"
                /\ Answers(a, lookup[a].at # "log none")
             \/ /\ outcome # "done"
                /\ IF lookup[a].at = "log found" THEN Next_provider(a) ELSE Throws(a)
                /\ UNCHANGED <<output, answered>>
    /\ UNCHANGED <<config, cache, job, peak, stranded>>

EnrichStep(a) ==
    getCache(a) \/ getUserProviders(a) \/ findEmail(a) \/ setCache(a) \/ logUsage(a)

-----------------------------------------------------------------------------
(* Batch jobs.                                                             *)

\* The row is inserted, then the worker started: not when the answer is lost.
createBatchJob(j, file) ==
    /\ lookup[j].at = "idle"
    /\ \E outcome \in Outcomes :
          /\ Charge(outcome)
          /\ Goto(j, IF outcome = "done" THEN "start" ELSE "failed")
          /\ job' = IF Applied(outcome)
                    THEN [job EXCEPT ![j] = [NoJob EXCEPT !.status = "pending",
                                                          !.file = file]]
                    ELSE job
          /\ stranded' = IF outcome = "lost" THEN stranded \union {j} ELSE stranded
    /\ UNCHANGED <<config, cache, used, output, logged, peak, answered>>

\* An awaited update of the row; an error leads to the catch.
updateJob(j, row, next) ==
    \E outcome \in Outcomes :
        /\ Charge(outcome)
        /\ job' = IF Applied(outcome) THEN [job EXCEPT ![j] = row] ELSE job
        /\ Goto(j, IF outcome = "done" THEN next ELSE "fail")

StartJob(j) ==
    /\ lookup[j].at = "start"
    /\ updateJob(j, [job[j] EXCEPT !.status = "processing"], "row")
    /\ UNCHANGED <<config, cache, used, output, history>>

NextRow(j) ==
    /\ lookup[j].at = "row"
    /\ LET n == Len(output[j]) + 1
       IN  IF n > Len(job[j].file) THEN Goto(j, "upload")
           ELSE lookup' = [lookup EXCEPT ![j] = Begin(j, job[j].file[n])]
    /\ UNCHANGED <<config, cache, used, job, output, faults, history>>

\* Variant: the row's index, which starts at 0.
Progress_index(j) ==
    /\ lookup[j].at = "progress"
    /\ LET n == Len(output[j])
       IN  updateJob(j, [job[j] EXCEPT !.processed = n - 1, !.found = Found(j, n)], "row")
    /\ UNCHANGED <<config, cache, used, output, history>>

Progress(j) ==
    /\ lookup[j].at = "progress"
    /\ LET n == Len(output[j])
       IN  updateJob(j, [job[j] EXCEPT !.processed = n, !.found = Found(j, n)], "row")
    /\ UNCHANGED <<config, cache, used, output, history>>

\* An upload again to the same path replaces the file.
uploadResultCsv(j) ==
    /\ lookup[j].at = "upload"
    /\ \E outcome \in Outcomes :
          /\ Charge(outcome)
          /\ Goto(j, IF outcome = "done" THEN "complete" ELSE "fail")
    /\ UNCHANGED <<config, cache, used, job, output, history>>

Complete(j) ==
    /\ lookup[j].at = "complete"
    /\ LET n == Len(job[j].file)
       IN  updateJob(j, [job[j] EXCEPT !.status = "complete", !.processed = n,
                                       !.found = Found(j, n), !.url = TRUE],
                     "answered")
    /\ UNCHANGED <<config, cache, used, output, history>>

\* A lookup or a worker that is open ends with the process.
Crash ==
    /\ lookup' = [a \in Agents |-> IF Open(a) THEN At("gone") ELSE lookup[a]]
    /\ stranded' = stranded \union {j \in Jobs : Open(j)}

\* Variant: the job is left as it is.
RecordFailure_unrecorded(j) ==
    /\ lookup[j].at = "fail"
    /\ Goto(j, "failed")
    /\ UNCHANGED <<config, cache, used, job, output, faults, history>>

\* The update in the catch.  Its error rejects a promise nobody handles, which
\* ends the process.
RecordFailure(j) ==
    /\ lookup[j].at = "fail"
    /\ \E outcome \in Outcomes :
          /\ Charge(outcome)
          /\ job' = IF Applied(outcome) THEN [job EXCEPT ![j].status = "failed"] ELSE job
          /\ IF outcome = "done" THEN Goto(j, "failed") /\ UNCHANGED stranded ELSE Crash
    /\ UNCHANGED <<config, cache, used, output, logged, peak, answered>>

Work(j) ==
    \/ StartJob(j) \/ NextRow(j) \/ Progress(j) \/ uploadResultCsv(j)
    \/ Complete(j) \/ RecordFailure(j)

-----------------------------------------------------------------------------
(* The user's keys, time, and the process.                                 *)

SaveProvider(p, priority) ==
    /\ config' = [config EXCEPT ![p] = priority]
    /\ UNCHANGED <<cache, used, job, lookup, output, faults, history>>

DeleteProvider(p) == SaveProvider(p, Inactive)

\* Thirty days after the last lookup that found the email.
Expire(old) ==
    /\ cache' = cache \ {old}
    /\ LET of(q) == \E a \in Agents : old = key[a][q]
       IN  /\ answered' = {q \in answered : ~of(q)}
           /\ lookup' = [a \in Agents |->
                 IF "known" \in DOMAIN lookup[a] /\ of(lookup[a].person)
                 THEN [lookup[a] EXCEPT !.known = "expired"] ELSE lookup[a]]
    /\ UNCHANGED <<config, used, job, output, faults, logged, peak, stranded>>

Midnight ==
    /\ used' = 0 /\ logged' = {}
    /\ UNCHANGED <<config, cache, job, lookup, output, faults, peak,
                   answered, stranded>>

Restart ==
    /\ faults < MaxFaults /\ \E a \in Agents : Open(a)
    /\ faults' = faults + 1
    /\ Crash
    /\ UNCHANGED <<config, cache, used, job, output, logged, peak, answered>>

Next ==
    \/ \E s \in Singles, q \in Asked : enforceDailyLookupLimit(s, q)
    \/ \E j \in Jobs, file \in Files : createBatchJob(j, file)
    \/ \E a \in Agents : EnrichStep(a)
    \/ \E j \in Jobs : Work(j)
    \/ \E p \in Providers, priority \in Priorities : SaveProvider(p, priority)
    \/ \E p \in Providers : DeleteProvider(p)
    \/ \E old \in cache : Expire(old)
    \/ Midnight \/ Restart

\* The database and the providers answer a worker, or its connection ends.
Spec ==
    /\ EnrichmentInit /\ [][Next]_vars
    /\ \A j \in Jobs : WF_vars(EnrichStep(j) \/ Work(j))

-----------------------------------------------------------------------------
(* Properties.                                                             *)

\* The count is read long before the row is written, so concurrent lookups get
\* past the limit: of the single lookups with a row of today there are at most as
\* many more than the limit as were open at once, less one.  Rows of batches, and
\* the second row of a lookup whose first one was logged with an error, are not
\* bounded.
LimitOverrunBounded == Cardinality(logged) <= Limit - 1 + peak

\* A worker reads its own row normalised once more than a single lookup does,
\* and asks providers the same, unless a name is missing, a blank domain
\* was given, the URL ends in several slashes, or, of rocketreach, which is
\* sent the full name, there was blank space between the names.
BatchAsksTheSame ==
    \A j \in Jobs :
        lookup[j].at = "try" =>
            LET q == lookup[j].person
                single == normalizeCandidate(Given[q])
                p == Head(lookup[j].todo)
            IN  \/ Sent(p, candidate[j][q]) = Sent(p, single)
                \/ Missing \in {single.first, single.last}
                \/ Given[q].domain = Blank
                \/ Given[q].url.slashes > 1
                \/ p = "rocketreach" /\ Given[q].gap

\* A lookup that begins after its person was answered with an email does not
\* ask a provider before the email expires, in a file as well as alone,
\* whatever faults and crashes came in between.  Not so a lookup that was
\* already past the cache when the other was answered, nor the second provider
\* of one lookup, asked after the first one's email could not be stored or
\* logged.  A URL with three slashes at its end has a key of its own in a file.
EmailsPaidOnce ==
    \A a \in Agents :
        lookup[a].at = "try" =>
            lookup[a].known # "yes" \/ Given[lookup[a].person].url.slashes > 2

\* What a job shows is what its worker did: the emails found among the rows
\* reported, which lag at most an interval behind, and a result only for the
\* whole file.  The lag is a whole interval while a progress update is on its
\* way, and for good when that update is refused or its worker lost.  A failed
\* job has a result when the answer of the last update was lost.
JobRowsAgree ==
    \A j \in Jobs :
        LET row == job[j]
        IN  /\ row.processed <= Len(output[j]) /\ row.found = Found(j, row.processed)
            /\ Len(output[j]) - row.processed <= ProgressEvery
            /\ row.status = "complete" => row.url
            /\ row.url => /\ row.status \in {"complete", "failed"}
                          /\ row.processed = Len(row.file)

\* A job ends, complete or failed, whatever a provider or the database answers,
\* unless its worker went with the process or was never started.
JobsEnd ==
    \A j \in Jobs :
        job[j].status \in {"pending", "processing"} ~>
            job[j].status \in {"complete", "failed"} \/ j \in stranded
=============================================================================
