------------------------------ MODULE LiteFetch ------------------------------
(***************************************************************************)
(* One Lite job from its upload to its result: the worker of               *)
(* routers/lite._run_lite_job, LiteService._fetch_route_map and its pool   *)
(* of threads, SFClient.call and its retries, and the job's record in      *)
(* LiteJobStore, which the page polls for progress.                        *)
(*                                                                         *)
(* The worker submits the batches (it may sleep between two) and then      *)
(* collects them in any order; the threads take them in order and post to  *)
(* SF until it answers, refuses or the attempts are used up.               *)
(***************************************************************************)
EXTENDS LiteRows, FiniteSets

CONSTANTS
    Sheets,               \* the uploads: sequences of rows
    AllSettings           \* what a job may be run with

\* batch_size is the client's; lite_fetch_concurrency and sf_request_max_attempts are
\* configured.
ASSUME FetchAssumption ==
    /\ Sheets \subseteq Seq(Row)
    /\ AllSettings \subseteq [batch_size : Int, concurrency : Int, attempts : Int]

VARIABLES
    settings, sheet,      \* what the job is run with, and the rows of the upload
    pc,                   \* the worker
    prepared,             \* its prepare_content
    status,               \* the record: status
    query_target_count,   \* the record: tracking numbers to query
    completed_targets,    \* the record: how many have been
    remaining_targets,    \* the record: how many have not
    progress_percent,     \* the record: the same, for the page
    submitted,            \* batches handed to the pool
    batch,                \* what has become of each batch
    attempt,              \* the attempt its thread is at
    answers,              \* its future: a status for each of its numbers
    route_map,            \* what the worker has collected
    result,               \* the rows of the response
    routed,               \* history: numbers SF answered with a route
    unmappable            \* history: batches answered with a route that cannot be mapped

given == <<settings, sheet>>
record == <<status, query_target_count, completed_targets, remaining_targets,
            progress_percent>>
pool == <<submitted, batch, attempt, answers>>
history == <<routed, unmappable>>
vars == <<given, pc, prepared, record, pool, route_map, result, history>>

AtLeastOne(n) == IF n < 1 THEN 1 ELSE n
AtMost(n, cap) == IF n > cap THEN cap ELSE n

batch_size == AtLeastOne(AtMost(settings.batch_size, 10))

\* Mutant: as configured, even 0.
concurrency_AsConfigured == settings.concurrency

concurrency == AtLeastOne(AtMost(settings.concurrency, 3))
max_attempts == AtLeastOne(settings.attempts)

EmptyMap == [n \in {} |-> NoTracking]

\* What _fetch_route_batch reports of a tracking number.
Mapped == "MAPPED"
Partial == "QUERY_FAILED: PARTIAL_MISSING"
ClientError == "QUERY_FAILED: SF_CLIENT_ERROR"
Unexpected == "QUERY_FAILED: UNEXPECTED_ERROR"
Outcomes == {Mapped, Partial, ClientError, Unexpected}

\* tracking_numbers[start : start + batch_size] for start in range(0, n, batch_size)
BatchCount(p) == (Len(p.numbers) + batch_size - 1) \div batch_size
Batches == 1 .. BatchCount(prepared)
BatchNumbers(b) ==
    SubSeq(prepared.numbers, (b - 1) * batch_size + 1,
           AtMost(b * batch_size, Len(prepared.numbers)))
NumbersOf(b) == ToSet(BatchNumbers(b))

Init ==
    /\ settings \in AllSettings /\ sheet \in Sheets
    /\ pc = "prepare"
    /\ prepared = PrepareContent(<<>>)
    /\ status = "queued"
    /\ query_target_count = 0 /\ completed_targets = 0 /\ remaining_targets = 0
    /\ progress_percent = 0
    /\ submitted = 0
    /\ batch = <<>> /\ attempt = <<>> /\ answers = <<>>
    /\ route_map = EmptyMap
    /\ result = <<>>
    /\ routed = {} /\ unmappable = {}

-----------------------------------------------------------------------------
(* LiteJobStore's record *)

MarkRunning(p) ==
    LET total == Len(p.numbers) IN
    /\ status' = "running"
    /\ query_target_count' = total
    /\ completed_targets' = 0
    /\ remaining_targets' = total
    /\ progress_percent' = IF total = 0 THEN 100 ELSE 0

UpdateProgress(completed, total) ==
    /\ completed_targets' = completed
    /\ remaining_targets' = IF total > completed THEN total - completed ELSE 0
    /\ progress_percent' = IF total = 0 THEN 100 ELSE (completed * 100) \div total
    /\ UNCHANGED <<status, query_target_count>>

MarkCompleted ==
    /\ status' = "completed"
    /\ query_target_count' = Len(prepared.numbers)
    /\ completed_targets' = Len(prepared.numbers)
    /\ remaining_targets' = 0
    /\ progress_percent' = 100

MarkFailed ==
    /\ status' = "failed"
    /\ remaining_targets' = IF completed_targets < query_target_count
                            THEN query_target_count - completed_targets
                            ELSE remaining_targets
    /\ UNCHANGED <<query_target_count, completed_targets, progress_percent>>

-----------------------------------------------------------------------------
(* The worker *)

Prepare ==
    /\ pc = "prepare"
    /\ prepared' = PrepareContent(sheet)
    /\ MarkRunning(prepared')
    /\ batch' = [b \in 1 .. BatchCount(prepared') |-> "waiting"]
    /\ attempt' = [b \in 1 .. BatchCount(prepared') |-> 1]
    /\ answers' = [b \in 1 .. BatchCount(prepared') |-> EmptyMap]
    /\ pc' = "fetch"
    /\ UNCHANGED <<given, submitted, route_map, result, history>>

\* The worker raises, and the task marks the job failed: the file cannot be read or
\* has no order number column, no API key is active, the result cannot be saved.
Fail ==
    /\ pc \in {"prepare", "fetch", "save"}
    /\ pc = "fetch" => prepared.numbers # <<>>
    /\ MarkFailed
    /\ pc' = "failed"
    /\ UNCHANGED <<given, prepared, pool, route_map, result, history>>

\* _fetch_route_map reports 0 of them before the first batch, or is done at once.
Fetch ==
    /\ pc = "fetch"
    /\ UpdateProgress(0, Len(prepared.numbers))
    /\ pc' = IF prepared.numbers = <<>> THEN "respond" ELSE "submit"
    /\ UNCHANGED <<given, prepared, pool, route_map, result, history>>

Submit ==
    /\ pc = "submit"
    /\ submitted' = submitted + 1
    /\ batch' = [batch EXCEPT ![submitted'] = "queued"]
    /\ pc' = IF submitted' = BatchCount(prepared) THEN "collect" ELSE "submit"
    /\ UNCHANGED <<given, prepared, record, attempt, answers, route_map, result, history>>

\* Mutant: every batch counts for batch_size, the last one too.
NewlyCompleted_Full(b) == batch_size

\* Mutant: progress is computed from the number of the batch, not counted.
NewlyCompleted_ByIndex(b) == b * batch_size - completed_targets

NewlyCompleted(b) == Len(BatchNumbers(b))

Merged(b) == [n \in DOMAIN route_map \cup DOMAIN answers[b] |->
                 IF n \in DOMAIN answers[b] THEN answers[b][n] ELSE route_map[n]]

\* as_completed: the batches that are done, in any order.
Collect(b) ==
    /\ pc = "collect" /\ batch[b] = "done"
    /\ batch' = [batch EXCEPT ![b] = "collected"]
    /\ route_map' = Merged(b)
    /\ UpdateProgress(completed_targets + NewlyCompleted(b), Len(prepared.numbers))
    /\ pc' = IF \A c \in Batches : batch'[c] = "collected" THEN "respond" ELSE "collect"
    /\ UNCHANGED <<given, prepared, submitted, attempt, answers, result, history>>

Respond ==
    /\ pc = "respond"
    /\ result' = BuildRunResponse(prepared, route_map)
    /\ pc' = "save"
    /\ UNCHANGED <<given, prepared, record, pool, route_map, history>>

\* LiteResults has the steps of save_result.
Complete ==
    /\ pc = "save"
    /\ MarkCompleted
    /\ pc' = "completed"
    /\ UNCHANGED <<given, prepared, pool, route_map, result, history>>

-----------------------------------------------------------------------------
(* A thread of the pool: _fetch_route_batch *)

\* The pool's queue is first in, first out.
Take(b) ==
    /\ batch[b] = "queued"
    /\ \A c \in Batches : batch[c] = "queued" => b <= c
    /\ Cardinality({c \in Batches : batch[c] = "running"}) < concurrency
    /\ batch' = [batch EXCEPT ![b] = "running"]
    /\ UNCHANGED <<given, pc, prepared, record, submitted, attempt, answers, route_map,
                   result, history>>

Return(b, map) ==
    /\ batch[b] = "running"
    /\ batch' = [batch EXCEPT ![b] = "done"]
    /\ answers' = [answers EXCEPT ![b] = map]
    /\ UNCHANGED <<given, pc, prepared, record, submitted, attempt, route_map, result>>

Same(b, outcome) == [n \in NumbersOf(b) |-> outcome]

\* SF cannot be reached, does not answer in time, or answers 408, 429 or 5xx: the
\* thread sleeps and posts again, until the attempts are used up.
Retry(b) ==
    /\ batch[b] = "running" /\ attempt[b] < max_attempts
    /\ attempt' = [attempt EXCEPT ![b] = @ + 1]
    /\ UNCHANGED <<given, pc, prepared, record, submitted, batch, answers, route_map,
                   result, history>>

Exhausted(b) ==
    /\ attempt[b] >= max_attempts
    /\ Return(b, Same(b, ClientError))
    /\ UNCHANGED history

\* SF answers that the request failed, or without routes: extract_route_payload raises.
Refused(b) == Return(b, Same(b, ClientError)) /\ UNCHANGED history

\* SF answers any other HTTP error, or no JSON: not an SFClientError, not retried.
Broken(b) == Return(b, Same(b, Unexpected)) /\ UNCHANGED history

\* Mutant: an answer stands for every number of its batch.
RoutesOf_All(b, answered) == [n \in NumbersOf(b) |-> Mapped]

RoutesOf(b, answered) ==
    [n \in NumbersOf(b) |-> IF n \in answered THEN Mapped ELSE Partial]

\* SF answers with the routes of some of the numbers.
Routed(b, answered) ==
    /\ Return(b, RoutesOf(b, answered))
    /\ routed' = routed \cup answered
    /\ UNCHANGED unmappable

\* One of the routes makes map_route_response raise: the whole batch is given up.
Unmappable(b, answered) ==
    /\ answered # {}
    /\ Return(b, Same(b, Unexpected))
    /\ routed' = routed \cup answered
    /\ unmappable' = unmappable \cup {b}

-----------------------------------------------------------------------------
Worker ==
    \/ Prepare \/ Fetch \/ Submit \/ Respond \/ Complete
    \/ \E b \in Batches : Collect(b)

Answer(b) ==
    \/ Exhausted(b) \/ Refused(b) \/ Broken(b)
    \/ \E answered \in SUBSET NumbersOf(b) : Routed(b, answered) \/ Unmappable(b, answered)

Thread(b) == Take(b) \/ Retry(b) \/ Answer(b)

Next == Worker \/ Fail \/ \E b \in Batches : Thread(b)

Spec == Init /\ [][Next]_vars

\* The worker and the threads of the pool run on: a request ends within its timeout
\* (request_timeout_seconds), a sleep within sf_request_retry_max_delay_seconds.
Fairness == WF_vars(Worker) /\ WF_vars(\E b \in Batches : Thread(b))

FairSpec == Spec /\ Fairness

-----------------------------------------------------------------------------
(* Properties *)

\* The types of all variables.
TypeOK ==
    /\ settings \in AllSettings /\ sheet \in Sheets
    /\ pc \in {"prepare", "fetch", "submit", "collect", "respond", "save", "completed",
               "failed"}
    /\ status \in {"queued", "running", "completed", "failed"}
    /\ query_target_count \in Nat /\ completed_targets \in Nat /\ remaining_targets \in Nat
    /\ progress_percent \in 0 .. 100
    /\ submitted \in 0 .. BatchCount(prepared)
    /\ batch \in [Batches -> {"waiting", "queued", "running", "done", "collected"}]
    /\ attempt \in [Batches -> 1 .. max_attempts]
    /\ DOMAIN answers = Batches
    /\ \A b \in Batches : \A n \in DOMAIN answers[b] : answers[b][n] \in Outcomes
    /\ \A n \in DOMAIN route_map : n \in Numbers /\ route_map[n] \in Outcomes

\* Progress as the page polls it never goes back, and its counts add up: what is
\* done and what is left are all the tracking numbers, once the job runs.
ProgressNeverFalls ==
    [][/\ status # "queued" =>
             /\ completed_targets' >= completed_targets
             /\ progress_percent' >= progress_percent
       /\ status' # "queued" /\ query_target_count' > 0 =>
             completed_targets' + remaining_targets' = query_target_count']_vars

\* A completed job has a result row for every distinct pair of the upload, none that SF gave
\* "no route response", and a route exactly where SF answered for the row's number, unless an
\* answer for the same batch could not be mapped: each batch accounts for all its numbers, and
\* failures of other batches, retries and repeated rows do not blur it.
EveryRowHasItsAnswer ==
    status = "completed" =>
        /\ {result[i].row : i \in DOMAIN result}
             = {Pair(r) : r \in {s \in ToSet(sheet) : s.order # None}}
        /\ IsInjective(result)
        /\ \A i \in DOMAIN result :
              LET n == result[i].row.tracking IN
              /\ result[i].status # NoResponse
              /\ n # None =>
                    (result[i].status = Mapped)
                        <=> (/\ n \in routed
                             /\ \A b \in unmappable : n \notin NumbersOf(b))

\* Every job ends, and the pool with it: no batch is left waiting or running.
EventuallyEnds ==
    <>[](/\ status \in {"completed", "failed"}
         /\ \A b \in Batches : submitted > 0 => batch[b] = "collected")
=============================================================================
