# OnRamp STT API: TLA+ verification

TLA+ models of the speech-to-text pipeline in this repository, TLC runs that
check them on small instances, and TLAPS proofs for every size. File and line
references are to the repository at the commit the models were written from.

    tlc -workers 2 -config ChunkRaces.cfg MCChunkPipeline.tla
    tlapm ChunkPipelineProofs.tla

`PROJECT.json` lists all runs with their modules and configurations, the lines each
definition models, and the theorems.

## 1. The system

One transcription passes through processes that share PostgreSQL (the ledger)
and Redis Streams (at-least-once delivery, one consumer group per stage):

    requests:v1 -> orchestrator -> chunk rows + outbox rows
    outbox rows -> outbox_publisher -> chunks:v1, transcript-completed:v1,
                                       progress:v1, dlq:v1, completed:v1
    chunks:v1 -> clova workers -> results, retries, verdict on the job
    transcript-completed:v1 -> correction worker -> corrected transcript

Inside these stages is data that decides what a transcript says: the orchestrator cuts
the audio into chunks and keeps a map from chunk time to source time; the Clova stage
merges the recognized segments through that map; the correction applies a dictionary,
one JSON file that command-line processes extend. An API reads the ledger.

Nothing is sent to Redis by a stage itself: a stage inserts an `event_outbox`
row in the transaction that changes its rows, and the publisher copies it.
Nothing is done twice because a stage inserts an `event_inbox` row with primary
key (group, event id) in the transaction that does the work. An exception is
answered by *not* acknowledging, and `XAUTOCLAIM` brings the message back.

### Inventory

| Component | State | Operations | Hard behaviour | What makes it correct |
|---|---|---|---|---|
| Clova stage `services/clova_worker.py`, `workers/clova.py` | chunk rows (status, retry_count, lease), job counters and status, inbox | `_claim`, `_record_success`, `_record_failure`, `_merge_transcription`, `_record_progress`, ack | answers of attempts whose lease ran out; redelivery while working; last-chunk race; retry by a new event | no chunk stranded; settled once; counters, verdict and announcements follow the rows; progress tells the outcome |
| Outbox publisher `queue/outbox.py`, `workers/outbox_publisher.py` | unpublished rows, batch under row locks | `publish_once` | crash between XADD and commit; XADD that fails after landing; several publishers | at least once, never lost; a duplicate is harmless |
| Inbox `queue/inbox.py` | (group, event id) | `is_processed`, `mark_processed` | check before lock | one effect per event |
| Consumer groups `queue/consumer.py`, `queue/redis.py`, `queue/constants.py`, `queue/events.py` | stream, pending list | `read_new_or_reclaim_pending`, ack | crashed consumers, entries reclaimed from a live one | every entry acknowledged in the end |
| Semaphore `queue/semaphore.py` | sorted set of leases | acquire, renew, release scripts; heartbeat task | clock skew, lapsed and revived leases, lost replies, failed heartbeats | limit respected; holder keeps its permit; no permit leaks |
| Orchestrator `services/orchestrator.py`, `workers/orchestrator.py` | job row, first chunk rows and events | `_ensure_job`, `_preprocess`, `_mark_failed` | duplicate requests, job-row race, failure of a slow duplicate | one set of chunks; a request is settled or tried again |
| Correction `services/correction_worker.py`, `workers/correction.py` | job status, corrected transcript, retry count | `process`, `record_failure` | duplicates, check before lock, refused transitions | one completion event or one dead letter |
| Transition tables `services/job_state.py` | none | `ensure_*_transition` | enforced in one stage only | statuses move as documented |
| API `api/v1/internal_transcriptions.py` | none | status, result | several statements per response | an answer says no more than its own parts bear out |
| VAD `stt/vad.py` | frames, segments | trigger, split, pack, map | borders, limits, gaps | speech kept once and in order, limit kept, map exact |
| Merger `stt/merger.py` | segments | map times, deduplicate, sort | borders, gaps, duplicates | exact times, order, no echo |
| Correction rules `correction/*.py` | dictionary | match, replace, validate, audit | overlapping phrases, context | only what is logged changes; none forgotten; audit entries about the right segment and term |
| Term ingestion `correction/terms/*.py` | JSON file | upsert, promote | unlocked read-modify-write | ids unique, no term of the repository lost |
| Clova client, audio conversion, storage, LLM | external | call | fail, be slow | a result or an error |
| Configuration, logging, migrations, scripts | settings | - | - | not modelled: no behaviour of their own |

The line-by-line list of hazards is in `PROJECT.json` ("hazards"), each with the
properties that would catch it or the reason why none does.

## 2. Modules

| Module | What it is |
|---|---|
| `ChunkPipeline` | The Clova stage with the publisher, stream, group, inbox and progress events |
| `ChunkLedger` | What that stage promises: each chunk settles once, the deciding step also announces |
| `MCChunkPipeline` | Symmetry for TLC |
| `ChunkPipelineProofs` | Theorems about `ChunkPipeline`, including its refinement of `ChunkLedger`, and about `StatusApi` |
| `LeaseSemaphore` | The Redis semaphore with its clients, heartbeats and clocks |
| `MCLeaseSemaphore`, `LeaseSemaphoreProofs` | as above |
| `OutboxRelay`, `OutboxRelayProofs` | Several publishers over one outbox; theorems |
| `StatusApi`, `MCStatusApi` | The status and result endpoints reading the rows of `ChunkPipeline` while they move |
| `ConsumerGroup` | One stream, one consumer group, the loop every worker reads it in; extended by the two stages below |
| `OrchestratorStage` | Requests of one transcription become a job row, then one set of chunks |
| `CorrectionStage`, `MCCorrectionStage` | The transcript becomes a corrected one and a completion event, or a dead letter |
| `OrchestratorStageProofs`, `CorrectionStageProofs` | Theorems about the two stages |
| `JobPipeline`, `MCJobPipeline` | The orchestrator, the Clova stage as `ChunkLedger` promises it, and the correction stage, over one job row |
| `JobPipelineProofs` | The pipeline implements both stages; uses their theorems through instances |
| `VadPacking` | Frames become segments, pieces and chunks |
| `Merger` | Operators: chunk time to source time, duplicates, sort |
| `Timeline`, `MCTimeline` | `VadPacking`, the stored mappings, recognition and `Merger`: audio to transcript lines |
| `TimelineProofs` | Theorems about `Timeline` |
| `TermIngestion` | The dictionary file and the processes that extend it |
| `RuleCorrection` | Operators: what the correction makes of a transcript |
| `Dictionary`, `MCDictionary` | `TermIngestion` beside a correction worker that loads the file and uses `RuleCorrection` |
| `DictionaryProofs` | Theorems about `TermIngestion`, the operators of `RuleCorrection`, and `Dictionary` |

### ChunkPipeline

State is grouped by owner: chunk and job columns and rows written for other
stages (`status`, `retryCount`, `lease`, `jobStatus`, `completedChunks`,
`failedChunks`, `transcripts`, `deadLetters`, `progress`), the chunk requests of
the outbox (`outbox`, `waiting` for those whose `available_at` lies ahead), the
inbox, the publisher's open transaction (`batch`, `sent`), the stream (`unread`,
`pending`, `xadds`) and the workers (`pc`, `held`).

A worker goes `idle -> delivered -> claiming -> working -> ack -> idle`:
`ReadNew` or `ReadNothing; Autoclaim` (consumer.py:11-46), `CheckInbox` (the
first query of `_claim`), then the locked rest of `_claim` (`ClaimCompleted`,
`ClaimGranted`, `ClaimRefused`), the provider call (nothing but time), one of
`RecordSuccess`, `RecordFailure`, `RecordRejected`, and `Ack`. A transaction that
keeps its row locks to the end is one action. `CheckInbox` is split from the
claim because it runs before the lock. Rolled-back transactions and crashes are
`Abandon`; an inbox insert that meets its primary key is `RecordRejected`.

The publisher is `PubSelect`, one `PubXadd` or `PubXaddFails` per row,
`PubCommit` or `PubCrash`. Progress is kept as the payload of the latest
progress row; the interval of `should_emit_progress` is a free Boolean, its
ratio is exact. The intermediate status `merging` is never committed
(clova_worker.py:163-168, 293) and does not appear. `jobStatus`, here and in a progress
row, is this stage's own verdict: the column also has other writers (`StatusApi`,
`JobPipeline`), and after an orchestrator's late mark a progress row would carry
`failed` although no chunk failed.

Time is abstracted: a lease is `held` until `LeaseExpires`, at any moment, so a
slow worker and a dead one look alike, as they do to the code; a retry row is
waiting until `BackoffElapses`. `_claim` compares the lease with a clock read
before it waits for the row; a refusal by that older clock is in the model a
refusal followed by the expiry.

### OutboxRelay

Rows are numbered by `created_at`; `committed` are those others can see, `due` those
whose `available_at` has come, `published` those whose stamp is committed. Each
publisher has its transaction: `batch` (locked rows), `todo` and `sent`. `Select` is the
query with `FOR UPDATE SKIP LOCKED` (outbox.py:33-44), `Send`, `SendPoison` and
`SendFails` one turn of the loop, `Commit` stamps and unlocks, `Crash` unlocks.
`calm` is a history variable: no fault, no overlap of transactions and no late row so
far, the premise under which `created_at` orders the stream.

### StatusApi

Extends `ChunkPipeline` by one request at a time: `ReadJob`, then `ReadChunks` or
`ReadCorrected`, then `Answer`. Each reads what is committed at that moment, as
statements do under READ COMMITTED. `column` is the status column of the job row, with
its three writers: the Clova stage assigns its verdict (`Pipeline`), the correction
commits its two transactions as `CorrectionBegins` and `CorrectionSaves` (with the row
`corrected`) or `CorrectionFails`, and an orchestrator that was slow to fail writes
`failed` at any moment (`LateMark`, orchestrator.py:146-153). Two history variables let
the properties speak of that mark (`marked`) and of an earlier answer (`promised`).
Requests change nothing, so one at a time stands for any number.

### LeaseSemaphore

One sorted set with scores relative to now, one clock per client that is
`skew[w]` ticks ahead, the expiry of the whole key, and a worker going
`idle -> waiting -> calling -> releasing`, with its heartbeat as `beating` and
`beat`. `Tick` waits for a due heartbeat: in the code a heartbeat sleeps a third
of the lease, and a delay of the event loop below one tick is covered. What
happens when a heartbeat fails altogether is `RenewFails` and the other branch
of `Renew`.

### OrchestratorStage

`Message` is the set of requests for one transcription, each an event of its own
that names a source file (`key`). A worker goes `idle -> delivered -> ensuring
(-> inserting) -> preprocessing -> saving -> ack -> idle`, or `preprocessing ->
failing -> marking -> idle`. `_ensure_job` is a read without a lock
(`EnsureFinds`, `EnsureMisses`) and an insert that meets the primary key
(`EnsureInserts`); an exception there is outside the `try` of `process` and marks
nothing. Download, conversion, VAD and uploads are `Preprocessed`: nothing but
time, and success or not. `Save` is the one transaction under the row lock.
`_mark_failed` reads without a lock (`MarkReads`) and writes later
(`MarkWrites`), whatever the status has become; a job read as failed gets no
update of its status, because assigning the value an attribute has writes
nothing. Chunk rows and `total_chunks` are `chunkedBy`. `LaterStages` is the
environment: any status the Clova and the correction stage write, once there are
chunks.

### CorrectionStage

One TranscriptCompleted event and the entries the publisher may have sent for it.
A worker goes `idle -> delivered -> beginning -> building -> uploading ->
checking -> saving -> ack -> idle`; an exception leads to `recording -> noting`,
which is `record_failure`, and then to `ack`, back to `idle` with the entry
pending (`NoteRetry`), or out of the process (`NoteRaises`). `checking` and
`recording` are the inbox queries that run before the row lock. The result is a
choice from `Text`, because two runs of a language model, or of two dictionary
files, need not agree; the row in `corrected_transcripts` is that of one
dictionary version. `EarlierStages` and `LateMark` are the environment.

### JobPipeline

The stages' own `Step`, `Work` and, once `Chunked`, the steps of `ChunkLedger`
with its verdict mapped to the shared `jobStatus`. `ChunkLedger` stands for
`ChunkPipeline`, which implements it (`ImplementsLedger`); the Clova stage
never decides by the job's status (a progress row only copies it), so a status
written by another stage changes nothing in what it does. `OrchestratorSpec` and `CorrectionSpec` discharge the environments:
the pipeline, seen through either module, is a behaviour of that module.

### VadPacking, Merger, Timeline

The three generators of vad.py pull from one another, so one loop iteration is one
action: `Listen` reads a frame and runs the trigger (`Waits`, `Collects`), `CutFrame`
and `CutRest` are `split_segment`, `Pack` is `iter_packed_segments`, `Close` writes the
last chunk. Where `write_vad_chunk` places a piece is computed from its own `Cursor`
while the packer compares its own sum `packed`; that the two agree is a theorem. The
classifier's verdict is any Boolean. Times are ticks, and sums of floats that are
exactly the limit come out on either side (`up`).

`Timeline` stores the mappings (`Store`), then takes any segments the provider may
report: any start up to past the end, an end after it or none (0, as a missing one is
read), with a text that is a normalized word, a length and a confidence. `Recognize` is
one turn of `merge_chunk_segments`, with `MapChunkTime` and `Merged`; `Sort` is the
final sort.

### TermIngestion, RuleCorrection, Dictionary

A process is `started -> loaded -> writing -> done`: `Load` reads the file and computes
the copy it will write (`Upserted`), `Truncate` and `Fill` are the two effects of
`write_text`, `Crash` may leave the file as it is, empty or cut. A second writer's text
that is shorter than what is there by then leaves a garbled file. `Midnight` changes
the version the next write gets.

`RuleCorrection` has the correction as operators on sequences of words and line
breaks: candidates, the sorted pass that chooses among overlapping ones, rendering,
validation of the model's answer, corrected segments, audit entries and review
candidates. In `Dictionary` a worker loads the file once (`Start`), corrects
transcripts (`Correct`, with an answer of the model that is any of a set, none, or the
rules' own text) and is restarted (`Restart`).

## 3. Properties and runs

| Run | Question | Instance | States |
|---|---|---|---|
| `chunk_races` | Do counters, verdict, announcements and retries follow the rows, and does the stage implement `ChunkLedger`, when leases run out and requests are reclaimed at will? | 2 chunks, 2 workers, 1 retry, no faults | 31,267 |
| `chunk_crashes` | Is a chunk ever stranded, a settled one changed, a duplicate effective? Does every chunk settle? | 1 chunk, 2 workers, 1 retry, 1 fault | 22,130 |
| `observers` | Does the progress stream hide an outcome of the Clova stage or lag? Does an API answer say more than its parts, or break a promise? | 4 chunks, 1 worker, threshold 50 % | 220,760 |
| `semaphore` | Do beating workers keep their permits, do their calls respect the limit, do lost permits come back? | 3 workers, 2 permits, skew 1, 2 faults | 317,052 |
| `semaphore_limit` | Is the number of concurrent calls limited? (no) | 3 workers, 2 permits, 1 fault | - |
| `orchestrator` | One set of chunks, from the file the job names? No request lost, all settled in the end? | 2 workers, 2 requests, 2 files, 2 faults | 59,852 |
| `correction` | One outcome, told by the job? No transcript lost, all copies settled? | 2 workers, 2 entries, 1 retry, 2 texts, 2 faults | 219,036 |
| `job` | Do the stages fit together over one job row, and does every transcription end once? | 2 orchestrators, 1 request, 2 chunks, 1 corrector, 1 fault | 69,236 |
| `job_final_status` | Is a completed job final? (no) | as `job` | - |
| `timeline` | Do chunks keep their limit, is speech kept once, are source times exact and lines in order? | 8 frames of 2 ticks, gap 3, limit 15, ring of 2, 2 segments | 592,784 |
| `dictionary` | Do ids and terms survive unlocked writers? Does the correction change only what it logs, and does the log tell the truth? | 2 ingestions, 3 requests, 3 transcripts, 5 answers | 12,918 |
| `relay` | Do several publishers send a row twice, stamp what is not sent, or let a poisoned row block others? | 2 publishers, 4 rows, batches of 2, 2 faults | 172,741 |

Bounds. Two chunks make the last-chunk race and a failed chunk beside a
completed one; two workers make every pair race on one chunk; one retry makes an
old and a current request coexist, and its failure reaches the limit. One fault in
`chunk_crashes` gives a republished entry or a crash; the safety properties of that run
are theorems for any number of faults. Two faults elsewhere put one on top of the other.
Four chunks with a threshold of 50 % are an instance where one step is below the
threshold and two reach it (0.05 in the code needs more than 20 chunks), with one worker,
because whoever reports does not matter to the counters. Three workers and two permits
let one wait; a lease of three ticks and a beat of one tick are the ratio in the code; a
skew of one is the largest the assumption `TimeAssumption` allows for them. Two requests
with two files make a job row that the second request does not fit; two workers
make the race of two inserts and a failure that comes after the other's success.
In `job` one request suffices, because the second orchestrator reclaims it; two
chunks let one fail beside one that completes.

In `timeline` a limit of 15 ticks takes seven frames, or three pieces with gaps between
them would be too long: segments are cut, pieces are packed together, and sums fall on
the limit exactly; a gap of three ticks has times nearer to either side and is no
multiple of a frame; a ring of two frames triggers at 80 % with both of them. Eight
frames make two chunks, and two segments a duplicate across a chunk border. That a
preferred line takes over times and then repeats the next one needs three segments, which
is more than a run can hold beside the cutting of chunks; the theorem `MergeKeepsOrder`
has any number. In
`dictionary` two requests extend the same term or add terms, one number of the prefix is
missing, the phrases overlap each other in both directions, and one transcript has a
segment with a break of its own. In `relay` one of four rows always fails, one is due
late, and a batch of two has room for one more than the poisoned one.
Symmetry is used for safety only. `Timeline`, `Dictionary` and `OutboxRelay` come to an
end (the audio is transcribed, every process has run, every row is sent), so deadlock is
not checked there.

### Findings

* `semaphore_limit`: README.md:141 describes `CLOVA_MAX_CONCURRENT_JOBS` as the
  number of concurrent requests over all workers. One renewal that raises ends
  the heartbeat (workers/clova.py:29-33), the lease lapses while the call goes
  on, and another worker starts a call beyond the limit. What does hold is
  `ProtectedCallsWithinLimit`: calls whose heartbeat is alive respect it.
* `job_final_status`: an orchestrator is slow, its message is reclaimed and done
  by another one, the transcription goes through to `correction_completed` and its
  completion event; then the slow one's preprocessing fails and `_mark_failed`
  writes `failed` (orchestrator.py:151), after which the API calls the result
  unavailable. job_state.py:10 lets nothing follow `correction_completed`.

What the models show besides, without a run of its own:

* A claim takes a chunk from `retry_wait` to `processing` (clova_worker.py:118-120);
  the table in job_state.py:23 has no such step. `ensure_chunk_transition` is called by
  tests only.
* A second delivery of a transcript that passes the first inbox query uploads its result
  (correction_worker.py:71) under the same key even after the first one's commit; the
  announced hash is then that of another text. `AnnouncedIsStored` therefore promises a
  text, not the text. Likewise, if the dictionary changed twice on one day, the row found
  by its version (correction_worker.py:82-88) may be that of an earlier dictionary, while
  the event carries the hash of the new result (correction_worker.py:140).
* If a slow orchestrator fails the job *before* the correction is recorded, both
  `Save` and `record_failure` are refused by `ensure_job_transition`
  (correction_worker.py:123, 176). The exception leaves `run()`, the process ends,
  and the entry does the same to the next one, so the transcription never ends.
  `CorrectionSettles` and `TranscriptionEnds` assume that this does not happen.
* The same mark reaches the API. A status answer may say `failed` with no failed chunk
  and chunks still at work, and a result that an earlier answer called available is
  refused with 409. `AnswerIsBorneOut` and `AvailableIsServed` therefore name the mark as
  the one exception. Nor is the mark for good: the last chunk's success assigns its
  verdict whatever the column says (clova_worker.py:163, 293), so the job may be
  `transcript_completed` again.
* Ingestions that overlap lose additions, and a crash between truncation and write
  loses the file (`DictionaryIntact` says what stays: ids, and in every readable version
  the terms of the repository). A segment with a line break of its own shifts the audit
  entries behind it; the premise `PlainSegments` excludes it.

### Fairness

`ChunkPipeline`: weak fairness of the publisher, of each worker's loop, of the
provider call (a request timeout ends it) and of time. Strong fairness that every
pending entry is reclaimed again and again by somebody: `XAUTOCLAIM` starts at
id 0-0 with count 1 (consumer.py:34-43) and skips entries that were idle for less
than the reclaim time; an entry just reclaimed is the least idle, so with finitely
many entries each is the lowest sufficiently idle one again and again. Faults
are bounded by `MaxFaults`: liveness is claimed once failures stop.

`LeaseSemaphore`: weak fairness of clocks, of heartbeats and releases, and of a
waiting worker's poll; not of `Finish` (a call may take any time). The premise
of `PermitsComeBack` says that fewer than `Limit` other workers compete for good.

`OrchestratorStage`, `CorrectionStage`: weak fairness of each worker's reading and
handling, strong fairness of reclaiming for the reason above. `RequestsSettle` and
`TranscriptionEnds` hold if preprocessing stops failing: the code retries it without
limit, so a file that cannot be converted circulates for ever. A final error of the
correction may happen at any attempt. `JobPipeline` adds weak fairness of the chunk
steps, which is `EveryChunkSettles` of `ChunkPipeline`.

`OutboxRelay`: weak fairness of each publisher, an endless loop, and of time, so that rows
become due; not of the writers, who need not commit, nor of faults. `Timeline` and
`Dictionary` have no liveness property and state no fairness.

## 4. Proofs

`ChunkPipelineProofs`, for every finite non-empty `Chunk`, every `Worker`,
`MaxRetry`, `MinRatioDelta` and `MaxFaults` (the named assumptions of the module):

1. `IInv` is inductive. `NoLostChunk` and `StaleRequestsInert` are not by
   themselves: an ack removes the entry a chunk's only hope may rest on, so one
   needs that a worker in `ack` holds a processed event (`WorkersInStep`); a commit
   of the publisher removes a row, so one needs that a sent row is in the stream or
   processed (`SentIsDelivered`); a retry creates an event, which must be new
   (`InboxNotAhead`). One lemma per action. This gives `TypeCorrect`,
   `NoChunkIsLost`, `StaleRequestsAreInert`.
2. `IInv` confines each step to the rows it may touch (`StepKinds`): a step either
   leaves all rows alone or is one claim, completion, retry or failure of an
   unsettled chunk. This gives `SettledForEver` and `RetryWaitLeftByClaim`.
3. Over these kinds counters and verdict are inductive, with cardinality
   arguments from FiniteSetTheorems: `CountersCorrect`, `VerdictCorrect`,
   `ProgressCorrect`, and `ProgressKeepsUp`, which needs that the last row's ratio is
   never ahead of the counters.
4. Each kind is a step of `ChunkLedger` or a stutter under the mapping in
   `RefinesLedger`: `ImplementsLedger`.
5. The API and the other writers of the job's status leave the stage alone
   (`ApiLeavesPipelineAlone`), so all of the above holds of the chunk rows and counters a
   request reads. `ApiInv` has three parts. `ColumnInOrder`: the shared column is the
   verdict or what the correction made of it, unless an orchestrator has marked the job.
   `RequestInOrder`: the job a request read first is borne out by the rows at *every*
   later moment (`BorneOutBy(status)`), because by 2 the sets of completed and of failed
   rows only grow, and by 3 a verdict in the job row means that they are complete.
   `PromiseKept`: what an earlier answer called available is there for every later request
   (`ResultStands`), and short of a mark its status too. Theorems: `AnswersAreBorneOut`,
   `PromisedResultsAreServed`.

`LeaseSemaphoreProofs`: `PermitBound` from the purge-then-count script alone;
`HeartbeatHolds` from `BeatKeepsPermit` (`HeartbeatKeepsScore`), which relates score, key expiry and the
heartbeat's own counter; `ProtectedCallBound` from both.

`OrchestratorStageProofs`, for all sets of workers, requests and files: `IInv` is
inductive, one lemma per action. `NoLostRequest` needs that a worker in `ack`
holds a processed request, `FailureIsRetried` that a worker that marks a failure
holds a request of the job's own file (`WorkersInStep`). Theorems:
`NoRequestIsLost`, `ChunksMadeOnce`, `SettledWithChunks`, `FailuresAreRetried`,
`NeverStartedAgain`.

`CorrectionStageProofs`, for all sets of workers, entries and texts, any retry
limit and any number of faults: likewise; that no attempt follows more failures than
the limit is part of `OneOutcome`. Theorems: `OutcomeIsUnique`,
`JobTellsOutcome`, `NoTranscriptIsLost`, `NothingAnnouncedUnstored`.

`JobPipelineProofs`: the invariant is that of both stages and one relation between
them, that a transcript means that the job has chunks and all are completed
(`LedgerInv`). Given it, a step of the Clova stage or of a corrector is
`LaterStages` or a stutter for the orchestrator, and a step of an orchestrator or
of the Clova stage is `EarlierStages`, `LateMark` or a stutter for the corrector
(`OrchestratorSees`, `CorrectorSees`); so the stages' own lemmas, taken through
instances of their proof modules, preserve their parts. Theorems:
`ImplementsOrchestrator`, `ImplementsCorrector`, `EndsInOneStage`.

`OutboxRelayProofs`, for all sets of publishers and rows, any batch size and any number
of faults: `IInv` is inductive. `CopiesNeedFaults` counts entries, which needs that a row
not yet marked has at most as many copies as there were faults (`LogAccounted`) and that
locks exclude (`LocksExclude`); `CalmIsInOrder` needs that whatever could still be sent for
the first time is younger than all that was (`CalmOrder`). Theorems: `OneCopyPerFault`,
`StampsAreTrue`, `CalmIsOrdered`.

`DictionaryProofs`, for all processes, requests and initial terms with unique ids:
`IngestInv`. The file alone says nothing of a process that has read it and will write
later, so the invariant is about every copy (`CopiesIntact`), and about the one process at
work as long as they take turns (`TakingTurns`). That the next number is new rests on a
finite set of numbers having a largest one. Theorem: `IngestionIsSafe`.

The same module, for all dictionaries, transcripts, context windows and answers of the
model: a worker beside the ingestions leaves them alone (`WorkerLeavesIngestionAlone`),
hence `DictionaryIsSafe`, and `DictInv` says that what it has in memory was once in the
file and that its result is what the correction makes of it. The rest is about the
operators, each as lemmas on what it returns:

* `Before` is a strict order on the candidates, total because ids are unique; counting
  predecessors then numbers a finite set without gaps (`RankRises`, `RanksAreTaken`), so
  `Sorted` lists every candidate once, in order (`SortedFacts`).
* The pass over them keeps matches apart, and whatever it skips begins inside one it has
  chosen (`SelectedFacts`, `MatchesFacts`).
* Rendering with the originals gives the text back (`RenderedOriginals`); rendering with
  names, which have no line breaks, gives a text of as many lines (`RenderedShape`).
* A place in segment k of the merged text is in line k (`JoinedHomes`), so a match, which
  has no line break either, is found in that segment (`PhraseAtHome`), and the lookup by
  id finds the term that matched, as ids are unique (`LookupFinds`).

Theorems: `CorrectionKeepsFaith`, `AuditCanBeTrusted`. Recursive functions over the
length of a list (the pass, rendering, merging) are reasoned about without an induction
rule: that such a function is defined by its equation, or that it has a property
everywhere, follows because a place where it had not would have a least one
(`ChainExists`, `UpTo`).

`TimelineProofs`, for all frames, gaps, limits, rings and trigger ratios: `VadInv`.
`ChunksWithinLimit` needs that the packer's sum is the writer's cursor (`SumsAgree`), and
that cutting bounds each piece; the order of mappings needs that what is packed was heard
before what still waits (`PackedFirst`), down to the frames in the ring and the segment
being collected (`RunsGoOn`). `MappingIsMonotone` holds for every gap;
`MappingIsExact` for a gap of at least one tick: with none, the first time of a piece
is the last one of the piece before, and belongs to that.
Theorems: `ChunksKeepLimit`, `PiecesPlacedExactly`, `MappingIsMonotone`, `MappingIsExact`.

That speech is kept (`FramesAllKept`) needs `KeptInv` besides: what is kept ends before
the frames that wait in the ring, and a full ring that did not trigger holds a silent
frame, so that whatever falls out of it began no speech as long as the ring. `Kept` is a
flattened sequence; what flattening a list that grew or lost its first element gives is
proved once and used for every action. That merging keeps order (`MergeKeepsOrder`,
with the premise that each answer is in order) needs `MergeInv`: the stored mappings are
those of the chunks in their order (`ChunksGoOn`, `StoredInOrder`), and the last line
begins no later than the last segment that was merged, mapped back to the source
(`LinesBehind`). The segment that follows is mapped no earlier, by the lemmas behind
`MappingIsMonotone` within a chunk and by `StoredInOrder` across a border. The final sort
is shown to order any list of lines (`SortingOrders`).

All theorems rest on the named assumptions of the modules only: limits and bounds
are naturals, `NoMessage` is no message, `NoText` is no text, the chunks are finite
and at least one, a heartbeat and the skew fit into a lease, a frame fits into a chunk,
half a second is a natural number of ticks, requests and initial terms are well formed,
a line break is no word, and names and phrases are words, at least one
(term_dictionary.py:42-52 drops empty phrases; that a name fits on one line is up to those
who maintain the file, and with a break in one the audit entries behind it would shift).
That `ChunkLedger` stands for `ChunkPipeline` in the pipeline is an argument of this document: `ImplementsLedger` is
proved, but the two are not composed in one module.

Only model-checked: liveness, which is out of the prover's reach (`EveryChunkSettles`,
`PermitsComeBack`, `RequestsSettle`, `CorrectionSettles`, `TranscriptionEnds`,
`OthersGetThrough`). Every invariant and every action property of a passing run is the
statement of a theorem.

## 5. Not modelled

* A stream that never runs dry. Pending entries are reclaimed only when nothing new
  arrives (consumer.py:31), so with unbounded arrivals a crashed worker's entry may wait
  for ever; the models have finitely many entries.
* Objects in the store other than the corrected result. The raw answer of a chunk is
  uploaded before the result is recorded (clova_worker.py:76) and may be that of another
  attempt; nothing reads it.
* The Clova client, audio conversion, storage back ends, the language model: each is a
  step that succeeds or raises, or a choice of an answer.
* The glossary, the prompt, context evidence and confidences: text and numbers for
  readers that decide nothing later. Letter case, word boundaries inside a phrase and
  phrases that overlap themselves are below the grain of `RuleCorrection`.
* Texts of punctuation only, which all normalize to the empty word and so count as
  duplicates of each other: the words of `Timeline` are not empty, nor would its
  properties tell the difference.
* A dictionary file that does not exist: the repository ships one.
* Rounding of floats, but for sums on the chunk limit and comparisons with the
  progress interval, which are free.
* Configuration, logging, migrations, scripts: I/O and text without a state of their own.

Worth doing next: one module in which `JobPipeline` has `ChunkPipeline` itself in place
of `ChunkLedger`, with the proof that it implements `JobPipeline`.
