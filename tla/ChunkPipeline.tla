---------------------------- MODULE ChunkPipeline ----------------------------
(***************************************************************************)
(* The speech-to-text stage of one transcription, from the commit in which *)
(* the orchestrator inserted its chunk rows to the moment every chunk is   *)
(* settled.  Three kinds of process share PostgreSQL and one Redis stream: *)
(*                                                                         *)
(*   - the outbox publisher copies committed EventOutbox rows to the       *)
(*     stream and stamps published_at in a transaction of its own, so a    *)
(*     crash in between publishes the same event id again;                 *)
(*   - Clova workers read the stream through one consumer group, claim the *)
(*     chunk, call the provider outside any transaction, and record the    *)
(*     answer; an exception leaves the message pending, to be taken over   *)
(*     with XAUTOCLAIM;                                                    *)
(*   - time expires chunk leases and makes retry rows due.                 *)
(*                                                                         *)
(* One database transaction that holds its row locks to the end is one     *)
(* action; every await between two transactions is an interleaving point.  *)
(* The lease and the retry delay are abstracted to "not yet / elapsed".  A *)
(* claim judges the lease by a clock read before it waited for the row     *)
(* (clova_worker.py:99): refusing a lease that ran out meanwhile is here a *)
(* refusal followed by LeaseExpires.                                       *)
(*                                                                         *)
(* jobStatus is this stage's own verdict on the job.  The status column of *)
(* the row is shared with the orchestrator and the correction; this stage  *)
(* assigns it and decides nothing by it.  StatusApi has the column itself. *)
(***************************************************************************)
EXTENDS Integers, FiniteSets

CONSTANTS
    Chunk,         \* the rows of transcription_chunks of this transcription
    Worker,        \* Clova worker slots; a restarted process takes its slot again
    MaxRetry,      \* settings.clova_max_retry_count
    MinRatioDelta, \* PROGRESS_MIN_RATIO_DELTA, in percent
    MaxFaults,     \* bound: crashes, rolled back transactions and failed XADDs
    NoMessage

ASSUME ChunkAssumption == IsFiniteSet(Chunk) /\ Chunk # {}
ASSUME MaxRetryAssumption == MaxRetry \in Nat
ASSUME BoundAssumption == MinRatioDelta \in Nat /\ MaxFaults \in Nat

\* Every chunk request is a fresh outbox row; seq is the chunk's retry_count
\* when the row was inserted and stands for the row's uuid.
Event == [chunk : Chunk, seq : 0..MaxRetry]

\* A stream entry: copy tells apart the XADDs of one event.
Message == [ev : Event, copy : Nat \ {0}]

ASSUME NoMessageAssumption == NoMessage \notin Message

ChunkStatus == {"pending", "processing", "retry_wait", "completed", "failed"}
JobStatus == {"transcribing", "transcript_completed", "failed"}
Lease == {"none", "held", "expired"}
Phase == {"idle", "reclaim", "delivered", "claiming", "working", "ack"}
Total == Cardinality(Chunk)

VARIABLES
    \* PostgreSQL: chunk rows, job row, and the rows other stages consume
    status, retryCount, lease,
    jobStatus, completedChunks, failedChunks,
    transcripts,   \* TranscriptCompleted rows inserted
    deadLetters,   \* per chunk, transcription.chunk.failed rows inserted
    progress,      \* payload of the latest ProgressUpdated row
    \* PostgreSQL: chunk request rows of the outbox, and the inbox
    outbox,        \* rows whose published_at is null
    waiting,       \* of these, the ones whose available_at lies ahead
    inbox,         \* event ids processed by the clova-workers group
    \* the publisher's open transaction
    batch, sent,
    \* Redis: the stream and its consumer group
    unread, pending,
    xadds,         \* XADDs done, per event
    \* the workers
    pc, held,
    faults         \* faults so far, at most MaxFaults

rowVars == <<status, retryCount, lease>>
jobVars == <<jobStatus, completedChunks, failedChunks>>
eventVars == <<transcripts, deadLetters, progress>>
dbVars == <<rowVars, jobVars, eventVars>>
relayVars == <<batch, sent>>
streamVars == <<unread, pending, xadds>>
workerVars == <<pc, held>>
vars == <<dbVars, outbox, waiting, inbox, relayVars, streamVars, workerVars, faults>>

\* last_progress_ratio = 0.0 and last_progress_at = NULL
NoProgress == [status |-> "none", done |-> 0, failed |-> 0]

TypeOK ==
    /\ status \in [Chunk -> ChunkStatus]
    /\ retryCount \in [Chunk -> 0..(MaxRetry + 1)]
    /\ lease \in [Chunk -> Lease]
    /\ jobStatus \in JobStatus
    /\ completedChunks \in Nat
    /\ failedChunks \in Nat
    /\ transcripts \in Nat
    /\ deadLetters \in [Chunk -> Nat]
    /\ progress \in [status : JobStatus \cup {"none"}, done : Nat, failed : Nat]
    /\ outbox \subseteq Event
    /\ waiting \subseteq outbox
    /\ inbox \subseteq Event
    /\ batch \subseteq outbox \ waiting
    /\ sent \subseteq batch
    /\ unread \subseteq Message
    /\ pending \subseteq Message
    /\ xadds \in [Event -> Nat]
    /\ pc \in [Worker -> Phase]
    /\ held \in [Worker -> Message \cup {NoMessage}]
    /\ \A w \in Worker : pc[w] \in {"idle", "reclaim"} <=> held[w] = NoMessage
    /\ faults \in 0..MaxFaults

FirstRequest(c) == [chunk |-> c, seq |-> 0]

\* What the orchestrator committed: every chunk pending, one due row per chunk.
Init ==
    /\ status = [c \in Chunk |-> "pending"]
    /\ retryCount = [c \in Chunk |-> 0]
    /\ lease = [c \in Chunk |-> "none"]
    /\ jobStatus = "transcribing"
    /\ completedChunks = 0
    /\ failedChunks = 0
    /\ transcripts = 0
    /\ deadLetters = [c \in Chunk |-> 0]
    /\ progress = NoProgress
    /\ outbox = {FirstRequest(c) : c \in Chunk}
    /\ waiting = {}
    /\ inbox = {}
    /\ batch = {} /\ sent = {}
    /\ unread = {} /\ pending = {}
    /\ xadds = [e \in Event |-> 0]
    /\ pc = [w \in Worker |-> "idle"]
    /\ held = [w \in Worker |-> NoMessage]
    /\ faults = 0

Fault == faults < MaxFaults /\ faults' = faults + 1

-----------------------------------------------------------------------------
(* The outbox publisher.                                                   *)

\* SELECT ... FOR UPDATE SKIP LOCKED.  The limit of 100 rows and the rows of
\* other transcriptions decide which of the due rows make it into the batch.
PubSelect ==
    /\ batch = {}
    /\ \E rows \in (SUBSET (outbox \ waiting)) \ {{}} : batch' = rows
    /\ UNCHANGED <<dbVars, outbox, waiting, inbox, sent, streamVars, workerVars, faults>>

Xadd(e) ==
    /\ unread' = unread \cup {[ev |-> e, copy |-> xadds[e] + 1]}
    /\ xadds' = [xadds EXCEPT ![e] = @ + 1]

PubXadd(e) ==
    /\ e \in batch \ sent
    /\ Xadd(e)
    /\ sent' = sent \cup {e}
    /\ UNCHANGED <<dbVars, outbox, waiting, inbox, batch, pending, workerVars, faults>>

\* The call raises and the row is left for a later round; the entry may have
\* reached Redis all the same.
PubXaddFails(e, landed) ==
    /\ Fault
    /\ e \in batch \ sent
    /\ batch' = batch \ {e}
    /\ IF landed THEN Xadd(e) ELSE UNCHANGED <<unread, xadds>>
    /\ UNCHANGED <<dbVars, outbox, waiting, inbox, sent, pending, workerVars>>

\* published_at becomes durable only here.
PubCommit ==
    /\ batch # {} /\ batch = sent
    /\ outbox' = outbox \ sent
    /\ batch' = {} /\ sent' = {}
    /\ UNCHANGED <<dbVars, waiting, inbox, streamVars, workerVars, faults>>

\* The process dies or the commit fails: the rows stay unpublished.
PubCrash ==
    /\ Fault
    /\ batch # {}
    /\ batch' = {} /\ sent' = {}
    /\ UNCHANGED <<dbVars, outbox, waiting, inbox, streamVars, workerVars>>

BackoffElapses(e) ==
    /\ e \in waiting
    /\ waiting' = waiting \ {e}
    /\ UNCHANGED <<dbVars, outbox, inbox, relayVars, streamVars, workerVars, faults>>

-----------------------------------------------------------------------------
(* A Clova worker: one message at a time.                                  *)

Goto(w, phase) == pc' = [pc EXCEPT ![w] = phase] /\ UNCHANGED held
Take(w, m) == pc' = [pc EXCEPT ![w] = "delivered"] /\ held' = [held EXCEPT ![w] = m]
Drop(w) == pc' = [pc EXCEPT ![w] = "idle"] /\ held' = [held EXCEPT ![w] = NoMessage]

Ev(w) == held[w].ev
ChunkOf(w) == Ev(w).chunk

\* XREADGROUP ">": never-delivered entries first.
ReadNew(w, m) ==
    /\ pc[w] = "idle"
    /\ m \in unread
    /\ unread' = unread \ {m}
    /\ pending' = pending \cup {m}
    /\ Take(w, m)
    /\ UNCHANGED <<dbVars, outbox, waiting, inbox, relayVars, xadds, faults>>

ReadNothing(w) ==
    /\ pc[w] = "idle"
    /\ unread = {}
    /\ Goto(w, "reclaim")
    /\ UNCHANGED <<dbVars, outbox, waiting, inbox, relayVars, streamVars, faults>>

\* XAUTOCLAIM: an entry idle for long enough, another worker's or its own.
Autoclaim(w, m) ==
    /\ pc[w] = "reclaim"
    /\ m \in pending
    /\ Take(w, m)
    /\ UNCHANGED <<dbVars, outbox, waiting, inbox, relayVars, streamVars, faults>>

AutoclaimNothing(w) ==
    /\ pc[w] = "reclaim"
    /\ Goto(w, "idle")
    /\ UNCHANGED <<dbVars, outbox, waiting, inbox, relayVars, streamVars, faults>>

IsProcessed(e) == e \in inbox

\* Mutant: event_inbox has no primary key.
KeyFree_NoPrimaryKey(e) == TRUE

\* event_inbox has primary key (consumer_group, event_id): inserting a row that
\* is there already fails and rolls the whole transaction back.
KeyFree(e) == e \notin inbox

\* The first query of _claim.  The chunk row is locked only afterwards.
CheckInbox(w) ==
    /\ pc[w] = "delivered"
    /\ Goto(w, IF IsProcessed(Ev(w)) THEN "ack" ELSE "claiming")
    /\ UNCHANGED <<dbVars, outbox, waiting, inbox, relayVars, streamVars, faults>>

\* Mutant: the lease of a dead worker is never taken over.
CanClaim_LeaseForEver(c) == status[c] \in {"pending", "retry_wait"}

CanClaim(c) ==
    \/ status[c] \in {"pending", "retry_wait"}
    \/ status[c] = "processing" /\ lease[c] # "held"

\* The chunk was completed while this worker waited for its row.
ClaimCompleted(w) ==
    /\ pc[w] = "claiming"
    /\ status[ChunkOf(w)] = "completed"
    /\ IF KeyFree(Ev(w))
         THEN inbox' = inbox \cup {Ev(w)} /\ Goto(w, "ack")
         ELSE UNCHANGED inbox /\ Drop(w)
    /\ UNCHANGED <<dbVars, outbox, waiting, relayVars, streamVars, faults>>

ClaimGranted(w) ==
    /\ pc[w] = "claiming"
    /\ CanClaim(ChunkOf(w))
    /\ status' = [status EXCEPT ![ChunkOf(w)] = "processing"]
    /\ lease' = [lease EXCEPT ![ChunkOf(w)] = "held"]
    /\ Goto(w, "working")
    /\ UNCHANGED <<retryCount, jobVars, eventVars, outbox, waiting, inbox, relayVars,
                   streamVars, faults>>

\* Mutant: the worker acknowledges a message whose claim was refused.
ClaimRefused_Acked(w) ==
    /\ pc[w] = "claiming"
    /\ status[ChunkOf(w)] # "completed" /\ ~CanClaim(ChunkOf(w))
    /\ pending' = pending \ {held[w]}
    /\ Drop(w)
    /\ UNCHANGED <<dbVars, outbox, waiting, inbox, relayVars, unread, xadds, faults>>

\* ValueError: the message stays pending and is redelivered later.
ClaimRefused(w) ==
    /\ pc[w] = "claiming"
    /\ status[ChunkOf(w)] # "completed" /\ ~CanClaim(ChunkOf(w))
    /\ Drop(w)
    /\ UNCHANGED <<dbVars, outbox, waiting, inbox, relayVars, streamVars, faults>>

LeaseExpires(c) ==
    /\ lease[c] = "held"
    /\ lease' = [lease EXCEPT ![c] = "expired"]
    /\ UNCHANGED <<status, retryCount, jobVars, eventVars, outbox, waiting, inbox,
                   relayVars, streamVars, workerVars, faults>>

\* Mutants: a status change is throttled like any other step; only the interval
\* counts, not the distance.
ShouldEmit_ThrottlesStatus(statusChanged, done, intervalElapsed) ==
    \/ 100 * (done - progress.done) > MinRatioDelta * Total
    \/ progress.status = "none"
    \/ intervalElapsed

ShouldEmit_IntervalOnly(statusChanged, done, intervalElapsed) ==
    statusChanged \/ progress.status = "none" \/ intervalElapsed

\* The code compares binary floats with >=.  A difference of exactly the
\* threshold may round to either side of it (3/20 - 2/20 < 0.05): such a row may
\* be left out, or comes by way of intervalElapsed, which is free to be TRUE.
ShouldEmit(statusChanged, done, intervalElapsed) ==
    \/ statusChanged
    \/ 100 * (done - progress.done) > MinRatioDelta * Total
    \/ progress.status = "none"
    \/ intervalElapsed

RecordProgress(js, done, failed, statusChanged, intervalElapsed) ==
    progress' = IF ShouldEmit(statusChanged, done, intervalElapsed)
                  THEN [status |-> js, done |-> done, failed |-> failed]
                  ELSE progress

AllDone(n) == n = Total

\* _merge_transcription raises unless every other chunk row is completed.
MergeReady(c) == \A d \in Chunk \ {c} : status[d] = "completed"

SuccessCommits(w) ==
    /\ KeyFree(Ev(w))
    /\ status[ChunkOf(w)] # "completed" /\ AllDone(completedChunks + 1)
          => MergeReady(ChunkOf(w))

\* intervalElapsed: PROGRESS_MIN_INTERVAL_SEC have passed since the last row.
SaveResult(c, intervalElapsed) ==
    LET done == completedChunks + 1
        last == AllDone(done)
        js == IF last THEN "transcript_completed" ELSE jobStatus
    IN  /\ status' = [status EXCEPT ![c] = "completed"]
        /\ lease' = [lease EXCEPT ![c] = "none"]
        /\ completedChunks' = done
        /\ jobStatus' = js
        /\ transcripts' = IF last THEN transcripts + 1 ELSE transcripts
        /\ RecordProgress(js, done, failedChunks, last, intervalElapsed)

\* Mutant: the answer is saved without marking the event processed.
RecordSuccess_Unmarked(w, intervalElapsed) ==
    /\ pc[w] = "working"
    /\ SuccessCommits(w)
    /\ IF status[ChunkOf(w)] = "completed"
         THEN UNCHANGED <<status, lease, completedChunks, jobStatus, transcripts, progress>>
         ELSE SaveResult(ChunkOf(w), intervalElapsed)
    /\ Goto(w, "ack")
    /\ UNCHANGED <<retryCount, failedChunks, deadLetters, outbox, waiting, inbox, relayVars,
                   streamVars, faults>>

RecordSuccess(w, intervalElapsed) ==
    /\ pc[w] = "working"
    /\ SuccessCommits(w)
    /\ IF status[ChunkOf(w)] = "completed"
         THEN UNCHANGED <<status, lease, completedChunks, jobStatus, transcripts, progress>>
         ELSE SaveResult(ChunkOf(w), intervalElapsed)
    /\ inbox' = inbox \cup {Ev(w)}
    /\ Goto(w, "ack")
    /\ UNCHANGED <<retryCount, failedChunks, deadLetters, outbox, waiting, relayVars,
                   streamVars, faults>>

\* Mutant: the count before this failure is compared with the limit.
CanRetry_CountsLate(c, retryable) == retryable /\ retryCount[c] <= MaxRetry

CanRetry(c, retryable) == retryable /\ retryCount[c] + 1 <= MaxRetry

\* A new outbox row, due when the backoff has elapsed.
ScheduleRetry(c) ==
    LET e == [chunk |-> c, seq |-> retryCount[c] + 1]
    IN  /\ status' = [status EXCEPT ![c] = "retry_wait"]
        /\ outbox' = outbox \cup {e}
        /\ waiting' = waiting \cup {e}
        /\ UNCHANGED <<failedChunks, jobStatus, deadLetters, progress>>

\* Mutant: a failed chunk does not fail the job.
GiveUp_JobGoesOn(c) ==
    /\ status' = [status EXCEPT ![c] = "failed"]
    /\ failedChunks' = failedChunks + 1
    /\ deadLetters' = [deadLetters EXCEPT ![c] = @ + 1]
    /\ RecordProgress(jobStatus, completedChunks, failedChunks + 1, TRUE, FALSE)
    /\ UNCHANGED <<outbox, waiting, jobStatus>>

GiveUp(c) ==
    /\ status' = [status EXCEPT ![c] = "failed"]
    /\ failedChunks' = failedChunks + 1
    /\ jobStatus' = "failed"
    /\ deadLetters' = [deadLetters EXCEPT ![c] = @ + 1]
    /\ RecordProgress("failed", completedChunks, failedChunks + 1, TRUE, FALSE)
    /\ UNCHANGED <<outbox, waiting>>

\* The code does not look at the chunk's status: only the inbox key keeps a
\* late failure from undoing a settled chunk.
RecordFailure(w, retryable) ==
    /\ pc[w] = "working"
    /\ KeyFree(Ev(w))
    /\ retryCount' = [retryCount EXCEPT ![ChunkOf(w)] = @ + 1]
    /\ lease' = [lease EXCEPT ![ChunkOf(w)] = "none"]
    /\ IF CanRetry(ChunkOf(w), retryable) THEN ScheduleRetry(ChunkOf(w)) ELSE GiveUp(ChunkOf(w))
    /\ inbox' = inbox \cup {Ev(w)}
    /\ Goto(w, "ack")
    /\ UNCHANGED <<completedChunks, transcripts, relayVars, streamVars, faults>>

\* The transaction raises and is rolled back; the message stays pending.
RecordRejected(w) ==
    /\ pc[w] = "working"
    /\ ~SuccessCommits(w)
    /\ Drop(w)
    /\ UNCHANGED <<dbVars, outbox, waiting, inbox, relayVars, streamVars, faults>>

Ack(w) ==
    /\ pc[w] = "ack"
    /\ pending' = pending \ {held[w]}
    /\ Drop(w)
    /\ UNCHANGED <<dbVars, outbox, waiting, inbox, relayVars, unread, xadds, faults>>

\* A crash, or an exception that rolls back whatever transaction is open: the
\* worker forgets the message, the group keeps it pending, and a lease it took
\* runs on.
Abandon(w) ==
    /\ Fault
    /\ pc[w] \in {"delivered", "claiming", "working", "ack"}
    /\ Drop(w)
    /\ UNCHANGED <<dbVars, outbox, waiting, inbox, relayVars, streamVars>>

-----------------------------------------------------------------------------
Publisher ==
    \/ PubSelect
    \/ \E e \in Event : PubXadd(e)
    \/ PubCommit

Deliver(w) ==
    \/ \E m \in unread : ReadNew(w, m)
    \/ ReadNothing(w)
    \/ \E m \in pending : Autoclaim(w, m)
    \/ AutoclaimNothing(w)

Handle(w) ==
    \/ CheckInbox(w)
    \/ ClaimCompleted(w)
    \/ ClaimGranted(w)
    \/ ClaimRefused(w)
    \/ \E tick \in BOOLEAN : RecordSuccess(w, tick)
    \/ \E retryable \in BOOLEAN : RecordFailure(w, retryable)
    \/ RecordRejected(w)
    \/ Ack(w)

Time ==
    \/ \E e \in Event : BackoffElapses(e)
    \/ \E c \in Chunk : LeaseExpires(c)

Faults ==
    \/ \E e \in Event, landed \in BOOLEAN : PubXaddFails(e, landed)
    \/ PubCrash
    \/ \E w \in Worker : Abandon(w)

Next ==
    \/ Publisher
    \/ \E w \in Worker : Deliver(w)
    \/ \E w \in Worker : Handle(w)
    \/ Time
    \/ Faults

Spec == Init /\ [][Next]_vars

\* Entries one event can ever have: one XADD, and one more per fault.
Copies == 1..(MaxFaults + 1)

\* Every process keeps looping, the provider call ends, and clocks advance.  The
\* entry longest pending is the next one XAUTOCLAIM returns, so none is passed
\* over for ever.
Fairness ==
    /\ WF_vars(Publisher)
    /\ \A e \in Event : WF_vars(BackoffElapses(e))
    /\ \A c \in Chunk : WF_vars(LeaseExpires(c))
    /\ \A w \in Worker : WF_vars(Deliver(w)) /\ WF_vars(Handle(w))
    /\ \A m \in [ev : Event, copy : Copies] :
          SF_vars(\E w \in Worker : Autoclaim(w, m))

FairSpec == Spec /\ Fairness
-----------------------------------------------------------------------------
(* Properties.                                                             *)

Settled(c) == status[c] \in {"completed", "failed"}
WithStatus(s) == {c \in Chunk : status[c] = s}

\* The request whose processing would decide the chunk's current attempt.
LiveEvent(c) == [chunk |-> c, seq |-> retryCount[c]]

Circulating(e) == e \in outbox \/ \E m \in unread \cup pending : m.ev = e

\* No chunk is ever stranded: until it is settled, the request for its current
\* attempt is unprocessed and sits in the outbox, unread in the stream, or
\* pending in the group.  Acks (workers/clova.py:89), commits of published_at
\* (outbox.py:61-64) and retries (clova_worker.py:203-222) happen in three
\* different transactions that any crash can separate.
NoLostChunk ==
    \A c \in Chunk : ~Settled(c) => KeyFree(LiveEvent(c)) /\ Circulating(LiveEvent(c))

\* Whatever still circulates unprocessed is the current request of an unsettled
\* chunk: a republished, reclaimed or superseded request finds its inbox key
\* taken (event_inbox, models.py:142-148) and can change nothing.
StaleRequestsInert ==
    \A e \in Event :
       Circulating(e) /\ KeyFree(e) => e = LiveEvent(e.chunk) /\ ~Settled(e.chunk)

\* The counters the API serves and the merge is triggered by count the rows
\* they summarise, whatever was delivered twice (clova_worker.py:160, 225).
CountersMatchRows ==
    /\ completedChunks = Cardinality(WithStatus("completed"))
    /\ failedChunks = Cardinality(WithStatus("failed"))

\* The verdict on the job and the events announcing it follow from the chunk
\* rows: one TranscriptCompleted row exactly when all are completed, "failed"
\* exactly when one is, and one dead letter for each chunk that failed
\* (clova_worker.py:226, 229-242, 293-309).
VerdictFollowsChunks ==
    /\ jobStatus = IF WithStatus("failed") # {} THEN "failed"
                   ELSE IF WithStatus("completed") = Chunk THEN "transcript_completed"
                   ELSE "transcribing"
    /\ transcripts = IF jobStatus = "transcript_completed" THEN 1 ELSE 0
    /\ \A c \in Chunk : deadLetters[c] = IF status[c] = "failed" THEN 1 ELSE 0

\* Whoever reads the progress stream learns of the outcome: throttling
\* (clova_worker.py:351-365) never swallows the row that carries a new job
\* status or another failed chunk.
ProgressTellsVerdict ==
    IF progress.status = "none"
      THEN jobStatus = "transcribing"
      ELSE progress.status = jobStatus /\ progress.failed = failedChunks

\* Throttling keeps the reported ratio within PROGRESS_MIN_RATIO_DELTA of the
\* committed one, however the comparison rounds (clova_worker.py:361).
ProgressNeverFarBehind ==
    LET lag == 100 * (completedChunks - progress.done)
    IN  0 <= lag /\ lag <= MinRatioDelta * Total

\* A settled chunk stays as it is: no late answer of an attempt whose lease ran
\* out reopens it, fails it or counts another retry (clova_worker.py:176-244
\* does not look at the status it overwrites).
SettledIsFinal ==
    [][\A c \in Chunk : Settled(c) => status'[c] = status[c] /\ retryCount'[c] = retryCount[c]]_vars

\* A chunk waiting for its retry leaves that state only by a claim of the retry
\* request, which is processed after the failure it retries.
RetryWaitEndsInClaim ==
    [][\A c \in Chunk :
          status[c] = "retry_wait" /\ status'[c] # "retry_wait"
             => status'[c] = "processing" /\ lease'[c] = "held"]_vars

-----------------------------------------------------------------------------
(* The invariant behind the safety properties.                             *)

\* The inbox knows no attempt beyond the chunk's current one.
InboxNotAhead == \A e \in inbox : e.seq <= retryCount[e.chunk]

\* A row about to be stamped published is in the stream or already processed.
SentIsDelivered == \A e \in sent : e \in inbox \/ \E m \in unread \cup pending : m.ev = e

\* What a worker knows of the message it holds, whatever the others did since.
WorkersInStep ==
    \A w \in Worker : held[w] # NoMessage =>
       /\ held[w] \in pending \/ Ev(w) \in inbox
       /\ pc[w] = "ack" => Ev(w) \in inbox
       /\ pc[w] = "working" /\ KeyFree(Ev(w)) => status[ChunkOf(w)] = "processing"

IInv ==
    /\ TypeOK
    /\ NoLostChunk
    /\ StaleRequestsInert
    /\ InboxNotAhead
    /\ SentIsDelivered
    /\ WorkersInStep

-----------------------------------------------------------------------------
\* Whatever is lost, crashed or delivered twice along the way, as long as faults
\* stop every chunk is settled in the end, and every request, duplicates
\* included, is acknowledged: none stays pending to be redelivered for ever.
EveryChunkSettles ==
    <>[](/\ \A c \in Chunk : Settled(c)
         /\ outbox = {} /\ unread = {} /\ pending = {})

\* What the stage promises, without queues, leases and workers.
Ledger == INSTANCE ChunkLedger WITH
    outcome <- [c \in Chunk |-> IF Settled(c) THEN status[c] ELSE "open"],
    failures <- retryCount,
    verdict <- jobStatus

RefinesLedger == Ledger!Spec
=============================================================================
