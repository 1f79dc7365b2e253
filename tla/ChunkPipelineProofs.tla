------------------------- MODULE ChunkPipelineProofs -------------------------
(***************************************************************************)
(* Proofs about ChunkPipeline, for every finite set of chunks, every set   *)
(* of workers and every retry limit.  IInv is shown inductive action by    *)
(* action; the safety properties follow from it.  The last part is about   *)
(* StatusApi, whose requests read the rows while the pipeline moves them.  *)
(***************************************************************************)
EXTENDS StatusApi, FiniteSetTheorems, TLAPS

USE DEF Event, Message

-----------------------------------------------------------------------------
(* Lemmas.                                                                 *)

\* The current request of an unsettled chunk is a proper event, so its attempt
\* is within the retry limit.
LEMMA LiveEventInRange ==
    ASSUME TypeOK, NoLostChunk, NEW c \in Chunk, ~Settled(c)
    PROVE  LiveEvent(c) \in Event /\ retryCount[c] \in 0..MaxRetry
<1>1. Circulating(LiveEvent(c))
  BY DEF NoLostChunk
<1>2. LiveEvent(c) \in Event
  BY <1>1 DEF Circulating, TypeOK
<1>. QED
  BY <1>2 DEF LiveEvent

\* A worker about to commit with its inbox key free holds the current request
\* of a chunk in status processing, whatever happened since its claim.
LEMMA CommitterIsCurrent ==
    ASSUME IInv, NEW w \in Worker, pc[w] = "working", KeyFree(Ev(w))
    PROVE  /\ held[w] \in Message
           /\ held[w] \in pending
           /\ ChunkOf(w) \in Chunk
           /\ status[ChunkOf(w)] = "processing"
           /\ Ev(w) \in Event
           /\ Ev(w) = LiveEvent(ChunkOf(w))
           /\ retryCount[ChunkOf(w)] \in 0..MaxRetry
<1>1. held[w] \in Message /\ held[w] # NoMessage
  BY NoMessageAssumption DEF IInv, TypeOK
<1>2. held[w] \in pending /\ status[ChunkOf(w)] = "processing"
  BY <1>1 DEF IInv, WorkersInStep, KeyFree
<1>3. Ev(w) \in Event /\ ChunkOf(w) \in Chunk
  BY <1>1 DEF Ev, ChunkOf
<1>4. Circulating(Ev(w))
  BY <1>2 DEF Circulating, Ev
<1>5. Ev(w) = LiveEvent(ChunkOf(w))
  BY <1>3, <1>4 DEF IInv, StaleRequestsInert, ChunkOf
<1>6. retryCount[ChunkOf(w)] \in 0..MaxRetry
  BY <1>3, <1>5 DEF LiveEvent
<1>. QED
  BY <1>1, <1>2, <1>3, <1>5, <1>6

-----------------------------------------------------------------------------
(* The initial states.                                                     *)

LEMMA InitIInv == Init => IInv
<1>. SUFFICES ASSUME Init PROVE IInv
  OBVIOUS
<1>. USE DEF Init
<1>1. \A c \in Chunk : FirstRequest(c) \in Event
  BY MaxRetryAssumption DEF FirstRequest
<1>2. TypeOK
  BY <1>1, MaxRetryAssumption, BoundAssumption, NoMessageAssumption
  DEF TypeOK, ChunkStatus, JobStatus, Lease, Phase, NoProgress
<1>3. NoLostChunk
  BY DEF NoLostChunk, KeyFree, Circulating, LiveEvent, FirstRequest
<1>4. StaleRequestsInert
  BY DEF StaleRequestsInert, KeyFree, Circulating, LiveEvent, FirstRequest, Settled
<1>5. InboxNotAhead /\ SentIsDelivered /\ WorkersInStep
  BY DEF InboxNotAhead, SentIsDelivered, WorkersInStep
<1>. QED
  BY <1>2, <1>3, <1>4, <1>5 DEF IInv

-----------------------------------------------------------------------------
(* The publisher.                                                          *)

LEMMA PubSelectStep == ASSUME IInv, PubSelect PROVE IInv'
<1>. USE DEF PubSelect, IInv, dbVars, rowVars, jobVars, eventVars, streamVars, workerVars
<1>1. TypeOK'
  BY DEF TypeOK
<1>2. NoLostChunk' /\ StaleRequestsInert' /\ InboxNotAhead' /\ SentIsDelivered' /\ WorkersInStep'
  BY DEF NoLostChunk, StaleRequestsInert, InboxNotAhead, SentIsDelivered, WorkersInStep,
     KeyFree, Circulating, LiveEvent, Settled, Ev, ChunkOf
<1>. QED
  BY <1>1, <1>2

LEMMA PubXaddStep == ASSUME IInv, NEW e \in Event, PubXadd(e) PROVE IInv'
<1>. USE DEF PubXadd, IInv, dbVars, rowVars, jobVars, eventVars, workerVars
<1>1. e \in outbox /\ e \in batch /\ xadds[e] \in Nat
  BY DEF TypeOK
<1>2. [ev |-> e, copy |-> xadds[e] + 1] \in Message
  BY <1>1
<1>3. unread' \subseteq Message /\ xadds' \in [Event -> Nat]
  BY <1>1, <1>2 DEF TypeOK, Xadd
<1>4. TypeOK'
  BY <1>1, <1>3 DEF TypeOK
<1>5. \A f : Circulating(f)' <=> Circulating(f)
  BY <1>1 DEF Circulating, Xadd
<1>6. NoLostChunk' /\ StaleRequestsInert'
  BY <1>5 DEF NoLostChunk, StaleRequestsInert, KeyFree, LiveEvent, Settled
<1>7. SentIsDelivered'
  <2>1. [ev |-> e, copy |-> xadds[e] + 1] \in unread'
    BY DEF Xadd
  <2>2. \E m \in unread' \cup pending' : m.ev = e
    BY <2>1
  <2>3. unread \subseteq unread' /\ pending' = pending
    BY DEF Xadd
  <2>. QED
    BY <2>2, <2>3 DEF SentIsDelivered
<1>8. InboxNotAhead' /\ WorkersInStep'
  BY DEF InboxNotAhead, WorkersInStep, KeyFree, Ev, ChunkOf
<1>. QED
  BY <1>4, <1>6, <1>7, <1>8

LEMMA PubXaddFailsStep ==
    ASSUME IInv, NEW e \in Event, NEW landed \in BOOLEAN, PubXaddFails(e, landed)
    PROVE  IInv'
<1>. USE DEF PubXaddFails, Fault, IInv, dbVars, rowVars, jobVars, eventVars, workerVars
<1>1. e \in outbox /\ e \in batch /\ xadds[e] \in Nat
  BY DEF TypeOK
<1>2. /\ unread' \subseteq Message
      /\ xadds' \in [Event -> Nat]
      /\ unread \subseteq unread'
      /\ \A m \in unread' \ unread : m.ev = e
  <2>1. Xadd(e) \/ UNCHANGED <<unread, xadds>>
    OBVIOUS
  <2>2. [ev |-> e, copy |-> xadds[e] + 1] \in Message
    BY <1>1
  <2>3. CASE Xadd(e)
    BY <2>2, <2>3, <1>1 DEF TypeOK, Xadd
  <2>4. CASE UNCHANGED <<unread, xadds>>
    BY <2>4 DEF TypeOK
  <2>. QED
    BY <2>1, <2>3, <2>4
<1>3. TypeOK'
  <2>1. faults' \in 0..MaxFaults
    BY BoundAssumption DEF TypeOK
  <2>. QED
    BY <1>1, <1>2, <2>1 DEF TypeOK
<1>4. \A f : Circulating(f)' <=> Circulating(f)
  BY <1>1, <1>2 DEF Circulating
<1>5. NoLostChunk' /\ StaleRequestsInert'
  BY <1>4 DEF NoLostChunk, StaleRequestsInert, KeyFree, LiveEvent, Settled
<1>6. SentIsDelivered'
  BY <1>2 DEF SentIsDelivered
<1>7. InboxNotAhead' /\ WorkersInStep'
  BY DEF InboxNotAhead, WorkersInStep, KeyFree, Ev, ChunkOf
<1>. QED
  BY <1>3, <1>5, <1>6, <1>7

LEMMA PubCommitStep == ASSUME IInv, PubCommit PROVE IInv'
<1>. USE DEF PubCommit, IInv, dbVars, rowVars, jobVars, eventVars, streamVars, workerVars
<1>1. TypeOK'
  BY DEF TypeOK
<1>2. \A f : Circulating(f)' => Circulating(f)
  BY DEF Circulating
<1>3. \A f : Circulating(f) /\ KeyFree(f) => Circulating(f)'
  BY DEF Circulating, SentIsDelivered, KeyFree
<1>4. NoLostChunk'
  BY <1>3 DEF NoLostChunk, KeyFree, LiveEvent, Settled
<1>5. StaleRequestsInert'
  BY <1>2 DEF StaleRequestsInert, KeyFree, LiveEvent, Settled
<1>6. InboxNotAhead' /\ SentIsDelivered' /\ WorkersInStep'
  BY DEF InboxNotAhead, SentIsDelivered, WorkersInStep, KeyFree, Ev, ChunkOf
<1>. QED
  BY <1>1, <1>4, <1>5, <1>6

LEMMA PubCrashStep == ASSUME IInv, PubCrash PROVE IInv'
<1>. USE DEF PubCrash, Fault, IInv, dbVars, rowVars, jobVars, eventVars, streamVars, workerVars
<1>1. TypeOK'
  BY BoundAssumption DEF TypeOK
<1>2. NoLostChunk' /\ StaleRequestsInert' /\ InboxNotAhead' /\ SentIsDelivered' /\ WorkersInStep'
  BY DEF NoLostChunk, StaleRequestsInert, InboxNotAhead, SentIsDelivered, WorkersInStep,
     KeyFree, Circulating, LiveEvent, Settled, Ev, ChunkOf
<1>. QED
  BY <1>1, <1>2

-----------------------------------------------------------------------------
(* Time.                                                                   *)

LEMMA BackoffElapsesStep == ASSUME IInv, NEW e \in Event, BackoffElapses(e) PROVE IInv'
<1>. USE DEF BackoffElapses, IInv, dbVars, rowVars, jobVars, eventVars, relayVars, streamVars, workerVars
<1>1. TypeOK'
  BY DEF TypeOK
<1>2. NoLostChunk' /\ StaleRequestsInert' /\ InboxNotAhead' /\ SentIsDelivered' /\ WorkersInStep'
  BY DEF NoLostChunk, StaleRequestsInert, InboxNotAhead, SentIsDelivered, WorkersInStep,
     KeyFree, Circulating, LiveEvent, Settled, Ev, ChunkOf
<1>. QED
  BY <1>1, <1>2

LEMMA LeaseExpiresStep == ASSUME IInv, NEW c \in Chunk, LeaseExpires(c) PROVE IInv'
<1>. USE DEF LeaseExpires, IInv, jobVars, eventVars, relayVars, streamVars, workerVars
<1>1. TypeOK'
  BY DEF TypeOK, Lease
<1>2. NoLostChunk' /\ StaleRequestsInert' /\ InboxNotAhead' /\ SentIsDelivered' /\ WorkersInStep'
  BY DEF NoLostChunk, StaleRequestsInert, InboxNotAhead, SentIsDelivered, WorkersInStep,
     KeyFree, Circulating, LiveEvent, Settled, Ev, ChunkOf
<1>. QED
  BY <1>1, <1>2

-----------------------------------------------------------------------------
(* The worker: delivery.                                                   *)

LEMMA ReadNewStep ==
    ASSUME IInv, NEW w \in Worker, NEW m \in unread, ReadNew(w, m) PROVE IInv'
<1>. USE DEF ReadNew, Take, IInv, dbVars, rowVars, jobVars, eventVars, relayVars
<1>1. m \in Message /\ m # NoMessage
  BY NoMessageAssumption DEF TypeOK
<1>2. TypeOK'
  BY <1>1 DEF TypeOK, Phase
<1>3. unread' \cup pending' = unread \cup pending
  OBVIOUS
<1>4. \A f : Circulating(f)' <=> Circulating(f)
  BY <1>3 DEF Circulating
<1>5. NoLostChunk' /\ StaleRequestsInert'
  BY <1>4 DEF NoLostChunk, StaleRequestsInert, KeyFree, LiveEvent, Settled
<1>6. InboxNotAhead' /\ SentIsDelivered'
  BY <1>3 DEF InboxNotAhead, SentIsDelivered
<1>7. WorkersInStep'
  BY <1>1 DEF TypeOK, WorkersInStep, KeyFree, Ev, ChunkOf
<1>. QED
  BY <1>2, <1>5, <1>6, <1>7

LEMMA AutoclaimStep ==
    ASSUME IInv, NEW w \in Worker, NEW m \in pending, Autoclaim(w, m) PROVE IInv'
<1>. USE DEF Autoclaim, Take, IInv, dbVars, rowVars, jobVars, eventVars, relayVars, streamVars
<1>1. m \in Message /\ m # NoMessage
  BY NoMessageAssumption DEF TypeOK
<1>2. TypeOK'
  BY <1>1 DEF TypeOK, Phase
<1>3. NoLostChunk' /\ StaleRequestsInert' /\ InboxNotAhead' /\ SentIsDelivered'
  BY DEF NoLostChunk, StaleRequestsInert, InboxNotAhead, SentIsDelivered,
     KeyFree, Circulating, LiveEvent, Settled
<1>4. WorkersInStep'
  BY <1>1 DEF TypeOK, WorkersInStep, KeyFree, Ev, ChunkOf
<1>. QED
  BY <1>2, <1>3, <1>4

\* A step of one worker that leaves PostgreSQL and Redis alone.
LEMMA LocalStep ==
    ASSUME IInv, UNCHANGED <<dbVars, outbox, waiting, inbox, relayVars, streamVars>>,
           TypeOK', WorkersInStep'
    PROVE  IInv'
BY DEF IInv, dbVars, rowVars, jobVars, eventVars, relayVars, streamVars,
   NoLostChunk, StaleRequestsInert, InboxNotAhead, SentIsDelivered,
   KeyFree, Circulating, LiveEvent, Settled

\* So does one that gives its message up.
LEMMA DropStep ==
    ASSUME IInv, NEW w \in Worker, Drop(w), faults' \in 0..MaxFaults,
           UNCHANGED <<dbVars, outbox, waiting, inbox, relayVars, streamVars>>
    PROVE  IInv'
<1>. USE DEF Drop, dbVars, rowVars, jobVars, eventVars, relayVars, streamVars
<1>1. TypeOK'
  BY NoMessageAssumption DEF IInv, TypeOK, Phase
<1>2. WorkersInStep'
  BY DEF IInv, TypeOK, WorkersInStep, KeyFree, Ev, ChunkOf
<1>. QED
  BY <1>1, <1>2, LocalStep

LEMMA ReadNothingStep == ASSUME IInv, NEW w \in Worker, ReadNothing(w) PROVE IInv'
<1>. USE DEF ReadNothing, Goto, dbVars, rowVars, jobVars, eventVars, relayVars, streamVars
<1>1. TypeOK'
  BY DEF IInv, TypeOK, Phase
<1>2. WorkersInStep'
  BY DEF IInv, TypeOK, WorkersInStep, KeyFree, Ev, ChunkOf
<1>. QED
  BY <1>1, <1>2, LocalStep

LEMMA AutoclaimNothingStep == ASSUME IInv, NEW w \in Worker, AutoclaimNothing(w) PROVE IInv'
<1>. USE DEF AutoclaimNothing, Goto, dbVars, rowVars, jobVars, eventVars, relayVars, streamVars
<1>1. TypeOK'
  BY DEF IInv, TypeOK, Phase
<1>2. WorkersInStep'
  BY DEF IInv, TypeOK, WorkersInStep, KeyFree, Ev, ChunkOf
<1>. QED
  BY <1>1, <1>2, LocalStep

-----------------------------------------------------------------------------
(* The worker: the claim.                                                  *)

LEMMA CheckInboxStep == ASSUME IInv, NEW w \in Worker, CheckInbox(w) PROVE IInv'
<1>. USE DEF CheckInbox, Goto, dbVars, rowVars, jobVars, eventVars, relayVars, streamVars
<1>1. TypeOK'
  BY DEF IInv, TypeOK, Phase
<1>2. WorkersInStep'
  BY DEF IInv, TypeOK, WorkersInStep, IsProcessed, KeyFree, Ev, ChunkOf
<1>. QED
  BY <1>1, <1>2, LocalStep

\* With its key free the request would be the current one of an unsettled
\* chunk; so the chunk is completed only if the key is taken, and nothing is
\* recorded.
LEMMA ClaimCompletedStep == ASSUME IInv, NEW w \in Worker, ClaimCompleted(w) PROVE IInv'
<1>1. held[w] \in Message /\ held[w] # NoMessage
  BY NoMessageAssumption DEF ClaimCompleted, IInv, TypeOK
<1>2. ~KeyFree(Ev(w))
  <2>1. SUFFICES ASSUME KeyFree(Ev(w)) PROVE FALSE
    OBVIOUS
  <2>2. Circulating(Ev(w)) /\ Ev(w) \in Event
    BY <1>1, <2>1 DEF IInv, WorkersInStep, KeyFree, Circulating, Ev
  <2>3. ~Settled(ChunkOf(w))
    BY <2>1, <2>2 DEF IInv, StaleRequestsInert, ChunkOf
  <2>. QED
    BY <2>3 DEF Settled, ClaimCompleted
<1>3. UNCHANGED inbox /\ Drop(w)
  BY <1>2 DEF ClaimCompleted
<1>. QED
  BY <1>3, DropStep DEF ClaimCompleted, IInv, TypeOK

LEMMA ClaimRefusedStep == ASSUME IInv, NEW w \in Worker, ClaimRefused(w) PROVE IInv'
BY DropStep DEF ClaimRefused, IInv, TypeOK

LEMMA ClaimGrantedStep == ASSUME IInv, NEW w \in Worker, ClaimGranted(w) PROVE IInv'
<1>. USE DEF ClaimGranted, Goto, IInv, jobVars, eventVars, relayVars, streamVars
<1>1. ChunkOf(w) \in Chunk
  BY NoMessageAssumption DEF TypeOK, ChunkOf, Ev
<1>2. TypeOK'
  BY <1>1 DEF TypeOK, ChunkStatus, Lease, Phase
<1>3. \A c \in Chunk : Settled(c)' <=> Settled(c)
  BY <1>1 DEF TypeOK, Settled, CanClaim
<1>4. NoLostChunk' /\ StaleRequestsInert'
  BY <1>3 DEF NoLostChunk, StaleRequestsInert, KeyFree, Circulating, LiveEvent
<1>5. InboxNotAhead' /\ SentIsDelivered'
  BY DEF InboxNotAhead, SentIsDelivered
<1>6. WorkersInStep'
  BY <1>1 DEF TypeOK, WorkersInStep, KeyFree, Ev, ChunkOf
<1>. QED
  BY <1>2, <1>4, <1>5, <1>6

LEMMA AbandonStep == ASSUME IInv, NEW w \in Worker, Abandon(w) PROVE IInv'
<1>1. faults' \in 0..MaxFaults
  BY BoundAssumption DEF Abandon, Fault, IInv, TypeOK
<1>. QED
  BY <1>1, DropStep DEF Abandon

LEMMA AckStep == ASSUME IInv, NEW w \in Worker, Ack(w) PROVE IInv'
<1>. USE DEF Ack, Drop, IInv, dbVars, rowVars, jobVars, eventVars, relayVars
<1>1. held[w] # NoMessage /\ Ev(w) \in inbox
  BY DEF TypeOK, WorkersInStep
<1>2. TypeOK'
  BY NoMessageAssumption DEF TypeOK, Phase
<1>3. \A f : Circulating(f)' => Circulating(f)
  BY DEF Circulating
<1>4. \A f : Circulating(f) /\ KeyFree(f) => Circulating(f)'
  BY <1>1 DEF Circulating, KeyFree, Ev
<1>5. NoLostChunk'
  BY <1>4 DEF NoLostChunk, KeyFree, LiveEvent, Settled
<1>6. StaleRequestsInert'
  BY <1>3 DEF StaleRequestsInert, KeyFree, LiveEvent, Settled
<1>7. InboxNotAhead'
  BY DEF InboxNotAhead
<1>8. SentIsDelivered'
  BY <1>1 DEF SentIsDelivered, Ev
<1>9. WorkersInStep'
  BY <1>1 DEF TypeOK, WorkersInStep, KeyFree, Ev, ChunkOf
<1>. QED
  BY <1>2, <1>5, <1>6, <1>7, <1>8, <1>9

-----------------------------------------------------------------------------
(* The worker: recording the outcome.                                      *)

LEMMA RecordRejectedStep == ASSUME IInv, NEW w \in Worker, RecordRejected(w) PROVE IInv'
BY DropStep DEF RecordRejected, IInv, TypeOK

LEMMA RecordSuccessStep ==
    ASSUME IInv, NEW w \in Worker, NEW tick \in BOOLEAN, RecordSuccess(w, tick)
    PROVE  IInv'
<1>. DEFINE c == ChunkOf(w)
<1>. USE DEF RecordSuccess, Goto, IInv, relayVars, streamVars
<1>1. /\ pc[w] = "working" /\ KeyFree(Ev(w))
      /\ UNCHANGED held
  BY DEF SuccessCommits
<1>2. /\ held[w] \in Message /\ held[w] \in pending /\ c \in Chunk
      /\ status[c] = "processing"
      /\ Ev(w) \in Event /\ Ev(w) = LiveEvent(c)
  BY <1>1, CommitterIsCurrent
<1>3. SaveResult(c, tick)
  BY <1>2
<1>4. /\ status' = [status EXCEPT ![c] = "completed"]
      /\ lease' = [lease EXCEPT ![c] = "none"]
      /\ completedChunks' = completedChunks + 1
  BY <1>3 DEF SaveResult
<1>5. TypeOK'
  <2>1. completedChunks' \in Nat
    BY <1>4 DEF TypeOK
  <2>2. jobStatus' \in JobStatus
    BY <1>3 DEF SaveResult, TypeOK, JobStatus
  <2>3. transcripts' \in Nat
    BY <1>3 DEF SaveResult, TypeOK
  <2>4. progress' \in [status : JobStatus \cup {"none"}, done : Nat, failed : Nat]
    <3>1. \/ progress' = progress
          \/ progress' = [status |-> jobStatus', done |-> completedChunks', failed |-> failedChunks]
      BY <1>3 DEF SaveResult, RecordProgress
    <3>. QED
      BY <3>1, <2>1, <2>2 DEF TypeOK
  <2>5. status' \in [Chunk -> ChunkStatus] /\ lease' \in [Chunk -> Lease]
    BY <1>2, <1>4 DEF TypeOK, ChunkStatus, Lease
  <2>6. pc' \in [Worker -> Phase]
    BY DEF TypeOK, Phase
  <2>. QED
    BY <1>1, <1>2, <2>1, <2>2, <2>3, <2>4, <2>5, <2>6 DEF TypeOK
<1>6. NoLostChunk'
  BY <1>2, <1>4 DEF TypeOK, NoLostChunk, KeyFree, Circulating, LiveEvent, Settled
<1>7. StaleRequestsInert'
  BY <1>2, <1>4 DEF TypeOK, StaleRequestsInert, KeyFree, Circulating, LiveEvent, Settled
<1>8. InboxNotAhead' /\ SentIsDelivered'
  BY <1>2 DEF InboxNotAhead, SentIsDelivered, LiveEvent
<1>9. WorkersInStep'
  <2>. SUFFICES ASSUME NEW v \in Worker, held[v] # NoMessage
       PROVE  /\ held[v] \in pending \/ Ev(v) \in inbox'
              /\ pc'[v] = "ack" => Ev(v) \in inbox'
              /\ pc'[v] = "working" /\ Ev(v) \notin inbox' => status'[ChunkOf(v)] = "processing"
    BY <1>1 DEF WorkersInStep, KeyFree, Ev, ChunkOf
  <2>1. held[v] \in Message
    BY DEF TypeOK
  <2>2. v # w => pc'[v] = pc[v]
    BY DEF TypeOK
  <2>3. pc'[w] = "ack"
    BY DEF TypeOK
  <2>4. ASSUME pc'[v] = "working", Ev(v) \notin inbox' PROVE status'[ChunkOf(v)] = "processing"
    <3>1. v # w /\ pc[v] = "working" /\ KeyFree(Ev(v))
      BY <2>2, <2>3, <2>4 DEF KeyFree
    <3>2. Ev(v) = LiveEvent(ChunkOf(v)) /\ status[ChunkOf(v)] = "processing" /\ ChunkOf(v) \in Chunk
      BY <3>1, CommitterIsCurrent
    <3>3. ChunkOf(v) # c
      BY <3>2, <1>2, <2>4
    <3>. QED
      BY <3>2, <3>3, <1>2, <1>4 DEF TypeOK
  <2>. QED
    BY <2>2, <2>3, <2>4 DEF WorkersInStep
<1>. QED
  BY <1>5, <1>6, <1>7, <1>8, <1>9

\* Both outcomes consume the current request; a retry puts a new one in its
\* place, and no request of that attempt existed before.
LEMMA RecordFailureStep ==
    ASSUME IInv, NEW w \in Worker, NEW retryable \in BOOLEAN, RecordFailure(w, retryable)
    PROVE  IInv'
<1>1. PICK c, r : c = ChunkOf(w) /\ r = retryCount[c]
  OBVIOUS
<1>. DEFINE next == [chunk |-> c, seq |-> r + 1]
<1>. USE DEF RecordFailure, Goto, IInv, relayVars, streamVars
<1>2. /\ held[w] \in Message /\ held[w] \in pending /\ c \in Chunk
      /\ status[c] = "processing"
      /\ Ev(w) \in Event /\ Ev(w) = [chunk |-> c, seq |-> r]
      /\ r \in 0..MaxRetry
  BY <1>1, CommitterIsCurrent DEF LiveEvent
<1>3. /\ retryCount' = [retryCount EXCEPT ![c] = r + 1]
      /\ retryCount' \in [Chunk -> 0..(MaxRetry + 1)]
      /\ lease' \in [Chunk -> Lease]
      /\ inbox' = inbox \cup {Ev(w)}
      /\ pc' \in [Worker -> Phase]
  BY <1>1, <1>2, MaxRetryAssumption DEF TypeOK, Lease, Phase
<1>4. \/ CanRetry(c, retryable) /\ ScheduleRetry(c)
      \/ GiveUp(c)
  BY <1>1
<1>5. next \notin inbox /\ ~Circulating(next)
  <2>1. next \notin inbox
    BY <1>2, <1>1 DEF InboxNotAhead
  <2>2. Circulating(next) => next \in Event
    BY DEF Circulating, TypeOK
  <2>3. next # LiveEvent(c)
    BY <1>1, <1>2 DEF LiveEvent
  <2>. QED
    BY <2>1, <2>2, <2>3 DEF StaleRequestsInert, KeyFree
<1>6. WorkersInStep'
  <2>. SUFFICES ASSUME NEW v \in Worker, held[v] # NoMessage
       PROVE  /\ held[v] \in pending \/ Ev(v) \in inbox'
              /\ pc'[v] = "ack" => Ev(v) \in inbox'
              /\ pc'[v] = "working" /\ Ev(v) \notin inbox' => status'[ChunkOf(v)] = "processing"
    BY DEF WorkersInStep, KeyFree, Ev, ChunkOf
  <2>1. v # w => pc'[v] = pc[v]
    BY DEF TypeOK
  <2>2. pc'[w] = "ack"
    BY DEF TypeOK
  <2>3. ASSUME pc'[v] = "working", Ev(v) \notin inbox' PROVE status'[ChunkOf(v)] = "processing"
    <3>1. v # w /\ pc[v] = "working" /\ KeyFree(Ev(v))
      BY <2>1, <2>2, <2>3 DEF KeyFree
    <3>2. Ev(v) = LiveEvent(ChunkOf(v)) /\ status[ChunkOf(v)] = "processing" /\ ChunkOf(v) \in Chunk
      BY <3>1, CommitterIsCurrent
    <3>3. ChunkOf(v) # c
      BY <3>2, <1>1, <1>2, <2>3 DEF LiveEvent
    <3>4. status'[ChunkOf(v)] = status[ChunkOf(v)]
      BY <1>2, <1>4, <3>2, <3>3 DEF ScheduleRetry, GiveUp, TypeOK
    <3>. QED
      BY <3>2, <3>4
  <2>. QED
    BY <2>1, <2>2, <2>3 DEF WorkersInStep
<1>7. InboxNotAhead'
  <2>. SUFFICES ASSUME NEW e \in inbox' PROVE e.seq <= retryCount'[e.chunk]
    BY DEF InboxNotAhead
  <2>1. e \in Event /\ e.seq <= retryCount[e.chunk]
    BY <1>2, <1>3 DEF InboxNotAhead, TypeOK
  <2>. QED
    BY <1>2, <1>3, <2>1 DEF TypeOK
<1>8. SentIsDelivered'
  BY DEF SentIsDelivered
<1>9. CASE CanRetry(c, retryable) /\ ScheduleRetry(c)
  <2>1. /\ next \in Event
        /\ outbox' = outbox \cup {next} /\ waiting' = waiting \cup {next}
        /\ status' = [status EXCEPT ![c] = "retry_wait"]
    BY <1>1, <1>2, <1>9 DEF CanRetry, ScheduleRetry
  <2>2. next \notin outbox
    BY <1>5 DEF Circulating
  <2>3. TypeOK'
    BY <1>2, <1>3, <1>9, <2>1, <2>2 DEF TypeOK, ChunkStatus, ScheduleRetry
  <2>4. \A f : Circulating(f)' <=> (Circulating(f) \/ f = next)
    BY <2>1 DEF Circulating
  <2>5. LiveEvent(c)' = next /\ \A d \in Chunk \ {c} : LiveEvent(d)' = LiveEvent(d)
    BY <1>1, <1>2, <1>3 DEF LiveEvent, TypeOK
  <2>6. next \notin inbox'
    BY <1>2, <1>3, <1>5
  <2>7. /\ ~Settled(c) /\ ~Settled(c)'
        /\ \A d \in Chunk \ {c} : Settled(d)' <=> Settled(d)
    BY <1>2, <2>1 DEF Settled, TypeOK
  <2>8. NoLostChunk'
    <3>. SUFFICES ASSUME NEW d \in Chunk, ~Settled(d)'
         PROVE  KeyFree(LiveEvent(d))' /\ Circulating(LiveEvent(d))'
      BY DEF NoLostChunk
    <3>1. CASE d = c
      BY <3>1, <2>4, <2>5, <2>6 DEF KeyFree
    <3>2. CASE d # c
      <4>1. LiveEvent(d) # Ev(w)
        BY <1>1, <1>2, <3>2 DEF LiveEvent
      <4>. QED
        BY <3>2, <4>1, <1>3, <2>4, <2>5, <2>7 DEF NoLostChunk, KeyFree
    <3>. QED
      BY <3>1, <3>2
  <2>9. StaleRequestsInert'
    <3>. SUFFICES ASSUME NEW e \in Event, Circulating(e)', KeyFree(e)'
         PROVE  e = LiveEvent(e.chunk)' /\ ~Settled(e.chunk)'
      BY DEF StaleRequestsInert
    <3>1. CASE e = next
      BY <3>1, <2>5, <2>7
    <3>2. CASE e # next
      <4>1. e = LiveEvent(e.chunk) /\ ~Settled(e.chunk) /\ e # Ev(w)
        BY <3>2, <2>4, <1>3 DEF StaleRequestsInert, KeyFree
      <4>2. e.chunk # c
        BY <4>1, <1>1, <1>2 DEF LiveEvent
      <4>. QED
        BY <4>1, <4>2, <2>5, <2>7
    <3>. QED
      BY <3>1, <3>2
  <2>. QED
    BY <1>6, <1>7, <1>8, <2>3, <2>8, <2>9
<1>10. CASE GiveUp(c)
  <2>1. /\ UNCHANGED <<outbox, waiting>>
        /\ status' = [status EXCEPT ![c] = "failed"]
        /\ progress' = [status |-> "failed", done |-> completedChunks, failed |-> failedChunks + 1]
    BY <1>10 DEF GiveUp, RecordProgress, ShouldEmit
  <2>2. TypeOK'
    BY <1>2, <1>3, <1>10, <2>1 DEF TypeOK, ChunkStatus, JobStatus, GiveUp
  <2>3. \A f : Circulating(f)' <=> Circulating(f)
    BY <2>1 DEF Circulating
  <2>4. /\ Settled(c)'
        /\ \A d \in Chunk \ {c} : (Settled(d)' <=> Settled(d)) /\ LiveEvent(d)' = LiveEvent(d)
    BY <1>2, <1>3, <2>1 DEF Settled, LiveEvent, TypeOK
  <2>5. NoLostChunk'
    BY <1>2, <1>3, <2>3, <2>4 DEF NoLostChunk, KeyFree, LiveEvent
  <2>6. StaleRequestsInert'
    <3>. SUFFICES ASSUME NEW e \in Event, Circulating(e)', KeyFree(e)'
         PROVE  e = LiveEvent(e.chunk)' /\ ~Settled(e.chunk)'
      BY DEF StaleRequestsInert
    <3>1. e = LiveEvent(e.chunk) /\ ~Settled(e.chunk) /\ e # Ev(w)
      BY <2>3, <1>3 DEF StaleRequestsInert, KeyFree
    <3>2. e.chunk # c
      BY <3>1, <1>1, <1>2 DEF LiveEvent
    <3>. QED
      BY <3>1, <3>2, <2>4
  <2>. QED
    BY <1>6, <1>7, <1>8, <2>2, <2>5, <2>6
<1>. QED
  BY <1>4, <1>9, <1>10

-----------------------------------------------------------------------------
(* The invariant, and what follows from it directly.                       *)

LEMMA NextIInv == IInv /\ [Next]_vars => IInv'
<1>. SUFFICES ASSUME IInv, [Next]_vars PROVE IInv'
  OBVIOUS
<1>1. CASE Publisher
  BY <1>1, PubSelectStep, PubXaddStep, PubCommitStep DEF Publisher
<1>2. ASSUME NEW w \in Worker, Deliver(w) PROVE IInv'
  BY <1>2, ReadNewStep, ReadNothingStep, AutoclaimStep, AutoclaimNothingStep DEF Deliver
<1>3. ASSUME NEW w \in Worker, Handle(w) PROVE IInv'
  BY <1>3, CheckInboxStep, ClaimCompletedStep, ClaimGrantedStep, ClaimRefusedStep,
     RecordSuccessStep, RecordFailureStep, RecordRejectedStep, AckStep DEF Handle
<1>4. CASE Time
  BY <1>4, BackoffElapsesStep, LeaseExpiresStep DEF Time
<1>5. CASE Faults
  BY <1>5, PubXaddFailsStep, PubCrashStep, AbandonStep DEF Faults
<1>6. CASE UNCHANGED vars
  <2>1. TypeOK' /\ WorkersInStep'
    BY <1>6 DEF vars, dbVars, rowVars, jobVars, eventVars, relayVars, streamVars, workerVars,
       IInv, TypeOK, WorkersInStep, KeyFree, Ev, ChunkOf
  <2>. QED
    BY <1>6, <2>1, LocalStep DEF vars
<1>. QED
  BY <1>1, <1>2, <1>3, <1>4, <1>5, <1>6 DEF Next

\* The inductive invariant holds for every number of chunks, workers, retries and
\* faults: types, circulating requests, the inbox, the open publisher batch and
\* what each worker knows of the message it holds.
THEOREM SpecIInv == Spec => []IInv
BY InitIInv, NextIInv, PTL DEF Spec

\* Every reachable state is well typed: in particular the events in circulation
\* never carry an attempt beyond the limit, and a worker holds a message
\* exactly while it handles one.
THEOREM TypeCorrect == Spec => []TypeOK
<1>1. IInv => TypeOK
  BY DEF IInv
<1>. QED
  BY <1>1, SpecIInv, PTL

\* No chunk is ever stranded: every unsettled chunk keeps an unprocessed
\* request in the outbox, unread, or pending, whatever crashes in between.
THEOREM NoChunkIsLost == Spec => []NoLostChunk
<1>1. IInv => NoLostChunk
  BY DEF IInv
<1>. QED
  BY <1>1, SpecIInv, PTL

\* Duplicates and superseded requests are inert: what circulates unprocessed is
\* the current request of an unsettled chunk.
THEOREM StaleRequestsAreInert == Spec => []StaleRequestsInert
<1>1. IInv => StaleRequestsInert
  BY DEF IInv
<1>. QED
  BY <1>1, SpecIInv, PTL

-----------------------------------------------------------------------------
(* What a step can do to the rows of the chunks and of the job.            *)

\* Only the two recording steps touch the job, its events and the retry counts;
\* of the others only a claim changes a chunk's status, and not of a settled one.
RowsKept ==
    /\ UNCHANGED <<retryCount, jobVars, eventVars>>
    /\ \A c \in Chunk : \/ status'[c] = status[c]
                        \/ ~Settled(c) /\ status'[c] = "processing" /\ lease'[c] = "held"

LEMMA StepKinds ==
    ASSUME IInv, [Next]_vars
    PROVE  \/ \E w \in Worker, tick \in BOOLEAN : RecordSuccess(w, tick)
           \/ \E w \in Worker, retryable \in BOOLEAN : RecordFailure(w, retryable)
           \/ RowsKept
<1>1. UNCHANGED dbVars => RowsKept
  BY DEF RowsKept, dbVars, rowVars
<1>2. CASE Publisher
  BY <1>1, <1>2 DEF Publisher, PubSelect, PubXadd, PubCommit
<1>3. ASSUME NEW w \in Worker, Deliver(w) PROVE RowsKept
  BY <1>1, <1>3 DEF Deliver, ReadNew, ReadNothing, Autoclaim, AutoclaimNothing
<1>4. ASSUME NEW w \in Worker, Handle(w)
      PROVE  \/ \E tick \in BOOLEAN : RecordSuccess(w, tick)
             \/ \E retryable \in BOOLEAN : RecordFailure(w, retryable)
             \/ RowsKept
  <2>1. CASE CheckInbox(w) \/ ClaimCompleted(w) \/ ClaimRefused(w) \/ RecordRejected(w) \/ Ack(w)
    BY <1>1, <2>1 DEF CheckInbox, ClaimCompleted, ClaimRefused, RecordRejected, Ack
  <2>2. CASE ClaimGranted(w)
    BY <2>2 DEF ClaimGranted, CanClaim, RowsKept, Settled, IInv, TypeOK
  <2>. QED
    BY <1>4, <2>1, <2>2 DEF Handle
<1>5. CASE Time
  BY <1>1, <1>5 DEF Time, BackoffElapses, LeaseExpires, RowsKept
<1>6. CASE Faults
  BY <1>1, <1>6 DEF Faults, PubXaddFails, PubCrash, Abandon
<1>7. CASE UNCHANGED vars
  BY <1>1, <1>7 DEF vars
<1>. QED
  BY <1>2, <1>3, <1>4, <1>5, <1>6, <1>7 DEF Next

\* A recorded answer completes one chunk that was in status processing.
LEMMA SuccessEffect ==
    ASSUME IInv, NEW w \in Worker, NEW tick \in BOOLEAN, RecordSuccess(w, tick)
    PROVE  \E c \in Chunk :
              /\ status[c] = "processing"
              /\ SaveResult(c, tick)
              /\ AllDone(completedChunks + 1) => MergeReady(c)
              /\ UNCHANGED <<retryCount, failedChunks, deadLetters>>
<1>1. pc[w] = "working" /\ KeyFree(Ev(w))
  BY DEF RecordSuccess, SuccessCommits
<1>2. ChunkOf(w) \in Chunk /\ status[ChunkOf(w)] = "processing"
  BY <1>1, CommitterIsCurrent
<1>. QED
  BY <1>2 DEF RecordSuccess, SuccessCommits

\* A recorded failure reschedules or fails one chunk in status processing.
LEMMA FailureEffect ==
    ASSUME IInv, NEW w \in Worker, NEW retryable \in BOOLEAN, RecordFailure(w, retryable)
    PROVE  \E c \in Chunk :
              /\ status[c] = "processing"
              /\ retryCount' = [retryCount EXCEPT ![c] = @ + 1]
              /\ \/ CanRetry(c, retryable) /\ ScheduleRetry(c)
                 \/ GiveUp(c)
              /\ UNCHANGED <<completedChunks, transcripts>>
<1>1. pc[w] = "working" /\ KeyFree(Ev(w))
  BY DEF RecordFailure
<1>2. ChunkOf(w) \in Chunk /\ status[ChunkOf(w)] = "processing"
  BY <1>1, CommitterIsCurrent
<1>. QED
  BY <1>2 DEF RecordFailure

-----------------------------------------------------------------------------
(* Action properties.                                                      *)

\* A step leaves a settled chunk as it is.
LEMMA StepSettles ==
    ASSUME IInv, [Next]_vars, NEW c \in Chunk, Settled(c)
    PROVE  status'[c] = status[c] /\ retryCount'[c] = retryCount[c]
<1>1. status \in [Chunk -> ChunkStatus] /\ retryCount \in [Chunk -> 0..(MaxRetry + 1)]
  BY DEF IInv, TypeOK
<1>2. ASSUME NEW w \in Worker, NEW tick \in BOOLEAN, RecordSuccess(w, tick)
      PROVE  status'[c] = status[c] /\ retryCount'[c] = retryCount[c]
  <2>1. PICK d \in Chunk : status[d] = "processing" /\ SaveResult(d, tick) /\ UNCHANGED retryCount
    BY <1>2, SuccessEffect
  <2>. QED
    BY <1>1, <2>1 DEF Settled, SaveResult
<1>3. ASSUME NEW w \in Worker, NEW retryable \in BOOLEAN, RecordFailure(w, retryable)
      PROVE  status'[c] = status[c] /\ retryCount'[c] = retryCount[c]
  <2>1. PICK d \in Chunk : /\ status[d] = "processing"
                           /\ retryCount' = [retryCount EXCEPT ![d] = @ + 1]
                           /\ ScheduleRetry(d) \/ GiveUp(d)
    BY <1>3, FailureEffect
  <2>. QED
    BY <1>1, <2>1 DEF Settled, ScheduleRetry, GiveUp
<1>4. CASE RowsKept
  BY <1>4 DEF RowsKept
<1>. QED
  BY <1>2, <1>3, <1>4, StepKinds

\* A settled chunk keeps its status and its retry count for ever.
THEOREM SettledForEver == Spec => SettledIsFinal
<1>1. IInv /\ [Next]_vars =>
        [\A c \in Chunk : Settled(c) => status'[c] = status[c] /\ retryCount'[c] = retryCount[c]]_vars
  BY StepSettles
<1>. QED
  BY <1>1, SpecIInv, PTL DEF Spec, SettledIsFinal

\* A chunk waiting for its retry leaves that state only by a claim.
THEOREM RetryWaitLeftByClaim == Spec => RetryWaitEndsInClaim
<1>1. ASSUME IInv, [Next]_vars, NEW c \in Chunk, status[c] = "retry_wait", status'[c] # "retry_wait"
      PROVE  status'[c] = "processing" /\ lease'[c] = "held"
  <2>1. status \in [Chunk -> ChunkStatus]
    BY <1>1 DEF IInv, TypeOK
  <2>2. ASSUME NEW w \in Worker, NEW tick \in BOOLEAN, RecordSuccess(w, tick) PROVE FALSE
    <3>1. PICK d \in Chunk : status[d] = "processing" /\ SaveResult(d, tick)
      BY <1>1, <2>2, SuccessEffect
    <3>. QED
      BY <1>1, <2>1, <3>1 DEF SaveResult
  <2>3. ASSUME NEW w \in Worker, NEW retryable \in BOOLEAN, RecordFailure(w, retryable) PROVE FALSE
    <3>1. PICK d \in Chunk : status[d] = "processing" /\ (ScheduleRetry(d) \/ GiveUp(d))
      BY <1>1, <2>3, FailureEffect
    <3>. QED
      BY <1>1, <2>1, <3>1 DEF ScheduleRetry, GiveUp
  <2>4. CASE RowsKept
    BY <1>1, <2>4 DEF RowsKept
  <2>. QED
    BY <1>1, <2>2, <2>3, <2>4, StepKinds
<1>2. IInv /\ [Next]_vars =>
        [\A c \in Chunk : status[c] = "retry_wait" /\ status'[c] # "retry_wait"
             => status'[c] = "processing" /\ lease'[c] = "held"]_vars
  BY <1>1
<1>. QED
  BY <1>2, SpecIInv, PTL DEF Spec, RetryWaitEndsInClaim

-----------------------------------------------------------------------------
(* Counters, verdict and announcements.                                    *)

VerdictInv ==
    /\ IInv
    /\ CountersMatchRows
    /\ VerdictFollowsChunks
    /\ ProgressTellsVerdict

\* Counting up with the chunk that gets status s keeps a counter equal to the
\* number of rows with that status.
LEMMA CountOneMore ==
    ASSUME TypeOK, NEW c \in Chunk, NEW s \in ChunkStatus, status[c] # s,
           status' = [status EXCEPT ![c] = s]
    PROVE  /\ WithStatus(s)' = WithStatus(s) \cup {c}
           /\ Cardinality(WithStatus(s)') = Cardinality(WithStatus(s)) + 1
           /\ Cardinality(WithStatus(s)) \in Nat
           /\ Total \in Nat
           /\ Cardinality(WithStatus(s)') = Total <=> WithStatus(s)' = Chunk
           /\ \A t \in ChunkStatus \ {s, status[c]} : WithStatus(t)' = WithStatus(t)
<1>1. WithStatus(s)' = WithStatus(s) \cup {c} /\ c \notin WithStatus(s)
  BY DEF TypeOK, WithStatus
<1>2. IsFiniteSet(WithStatus(s))
  BY ChunkAssumption, FS_Subset DEF WithStatus
<1>3. Cardinality(WithStatus(s)') = Cardinality(WithStatus(s)) + 1
  BY <1>1, <1>2, FS_AddElement
<1>4. Cardinality(WithStatus(s)) \in Nat /\ Total \in Nat
  BY <1>2, ChunkAssumption, FS_CardinalityType DEF Total
<1>5. Cardinality(WithStatus(s)') = Total <=> WithStatus(s)' = Chunk
  <2>1. WithStatus(s)' \in SUBSET Chunk
    BY <1>1 DEF WithStatus
  <2>. QED
    BY <2>1, ChunkAssumption, FS_Subset DEF Total
<1>6. \A t \in ChunkStatus \ {s, status[c]} : WithStatus(t)' = WithStatus(t)
  BY DEF TypeOK, WithStatus
<1>. QED
  BY <1>1, <1>3, <1>4, <1>5, <1>6

LEMMA InitVerdictInv == Init => VerdictInv
<1>. SUFFICES ASSUME Init PROVE VerdictInv
  OBVIOUS
<1>1. WithStatus("completed") = {} /\ WithStatus("failed") = {}
  BY DEF Init, WithStatus
<1>2. CountersMatchRows
  BY <1>1, FS_EmptySet DEF Init, CountersMatchRows
<1>3. VerdictFollowsChunks
  BY <1>1, ChunkAssumption DEF Init, VerdictFollowsChunks
<1>4. ProgressTellsVerdict
  BY DEF Init, ProgressTellsVerdict, NoProgress
<1>. QED
  BY <1>2, <1>3, <1>4, InitIInv DEF VerdictInv

LEMMA VerdictSuccess ==
    ASSUME VerdictInv, NEW w \in Worker, NEW tick \in BOOLEAN, RecordSuccess(w, tick)
    PROVE  (CountersMatchRows /\ VerdictFollowsChunks /\ ProgressTellsVerdict)'
<1>. USE DEF VerdictInv
<1>1. PICK c \in Chunk :
        /\ status[c] = "processing"
        /\ SaveResult(c, tick)
        /\ AllDone(completedChunks + 1) => MergeReady(c)
        /\ UNCHANGED <<retryCount, failedChunks, deadLetters>>
  BY SuccessEffect
<1>2. TypeOK /\ status' = [status EXCEPT ![c] = "completed"]
  BY <1>1 DEF IInv, SaveResult
<1>3. /\ WithStatus("completed")' = WithStatus("completed") \cup {c}
      /\ Cardinality(WithStatus("completed")') = completedChunks + 1
      /\ WithStatus("failed")' = WithStatus("failed")
      /\ completedChunks + 1 = Total <=> WithStatus("completed")' = Chunk
  BY <1>1, <1>2, CountOneMore DEF ChunkStatus, CountersMatchRows
<1>4. CountersMatchRows'
  BY <1>1, <1>3 DEF CountersMatchRows, SaveResult
<1>5. WithStatus("completed") # Chunk
  BY <1>1 DEF WithStatus
<1>6. \A d \in Chunk : deadLetters'[d] = IF status'[d] = "failed" THEN 1 ELSE 0
  BY <1>1, <1>2 DEF VerdictFollowsChunks, TypeOK
<1>7. CASE AllDone(completedChunks + 1)
  <2>1. WithStatus("completed")' = Chunk
    BY <1>3, <1>7 DEF AllDone
  <2>2. WithStatus("failed")' = {}
    BY <2>1 DEF WithStatus
  <2>3. jobStatus = "transcribing" /\ transcripts = 0
    BY <1>3, <1>5, <2>2 DEF VerdictFollowsChunks
  <2>4. /\ jobStatus' = "transcript_completed" /\ transcripts' = 1
        /\ progress'.status = jobStatus' /\ progress'.failed = failedChunks'
    BY <1>1, <1>7, <2>3 DEF SaveResult, RecordProgress, ShouldEmit
  <2>5. VerdictFollowsChunks'
    BY <1>6, <2>1, <2>2, <2>4 DEF VerdictFollowsChunks
  <2>6. ProgressTellsVerdict'
    BY <2>4 DEF ProgressTellsVerdict
  <2>. QED
    BY <1>4, <2>5, <2>6
<1>8. CASE ~AllDone(completedChunks + 1)
  <2>1. WithStatus("completed")' # Chunk
    BY <1>3, <1>8 DEF AllDone
  <2>2. /\ jobStatus' = jobStatus /\ transcripts' = transcripts
        /\ \/ progress' = progress /\ progress.status # "none"
           \/ progress' = [status |-> jobStatus, done |-> completedChunks + 1, failed |-> failedChunks]
    BY <1>1, <1>8 DEF SaveResult, RecordProgress, ShouldEmit
  <2>3. VerdictFollowsChunks'
    BY <1>3, <1>5, <1>6, <2>1, <2>2 DEF VerdictFollowsChunks
  <2>4. ProgressTellsVerdict'
    BY <1>1, <2>2 DEF ProgressTellsVerdict, IInv, TypeOK, JobStatus
  <2>. QED
    BY <1>4, <2>3, <2>4
<1>. QED
  BY <1>7, <1>8

LEMMA VerdictFailure ==
    ASSUME VerdictInv, NEW w \in Worker, NEW retryable \in BOOLEAN, RecordFailure(w, retryable)
    PROVE  (CountersMatchRows /\ VerdictFollowsChunks /\ ProgressTellsVerdict)'
<1>. USE DEF VerdictInv
<1>1. PICK c \in Chunk :
        /\ status[c] = "processing"
        /\ ScheduleRetry(c) \/ GiveUp(c)
        /\ UNCHANGED <<completedChunks, transcripts>>
  BY FailureEffect
<1>2. TypeOK
  BY DEF IInv
<1>3. CASE ScheduleRetry(c)
  <2>1. status' = [status EXCEPT ![c] = "retry_wait"]
    BY <1>3 DEF ScheduleRetry
  <2>2. /\ WithStatus("completed")' = WithStatus("completed")
        /\ WithStatus("failed")' = WithStatus("failed")
        /\ \A d \in Chunk : status'[d] = "failed" <=> status[d] = "failed"
    BY <1>1, <1>2, <2>1 DEF TypeOK, WithStatus
  <2>. QED
    BY <1>1, <1>3, <2>2 DEF ScheduleRetry, CountersMatchRows, VerdictFollowsChunks, ProgressTellsVerdict
<1>4. CASE GiveUp(c)
  <2>1. /\ status' = [status EXCEPT ![c] = "failed"]
        /\ jobStatus' = "failed" /\ failedChunks' = failedChunks + 1
        /\ deadLetters' = [deadLetters EXCEPT ![c] = @ + 1]
        /\ progress'.status = "failed" /\ progress'.failed = failedChunks'
    BY <1>4 DEF GiveUp, RecordProgress, ShouldEmit
  <2>2. /\ WithStatus("failed")' = WithStatus("failed") \cup {c}
        /\ Cardinality(WithStatus("failed")') = failedChunks + 1
        /\ WithStatus("completed")' = WithStatus("completed")
    BY <1>1, <1>2, <2>1, CountOneMore DEF ChunkStatus, CountersMatchRows
  <2>3. CountersMatchRows'
    BY <1>1, <2>1, <2>2 DEF CountersMatchRows
  <2>4. WithStatus("completed") # Chunk
    BY <1>1 DEF WithStatus
  <2>5. transcripts' = 0
    BY <1>1, <2>4 DEF VerdictFollowsChunks
  <2>6. \A d \in Chunk : deadLetters'[d] = IF status'[d] = "failed" THEN 1 ELSE 0
    BY <1>1, <1>2, <2>1 DEF VerdictFollowsChunks, TypeOK
  <2>7. VerdictFollowsChunks'
    BY <2>1, <2>2, <2>5, <2>6 DEF VerdictFollowsChunks
  <2>8. ProgressTellsVerdict'
    BY <2>1 DEF ProgressTellsVerdict
  <2>. QED
    BY <2>3, <2>7, <2>8
<1>. QED
  BY <1>1, <1>3, <1>4

LEMMA NextVerdictInv == VerdictInv /\ [Next]_vars => VerdictInv'
<1>. SUFFICES ASSUME VerdictInv, [Next]_vars PROVE VerdictInv'
  OBVIOUS
<1>1. IInv'
  BY NextIInv DEF VerdictInv
<1>2. CASE RowsKept
  <2>1. \A c \in Chunk : /\ status'[c] = "completed" <=> status[c] = "completed"
                         /\ status'[c] = "failed" <=> status[c] = "failed"
    BY <1>2 DEF RowsKept, Settled
  <2>2. WithStatus("completed")' = WithStatus("completed") /\ WithStatus("failed")' = WithStatus("failed")
    BY <2>1 DEF WithStatus
  <2>. QED
    BY <1>1, <1>2, <2>1, <2>2 DEF VerdictInv, RowsKept, jobVars, eventVars,
       CountersMatchRows, VerdictFollowsChunks, ProgressTellsVerdict
<1>3. (CountersMatchRows /\ VerdictFollowsChunks /\ ProgressTellsVerdict)' \/ RowsKept
  BY StepKinds, VerdictSuccess, VerdictFailure DEF VerdictInv
<1>. QED
  BY <1>1, <1>2, <1>3 DEF VerdictInv

LEMMA SpecVerdictInv == Spec => []VerdictInv
BY InitVerdictInv, NextVerdictInv, PTL DEF Spec

\* The job's counters equal the numbers of rows they summarise.
THEOREM CountersCorrect == Spec => []CountersMatchRows
<1>1. VerdictInv => CountersMatchRows
  BY DEF VerdictInv
<1>. QED
  BY <1>1, SpecVerdictInv, PTL

\* The job's status, the one transcript and the dead letters follow from the
\* chunk rows.
THEOREM VerdictCorrect == Spec => []VerdictFollowsChunks
<1>1. VerdictInv => VerdictFollowsChunks
  BY DEF VerdictInv
<1>. QED
  BY <1>1, SpecVerdictInv, PTL

\* Throttling never hides the job's status or a failed chunk from the readers
\* of the progress stream.
THEOREM ProgressCorrect == Spec => []ProgressTellsVerdict
<1>1. VerdictInv => ProgressTellsVerdict
  BY DEF VerdictInv
<1>. QED
  BY <1>1, SpecVerdictInv, PTL

-----------------------------------------------------------------------------
(* Throttling.                                                             *)

LEMMA ThresholdNat == 0 <= MinRatioDelta * Total
<1>1. Total \in Nat
  BY ChunkAssumption, FS_CardinalityType DEF Total
<1>. QED
  BY <1>1, BoundAssumption

LEMMA InitLag == Init => ProgressNeverFarBehind
BY ThresholdNat DEF Init, NoProgress, ProgressNeverFarBehind

\* A success that is not announced is one ShouldEmit found near enough.
LEMMA LagAfterSuccess ==
    ASSUME IInv, ProgressNeverFarBehind, NEW w \in Worker, NEW tick \in BOOLEAN,
           RecordSuccess(w, tick)
    PROVE  ProgressNeverFarBehind'
<1>. DEFINE limit == MinRatioDelta * Total
            emit == ShouldEmit(AllDone(completedChunks + 1), completedChunks + 1, tick)
<1>1. completedChunks \in Nat /\ progress.done \in Nat /\ Total \in Nat
  BY ChunkAssumption, FS_CardinalityType DEF IInv, TypeOK, Total
<1>2. limit \in Nat /\ progress.done <= completedChunks
  BY <1>1, BoundAssumption DEF ProgressNeverFarBehind
<1>3. ~emit => 100 * (completedChunks + 1 - progress.done) <= limit
  BY <1>1, <1>2, BoundAssumption DEF ShouldEmit, AllDone
<1>4. PICK c \in Chunk : SaveResult(c, tick)
  BY SuccessEffect
<1>5. completedChunks' = completedChunks + 1
  BY <1>4 DEF SaveResult
<1>6. CASE emit
  <2>1. progress'.done = completedChunks + 1
    BY <1>4, <1>6 DEF SaveResult, RecordProgress
  <2>. QED
    BY <1>1, <1>5, <2>1, ThresholdNat DEF ProgressNeverFarBehind
<1>7. CASE ~emit
  <2>1. progress' = progress
    BY <1>4, <1>7 DEF SaveResult, RecordProgress
  <2>2. 100 * (completedChunks' - progress'.done) <= limit
    BY <1>1, <1>2, <1>3, <1>5, <1>7, <2>1
  <2>3. 0 <= 100 * (completedChunks' - progress'.done)
    BY <1>1, <1>2, <1>5, <2>1
  <2>. HIDE DEF emit
  <2>. QED
    BY <2>2, <2>3 DEF ProgressNeverFarBehind
<1>. QED
  BY <1>6, <1>7

LEMMA LagAfterFailure ==
    ASSUME IInv, ProgressNeverFarBehind, NEW w \in Worker, NEW retryable \in BOOLEAN,
           RecordFailure(w, retryable)
    PROVE  ProgressNeverFarBehind'
<1>1. /\ completedChunks' = completedChunks
      /\ progress' = progress \/ progress'.done = completedChunks
  <2>1. PICK c \in Chunk : (ScheduleRetry(c) \/ GiveUp(c)) /\ UNCHANGED completedChunks
    BY FailureEffect
  <2>. QED
    BY <2>1 DEF ScheduleRetry, GiveUp, RecordProgress, ShouldEmit
<1>2. completedChunks \in Nat /\ progress.done \in Nat
  BY DEF IInv, TypeOK
<1>3. CASE progress' = progress
  BY <1>1, <1>3 DEF ProgressNeverFarBehind
<1>4. CASE progress'.done = completedChunks
  BY <1>1, <1>2, <1>4, ThresholdNat DEF ProgressNeverFarBehind
<1>. QED
  BY <1>1, <1>3, <1>4

\* The progress stream never lags by more than the throttling threshold, for every number
\* of chunks and every threshold.
THEOREM ProgressKeepsUp == Spec => []ProgressNeverFarBehind
<1>1. ASSUME IInv, ProgressNeverFarBehind, [Next]_vars PROVE ProgressNeverFarBehind'
  <2>1. CASE RowsKept
    BY <1>1, <2>1 DEF RowsKept, jobVars, eventVars, ProgressNeverFarBehind
  <2>. QED
    BY <1>1, <2>1, StepKinds, LagAfterSuccess, LagAfterFailure
<1>2. IInv /\ ProgressNeverFarBehind /\ [Next]_vars => ProgressNeverFarBehind'
  BY <1>1
<1>. QED
  BY <1>2, InitLag, SpecIInv, PTL DEF Spec

-----------------------------------------------------------------------------
(* The stage implements ChunkLedger.                                       *)

Outcome == [c \in Chunk |-> IF Settled(c) THEN status[c] ELSE "open"]

\* The refinement mapping starts in the ledger's initial state.
LEMMA LedgerInit == Init => Ledger!Init
BY DEF Init, Ledger!Init, Settled

LEMMA LedgerSuccess ==
    ASSUME VerdictInv, NEW w \in Worker, NEW tick \in BOOLEAN, RecordSuccess(w, tick)
    PROVE  \E c \in Chunk : Ledger!Complete(c)
<1>. USE DEF VerdictInv
<1>1. PICK c \in Chunk :
        /\ status[c] = "processing"
        /\ SaveResult(c, tick)
        /\ AllDone(completedChunks + 1) => MergeReady(c)
        /\ UNCHANGED <<retryCount, failedChunks, deadLetters>>
  BY SuccessEffect
<1>2. TypeOK /\ status' = [status EXCEPT ![c] = "completed"]
  BY <1>1 DEF IInv, SaveResult
<1>3. completedChunks + 1 = Total <=> WithStatus("completed")' = Chunk
  BY <1>1, <1>2, CountOneMore DEF ChunkStatus, CountersMatchRows
<1>4. Outcome[c] = "open" /\ Outcome' = [Outcome EXCEPT ![c] = "completed"]
  BY <1>1, <1>2 DEF Outcome, Settled, TypeOK
<1>5. (\A d \in Chunk : Outcome'[d] = "completed") <=> AllDone(completedChunks + 1)
  BY <1>2, <1>3 DEF Outcome, Settled, AllDone, WithStatus, TypeOK
<1>6. AllDone(completedChunks + 1) => jobStatus' = "transcript_completed" /\ transcripts' = 1
  <2>1. WithStatus("completed") # Chunk
    BY <1>1 DEF WithStatus
  <2>2. AllDone(completedChunks + 1) => WithStatus("failed") = {}
    BY <1>1, <1>2, <1>3 DEF AllDone, WithStatus, TypeOK
  <2>. QED
    BY <1>1, <2>1, <2>2 DEF VerdictFollowsChunks, SaveResult
<1>7. ~AllDone(completedChunks + 1) => UNCHANGED <<jobStatus, transcripts>>
  BY <1>1 DEF SaveResult
<1>8. Ledger!Complete(c)
  BY <1>1, <1>4, <1>5, <1>6, <1>7 DEF Ledger!Complete, Outcome
<1>. QED
  BY <1>8

LEMMA LedgerFailure ==
    ASSUME VerdictInv, NEW w \in Worker, NEW retryable \in BOOLEAN, RecordFailure(w, retryable)
    PROVE  \E c \in Chunk : Ledger!Retry(c) \/ Ledger!Fail(c)
<1>. USE DEF VerdictInv
<1>1. PICK c \in Chunk :
        /\ status[c] = "processing"
        /\ retryCount' = [retryCount EXCEPT ![c] = @ + 1]
        /\ \/ CanRetry(c, retryable) /\ ScheduleRetry(c)
           \/ GiveUp(c)
        /\ UNCHANGED <<completedChunks, transcripts>>
  BY FailureEffect
<1>2. TypeOK /\ Outcome[c] = "open"
  BY <1>1 DEF IInv, Outcome, Settled
<1>3. CASE CanRetry(c, retryable) /\ ScheduleRetry(c)
  <2>1. Outcome' = Outcome
    BY <1>1, <1>2, <1>3 DEF ScheduleRetry, Outcome, Settled, TypeOK
  <2>2. retryCount[c] < MaxRetry
    <3>1. retryCount[c] + 1 <= MaxRetry
      BY <1>3, Zenon DEF CanRetry
    <3>2. retryCount[c] \in 0..(MaxRetry + 1)
      BY <1>2 DEF TypeOK
    <3>. QED
      BY <3>1, <3>2, MaxRetryAssumption
  <2>3. Ledger!Retry(c)
    BY <1>1, <1>2, <1>3, <2>1, <2>2 DEF Ledger!Retry, Outcome, ScheduleRetry
  <2>. QED
    BY <2>3
<1>4. CASE GiveUp(c)
  <2>1. Outcome' = [Outcome EXCEPT ![c] = "failed"]
    BY <1>1, <1>2, <1>4 DEF GiveUp, Outcome, Settled, TypeOK
  <2>2. deadLetters' = [deadLetters EXCEPT ![c] = 1] /\ jobStatus' = "failed"
    <3>1. deadLetters[c] = 0
      BY <1>1 DEF VerdictFollowsChunks
    <3>2. deadLetters' = [deadLetters EXCEPT ![c] = @ + 1] /\ jobStatus' = "failed"
      BY <1>4 DEF GiveUp
    <3>. QED
      BY <3>1, <3>2
  <2>3. Ledger!Fail(c)
    BY <1>1, <1>2, <2>1, <2>2 DEF Ledger!Fail, Outcome
  <2>. QED
    BY <2>3
<1>. QED
  BY <1>1, <1>3, <1>4

\* Every step of the pipeline is a step of the ledger or leaves it unchanged.
LEMMA LedgerNext == VerdictInv /\ [Next]_vars => [Ledger!Next]_(Ledger!ledgerVars)
<1>. SUFFICES ASSUME VerdictInv, [Next]_vars PROVE [Ledger!Next]_(Ledger!ledgerVars)
  OBVIOUS
<1>1. CASE RowsKept
  <2>1. Outcome' = Outcome
    BY <1>1 DEF RowsKept, Outcome, Settled
  <2>. QED
    BY <1>1, <2>1 DEF RowsKept, jobVars, eventVars, Outcome, Ledger!ledgerVars
<1>2. ASSUME NEW w \in Worker, NEW tick \in BOOLEAN, RecordSuccess(w, tick) PROVE Ledger!Next
  BY <1>2, LedgerSuccess DEF Ledger!Next
<1>3. ASSUME NEW w \in Worker, NEW retryable \in BOOLEAN, RecordFailure(w, retryable)
      PROVE  Ledger!Next
  BY <1>3, LedgerFailure DEF Ledger!Next
<1>. QED
  BY <1>1, <1>2, <1>3, StepKinds DEF VerdictInv

\* The stage implements the ledger: each chunk is settled once, after at most
\* MaxRetry + 1 failures, and exactly the deciding step announces the verdict.
THEOREM ImplementsLedger == Spec => RefinesLedger
BY LedgerInit, LedgerNext, SpecVerdictInv, PTL DEF Spec, RefinesLedger, Ledger!Spec

-----------------------------------------------------------------------------
(* The status and the result endpoint (StatusApi).                         *)

\* Requests and the other writers of the job's status leave the rows of the pipeline
\* alone.
LEMMA ApiStep == ASSUME [ApiNext]_apiVars PROVE [Next]_vars
BY DEF ApiNext, Pipeline, Correct, LateMark, ReadJob, ReadChunks, ReadCorrected, Answer, apiVars

\* Whatever the API reads meanwhile, the pipeline does what ChunkPipeline says, so
\* every theorem about Spec holds under ApiSpec.
THEOREM ApiLeavesPipelineAlone == ApiSpec => Spec
<1>1. ApiInit => Init
  BY DEF ApiInit
<1>2. [ApiNext]_apiVars => [Next]_vars
  BY ApiStep
<1>. QED
  BY <1>1, <1>2, PTL DEF ApiSpec, Spec

ChunksOf(list, s) == {c \in Chunk : list[c] = s}

\* What the job row of this request says is borne out by a list of chunk rows.
BorneOutBy(list) ==
    /\ readJob.completed <= Cardinality(ChunksOf(list, "completed"))
    /\ readJob.failed <= Cardinality(ChunksOf(list, "failed"))
    /\ readJob.status = "failed" =>
          \/ marked = TRUE
          \/ Cardinality(ChunksOf(list, "failed")) > 0
          \/ Cardinality(ChunksOf(list, "completed")) = Total
    /\ readJob.status \notin {"transcribing", "failed"} =>
          Cardinality(ChunksOf(list, "completed")) = Total

\* The column of the job row is the verdict, or what became of it: the correction
\* goes on from a transcript only, and only an orchestrator's mark takes back what
\* another stage has put there.
ColumnInOrder ==
    /\ column \in JobStatus \cup {"correcting", "correction_completed"}
    /\ corrected \in BOOLEAN /\ marked \in BOOLEAN /\ promised \in BOOLEAN
    /\ column = "transcribing" => jobStatus = "transcribing"
    /\ column = "failed" => marked = TRUE \/ jobStatus # "transcribing"
    /\ column \notin {"transcribing", "failed"} => jobStatus = "transcript_completed"
    /\ column = "correction_completed" => corrected = TRUE

\* There is a result, and it is served as long as nobody marks the job.
ResultStands ==
    /\ jobStatus = "transcript_completed" /\ corrected = TRUE
    /\ marked = TRUE \/ column = "correction_completed"

\* The first statement of a request reads the job.  From then on the rows, which
\* only move forwards, bear out what it read.
RequestInOrder ==
    /\ readJob = NotRead => readChunks = NotRead /\ readCorrected = NotRead
    /\ readJob # NotRead =>
          /\ readJob.completed \in Nat /\ readJob.failed \in Nat /\ BorneOutBy(status)
          /\ readJob.status = "transcribing" => readJob.failed = 0 /\ readJob.completed < Total
    /\ readJob # NotRead /\ readChunks # NotRead => BorneOutBy(readChunks)
    /\ readJob # NotRead /\ Available => ResultStands

\* What was promised before this request began, or is promised by what it has read,
\* is there whenever its next statement looks for it.
PromiseKept ==
    /\ promised = TRUE => ResultStands
    /\ readJob # NotRead /\ (promised = TRUE \/ Available) =>
          /\ readJob.hasText = TRUE
          /\ marked = TRUE \/ Available
          /\ readCorrected # NotRead => readCorrected = TRUE

ApiInv == ColumnInOrder /\ RequestInOrder /\ PromiseKept

LEMMA InitApiInv == ApiInit => ApiInv
BY DEF ApiInit, Init, ApiInv, ColumnInOrder, RequestInOrder, PromiseKept, JobStatus

\* Completed and failed rows stay so: their numbers only grow.
LEMMA SettledRowsGrow ==
    ASSUME VerdictInv, [Next]_vars, NEW s \in {"completed", "failed"}
    PROVE  /\ ChunksOf(status, s) \subseteq ChunksOf(status, s)'
           /\ Cardinality(ChunksOf(status, s)) \in Nat
           /\ Cardinality(ChunksOf(status, s)') \in Nat
           /\ Cardinality(ChunksOf(status, s)) <= Cardinality(ChunksOf(status, s)')
           /\ Cardinality(ChunksOf(status, s)') <= Total
<1>1. IInv /\ TypeOK
  BY DEF VerdictInv, IInv
<1>2. \A c \in Chunk : Settled(c) => status'[c] = status[c]
  BY <1>1, StepSettles
<1>3. ChunksOf(status, s) \subseteq ChunksOf(status, s)'
  BY <1>2 DEF ChunksOf, Settled
<1>4. ChunksOf(status, s)' \subseteq Chunk /\ IsFiniteSet(ChunksOf(status, s)')
  BY ChunkAssumption, FS_Subset DEF ChunksOf
<1>5. IsFiniteSet(ChunksOf(status, s))
  BY ChunkAssumption, FS_Subset DEF ChunksOf
<1>. QED
  BY <1>3, <1>4, <1>5, ChunkAssumption, FS_Subset, FS_CardinalityType DEF Total

\* What bears out the job row keeps doing so.
LEMMA BorneOutStays ==
    ASSUME VerdictInv, [Next]_vars, BorneOutBy(status), UNCHANGED <<readJob, marked>>,
           readJob.completed \in Nat, readJob.failed \in Nat
    PROVE  BorneOutBy(status)'
<1>. DEFINE n == Cardinality(ChunksOf(status, "completed"))
            m == Cardinality(ChunksOf(status, "failed"))
            nn == Cardinality(ChunksOf(status, "completed")')
            mm == Cardinality(ChunksOf(status, "failed")')
<1>1. /\ n \in Nat /\ nn \in Nat /\ n <= nn /\ nn <= Total
      /\ m \in Nat /\ mm \in Nat /\ m <= mm
  BY SettledRowsGrow
<1>2. Total \in Nat
  BY ChunkAssumption, FS_CardinalityType DEF Total
<1>3. /\ readJob.completed <= n /\ readJob.failed <= m
      /\ readJob.status = "failed" => marked = TRUE \/ m > 0 \/ n = Total
      /\ readJob.status \notin {"transcribing", "failed"} => n = Total
  BY DEF BorneOutBy
<1>. HIDE DEF n, m, nn, mm
<1>4. readJob.completed <= nn /\ readJob.failed <= mm
  BY <1>1, <1>3
<1>5. (m > 0 => mm > 0) /\ (n = Total => nn = Total)
  BY <1>1, <1>2
<1>6. /\ readJob.status = "failed" => marked = TRUE \/ mm > 0 \/ nn = Total
      /\ readJob.status \notin {"transcribing", "failed"} => nn = Total
  BY <1>3, <1>5
<1>. QED
  BY <1>4, <1>6 DEF BorneOutBy, n, m, nn, mm

\* What the verdict says of the counters.
LEMMA VerdictCounts ==
    ASSUME VerdictInv
    PROVE  /\ completedChunks = Cardinality(ChunksOf(status, "completed"))
           /\ failedChunks = Cardinality(ChunksOf(status, "failed"))
           /\ completedChunks \in Nat /\ failedChunks \in Nat
           /\ jobStatus \in JobStatus
           /\ jobStatus = "transcript_completed" => completedChunks = Total /\ transcripts = 1
           /\ jobStatus = "failed" => failedChunks > 0
           /\ jobStatus = "transcribing" => failedChunks = 0 /\ completedChunks < Total
<1>1. /\ completedChunks = Cardinality(ChunksOf(status, "completed"))
      /\ failedChunks = Cardinality(ChunksOf(status, "failed"))
      /\ completedChunks \in Nat /\ failedChunks \in Nat
      /\ jobStatus \in JobStatus
  BY DEF VerdictInv, IInv, TypeOK, CountersMatchRows, WithStatus, ChunksOf
<1>2. jobStatus = "transcript_completed" => completedChunks = Total /\ transcripts = 1
  BY <1>1 DEF VerdictInv, VerdictFollowsChunks, WithStatus, ChunksOf, Total
<1>3. /\ ChunksOf(status, "failed") \subseteq Chunk /\ ChunksOf(status, "completed") \subseteq Chunk
      /\ IsFiniteSet(ChunksOf(status, "failed"))
  <2>1. ChunksOf(status, "failed") \subseteq Chunk /\ ChunksOf(status, "completed") \subseteq Chunk
    BY DEF ChunksOf
  <2>. QED
    BY <2>1, ChunkAssumption, FS_Subset
<1>4. /\ jobStatus = "failed" => ChunksOf(status, "failed") # {}
      /\ jobStatus = "transcribing" =>
            ChunksOf(status, "failed") = {} /\ ChunksOf(status, "completed") # Chunk
  BY DEF VerdictInv, VerdictFollowsChunks, WithStatus, ChunksOf
<1>5. ChunksOf(status, "failed") # {} => failedChunks # 0
  BY <1>1, <1>3, FS_EmptySet
<1>6. ChunksOf(status, "failed") = {} => failedChunks = 0
  BY <1>1, FS_EmptySet
<1>7. ChunksOf(status, "completed") # Chunk => completedChunks < Total
  <2>1. ChunksOf(status, "completed") # Chunk =>
           Cardinality(ChunksOf(status, "completed")) < Cardinality(Chunk)
    BY <1>3, ChunkAssumption, FS_Subset, FS_CardinalityType
  <2>. QED
    BY <1>1, <2>1 DEF Total
<1>. QED
  BY <1>1, <1>2, <1>4, <1>5, <1>6, <1>7

\* The job row, read at any moment, is borne out by the rows of that moment: the
\* counters match, and the status is the verdict, comes after it, or is a mark.
LEMMA JobRowBorneOut ==
    ASSUME VerdictInv, ColumnInOrder, readJob' = JobRow, UNCHANGED <<status, marked>>
    PROVE  /\ BorneOutBy(status)'
           /\ readJob'.completed \in Nat /\ readJob'.failed \in Nat
           /\ readJob'.status = "transcribing" =>
                 readJob'.failed = 0 /\ readJob'.completed < Total
           /\ readJob'.status = column
           /\ jobStatus = "transcript_completed" => readJob'.hasText = TRUE
<1>1. /\ readJob'.status = column
      /\ readJob'.completed = completedChunks /\ readJob'.failed = failedChunks
      /\ readJob'.hasText = (transcripts > 0)
  BY DEF JobRow
<1>. DEFINE n == Cardinality(ChunksOf(status, "completed"))
            m == Cardinality(ChunksOf(status, "failed"))
<1>2. /\ completedChunks = n /\ failedChunks = m /\ n \in Nat /\ m \in Nat
      /\ jobStatus = "transcript_completed" => n = Total /\ transcripts = 1
      /\ jobStatus = "failed" => m > 0
      /\ jobStatus = "transcribing" => m = 0 /\ n < Total
      /\ jobStatus \in JobStatus
  BY VerdictCounts
<1>. HIDE DEF n, m
<1>3. column = "failed" => marked = TRUE \/ m > 0 \/ n = Total
  BY <1>2 DEF ColumnInOrder, JobStatus
<1>4. column \notin {"transcribing", "failed"} => n = Total
  BY <1>2 DEF ColumnInOrder
<1>5. column = "transcribing" => m = 0 /\ n < Total
  BY <1>2 DEF ColumnInOrder
<1>6. completedChunks <= n /\ failedChunks <= m
  BY <1>2
<1>7. n' = n /\ m' = m
  BY DEF n, m, ChunksOf
<1>8. BorneOutBy(status)'
  BY <1>1, <1>3, <1>4, <1>6, <1>7 DEF BorneOutBy, n, m
<1>9. readJob'.completed \in Nat /\ readJob'.failed \in Nat
  BY <1>1, <1>2
<1>10. readJob'.status = "transcribing" => readJob'.failed = 0 /\ readJob'.completed < Total
  BY <1>1, <1>2, <1>5
<1>11. jobStatus = "transcript_completed" => readJob'.hasText = TRUE
  <2>1. jobStatus = "transcript_completed" => transcripts > 0
    BY <1>2
  <2>2. (transcripts > 0) \in BOOLEAN
    OBVIOUS
  <2>. QED
    BY <1>1, <2>1, <2>2, Zenon
<1>. QED
  BY <1>1, <1>8, <1>9, <1>10, <1>11

\* The verdict "every chunk completed" is never taken back.
LEMMA StepKeepsTranscript ==
    ASSUME VerdictInv, [Next]_vars, jobStatus = "transcript_completed"
    PROVE  jobStatus' = "transcript_completed"
<1>1. WithStatus("completed") = Chunk
  BY DEF VerdictInv, VerdictFollowsChunks
<1>2. \A c \in Chunk : status[c] = "completed" /\ Settled(c)
  BY <1>1 DEF WithStatus, Settled
<1>3. \A c \in Chunk : status'[c] = "completed"
  BY <1>2, StepSettles DEF VerdictInv
<1>4. WithStatus("completed")' = Chunk /\ WithStatus("failed")' = {}
  BY <1>3 DEF WithStatus
<1>5. VerdictInv'
  BY NextVerdictInv
<1>. QED
  BY <1>4, <1>5 DEF VerdictInv, VerdictFollowsChunks

LEMMA NextApiInv == VerdictInv /\ ApiInv /\ [ApiNext]_apiVars => ApiInv'
<1>. SUFFICES ASSUME VerdictInv, ApiInv, [ApiNext]_apiVars PROVE ApiInv'
  OBVIOUS
<1>. USE DEF ApiInv
<1>1. CASE Pipeline
  <2>1. /\ [Next]_vars
        /\ column' = (IF jobStatus' # jobStatus THEN jobStatus' ELSE column)
        /\ UNCHANGED <<corrected, marked, readJob, readChunks, readCorrected, promised>>
    BY <1>1 DEF Pipeline, readVars
  <2>2. jobStatus = "transcript_completed" => jobStatus' = "transcript_completed"
    BY <2>1, StepKeepsTranscript
  <2>3. jobStatus' \in JobStatus /\ (jobStatus = "failed" => jobStatus' # "transcribing")
    <3>1. VerdictInv'
      BY <2>1, NextVerdictInv
    <3>2. jobStatus' \in JobStatus
      BY <3>1 DEF VerdictInv, IInv, TypeOK
    <3>3. jobStatus = "failed" => \E c \in Chunk : status[c] = "failed"
      BY DEF VerdictInv, VerdictFollowsChunks, WithStatus
    <3>4. \A c \in Chunk : status[c] = "failed" => status'[c] = "failed"
      BY <2>1, StepSettles DEF VerdictInv, Settled
    <3>5. jobStatus' = "transcribing" => ~ \E c \in Chunk : status'[c] = "failed"
      BY <3>1 DEF VerdictInv, VerdictFollowsChunks, WithStatus
    <3>. QED
      BY <3>2, <3>3, <3>4, <3>5
  <2>4. ColumnInOrder'
    BY <2>1, <2>2, <2>3 DEF ColumnInOrder, JobStatus
  <2>5. ResultStands => ResultStands'
    BY <2>1, <2>2 DEF ResultStands
  <2>6. readJob # NotRead => BorneOutBy(status)'
    BY <2>1, BorneOutStays DEF RequestInOrder
  <2>7. readJob # NotRead /\ readChunks # NotRead => BorneOutBy(readChunks)'
    BY <2>1 DEF RequestInOrder, BorneOutBy, ChunksOf
  <2>8. RequestInOrder'
    BY <2>1, <2>5, <2>6, <2>7 DEF RequestInOrder, Available
  <2>9. PromiseKept'
    BY <2>1, <2>5 DEF PromiseKept, Available
  <2>. QED
    BY <2>4, <2>8, <2>9
<1>2. CASE Correct \/ LateMark
  <2>1. UNCHANGED <<status, jobStatus, readJob, readChunks, readCorrected, promised>>
    BY <1>2 DEF Correct, LateMark, vars, dbVars, rowVars, jobVars, readVars
  <2>2. ColumnInOrder'
    BY <1>2, <2>1 DEF Correct, LateMark, CorrectionBegins, CorrectionSaves, CorrectionFails,
       Correctable, ColumnInOrder, JobStatus
  <2>3. ASSUME marked = TRUE => marked' = TRUE, ResultStands => ResultStands'
        PROVE  RequestInOrder' /\ PromiseKept'
    <3>1. /\ BorneOutBy(status) => BorneOutBy(status)'
          /\ BorneOutBy(readChunks) => BorneOutBy(readChunks)'
      BY <2>3, <2>1 DEF BorneOutBy, ChunksOf
    <3>2. RequestInOrder'
      BY <2>3, <2>1, <3>1 DEF RequestInOrder, Available
    <3>. QED
      BY <2>3, <2>1, <3>2 DEF PromiseKept, Available
  <2>4. CASE Correct
    <3>1. marked' = marked
      BY <2>4 DEF Correct
    <3>2. column # "correction_completed" \/ UNCHANGED column
      BY <2>4 DEF Correct, CorrectionBegins, CorrectionSaves, CorrectionFails, Correctable
    <3>3. corrected' = TRUE \/ corrected' = corrected
      BY <2>4 DEF Correct, CorrectionBegins, CorrectionSaves, CorrectionFails
    <3>4. ResultStands => ResultStands'
      BY <2>1, <3>1, <3>2, <3>3 DEF ResultStands
    <3>. QED
      BY <2>2, <3>1, <3>4, <2>3
  <2>5. CASE LateMark
    <3>1. marked' = TRUE /\ corrected' = corrected
      BY <2>5 DEF LateMark
    <3>2. ResultStands => ResultStands'
      BY <2>1, <3>1 DEF ResultStands
    <3>. QED
      BY <2>2, <3>1, <3>2, <2>3
  <2>. QED
    BY <1>2, <2>4, <2>5
<1>3. CASE UNCHANGED <<vars, columnVars>> /\ (ReadJob \/ ReadChunks \/ ReadCorrected)
  <2>1. UNCHANGED <<status, jobStatus, column, corrected, marked, promised>>
    BY <1>3 DEF vars, dbVars, rowVars, jobVars, columnVars, ReadJob, ReadChunks, ReadCorrected
  <2>2. ColumnInOrder' /\ (ResultStands <=> ResultStands')
    BY <2>1 DEF ColumnInOrder, ResultStands
  <2>3. CASE ReadJob
    <3>1. readJob' = JobRow /\ UNCHANGED <<readChunks, readCorrected>> /\ readJob = NotRead
      BY <2>3 DEF ReadJob
    <3>2. readChunks' = NotRead /\ readCorrected' = NotRead
      BY <3>1 DEF RequestInOrder
    <3>3. /\ BorneOutBy(status)'
          /\ readJob'.completed \in Nat /\ readJob'.failed \in Nat
          /\ readJob'.status = "transcribing" => readJob'.failed = 0 /\ readJob'.completed < Total
          /\ readJob'.status = column
          /\ jobStatus = "transcript_completed" => readJob'.hasText = TRUE
      BY <2>1, <3>1, JobRowBorneOut
    <3>4. Available' => ResultStands
      BY <3>3 DEF Available, ColumnInOrder, ResultStands
    <3>5. RequestInOrder'
      BY <2>2, <3>2, <3>3, <3>4 DEF RequestInOrder
    <3>6. PromiseKept'
      BY <2>1, <2>2, <3>2, <3>3, <3>4 DEF PromiseKept, ResultStands, Available
    <3>. QED
      BY <2>2, <3>5, <3>6
  <2>4. CASE ReadChunks
    <3>1. readChunks' = status /\ UNCHANGED <<readJob, readCorrected>> /\ readJob # NotRead
      BY <2>4 DEF ReadChunks
    <3>2. BorneOutBy(status)' /\ BorneOutBy(readChunks)'
      BY <2>1, <3>1 DEF RequestInOrder, BorneOutBy, ChunksOf
    <3>. QED
      BY <2>1, <2>2, <3>1, <3>2 DEF RequestInOrder, PromiseKept, Available
  <2>5. CASE ReadCorrected
    <3>1. readCorrected' = corrected /\ UNCHANGED <<readJob, readChunks>> /\ readJob # NotRead
      BY <2>5 DEF ReadCorrected
    <3>2. (BorneOutBy(status)' <=> BorneOutBy(status)) /\ (BorneOutBy(readChunks)' <=> BorneOutBy(readChunks))
      BY <2>1, <3>1 DEF BorneOutBy, ChunksOf
    <3>3. promised = TRUE \/ Available => corrected = TRUE
      BY <3>1 DEF RequestInOrder, PromiseKept, ResultStands
    <3>4. RequestInOrder'
      BY <2>1, <2>2, <3>1, <3>2 DEF RequestInOrder, Available
    <3>5. PromiseKept'
      BY <2>1, <2>2, <3>1, <3>3 DEF PromiseKept, Available
    <3>. QED
      BY <2>2, <3>4, <3>5
  <2>. QED
    BY <1>3, <2>3, <2>4, <2>5
<1>4. CASE Answer
  <2>1. /\ readJob' = NotRead /\ readChunks' = NotRead /\ readCorrected' = NotRead
        /\ UNCHANGED <<status, jobStatus, column, corrected, marked>>
        /\ promised' = (promised \/ (StatusReady /\ Available))
    BY <1>4 DEF Answer, vars, dbVars, rowVars, jobVars, columnVars
  <2>2. ResultStands <=> ResultStands'
    BY <2>1 DEF ResultStands
  <2>3. promised' \in BOOLEAN
    BY <2>1
  <2>4. ColumnInOrder' /\ RequestInOrder'
    BY <2>1, <2>3 DEF ColumnInOrder, RequestInOrder
  <2>5. StatusReady /\ Available => ResultStands
    BY DEF StatusReady, RequestInOrder
  <2>6. promised' = TRUE => ResultStands
    BY <2>1, <2>5 DEF PromiseKept, ColumnInOrder
  <2>. QED
    BY <2>1, <2>2, <2>4, <2>6 DEF PromiseKept
<1>5. CASE UNCHANGED apiVars
  <2>1. UNCHANGED <<status, jobStatus, column, corrected, marked,
                    readJob, readChunks, readCorrected, promised>>
    BY <1>5 DEF apiVars, vars, dbVars, rowVars, jobVars, columnVars, readVars
  <2>2. (BorneOutBy(status)' <=> BorneOutBy(status)) /\ (BorneOutBy(readChunks)' <=> BorneOutBy(readChunks))
    BY <2>1 DEF BorneOutBy, ChunksOf
  <2>. QED
    BY <2>1, <2>2 DEF ColumnInOrder, RequestInOrder, PromiseKept, ResultStands, Available
<1>6. ASSUME ReadJob \/ ReadChunks \/ ReadCorrected PROVE UNCHANGED <<vars, columnVars>>
  BY <1>6 DEF ReadJob, ReadChunks, ReadCorrected
<1>. QED
  BY <1>1, <1>2, <1>3, <1>4, <1>5, <1>6 DEF ApiNext

\* The rows and the writers of the job's status bear out each answer, whatever
\* happens between its statements.
LEMMA ApiSpecInv == ApiSpec => [](VerdictInv /\ ApiInv)
<1>1. ApiSpec => []VerdictInv
  BY ApiLeavesPipelineAlone, SpecVerdictInv, PTL
<1>. QED
  BY <1>1, InitApiInv, NextApiInv, PTL DEF ApiSpec

\* A status answer says no more of the job than its own counters and chunk list show,
\* for every number of chunks, however far the rows move between its statements and
\* whenever an orchestrator marks the job (internal_transcriptions.py:81-111).
THEOREM AnswersAreBorneOut == ApiSpec => []AnswerIsBorneOut
<1>1. ASSUME VerdictInv, ApiInv PROVE AnswerIsBorneOut
  <2>1. SUFFICES ASSUME StatusReady PROVE AnswerIsBorneOut
    BY DEF AnswerIsBorneOut, CountersNeverAhead, StatusBorneOut
  <2>2. BorneOutBy(readChunks)
    BY <1>1, <2>1 DEF StatusReady, ApiInv, RequestInOrder
  <2>3. readJob.status = "transcribing" => readJob.failed = 0 /\ readJob.completed < Total
    BY <1>1, <2>1 DEF StatusReady, ApiInv, RequestInOrder
  <2>4. \A s : Shown(s) = Cardinality(ChunksOf(readChunks, s))
    BY DEF Shown, ChunksOf
  <2>5. CountersNeverAhead
    BY <2>2, <2>4 DEF CountersNeverAhead, BorneOutBy
  <2>6. StatusBorneOut
    BY <2>2, <2>3, <2>4 DEF StatusBorneOut, BorneOutBy
  <2>. QED
    BY <2>5, <2>6 DEF AnswerIsBorneOut
<1>2. VerdictInv /\ ApiInv => AnswerIsBorneOut
  BY <1>1
<1>. QED
  BY <1>2, ApiSpecInv, PTL

\* Whoever has been told that the result is available finds text and corrected row
\* with every later request, and is refused only once an orchestrator has marked the
\* job failed (internal_transcriptions.py:99, 119-135).
THEOREM PromisedResultsAreServed == ApiSpec => []AvailableIsServed
<1>1. ASSUME VerdictInv, ApiInv PROVE AvailableIsServed
  <2>1. SUFFICES ASSUME ResultReady, promised = TRUE \/ Available
                 PROVE  /\ readJob.hasText = TRUE /\ readCorrected = TRUE
                        /\ ResultIsServed \/ marked = TRUE
    BY DEF AvailableIsServed
  <2>2. readJob # NotRead /\ readCorrected # NotRead
    BY <2>1 DEF ResultReady
  <2>. QED
    BY <1>1, <2>1, <2>2 DEF ApiInv, PromiseKept, ResultIsServed
<1>2. VerdictInv /\ ApiInv => AvailableIsServed
  BY <1>1
<1>. QED
  BY <1>2, ApiSpecInv, PTL
=============================================================================
