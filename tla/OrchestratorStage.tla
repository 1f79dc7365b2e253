-------------------------- MODULE OrchestratorStage --------------------------
(***************************************************************************)
(* The orchestrator: it turns the requests for one transcription into a    *)
(* job row, and the first of them that can be preprocessed into the chunk  *)
(* rows and chunk requests the Clova stage starts from.                    *)
(*                                                                         *)
(* Message is the set of TranscriptionRequested entries for this           *)
(* transcription; each is an event of its own.  Preprocessing takes        *)
(* minutes and holds no lock, so a slow worker's entry may be reclaimed    *)
(* and done by another one meanwhile.  The later stages share the job row: *)
(* here they are LaterStages.                                              *)
(***************************************************************************)
EXTENDS ConsumerGroup

CONSTANTS
    Key,        \* source_object_key (with the tenant) a request may name
    MaxFaults   \* bound: crashes and failed database transactions

ASSUME FaultAssumption == MaxFaults \in Nat

VARIABLES
    jobStatus,   \* transcription_jobs.status; "none": no such row
    jobKey,      \* the job row's source_object_key
    key,         \* the key each request names; chosen by who sends it
    chunkedBy,   \* requests whose transaction inserted chunk rows
    inbox,       \* requests processed by the stt-orchestrators group
    faults

jobVars == <<jobStatus, jobKey, chunkedBy>>
vars == <<groupVars, jobVars, key, inbox, faults>>

Later == {"transcript_completed", "correcting", "correction_completed", "failed"}
JobStatus == {"none", "preprocessing", "transcribing"} \cup Later
Handling == {"delivered", "ensuring", "inserting", "preprocessing", "saving",
             "failing", "marking", "ack"}

TypeOK ==
    /\ GroupTypeOK(Handling)
    /\ jobStatus \in JobStatus
    /\ jobKey \in Key
    /\ key \in [Message -> Key]
    /\ chunkedBy \subseteq Message
    /\ inbox \subseteq Message
    /\ faults \in 0..MaxFaults

\* Every request is in the stream, none has been looked at.
Init ==
    /\ unread = Message /\ pending = {}
    /\ pc = [w \in Worker |-> "idle"]
    /\ held = [w \in Worker |-> NoMessage]
    /\ jobStatus = "none"
    /\ key \in [Message -> Key]
    /\ jobKey \in Key
    /\ chunkedBy = {}
    /\ inbox = {}
    /\ faults = 0

Fault == faults < MaxFaults /\ faults' = faults + 1

\* job.total_chunks is set by the transaction that inserts the rows, and VAD
\* never returns an empty list.
Chunked == chunkedBy # {}

Read(w) == Deliver(w) /\ UNCHANGED <<jobVars, key, inbox, faults>>

CheckInbox(w) ==
    /\ pc[w] = "delivered"
    /\ Goto(w, IF held[w] \in inbox THEN "ack" ELSE "ensuring")
    /\ UNCHANGED <<jobVars, key, inbox, faults>>

-----------------------------------------------------------------------------
(* _ensure_job: read, then insert.  An exception here is raised outside the *)
(* try block of process().                                                  *)

EnsureFinds(w) ==
    /\ pc[w] = "ensuring"
    /\ jobStatus # "none"
    /\ IF key[held[w]] = jobKey THEN Goto(w, "preprocessing") ELSE Drop(w)
    /\ UNCHANGED <<jobVars, key, inbox, faults>>

EnsureMisses(w) ==
    /\ pc[w] = "ensuring"
    /\ jobStatus = "none"
    /\ Goto(w, "inserting")
    /\ UNCHANGED <<jobVars, key, inbox, faults>>

\* Mutant: a row that is there by now is taken for the worker's own.
EnsureInserts_Upsert(w) ==
    /\ pc[w] = "inserting"
    /\ IF jobStatus = "none"
         THEN jobStatus' = "preprocessing" /\ jobKey' = key[held[w]]
         ELSE UNCHANGED <<jobStatus, jobKey>>
    /\ Goto(w, "preprocessing")
    /\ UNCHANGED <<key, chunkedBy, inbox, faults>>

\* Whoever comes second violates the primary key of transcription_jobs.
EnsureInserts(w) ==
    /\ pc[w] = "inserting"
    /\ IF jobStatus = "none"
         THEN /\ jobStatus' = "preprocessing"
              /\ jobKey' = key[held[w]]
              /\ Goto(w, "preprocessing")
         ELSE /\ UNCHANGED <<jobStatus, jobKey>>
              /\ Drop(w)
    /\ UNCHANGED <<key, chunkedBy, inbox, faults>>

-----------------------------------------------------------------------------
(* _preprocess: download, conversion, VAD and uploads, then one transaction *)
(* that locks the job row first.                                            *)

Preprocessed(w) ==
    /\ pc[w] = "preprocessing"
    /\ \E phase \in {"saving", "failing"} : Goto(w, phase)
    /\ UNCHANGED <<jobVars, key, inbox, faults>>

\* Mutant: the total of the job is not looked at.
Save_EveryRequest(w) ==
    /\ pc[w] = "saving"
    /\ IF held[w] \in inbox
         THEN UNCHANGED <<jobStatus, chunkedBy, inbox>>
         ELSE /\ inbox' = inbox \cup {held[w]}
              /\ chunkedBy' = chunkedBy \cup {held[w]}
              /\ jobStatus' = "transcribing"
    /\ Goto(w, "ack")
    /\ UNCHANGED <<jobKey, key, faults>>

\* Mutant: a request found processed is not acknowledged.
Save_DropsDuplicate(w) ==
    /\ pc[w] = "saving"
    /\ IF held[w] \in inbox \/ Chunked
         THEN UNCHANGED <<jobStatus, chunkedBy, inbox>> /\ Drop(w)
         ELSE /\ inbox' = inbox \cup {held[w]}
              /\ chunkedBy' = chunkedBy \cup {held[w]}
              /\ jobStatus' = "transcribing"
              /\ Goto(w, "ack")
    /\ UNCHANGED <<jobKey, key, faults>>

Save(w) ==
    /\ pc[w] = "saving"
    /\ IF held[w] \in inbox
         THEN UNCHANGED inbox
         ELSE inbox' = inbox \cup {held[w]}
    /\ IF held[w] \in inbox \/ Chunked
         THEN UNCHANGED <<jobStatus, chunkedBy>>
         ELSE /\ chunkedBy' = chunkedBy \cup {held[w]}
              /\ jobStatus' = "transcribing"
    /\ Goto(w, "ack")
    /\ UNCHANGED <<jobKey, key, faults>>

SaveFails(w) ==
    /\ Fault
    /\ pc[w] = "saving"
    /\ Goto(w, "failing")
    /\ UNCHANGED <<jobVars, key, inbox>>

\* _mark_failed reads the job without a lock.  Setting a status to the value it
\* was read with writes nothing, so a job read as failed is left alone.
MarkReads(w) ==
    /\ pc[w] = "failing"
    /\ IF jobStatus = "failed" THEN Drop(w) ELSE Goto(w, "marking")
    /\ UNCHANGED <<jobVars, key, inbox, faults>>

\* Mutant: the failed request is acknowledged.
MarkWrites_Acked(w) ==
    /\ pc[w] = "marking"
    /\ jobStatus' = "failed"
    /\ Goto(w, "ack")
    /\ UNCHANGED <<jobKey, chunkedBy, key, inbox, faults>>

\* Whatever the status has become since; the message stays pending and is tried
\* again without limit.
MarkWrites(w) ==
    /\ pc[w] = "marking"
    /\ jobStatus' = "failed"
    /\ Drop(w)
    /\ UNCHANGED <<jobKey, chunkedBy, key, inbox, faults>>

Acknowledge(w) == Ack(w) /\ UNCHANGED <<jobVars, key, inbox, faults>>

\* A crash, or an exception that _preprocess does not see.
Abandon(w) ==
    /\ Fault
    /\ pc[w] \in Handling
    /\ Drop(w)
    /\ UNCHANGED <<jobVars, key, inbox>>

\* The Clova stage and the correction stage, once there are chunks.
LaterStages ==
    /\ Chunked
    /\ jobStatus' \in Later
    /\ UNCHANGED <<groupVars, jobKey, chunkedBy, key, inbox, faults>>

Handle(w) ==
    \/ CheckInbox(w)
    \/ EnsureFinds(w)
    \/ EnsureMisses(w)
    \/ EnsureInserts(w)
    \/ Preprocessed(w)
    \/ Save(w)
    \/ MarkReads(w)
    \/ MarkWrites(w)
    \/ Acknowledge(w)

Step == \E w \in Worker : Read(w) \/ Handle(w) \/ SaveFails(w) \/ Abandon(w)

Next == Step \/ LaterStages

Spec == Init /\ [][Next]_vars

\* Workers keep looping; the lowest pending id that is idle is reclaimed first,
\* so no entry is passed over for ever.
Fairness ==
    /\ \A w \in Worker : WF_vars(Read(w)) /\ WF_vars(Handle(w))
    /\ \A m \in Message :
          SF_vars((\E w \in Worker : Autoclaim(w, m)) /\ UNCHANGED <<jobVars, key, inbox, faults>>)

FairSpec == Spec /\ Fairness

-----------------------------------------------------------------------------
(* Properties.                                                             *)

\* A request leaves the group only when it has been processed, whatever failed
\* on the way (workers/orchestrator.py:42-47).
NoLostRequest == \A m \in Message : Circulating(m) \/ m \in inbox

\* The chunks of a job are made once, from the audio the job names: neither a
\* second request nor the race of two inserts (orchestrator.py:53-71) mixes in
\* the chunks of another file.
ChunksOfOneSource ==
    /\ \A m, n \in chunkedBy : m = n
    /\ \A m \in chunkedBy : key[m] = jobKey

\* No request is ever settled for a job without chunks.
SettledHasChunks == inbox # {} => Chunked

\* A job that failed before it had chunks will be tried again: a request it
\* accepts is still in the group.
FailureIsRetried ==
    jobStatus = "failed" /\ ~Chunked => \E m \in pending : key[m] = jobKey

\* Once a job has chunks, no request takes its status back to an earlier stage.
NoSecondStart ==
    [][Chunked /\ jobStatus' # jobStatus => jobStatus' \in Later]_vars

\* A transcription does get its chunks, and every request that names its source
\* is acknowledged, if preprocessing stops failing.
RequestsSettle ==
    <>[](\A w \in Worker : pc[w] # "failing")
       => <>[](Chunked /\ \A m \in Message : key[m] = jobKey => ~Circulating(m))

-----------------------------------------------------------------------------
\* What a worker knows, whatever the others did since.
WorkersInStep ==
    \A w \in Worker : held[w] # NoMessage =>
       /\ held[w] \in pending \cup inbox
       /\ pc[w] = "ack" => held[w] \in inbox
       /\ pc[w] \in {"preprocessing", "saving", "failing", "marking"}
             => jobStatus # "none" /\ key[held[w]] = jobKey

IInv ==
    /\ TypeOK
    /\ NoLostRequest
    /\ ChunksOfOneSource
    /\ SettledHasChunks
    /\ FailureIsRetried
    /\ WorkersInStep
    /\ jobStatus = "none" => ~Chunked
=============================================================================
