--------------------------- MODULE CorrectionStage ---------------------------
(***************************************************************************)
(* The correction worker: it turns the transcript of one transcription     *)
(* into a corrected one and announces the completion, or gives up with a   *)
(* dead letter.                                                            *)
(*                                                                         *)
(* There is one TranscriptCompleted event; Message is the set of entries   *)
(* the outbox publisher may have XADDed for it.  The corrected text is     *)
(* built and uploaded outside any transaction, so two workers may do so at *)
(* the same time; with the language model they need not arrive at the same *)
(* text.  The earlier stages share the job row: here they are Environment. *)
(***************************************************************************)
EXTENDS ConsumerGroup

CONSTANTS
    MaxRetry,   \* settings.stt_max_retry_count
    Text,       \* results the correction may arrive at
    NoText,
    MaxFaults   \* bound: crashes, rolled back transactions, republications

ASSUME MaxRetryAssumption == MaxRetry \in Nat
ASSUME FaultAssumption == MaxFaults \in Nat
ASSUME NoTextAssumption == NoText \notin Text

VARIABLES
    jobStatus,    \* transcription_jobs.status; "none": no such row
    transcripts,  \* TranscriptCompleted rows inserted
    published,    \* that row's published_at is set
    entries,      \* entries XADDed for it
    hasSegments,  \* whether the merged transcript has any segment
    retryCount,   \* correction_retry_count
    corrected,    \* text of the row in corrected_transcripts, or NoText
    completions,  \* TranscriptionCompleted rows inserted
    deadLetters,  \* transcription.correction.failed rows inserted
    processed,    \* the event is in the inbox of the correction-workers group
    object,       \* the uploaded corrected-transcript.json
    result,       \* per worker, the text it built
    retryable,    \* per worker, whether the error it records is retryable
    faults

outcomeVars == <<corrected, completions, deadLetters, processed>>
sourceVars == <<transcripts, published, entries, hasSegments>>
jobVars == <<jobStatus, sourceVars>>
localVars == <<result, retryable>>
vars == <<groupVars, jobVars, retryCount, outcomeVars, object, localVars, faults>>

JobStatus == {"none", "queued", "preprocessing", "transcribing", "merging", "transcript_completed",
              "correcting", "correction_completed", "failed", "cancelled"}
Handling == {"delivered", "beginning", "building", "uploading", "checking", "saving",
             "recording", "noting", "ack"}

TypeOK ==
    /\ GroupTypeOK(Handling)
    /\ jobStatus \in JobStatus
    /\ transcripts \in 0..1
    /\ published \in BOOLEAN
    /\ entries \subseteq Message
    /\ hasSegments \in BOOLEAN
    /\ retryCount \in 0..(MaxRetry + 1)
    /\ corrected \in Text \cup {NoText}
    /\ completions \in Nat
    /\ deadLetters \in Nat
    /\ processed \in BOOLEAN
    /\ object \in Text \cup {NoText}
    /\ result \in [Worker -> Text \cup {NoText}]
    /\ retryable \in [Worker -> BOOLEAN]
    /\ faults \in 0..MaxFaults

Init ==
    /\ GroupInit
    /\ jobStatus = "none"
    /\ transcripts = 0 /\ published = FALSE /\ entries = {}
    /\ hasSegments \in BOOLEAN
    /\ retryCount = 0
    /\ corrected = NoText
    /\ completions = 0
    /\ deadLetters = 0
    /\ processed = FALSE
    /\ object = NoText
    /\ result = [w \in Worker |-> NoText]
    /\ retryable = [w \in Worker |-> FALSE]
    /\ faults = 0

Fault == faults < MaxFaults /\ faults' = faults + 1

Copies == unread \cup pending

\* JOB_TRANSITIONS
JobTransition(s) ==
    CASE s = "queued"               -> {"preprocessing", "cancelled", "failed"}
      [] s = "preprocessing"        -> {"transcribing", "cancelled", "failed"}
      [] s = "transcribing"         -> {"merging", "cancelled", "failed"}
      [] s = "merging"              -> {"transcript_completed", "failed"}
      [] s = "transcript_completed" -> {"correcting", "failed"}
      [] s = "correcting"           -> {"correction_completed", "failed"}
      [] s = "failed"               -> {"queued"}
      [] OTHER                      -> {}

\* A handler's progress; the worker's local result and error stay.
Step(w, phase) == Goto(w, phase) /\ UNCHANGED <<localVars, faults>>

\* The handler raises; an error that is no SttError is not retryable.
Raise(w, isRetryable) ==
    /\ Goto(w, "recording")
    /\ retryable' = [retryable EXCEPT ![w] = isRetryable]
    /\ UNCHANGED <<result, faults>>

Forget(w) ==
    /\ result' = [result EXCEPT ![w] = NoText]
    /\ retryable' = [retryable EXCEPT ![w] = FALSE]

Read(w) ==
    Deliver(w) /\ UNCHANGED <<jobVars, retryCount, outcomeVars, object, localVars, faults>>

\* Mutant: the inbox is consulted nowhere.
IsProcessed_Never(w) == FALSE

IsProcessed(w) == processed

CheckInbox(w) ==
    /\ pc[w] = "delivered"
    /\ Step(w, IF IsProcessed(w) THEN "ack" ELSE "beginning")
    /\ UNCHANGED <<jobVars, retryCount, outcomeVars, object>>

\* Mutant: event_inbox has no primary key.
KeyFree_NoPrimaryKey(w) == TRUE

\* Inserting the inbox row a second time fails and rolls everything back.
KeyFree(w) == ~processed

\* Mutant: any job that is not completed is taken to correcting.
BeginStatus_Always(s) == "correcting"

BeginStatus(s) == IF s = "transcript_completed" THEN "correcting" ELSE s

\* The first transaction of process(), under the job's row lock.
Begin(w) ==
    /\ pc[w] = "beginning"
    /\ IF jobStatus = "correction_completed"
         THEN /\ IF KeyFree(w) THEN Step(w, "ack") ELSE Raise(w, FALSE)
              /\ processed' = TRUE
              /\ UNCHANGED jobStatus
         ELSE /\ jobStatus' = BeginStatus(jobStatus)
              /\ Step(w, "building")
              /\ UNCHANGED processed
    /\ UNCHANGED <<sourceVars, retryCount, corrected, completions, deadLetters, object>>

\* _build_result raises on a transcript without segments.
Build(w) ==
    /\ pc[w] = "building"
    /\ IF hasSegments
         THEN /\ \E t \in Text : result' = [result EXCEPT ![w] = t]
              /\ Goto(w, "uploading")
              /\ UNCHANGED <<retryable, faults>>
         ELSE Raise(w, FALSE)
    /\ UNCHANGED <<jobVars, retryCount, outcomeVars, object>>

Upload(w) ==
    /\ pc[w] = "uploading"
    /\ object' = result[w]
    /\ Step(w, "checking")
    /\ UNCHANGED <<jobVars, retryCount, outcomeVars>>

\* Mutant: the caller does not notice that the upload failed.
UploadFails_Swallowed(w, isRetryable) ==
    /\ pc[w] = "uploading"
    /\ Step(w, "checking")
    /\ UNCHANGED <<jobVars, retryCount, outcomeVars, object>>

UploadFails(w, isRetryable) ==
    /\ pc[w] = "uploading"
    /\ Raise(w, isRetryable)
    /\ UNCHANGED <<jobVars, retryCount, outcomeVars, object>>

\* A query or a commit of process() fails; the transaction is rolled back.
ProcessFails(w) ==
    /\ Fault
    /\ pc[w] \in {"delivered", "beginning", "building", "checking", "saving"}
    /\ Goto(w, "recording")
    /\ retryable' = [retryable EXCEPT ![w] = FALSE]
    /\ UNCHANGED <<jobVars, retryCount, outcomeVars, object, result>>

\* The first query of the last transaction; the job is locked only afterwards.
SaveChecks(w) ==
    /\ pc[w] = "checking"
    /\ Step(w, IF IsProcessed(w) THEN "ack" ELSE "saving")
    /\ UNCHANGED <<jobVars, retryCount, outcomeVars, object>>

\* ensure_job_transition, up to twice.
CanComplete ==
    \/ jobStatus \in {"correction_completed", "correcting"}
    \/ "correcting" \in JobTransition(jobStatus)

SaveCommits(w) == KeyFree(w) /\ CanComplete

Save(w) ==
    /\ pc[w] = "saving"
    /\ SaveCommits(w)
    /\ corrected' = IF corrected = NoText THEN result[w] ELSE corrected
    /\ jobStatus' = "correction_completed"
    /\ completions' = completions + 1
    /\ processed' = TRUE
    /\ Step(w, "ack")
    /\ UNCHANGED <<sourceVars, retryCount, deadLetters, object>>

SaveRaises(w) ==
    /\ pc[w] = "saving"
    /\ ~SaveCommits(w)
    /\ Raise(w, FALSE)
    /\ UNCHANGED <<jobVars, retryCount, outcomeVars, object>>

-----------------------------------------------------------------------------
(* record_failure                                                           *)

RecordChecks(w) ==
    /\ pc[w] = "recording"
    /\ Step(w, IF IsProcessed(w) THEN "ack" ELSE "noting")
    /\ UNCHANGED <<jobVars, retryCount, outcomeVars, object>>

CanRetry(w) == retryable[w] /\ retryCount + 1 <= MaxRetry

\* Mutant: record_failure is not asked whether to acknowledge.
NoteRetry_Acked(w) ==
    /\ pc[w] = "noting"
    /\ CanRetry(w)
    /\ retryCount' = retryCount + 1
    /\ Step(w, "ack")
    /\ UNCHANGED <<jobVars, outcomeVars, object>>

\* The entry stays pending; nobody looks at the job's status.
NoteRetry(w) ==
    /\ pc[w] = "noting"
    /\ CanRetry(w)
    /\ retryCount' = retryCount + 1
    /\ Drop(w) /\ Forget(w)
    /\ UNCHANGED <<jobVars, outcomeVars, object, faults>>

NoteCommits(w) == KeyFree(w) /\ "failed" \in JobTransition(jobStatus)

NoteFails(w) ==
    /\ pc[w] = "noting"
    /\ ~CanRetry(w) /\ NoteCommits(w)
    /\ retryCount' = retryCount + 1
    /\ jobStatus' = "failed"
    /\ deadLetters' = deadLetters + 1
    /\ processed' = TRUE
    /\ Step(w, "ack")
    /\ UNCHANGED <<sourceVars, corrected, completions, object>>

\* The exception leaves record_failure and run(): the process ends with the
\* entry pending, and is started again.
NoteRaises(w) ==
    /\ pc[w] = "noting"
    /\ ~CanRetry(w) /\ ~NoteCommits(w)
    /\ Drop(w) /\ Forget(w)
    /\ UNCHANGED <<jobVars, retryCount, outcomeVars, object, faults>>

Acknowledge(w) ==
    /\ Ack(w) /\ Forget(w)
    /\ UNCHANGED <<jobVars, retryCount, outcomeVars, object, faults>>

\* The process dies at any step, be it of a query that fails in record_failure.
Abandon(w) ==
    /\ Fault
    /\ pc[w] \in Handling
    /\ Drop(w) /\ Forget(w)
    /\ UNCHANGED <<jobVars, retryCount, outcomeVars, object>>

-----------------------------------------------------------------------------
(* The earlier stages and the publisher.                                    *)

\* The job before there is a transcript, and the commit that makes one.
EarlierStages ==
    /\ transcripts = 0
    /\ jobStatus' \in {"preprocessing", "transcribing", "failed", "transcript_completed"}
    /\ transcripts' = IF jobStatus' = "transcript_completed" THEN 1 ELSE 0
    /\ UNCHANGED <<groupVars, published, entries, hasSegments, retryCount, outcomeVars, object,
                   localVars, faults>>

\* An orchestrator that was slow to fail: MarkWrites of OrchestratorStage.
LateMark ==
    /\ transcripts = 1
    /\ jobStatus' = "failed"
    /\ UNCHANGED <<groupVars, sourceVars, retryCount, outcomeVars, object, localVars, faults>>

PublisherAdds(m) ==
    /\ transcripts = 1 /\ ~published
    /\ m \in Message \ entries
    /\ Xadd(m)
    /\ entries' = entries \cup {m}
    /\ UNCHANGED <<pending, pc, held, jobStatus, transcripts, hasSegments, retryCount,
                   outcomeVars, object, localVars>>

Publish(m) == PublisherAdds(m) /\ published' = TRUE /\ UNCHANGED faults

\* The commit after the XADD fails: the row will be sent again.
PublishTwice(m) == PublisherAdds(m) /\ Fault /\ UNCHANGED published

Handle(w) ==
    \/ CheckInbox(w)
    \/ Begin(w)
    \/ Build(w)
    \/ Upload(w)
    \/ \E isRetryable \in BOOLEAN : UploadFails(w, isRetryable)
    \/ SaveChecks(w)
    \/ Save(w)
    \/ SaveRaises(w)
    \/ RecordChecks(w)
    \/ NoteRetry(w)
    \/ NoteFails(w)
    \/ NoteRaises(w)
    \/ Acknowledge(w)

Work ==
    \/ \E w \in Worker : Read(w) \/ Handle(w) \/ ProcessFails(w) \/ Abandon(w)
    \/ \E m \in Message : Publish(m) \/ PublishTwice(m)

Next == Work \/ EarlierStages \/ LateMark

Spec == Init /\ [][Next]_vars

\* The publisher and the workers keep looping, calls end, and no pending entry
\* is passed over for ever (see OrchestratorStage).
Fairness ==
    /\ WF_vars(\E m \in Message : Publish(m))
    /\ \A w \in Worker : WF_vars(Read(w)) /\ WF_vars(Handle(w))
    /\ \A m \in Message :
          SF_vars(/\ \E w \in Worker : Autoclaim(w, m)
                  /\ UNCHANGED <<jobVars, retryCount, outcomeVars, object, localVars, faults>>)

FairSpec == Spec /\ Fairness

-----------------------------------------------------------------------------
(* Properties.                                                             *)

\* The event has one outcome, whatever is delivered twice, lost or raced: one
\* completion or one dead letter, in the transaction that marks the event
\* processed (correction_worker.py:73-147, 160-215); and with more failures on
\* record than the limit it is the dead letter, never one attempt more.
OneOutcome ==
    /\ completions + deadLetters = IF processed THEN 1 ELSE 0
    /\ completions = 1 <=> corrected # NoText
    /\ retryCount > MaxRetry => deadLetters = 1

\* The outcome stands on the job: it is "correction_completed" or "failed" as
\* announced, unless an orchestrator's late mark has overwritten a completion.
StatusTellsOutcome ==
    /\ deadLetters = 1 => jobStatus = "failed"
    /\ completions = 1 => jobStatus \in {"correction_completed", "failed"}
    /\ jobStatus = "correction_completed" => completions = 1

\* A transcript whose event is not processed has it in the outbox or the group.
NoLostTranscript ==
    transcripts = 1 /\ ~processed => ~published \/ \E m \in Message : Circulating(m)

\* No completion is announced before its text is in the object store, nor for a
\* transcript that could not be corrected (correction_worker.py:69-71, 129-146).
AnnouncedIsStored == completions = 1 => object # NoText /\ hasSegments

\* What workers know, whatever the others did since.
WorkersInStep ==
    \A w \in Worker :
       /\ pc[w] = "ack" => processed
       /\ held[w] # NoMessage => held[w] \in entries /\ (held[w] \in pending \/ processed)
       /\ pc[w] \in {"uploading", "checking", "saving"} => result[w] # NoText /\ hasSegments
       /\ pc[w] \in {"checking", "saving"} => object # NoText

IInv ==
    /\ TypeOK
    /\ OneOutcome
    /\ StatusTellsOutcome
    /\ NoLostTranscript
    /\ AnnouncedIsStored
    /\ WorkersInStep
    /\ Copies \subseteq entries
    /\ entries # {} \/ processed => transcripts = 1
    /\ published => entries # {}

\* Unless an orchestrator fails the job meanwhile, the event is processed and all
\* its copies are acknowledged.
CorrectionSettles ==
    <>(transcripts = 1) /\ [](jobStatus = "failed" => transcripts = 0 \/ deadLetters = 1)
       => <>[](processed /\ Copies = {})
=============================================================================
