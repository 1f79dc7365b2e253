------------------------------ MODULE StatusApi ------------------------------
(***************************************************************************)
(* The status and the result endpoint, reading rows that move.  Each       *)
(* answer is put together from several statements, each of which sees what *)
(* was committed when it started (READ COMMITTED), so the parts of one     *)
(* answer are of different moments.  The chunk rows and counters are those *)
(* of ChunkPipeline.  The status column of the job row has three writers:  *)
(* the Clova stage puts its verdict there, whatever is in it, the          *)
(* correction stage goes on from that, and an orchestrator that was slow   *)
(* to fail marks the job failed, whatever its status is by then.           *)
(***************************************************************************)
EXTENDS ChunkPipeline

CONSTANT NotRead

VARIABLES
    column,        \* the status column of the job row
    corrected,     \* the row in corrected_transcripts is there
    marked,        \* history: an orchestrator marked the job after it had chunks
    readJob,       \* the job row, as this request has read it
    readChunks,    \* status endpoint: the chunk rows
    readCorrected, \* result endpoint: whether there was a corrected row
    promised       \* history: a status answer called the result available

columnVars == <<column, corrected, marked>>
readVars == <<readJob, readChunks, readCorrected>>
apiVars == <<vars, columnVars, readVars, promised>>

JobRow ==
    [status |-> column, completed |-> completedChunks, failed |-> failedChunks,
     hasText |-> transcripts > 0]

ApiInit ==
    /\ Init
    /\ column = jobStatus /\ corrected = FALSE /\ marked = FALSE
    /\ readJob = NotRead /\ readChunks = NotRead /\ readCorrected = NotRead
    /\ promised = FALSE

-----------------------------------------------------------------------------
(* The writers.                                                            *)

\* A verdict is assigned without a look at the column.
Pipeline ==
    /\ Next
    /\ column' = IF jobStatus' # jobStatus THEN jobStatus' ELSE column
    /\ UNCHANGED <<corrected, marked, readVars, promised>>

\* What ensure_job_transition lets the correction stage go on from, once there is a
\* transcript.
Correctable == column \in {"transcript_completed", "correcting"}

CorrectionBegins ==
    /\ column = "transcript_completed"
    /\ column' = "correcting"
    /\ UNCHANGED corrected

\* Mutant: the corrected row is committed after the job's status.
CorrectionSaves_StatusFirst ==
    \/ Correctable /\ column' = "correction_completed" /\ UNCHANGED corrected
    \/ column = "correction_completed" /\ corrected' = TRUE /\ UNCHANGED column

\* Row, logs, status and event are one transaction.
CorrectionSaves ==
    /\ Correctable
    /\ column' = "correction_completed"
    /\ corrected' = TRUE

CorrectionFails ==
    /\ Correctable
    /\ column' = "failed"
    /\ UNCHANGED corrected

Correct ==
    /\ CorrectionBegins \/ CorrectionSaves \/ CorrectionFails
    /\ UNCHANGED <<vars, marked, readVars, promised>>

\* _mark_failed of an orchestrator whose message another one has done meanwhile:
\* at any moment, transcribing or completed (MarkWrites of OrchestratorStage).
LateMark ==
    /\ column' = "failed"
    /\ marked' = TRUE
    /\ UNCHANGED <<vars, corrected, readVars, promised>>

-----------------------------------------------------------------------------
(* A request: one statement after the other, then the answer.              *)

ReadJob ==
    /\ readJob = NotRead
    /\ readJob' = JobRow
    /\ UNCHANGED <<vars, columnVars, readChunks, readCorrected, promised>>

\* Mutant: the chunks may be read before the job.
ReadChunks_First ==
    /\ readChunks = NotRead /\ readCorrected = NotRead
    /\ readChunks' = status
    /\ UNCHANGED <<vars, columnVars, readJob, readCorrected, promised>>

ReadChunks ==
    /\ readJob # NotRead /\ readChunks = NotRead /\ readCorrected = NotRead
    /\ readChunks' = status
    /\ UNCHANGED <<vars, columnVars, readJob, readCorrected, promised>>

ReadCorrected ==
    /\ readJob # NotRead /\ readChunks = NotRead /\ readCorrected = NotRead
    /\ readCorrected' = corrected
    /\ UNCHANGED <<vars, columnVars, readJob, readChunks, promised>>

StatusReady == readJob # NotRead /\ readChunks # NotRead
ResultReady == readJob # NotRead /\ readCorrected # NotRead

\* result_available of a status answer.
Available == readJob.status = "correction_completed"

\* Otherwise the answer is 409.
ResultIsServed == Available /\ readJob.hasText /\ readCorrected

Answer ==
    /\ StatusReady \/ ResultReady
    /\ promised' = (promised \/ (StatusReady /\ Available))
    /\ readJob' = NotRead /\ readChunks' = NotRead /\ readCorrected' = NotRead
    /\ UNCHANGED <<vars, columnVars>>

ApiNext == Pipeline \/ Correct \/ LateMark \/ ReadJob \/ ReadChunks \/ ReadCorrected \/ Answer

ApiSpec == ApiInit /\ [][ApiNext]_apiVars

-----------------------------------------------------------------------------
(* Properties.                                                             *)

Shown(s) == Cardinality({c \in Chunk : readChunks[c] = s})

\* A status answer never counts chunks its own list does not show: job and list
\* are of two moments, but the list is of the later one and no chunk unsettles
\* (internal_transcriptions.py:81-90).
CountersNeverAhead ==
    StatusReady => readJob.completed <= Shown("completed") /\ readJob.failed <= Shown("failed")

\* What a status answer says of the job fits its counters and its chunk list: one
\* still transcribing has lost no chunk and not done them all; a transcript is
\* reported only with every chunk completed; a failure only with a failed chunk,
\* after a transcript, or once an orchestrator marked the job (orchestrator.py:151),
\* which alone tells the reader nothing of the chunks.
StatusBorneOut ==
    StatusReady =>
       CASE readJob.status = "transcribing" -> readJob.failed = 0 /\ readJob.completed < Total
         [] readJob.status = "failed" ->
               marked \/ Shown("failed") > 0 \/ Shown("completed") = Total
         [] OTHER -> Shown("completed") = Total

\* A status answer never says more than its own list.
AnswerIsBorneOut == CountersNeverAhead /\ StatusBorneOut

\* Whoever has been told result_available and then asks for the result finds the text
\* and the corrected row, and is served unless an orchestrator has marked the job
\* (orchestrator.py:146-153), the one way to a 409 after a promise.  The same holds of
\* whoever reads the status in a result request first: the corrected row was there
\* before that status (internal_transcriptions.py:99, 119-135).
AvailableIsServed ==
    ResultReady /\ (promised \/ Available) =>
       /\ readJob.hasText /\ readCorrected
       /\ ResultIsServed \/ marked
=============================================================================
