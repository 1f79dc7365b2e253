----------------------------- MODULE JobPipeline -----------------------------
(***************************************************************************)
(* One transcription through all its stages, over the job row they share.  *)
(* The orchestrator and the correction stage take their own steps; the     *)
(* Clova stage takes those it promises in ChunkLedger.  No stage knows     *)
(* what the others do meanwhile: an orchestrator that lost its message to  *)
(* another one may still be preprocessing when the job is completed.       *)
(***************************************************************************)
EXTENDS Naturals

CONSTANTS
    Orchestrator, Request, Key,         \* OrchestratorStage
    Chunk, MaxChunkRetry,               \* ChunkLedger
    Corrector, Entry, MaxRetry, Text,   \* CorrectionStage
    NoMessage, NoText,
    MaxOrchestratorFaults,
    MaxCorrectorFaults

ASSUME NoMessageAssumption == NoMessage \notin Request \cup Entry
ASSUME NoTextAssumption == NoText \notin Text
ASSUME BoundAssumption ==
    MaxRetry \in Nat /\ MaxOrchestratorFaults \in Nat /\ MaxCorrectorFaults \in Nat

VARIABLES
    jobStatus,     \* transcription_jobs.status, written by every stage
    transcripts,   \* TranscriptCompleted rows: the Clova stage's last word
    requests, requestsPending, orchestratorPc, orchestratorHeld,
    jobKey, key, chunkedBy, orchestratorInbox, orchestratorFaults,
    outcome, failures, chunkDeadLetters,
    events, eventsPending, correctorPc, correctorHeld,
    published, entries, hasSegments, retryCount, corrected, completions,
    correctionDeadLetters, processed, object, result, retryable, correctorFaults

orchestratorVars == <<requests, requestsPending, orchestratorPc, orchestratorHeld, jobKey, key,
                      chunkedBy, orchestratorInbox, orchestratorFaults>>
chunkVars == <<outcome, failures, chunkDeadLetters>>
correctorVars == <<events, eventsPending, correctorPc, correctorHeld, published, entries,
                   hasSegments, retryCount, corrected, completions, correctionDeadLetters,
                   processed, object, result, retryable, correctorFaults>>
vars == <<jobStatus, transcripts, orchestratorVars, chunkVars, correctorVars>>

Orch == INSTANCE OrchestratorStage WITH
    Worker <- Orchestrator, Message <- Request, MaxFaults <- MaxOrchestratorFaults,
    unread <- requests, pending <- requestsPending, pc <- orchestratorPc,
    held <- orchestratorHeld, inbox <- orchestratorInbox, faults <- orchestratorFaults

Ledger == INSTANCE ChunkLedger WITH
    MaxRetry <- MaxChunkRetry, verdict <- jobStatus, deadLetters <- chunkDeadLetters

Corr == INSTANCE CorrectionStage WITH
    Worker <- Corrector, Message <- Entry, MaxFaults <- MaxCorrectorFaults,
    unread <- events, pending <- eventsPending, pc <- correctorPc, held <- correctorHeld,
    deadLetters <- correctionDeadLetters, faults <- correctorFaults

Init ==
    /\ Orch!Init
    /\ Corr!Init
    /\ outcome = [c \in Chunk |-> "open"]
    /\ failures = [c \in Chunk |-> 0]
    /\ chunkDeadLetters = [c \in Chunk |-> 0]

OrchestratorStep ==
    /\ Orch!Step
    /\ UNCHANGED <<transcripts, chunkVars, correctorVars>>

\* Mutant: chunk requests are sent before the rows are committed.
ChunkStep_Early ==
    /\ Ledger!Next
    /\ UNCHANGED <<orchestratorVars, correctorVars>>

\* The chunk rows exist once the orchestrator has committed them.  No step of
\* the Clova stage looks at the job's status before it writes it.
ChunkStep ==
    /\ Orch!Chunked
    /\ Ledger!Next
    /\ UNCHANGED <<orchestratorVars, correctorVars>>

CorrectorStep ==
    /\ Corr!Work
    /\ UNCHANGED <<orchestratorVars, chunkVars>>

Next == OrchestratorStep \/ ChunkStep \/ CorrectorStep

Spec == Init /\ [][Next]_vars

\* The stages' own fairness; chunks settle as EveryChunkSettles of ChunkPipeline
\* says they do.
FairSpec == Spec /\ Orch!Fairness /\ Corr!Fairness /\ WF_vars(ChunkStep)

-----------------------------------------------------------------------------
(* Properties.                                                             *)

\* Each stage was modelled with the others as an environment that may write
\* certain statuses at certain times.  They do no more than that, so what holds of
\* the stages alone holds of the pipeline.
OrchestratorSpec == Orch!Spec
CorrectionSpec == Corr!Spec

\* A transcription is announced as completed or given up in one stage only: a dead
\* letter of a chunk excludes a transcript and all that comes of it, and a
\* completion excludes a dead letter of the correction.
OneAnnouncement ==
    LET chunkFailed == \E c \in Chunk : chunkDeadLetters[c] > 0
    IN  /\ ~(chunkFailed /\ transcripts > 0)
        /\ completions + correctionDeadLetters <= transcripts

\* Every transcription is announced as completed or given up, if preprocessing
\* stops failing and no orchestrator fails the job behind the later stages' back.
TranscriptionEnds ==
    /\ <>[](\A o \in Orchestrator : orchestratorPc[o] # "failing")
    /\ [](Orch!Chunked => \A o \in Orchestrator : orchestratorPc[o] # "marking")
    => <>(\/ completions + correctionDeadLetters = 1
          \/ \E c \in Chunk : chunkDeadLetters[c] = 1)

\* job_state.py:10: nothing follows correction_completed.
CompletedIsFinal ==
    [][jobStatus = "correction_completed" => jobStatus' = "correction_completed"]_vars
=============================================================================
