-------------------------- MODULE JobPipelineProofs --------------------------
(***************************************************************************)
(* The pipeline implements both stages, for all sizes: what a stage's      *)
(* module proves of it, with the other stages as an environment, is true   *)
(* of it among the others.                                                 *)
(*                                                                         *)
(* OrchP and CorrP are the instances of JobPipeline once more, with their  *)
(* theorems.                                                               *)
(***************************************************************************)
EXTENDS JobPipeline, TLAPS

OrchP == INSTANCE OrchestratorStageProofs WITH
    Worker <- Orchestrator, Message <- Request, MaxFaults <- MaxOrchestratorFaults,
    unread <- requests, pending <- requestsPending, pc <- orchestratorPc,
    held <- orchestratorHeld, inbox <- orchestratorInbox, faults <- orchestratorFaults

CorrP == INSTANCE CorrectionStageProofs WITH
    Worker <- Corrector, Message <- Entry, MaxFaults <- MaxCorrectorFaults,
    unread <- events, pending <- eventsPending, pc <- correctorPc, held <- correctorHeld,
    deadLetters <- correctionDeadLetters, faults <- correctorFaults

-----------------------------------------------------------------------------
(* The two instances of a stage are one.                                    *)

LEMMA SameOrchestrator ==
    /\ Orch!Init <=> OrchP!Init
    /\ Orch!Step <=> OrchP!Step
    /\ Orch!Next <=> OrchP!Next
    /\ UNCHANGED Orch!vars <=> UNCHANGED OrchP!vars
<1>1. Orch!Init <=> OrchP!Init
  BY DEF Orch!Init, OrchP!Init
<1>2. Orch!Step <=> OrchP!Step
  BY DEF
     Orch!Step, Orch!Read, Orch!Handle, Orch!CheckInbox, Orch!EnsureFinds,
     Orch!EnsureMisses, Orch!EnsureInserts, Orch!Preprocessed, Orch!Save, Orch!SaveFails,
     Orch!Fault, Orch!MarkReads, Orch!MarkWrites, Orch!Acknowledge, Orch!Abandon,
     Orch!Handling, Orch!Chunked, Orch!jobVars, Orch!Deliver, Orch!ReadNew,
     Orch!ReadNothing, Orch!Autoclaim, Orch!AutoclaimNothing, Orch!Goto, Orch!Take,
     Orch!Leave, Orch!Drop, Orch!Ack, Orch!groupVars, OrchP!Step, OrchP!Read, OrchP!Handle,
     OrchP!CheckInbox, OrchP!EnsureFinds, OrchP!EnsureMisses, OrchP!EnsureInserts,
     OrchP!Preprocessed, OrchP!Save, OrchP!SaveFails, OrchP!Fault, OrchP!MarkReads,
     OrchP!MarkWrites, OrchP!Acknowledge, OrchP!Abandon, OrchP!Handling, OrchP!Chunked,
     OrchP!jobVars, OrchP!Deliver, OrchP!ReadNew, OrchP!ReadNothing, OrchP!Autoclaim,
     OrchP!AutoclaimNothing, OrchP!Goto, OrchP!Take, OrchP!Leave, OrchP!Drop, OrchP!Ack,
     OrchP!groupVars
<1>3. UNCHANGED Orch!vars <=> UNCHANGED OrchP!vars
  BY DEF Orch!vars, OrchP!vars, Orch!jobVars, OrchP!jobVars, Orch!groupVars, OrchP!groupVars
<1>4. Orch!LaterStages <=> OrchP!LaterStages
  BY DEF Orch!LaterStages, OrchP!LaterStages, Orch!Later, OrchP!Later, Orch!Chunked,
     OrchP!Chunked, Orch!groupVars, OrchP!groupVars
<1>. QED
  BY <1>1, <1>2, <1>3, <1>4 DEF Orch!Next, OrchP!Next

LEMMA SameCorrector ==
    /\ Corr!Init <=> CorrP!Init
    /\ Corr!Work <=> CorrP!Work
    /\ Corr!Next <=> CorrP!Next
    /\ UNCHANGED Corr!vars <=> UNCHANGED CorrP!vars
<1>1. Corr!Init <=> CorrP!Init
  BY DEF Corr!Init, CorrP!Init, Corr!GroupInit, CorrP!GroupInit
<1>2. Corr!Work <=> CorrP!Work
  BY DEF
     Corr!Work, Corr!Read, Corr!Handle, Corr!CheckInbox, Corr!IsProcessed, Corr!Begin,
     Corr!BeginStatus, Corr!KeyFree, Corr!Build, Corr!Upload, Corr!UploadFails,
     Corr!ProcessFails, Corr!SaveChecks, Corr!Save, Corr!SaveCommits, Corr!CanComplete,
     Corr!JobTransition, Corr!SaveRaises, Corr!RecordChecks, Corr!CanRetry, Corr!NoteRetry,
     Corr!NoteCommits, Corr!NoteFails, Corr!NoteRaises, Corr!Acknowledge, Corr!Abandon,
     Corr!Fault, Corr!Handling, Corr!Publish, Corr!PublishTwice, Corr!PublisherAdds,
     Corr!Xadd, Corr!Step, Corr!Raise, Corr!Forget, Corr!jobVars, Corr!sourceVars,
     Corr!outcomeVars, Corr!localVars, Corr!Deliver, Corr!ReadNew, Corr!ReadNothing,
     Corr!Autoclaim, Corr!AutoclaimNothing, Corr!Goto, Corr!Take, Corr!Leave, Corr!Drop,
     Corr!Ack, Corr!groupVars, CorrP!Work, CorrP!Read, CorrP!Handle, CorrP!CheckInbox,
     CorrP!IsProcessed, CorrP!Begin, CorrP!BeginStatus, CorrP!KeyFree, CorrP!Build,
     CorrP!Upload, CorrP!UploadFails, CorrP!ProcessFails, CorrP!SaveChecks, CorrP!Save,
     CorrP!SaveCommits, CorrP!CanComplete, CorrP!JobTransition, CorrP!SaveRaises,
     CorrP!RecordChecks, CorrP!CanRetry, CorrP!NoteRetry, CorrP!NoteCommits,
     CorrP!NoteFails, CorrP!NoteRaises, CorrP!Acknowledge, CorrP!Abandon, CorrP!Fault,
     CorrP!Handling, CorrP!Publish, CorrP!PublishTwice, CorrP!PublisherAdds, CorrP!Xadd,
     CorrP!Step, CorrP!Raise, CorrP!Forget, CorrP!jobVars, CorrP!sourceVars,
     CorrP!outcomeVars, CorrP!localVars, CorrP!Deliver, CorrP!ReadNew, CorrP!ReadNothing,
     CorrP!Autoclaim, CorrP!AutoclaimNothing, CorrP!Goto, CorrP!Take, CorrP!Leave,
     CorrP!Drop, CorrP!Ack, CorrP!groupVars
<1>3. UNCHANGED Corr!vars <=> UNCHANGED CorrP!vars
  BY DEF Corr!vars, CorrP!vars, Corr!jobVars, CorrP!jobVars, Corr!sourceVars, CorrP!sourceVars,
     Corr!outcomeVars, CorrP!outcomeVars, Corr!localVars, CorrP!localVars,
     Corr!groupVars, CorrP!groupVars
<1>4. (Corr!EarlierStages <=> CorrP!EarlierStages) /\ (Corr!LateMark <=> CorrP!LateMark)
  BY DEF Corr!EarlierStages, CorrP!EarlierStages, Corr!LateMark, CorrP!LateMark,
     Corr!groupVars, CorrP!groupVars, Corr!outcomeVars, CorrP!outcomeVars,
     Corr!localVars, CorrP!localVars, Corr!sourceVars, CorrP!sourceVars
<1>. QED
  BY <1>1, <1>2, <1>3, <1>4 DEF Corr!Next, CorrP!Next

-----------------------------------------------------------------------------
(* What each stage does to the row they share.                              *)

LEMMA OrchestratorEffect ==
    ASSUME Orch!Step
    PROVE  /\ \/ jobStatus' = jobStatus
              \/ jobStatus = "none" /\ jobStatus' = "preprocessing"
              \/ ~Orch!Chunked /\ jobStatus' = "transcribing"
              \/ jobStatus' = "failed"
           /\ Orch!Chunked => Orch!Chunked'
BY DEF Orch!Step, Orch!Read, Orch!Handle, Orch!CheckInbox, Orch!EnsureFinds, Orch!EnsureMisses,
   Orch!EnsureInserts, Orch!Preprocessed, Orch!Save, Orch!SaveFails, Orch!MarkReads,
   Orch!MarkWrites, Orch!Acknowledge, Orch!Abandon, Orch!Chunked, Orch!jobVars

\* A corrector that writes the job's status holds an entry, so there is a transcript.
LEMMA CorrectorEffect ==
    ASSUME CorrP!IInv, CorrP!Work
    PROVE  /\ jobStatus' = jobStatus \/ (transcripts = 1 /\ jobStatus' \in Orch!Later)
           /\ transcripts' = transcripts
<1>. USE DEF CorrP!Step, CorrP!Raise, CorrP!jobVars, CorrP!sourceVars, CorrP!outcomeVars
<1>1. ASSUME NEW w \in Corrector, correctorPc[w] \in {"beginning", "saving", "noting"}
      PROVE  transcripts = 1
  BY <1>1 DEF CorrP!IInv, CorrP!TypeOK, CorrP!GroupTypeOK, CorrP!WorkersInStep
<1>2. ASSUME NEW w \in Corrector, CorrP!Begin(w)
      PROVE  /\ transcripts = 1 /\ transcripts' = transcripts
             /\ jobStatus' \in {jobStatus, "correcting"}
  BY <1>1, <1>2 DEF CorrP!Begin, CorrP!BeginStatus
<1>3. ASSUME NEW w \in Corrector, CorrP!Save(w) \/ CorrP!NoteFails(w)
      PROVE  /\ transcripts = 1 /\ transcripts' = transcripts
             /\ jobStatus' \in {"correction_completed", "failed"}
  BY <1>1, <1>3 DEF CorrP!Save, CorrP!NoteFails
<1>4. ASSUME NEW w \in Corrector, CorrP!Handle(w)
      PROVE  \/ CorrP!Begin(w) \/ CorrP!Save(w) \/ CorrP!NoteFails(w)
             \/ UNCHANGED <<jobStatus, transcripts>>
  BY <1>4 DEF CorrP!Handle, CorrP!CheckInbox, CorrP!Build, CorrP!Upload, CorrP!UploadFails,
     CorrP!SaveChecks, CorrP!SaveRaises, CorrP!RecordChecks, CorrP!NoteRetry,
     CorrP!NoteRaises, CorrP!Acknowledge
<1>5. ASSUME NEW w \in Corrector, CorrP!Read(w) \/ CorrP!ProcessFails(w) \/ CorrP!Abandon(w)
      PROVE  UNCHANGED <<jobStatus, transcripts>>
  BY <1>5 DEF CorrP!Read, CorrP!ProcessFails, CorrP!Abandon
<1>6. ASSUME NEW m \in Entry, CorrP!Publish(m) \/ CorrP!PublishTwice(m)
      PROVE  UNCHANGED <<jobStatus, transcripts>>
  BY <1>6 DEF CorrP!Publish, CorrP!PublishTwice, CorrP!PublisherAdds
<1>. QED
  BY <1>2, <1>3, <1>4, <1>5, <1>6 DEF CorrP!Work, Orch!Later

\* The Clova stage writes "failed" before there is a transcript, and
\* "transcript_completed" with it.
LEMMA ChunkEffect ==
    ASSUME Ledger!Next
    PROVE  \/ UNCHANGED <<jobStatus, transcripts>>
           \/ jobStatus' = "failed" /\ transcripts' = transcripts
           \/ jobStatus' = "transcript_completed" /\ transcripts' = 1
BY DEF Ledger!Next, Ledger!Retry, Ledger!Fail, Ledger!Complete

-----------------------------------------------------------------------------
(* The invariant of the pipeline.                                           *)

\* A transcript is there only when all chunks are settled as completed.
LedgerInv ==
    /\ outcome \in [Chunk -> {"open", "completed", "failed"}]
    /\ chunkDeadLetters \in [Chunk -> 0..1]
    /\ \A c \in Chunk : chunkDeadLetters[c] = 1 => outcome[c] = "failed"
    /\ transcripts = 1 => Orch!Chunked /\ \A c \in Chunk : outcome[c] = "completed"

PipelineInv == OrchP!IInv /\ CorrP!IInv /\ LedgerInv

LEMMA InitPipelineInv == Init => PipelineInv
<1>. SUFFICES ASSUME Init PROVE PipelineInv
  OBVIOUS
<1>1. OrchP!IInv
  BY SameOrchestrator, OrchP!InitIInv, NoMessageAssumption, BoundAssumption
  DEF Init, OrchP!NoMessageAssumption, OrchP!FaultAssumption
<1>2. CorrP!IInv
  BY SameCorrector, CorrP!InitIInv, NoMessageAssumption, NoTextAssumption, BoundAssumption
  DEF Init, CorrP!NoMessageAssumption, CorrP!FaultAssumption, CorrP!MaxRetryAssumption,
      CorrP!NoTextAssumption
<1>3. LedgerInv
  BY DEF Init, LedgerInv, Corr!Init
<1>. QED
  BY <1>1, <1>2, <1>3 DEF PipelineInv

\* Every step of the pipeline is one of the orchestrator or of its environment.
LEMMA OrchestratorSees ==
    ASSUME PipelineInv, [Next]_vars PROVE [Orch!Next]_(Orch!vars)
<1>. USE DEF Orch!vars, Orch!jobVars, Orch!groupVars, orchestratorVars
<1>1. CASE OrchestratorStep
  BY <1>1 DEF OrchestratorStep, Orch!Next
<1>2. CASE ChunkStep
  BY <1>2, ChunkEffect DEF ChunkStep, Orch!Next, Orch!LaterStages, Orch!Later
<1>3. CASE CorrectorStep
  <2>1. jobStatus' = jobStatus \/ (transcripts = 1 /\ jobStatus' \in Orch!Later)
    BY <1>3, SameCorrector, CorrectorEffect DEF CorrectorStep, PipelineInv
  <2>. QED
    BY <1>3, <2>1 DEF CorrectorStep, PipelineInv, LedgerInv, Orch!Next, Orch!LaterStages
<1>4. CASE UNCHANGED vars
  BY <1>4 DEF vars
<1>. QED
  BY <1>1, <1>2, <1>3, <1>4 DEF Next

\* Every step of the pipeline is one of the corrector or of its environment.
LEMMA CorrectorSees ==
    ASSUME PipelineInv, [Next]_vars PROVE [Corr!Next]_(Corr!vars)
<1>. USE DEF Corr!vars, Corr!jobVars, Corr!sourceVars, Corr!outcomeVars, Corr!localVars,
         Corr!groupVars, correctorVars
<1>0. transcripts \in 0..1
  BY DEF PipelineInv, CorrP!IInv, CorrP!TypeOK
<1>1. CASE OrchestratorStep
  <2>1. transcripts = 1 => Orch!Chunked /\ jobStatus # "none"
    BY DEF PipelineInv, LedgerInv, OrchP!IInv, OrchP!Chunked, Orch!Chunked
  <2>2. \/ jobStatus' = jobStatus
        \/ jobStatus' = "failed"
        \/ transcripts = 0 /\ jobStatus' \in {"preprocessing", "transcribing"}
    BY <1>0, <1>1, <2>1, OrchestratorEffect DEF OrchestratorStep
  <2>. QED
    BY <1>0, <1>1, <2>2 DEF OrchestratorStep, Corr!Next, Corr!EarlierStages, Corr!LateMark
<1>2. CASE ChunkStep
  <2>1. transcripts = 1 => ~Ledger!Next
    BY DEF PipelineInv, LedgerInv, Ledger!Next, Ledger!Retry, Ledger!Fail, Ledger!Complete
  <2>2. transcripts = 0
    BY <1>0, <1>2, <2>1 DEF ChunkStep
  <2>. QED
    BY <1>2, <2>2, ChunkEffect DEF ChunkStep, Corr!Next, Corr!EarlierStages
<1>3. CASE CorrectorStep
  BY <1>3 DEF CorrectorStep, Corr!Next
<1>4. CASE UNCHANGED vars
  BY <1>4 DEF vars
<1>. QED
  BY <1>1, <1>2, <1>3, <1>4 DEF Next

LEMMA LedgerInvStep ==
    ASSUME PipelineInv, [Next]_vars PROVE LedgerInv'
<1>. USE DEF PipelineInv, LedgerInv
<1>1. CASE OrchestratorStep
  BY <1>1, OrchestratorEffect DEF OrchestratorStep, chunkVars
<1>2. CASE ChunkStep
  <2>1. Orch!Chunked'
    BY <1>2 DEF ChunkStep, Orch!Chunked, orchestratorVars
  <2>2. ASSUME NEW c \in Chunk, Ledger!Complete(c) PROVE LedgerInv'
    BY <2>1, <2>2 DEF Ledger!Complete
  <2>3. ASSUME NEW c \in Chunk, Ledger!Retry(c) \/ Ledger!Fail(c) PROVE LedgerInv'
    BY <2>1, <2>3 DEF Ledger!Retry, Ledger!Fail
  <2>. QED
    BY <1>2, <2>2, <2>3 DEF ChunkStep, Ledger!Next
<1>3. CASE CorrectorStep
  <2>1. transcripts' = transcripts /\ chunkedBy' = chunkedBy
    BY <1>3, SameCorrector, CorrectorEffect DEF CorrectorStep, orchestratorVars
  <2>. QED
    BY <1>3, <2>1 DEF CorrectorStep, chunkVars, Orch!Chunked
<1>4. CASE UNCHANGED vars
  BY <1>4 DEF vars, chunkVars, orchestratorVars, Orch!Chunked
<1>. QED
  BY <1>1, <1>2, <1>3, <1>4 DEF Next

\* The stages' own invariants, through their modules.
LEMMA NextPipelineInv == PipelineInv /\ [Next]_vars => PipelineInv'
<1>. SUFFICES ASSUME PipelineInv, [Next]_vars PROVE PipelineInv'
  OBVIOUS
<1>1. OrchP!IInv'
  <2>1. [OrchP!Next]_(OrchP!vars)
    BY OrchestratorSees, SameOrchestrator
  <2>. QED
    BY <2>1, OrchP!NextIInv, NoMessageAssumption, BoundAssumption
    DEF PipelineInv, OrchP!NoMessageAssumption, OrchP!FaultAssumption
<1>2. CorrP!IInv'
  <2>1. [CorrP!Next]_(CorrP!vars)
    BY CorrectorSees, SameCorrector
  <2>. QED
    BY <2>1, CorrP!NextIInv, NoMessageAssumption, NoTextAssumption, BoundAssumption
    DEF PipelineInv, CorrP!NoMessageAssumption, CorrP!FaultAssumption,
        CorrP!MaxRetryAssumption, CorrP!NoTextAssumption
<1>. QED
  BY <1>1, <1>2, LedgerInvStep DEF PipelineInv

LEMMA SpecPipelineInv == Spec => []PipelineInv
BY InitPipelineInv, NextPipelineInv, PTL DEF Spec

-----------------------------------------------------------------------------
(* Theorems.                                                               *)

\* Seen by the orchestrators, the other stages write only what LaterStages allows.
THEOREM ImplementsOrchestrator == Spec => OrchestratorSpec
<1>1. Init => Orch!Init
  BY DEF Init
<1>2. PipelineInv /\ [Next]_vars => [Orch!Next]_(Orch!vars)
  BY OrchestratorSees
<1>. QED
  BY <1>1, <1>2, SpecPipelineInv, PTL DEF Spec, OrchestratorSpec, Orch!Spec

\* Seen by the correctors, the other stages write only what EarlierStages and
\* LateMark allow.
THEOREM ImplementsCorrector == Spec => CorrectionSpec
<1>1. Init => Corr!Init
  BY DEF Init
<1>2. PipelineInv /\ [Next]_vars => [Corr!Next]_(Corr!vars)
  BY CorrectorSees
<1>. QED
  BY <1>1, <1>2, SpecPipelineInv, PTL DEF Spec, CorrectionSpec, Corr!Spec

\* No transcription is announced as completed in one stage and given up in another,
\* whatever the stages write to the job in between.
THEOREM EndsInOneStage == Spec => []OneAnnouncement
<1>1. ASSUME PipelineInv PROVE OneAnnouncement
  <2>1. ~((\E c \in Chunk : chunkDeadLetters[c] > 0) /\ transcripts > 0)
    BY <1>1 DEF PipelineInv, LedgerInv, CorrP!IInv, CorrP!TypeOK
  <2>2. completions + correctionDeadLetters <= transcripts
    BY <1>1 DEF PipelineInv, CorrP!IInv, CorrP!TypeOK, CorrP!OneOutcome
  <2>. QED
    BY <2>1, <2>2 DEF OneAnnouncement
<1>. QED
  BY <1>1, SpecPipelineInv, PTL
=============================================================================
