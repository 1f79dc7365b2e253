----------------------- MODULE OrchestratorStageProofs -----------------------
(***************************************************************************)
(* Proofs about OrchestratorStage, for all sets of workers, requests and   *)
(* source files: IInv is inductive, and the safety properties follow.      *)
(***************************************************************************)
EXTENDS OrchestratorStage, TLAPS

USE DEF Handling, JobStatus, Later

-----------------------------------------------------------------------------
LEMMA InitIInv == Init => IInv
<1>. SUFFICES ASSUME Init PROVE IInv
  OBVIOUS
<1>. USE DEF Init
<1>1. TypeOK
  BY NoMessageAssumption, FaultAssumption DEF TypeOK, GroupTypeOK
<1>2. NoLostRequest /\ ChunksOfOneSource /\ SettledHasChunks /\ FailureIsRetried
  BY DEF NoLostRequest, Circulating, ChunksOfOneSource, SettledHasChunks, FailureIsRetried
<1>3. WorkersInStep
  BY DEF WorkersInStep
<1>. QED
  BY <1>1, <1>2, <1>3 DEF IInv, Chunked

-----------------------------------------------------------------------------
(* One lemma per action.                                                   *)

LEMMA ReadStep == ASSUME IInv, NEW w \in Worker, Read(w) PROVE IInv'
<1>. USE DEF Read, Deliver, ReadNew, ReadNothing, Autoclaim, AutoclaimNothing, IInv, groupVars, jobVars, Goto, Take, Leave, Drop
<1>1. TypeOK'
  BY NoMessageAssumption, FaultAssumption DEF TypeOK, GroupTypeOK
<1>2. NoLostRequest' /\ ChunksOfOneSource' /\ SettledHasChunks'
  BY DEF TypeOK, GroupTypeOK, WorkersInStep, NoLostRequest, Circulating, ChunksOfOneSource,
     SettledHasChunks, Chunked
<1>3. FailureIsRetried'
  BY DEF TypeOK, GroupTypeOK, WorkersInStep, SettledHasChunks, FailureIsRetried, Chunked
<1>4. WorkersInStep'
  BY NoMessageAssumption DEF TypeOK, GroupTypeOK, WorkersInStep
<1>. QED
  BY <1>1, <1>2, <1>3, <1>4 DEF Chunked, WorkersInStep, TypeOK, GroupTypeOK

LEMMA CheckInboxStep == ASSUME IInv, NEW w \in Worker, CheckInbox(w) PROVE IInv'
<1>. USE DEF CheckInbox, IInv, groupVars, jobVars, Goto, Take, Leave, Drop
<1>1. TypeOK'
  BY NoMessageAssumption, FaultAssumption DEF TypeOK, GroupTypeOK
<1>2. NoLostRequest' /\ ChunksOfOneSource' /\ SettledHasChunks'
  BY DEF TypeOK, GroupTypeOK, WorkersInStep, NoLostRequest, Circulating, ChunksOfOneSource,
     SettledHasChunks, Chunked
<1>3. FailureIsRetried'
  BY DEF TypeOK, GroupTypeOK, WorkersInStep, SettledHasChunks, FailureIsRetried, Chunked
<1>4. WorkersInStep'
  BY NoMessageAssumption DEF TypeOK, GroupTypeOK, WorkersInStep
<1>. QED
  BY <1>1, <1>2, <1>3, <1>4 DEF Chunked, WorkersInStep, TypeOK, GroupTypeOK

LEMMA EnsureFindsStep == ASSUME IInv, NEW w \in Worker, EnsureFinds(w) PROVE IInv'
<1>. USE DEF EnsureFinds, IInv, groupVars, jobVars, Goto, Take, Leave, Drop
<1>1. TypeOK'
  BY NoMessageAssumption, FaultAssumption DEF TypeOK, GroupTypeOK
<1>2. NoLostRequest' /\ ChunksOfOneSource' /\ SettledHasChunks'
  BY DEF TypeOK, GroupTypeOK, WorkersInStep, NoLostRequest, Circulating, ChunksOfOneSource,
     SettledHasChunks, Chunked
<1>3. FailureIsRetried'
  BY DEF TypeOK, GroupTypeOK, WorkersInStep, SettledHasChunks, FailureIsRetried, Chunked
<1>4. WorkersInStep'
  BY NoMessageAssumption DEF TypeOK, GroupTypeOK, WorkersInStep
<1>. QED
  BY <1>1, <1>2, <1>3, <1>4 DEF Chunked, WorkersInStep, TypeOK, GroupTypeOK

LEMMA EnsureMissesStep == ASSUME IInv, NEW w \in Worker, EnsureMisses(w) PROVE IInv'
<1>. USE DEF EnsureMisses, IInv, groupVars, jobVars, Goto, Take, Leave, Drop
<1>1. TypeOK'
  BY NoMessageAssumption, FaultAssumption DEF TypeOK, GroupTypeOK
<1>2. NoLostRequest' /\ ChunksOfOneSource' /\ SettledHasChunks'
  BY DEF TypeOK, GroupTypeOK, WorkersInStep, NoLostRequest, Circulating, ChunksOfOneSource,
     SettledHasChunks, Chunked
<1>3. FailureIsRetried'
  BY DEF TypeOK, GroupTypeOK, WorkersInStep, SettledHasChunks, FailureIsRetried, Chunked
<1>4. WorkersInStep'
  BY NoMessageAssumption DEF TypeOK, GroupTypeOK, WorkersInStep
<1>. QED
  BY <1>1, <1>2, <1>3, <1>4 DEF Chunked, WorkersInStep, TypeOK, GroupTypeOK

LEMMA EnsureInsertsStep == ASSUME IInv, NEW w \in Worker, EnsureInserts(w) PROVE IInv'
<1>. USE DEF EnsureInserts, IInv, groupVars, jobVars, Goto, Take, Leave, Drop
<1>1. TypeOK'
  BY NoMessageAssumption, FaultAssumption DEF TypeOK, GroupTypeOK
<1>2. NoLostRequest' /\ ChunksOfOneSource' /\ SettledHasChunks'
  BY DEF TypeOK, GroupTypeOK, WorkersInStep, NoLostRequest, Circulating, ChunksOfOneSource,
     SettledHasChunks, Chunked
<1>3. FailureIsRetried'
  BY DEF TypeOK, GroupTypeOK, WorkersInStep, SettledHasChunks, FailureIsRetried, Chunked
<1>4. WorkersInStep'
  BY NoMessageAssumption DEF TypeOK, GroupTypeOK, WorkersInStep
<1>. QED
  BY <1>1, <1>2, <1>3, <1>4 DEF Chunked, WorkersInStep, TypeOK, GroupTypeOK

LEMMA PreprocessedStep == ASSUME IInv, NEW w \in Worker, Preprocessed(w) PROVE IInv'
<1>. USE DEF Preprocessed, IInv, groupVars, jobVars, Goto, Take, Leave, Drop
<1>1. TypeOK'
  BY NoMessageAssumption, FaultAssumption DEF TypeOK, GroupTypeOK
<1>2. NoLostRequest' /\ ChunksOfOneSource' /\ SettledHasChunks'
  BY DEF TypeOK, GroupTypeOK, WorkersInStep, NoLostRequest, Circulating, ChunksOfOneSource,
     SettledHasChunks, Chunked
<1>3. FailureIsRetried'
  BY DEF TypeOK, GroupTypeOK, WorkersInStep, SettledHasChunks, FailureIsRetried, Chunked
<1>4. WorkersInStep'
  BY NoMessageAssumption DEF TypeOK, GroupTypeOK, WorkersInStep
<1>. QED
  BY <1>1, <1>2, <1>3, <1>4 DEF Chunked, WorkersInStep, TypeOK, GroupTypeOK

LEMMA SaveStep == ASSUME IInv, NEW w \in Worker, Save(w) PROVE IInv'
<1>. USE DEF Save, IInv, groupVars, jobVars, Goto, Take, Leave, Drop
<1>1. TypeOK'
  BY NoMessageAssumption, FaultAssumption DEF TypeOK, GroupTypeOK
<1>2. NoLostRequest' /\ ChunksOfOneSource' /\ SettledHasChunks'
  BY DEF TypeOK, GroupTypeOK, WorkersInStep, NoLostRequest, Circulating, ChunksOfOneSource,
     SettledHasChunks, Chunked
<1>3. FailureIsRetried'
  BY DEF TypeOK, GroupTypeOK, WorkersInStep, SettledHasChunks, FailureIsRetried, Chunked
<1>4. WorkersInStep'
  BY NoMessageAssumption DEF TypeOK, GroupTypeOK, WorkersInStep
<1>. QED
  BY <1>1, <1>2, <1>3, <1>4 DEF Chunked, WorkersInStep, TypeOK, GroupTypeOK

LEMMA SaveFailsStep == ASSUME IInv, NEW w \in Worker, SaveFails(w) PROVE IInv'
<1>. USE DEF SaveFails, Fault, IInv, groupVars, jobVars, Goto, Take, Leave, Drop
<1>1. TypeOK'
  BY NoMessageAssumption, FaultAssumption DEF TypeOK, GroupTypeOK
<1>2. NoLostRequest' /\ ChunksOfOneSource' /\ SettledHasChunks'
  BY DEF TypeOK, GroupTypeOK, WorkersInStep, NoLostRequest, Circulating, ChunksOfOneSource,
     SettledHasChunks, Chunked
<1>3. FailureIsRetried'
  BY DEF TypeOK, GroupTypeOK, WorkersInStep, SettledHasChunks, FailureIsRetried, Chunked
<1>4. WorkersInStep'
  BY NoMessageAssumption DEF TypeOK, GroupTypeOK, WorkersInStep
<1>. QED
  BY <1>1, <1>2, <1>3, <1>4 DEF Chunked, WorkersInStep, TypeOK, GroupTypeOK

LEMMA MarkReadsStep == ASSUME IInv, NEW w \in Worker, MarkReads(w) PROVE IInv'
<1>. USE DEF MarkReads, IInv, groupVars, jobVars, Goto, Take, Leave, Drop
<1>1. TypeOK'
  BY NoMessageAssumption, FaultAssumption DEF TypeOK, GroupTypeOK
<1>2. NoLostRequest' /\ ChunksOfOneSource' /\ SettledHasChunks'
  BY DEF TypeOK, GroupTypeOK, WorkersInStep, NoLostRequest, Circulating, ChunksOfOneSource,
     SettledHasChunks, Chunked
<1>3. FailureIsRetried'
  BY DEF TypeOK, GroupTypeOK, WorkersInStep, SettledHasChunks, FailureIsRetried, Chunked
<1>4. WorkersInStep'
  BY NoMessageAssumption DEF TypeOK, GroupTypeOK, WorkersInStep
<1>. QED
  BY <1>1, <1>2, <1>3, <1>4 DEF Chunked, WorkersInStep, TypeOK, GroupTypeOK

LEMMA MarkWritesStep == ASSUME IInv, NEW w \in Worker, MarkWrites(w) PROVE IInv'
<1>. USE DEF MarkWrites, IInv, groupVars, jobVars, Goto, Take, Leave, Drop
<1>1. TypeOK'
  BY NoMessageAssumption, FaultAssumption DEF TypeOK, GroupTypeOK
<1>2. NoLostRequest' /\ ChunksOfOneSource' /\ SettledHasChunks'
  BY DEF TypeOK, GroupTypeOK, WorkersInStep, NoLostRequest, Circulating, ChunksOfOneSource,
     SettledHasChunks, Chunked
<1>3. FailureIsRetried'
  BY DEF TypeOK, GroupTypeOK, WorkersInStep, SettledHasChunks, FailureIsRetried, Chunked
<1>4. WorkersInStep'
  BY NoMessageAssumption DEF TypeOK, GroupTypeOK, WorkersInStep
<1>. QED
  BY <1>1, <1>2, <1>3, <1>4 DEF Chunked, WorkersInStep, TypeOK, GroupTypeOK

LEMMA AcknowledgeStep == ASSUME IInv, NEW w \in Worker, Acknowledge(w) PROVE IInv'
<1>. USE DEF Acknowledge, Ack, IInv, groupVars, jobVars, Goto, Take, Leave, Drop
<1>1. TypeOK'
  BY NoMessageAssumption, FaultAssumption DEF TypeOK, GroupTypeOK
<1>2. NoLostRequest' /\ ChunksOfOneSource' /\ SettledHasChunks'
  BY DEF TypeOK, GroupTypeOK, WorkersInStep, NoLostRequest, Circulating, ChunksOfOneSource,
     SettledHasChunks, Chunked
<1>3. FailureIsRetried'
  BY DEF TypeOK, GroupTypeOK, WorkersInStep, SettledHasChunks, FailureIsRetried, Chunked
<1>4. WorkersInStep'
  BY NoMessageAssumption DEF TypeOK, GroupTypeOK, WorkersInStep
<1>. QED
  BY <1>1, <1>2, <1>3, <1>4 DEF Chunked, WorkersInStep, TypeOK, GroupTypeOK

LEMMA AbandonStep == ASSUME IInv, NEW w \in Worker, Abandon(w) PROVE IInv'
<1>. USE DEF Abandon, Fault, IInv, groupVars, jobVars, Goto, Take, Leave, Drop
<1>1. TypeOK'
  BY NoMessageAssumption, FaultAssumption DEF TypeOK, GroupTypeOK
<1>2. NoLostRequest' /\ ChunksOfOneSource' /\ SettledHasChunks'
  BY DEF TypeOK, GroupTypeOK, WorkersInStep, NoLostRequest, Circulating, ChunksOfOneSource,
     SettledHasChunks, Chunked
<1>3. FailureIsRetried'
  BY DEF TypeOK, GroupTypeOK, WorkersInStep, SettledHasChunks, FailureIsRetried, Chunked
<1>4. WorkersInStep'
  BY NoMessageAssumption DEF TypeOK, GroupTypeOK, WorkersInStep
<1>. QED
  BY <1>1, <1>2, <1>3, <1>4 DEF Chunked, WorkersInStep, TypeOK, GroupTypeOK

LEMMA LaterStagesStep == ASSUME IInv, LaterStages PROVE IInv'
<1>. USE DEF LaterStages, IInv, groupVars
<1>1. TypeOK'
  BY DEF TypeOK, GroupTypeOK
<1>2. NoLostRequest' /\ ChunksOfOneSource' /\ SettledHasChunks' /\ FailureIsRetried'
  BY DEF NoLostRequest, Circulating, ChunksOfOneSource, SettledHasChunks, FailureIsRetried, Chunked
<1>3. WorkersInStep'
  BY DEF WorkersInStep
<1>. QED
  BY <1>1, <1>2, <1>3 DEF Chunked

LEMMA StutterStep == ASSUME IInv, UNCHANGED vars PROVE IInv'
BY DEF vars, groupVars, jobVars, IInv, TypeOK, GroupTypeOK, NoLostRequest, Circulating,
   ChunksOfOneSource, SettledHasChunks, FailureIsRetried, WorkersInStep, Chunked

LEMMA NextIInv == IInv /\ [Next]_vars => IInv'
<1>. SUFFICES ASSUME IInv, [Next]_vars PROVE IInv'
  OBVIOUS
<1>1. ASSUME NEW w \in Worker, Handle(w) PROVE IInv'
  BY <1>1, CheckInboxStep, EnsureFindsStep, EnsureMissesStep, EnsureInsertsStep,
     PreprocessedStep, SaveStep, MarkReadsStep, MarkWritesStep, AcknowledgeStep DEF Handle
<1>2. CASE Step
  BY <1>1, <1>2, ReadStep, SaveFailsStep, AbandonStep DEF Step
<1>. QED
  BY <1>2, LaterStagesStep, StutterStep DEF Next

\* The inductive invariant of the orchestrator stage holds for every number of
\* workers, requests, source files and faults.
THEOREM SpecIInv == Spec => []IInv
BY InitIInv, NextIInv, PTL DEF Spec

-----------------------------------------------------------------------------
(* Theorems.                                                               *)

\* The state of the orchestrator stage is always well formed.
THEOREM TypeCorrect == Spec => []TypeOK
<1>1. IInv => TypeOK
  BY DEF IInv
<1>. QED
  BY <1>1, SpecIInv, PTL

\* A request that leaves the group unprocessed does not exist, whatever fails in
\* preprocessing (workers/orchestrator.py:42-47).
THEOREM NoRequestIsLost == Spec => []NoLostRequest
<1>1. IInv => NoLostRequest
  BY DEF IInv
<1>. QED
  BY <1>1, SpecIInv, PTL

\* However many requests race through _ensure_job and the last transaction of
\* _preprocess, one of them makes the chunks, from the file the job names.
THEOREM ChunksMadeOnce == Spec => []ChunksOfOneSource
<1>1. IInv => ChunksOfOneSource
  BY DEF IInv
<1>. QED
  BY <1>1, SpecIInv, PTL

\* No request enters the inbox of the orchestrators before the job has chunks.
THEOREM SettledWithChunks == Spec => []SettledHasChunks
<1>1. IInv => SettledHasChunks
  BY DEF IInv
<1>. QED
  BY <1>1, SpecIInv, PTL

\* A job without chunks that says failed still has a request to be tried again.
THEOREM FailuresAreRetried == Spec => []FailureIsRetried
<1>1. IInv => FailureIsRetried
  BY DEF IInv
<1>. QED
  BY <1>1, SpecIInv, PTL

\* Once there are chunks no orchestrator takes the job back to a stage before
\* them: Save finds total_chunks set, _ensure_job finds the row.
THEOREM NeverStartedAgain == Spec => NoSecondStart
<1>1. ASSUME IInv, [Next]_vars, Chunked, jobStatus' # jobStatus PROVE jobStatus' \in Later
  <2>1. jobStatus # "none"
    BY <1>1 DEF IInv
  <2>2. ASSUME NEW w \in Worker, Read(w) \/ Handle(w) \/ SaveFails(w) \/ Abandon(w)
        PROVE  jobStatus' = "failed"
    <3>1. ~EnsureInserts(w) \/ jobStatus' = jobStatus
      BY <2>1 DEF EnsureInserts
    <3>2. ~Save(w) \/ jobStatus' = jobStatus
      BY <1>1 DEF Save
    <3>. QED
      BY <1>1, <2>2, <3>1, <3>2 DEF Read, Handle, SaveFails, Abandon, CheckInbox, EnsureFinds,
         EnsureMisses, Preprocessed, MarkReads, MarkWrites, Acknowledge, jobVars
  <2>3. ~(UNCHANGED vars)
    BY <1>1 DEF vars, jobVars
  <2>. QED
    BY <1>1, <2>2, <2>3 DEF Next, Step, LaterStages, Later
<1>2. IInv /\ [Next]_vars => [Chunked /\ jobStatus' # jobStatus => jobStatus' \in Later]_vars
  BY <1>1
<1>. QED
  BY <1>2, SpecIInv, PTL DEF Spec, NoSecondStart
=============================================================================
