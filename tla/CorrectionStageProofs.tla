----------------------- MODULE CorrectionStageProofs ------------------------
(***************************************************************************)
(* Proofs about CorrectionStage, for all sets of workers, entries and      *)
(* texts, every retry limit and any number of faults: IInv is inductive,   *)
(* and the safety properties follow.                                       *)
(***************************************************************************)
EXTENDS CorrectionStage, TLAPS

USE DEF Handling, JobStatus

-----------------------------------------------------------------------------
LEMMA InitIInv == Init => IInv
<1>. SUFFICES ASSUME Init PROVE IInv
  OBVIOUS
<1>. USE DEF Init, GroupInit
<1>1. TypeOK
  <2>1. GroupTypeOK(Handling)
    BY NoMessageAssumption DEF GroupTypeOK
  <2>2. retryable \in [Worker -> BOOLEAN] /\ result \in [Worker -> Text \cup {NoText}]
    OBVIOUS
  <2>3. published \in BOOLEAN /\ hasSegments \in BOOLEAN /\ processed \in BOOLEAN
    BY Zenon
  <2>. QED
    BY <2>1, <2>2, <2>3, MaxRetryAssumption, FaultAssumption DEF TypeOK
<1>2. OneOutcome /\ StatusTellsOutcome /\ NoLostTranscript /\ AnnouncedIsStored
  BY MaxRetryAssumption DEF OneOutcome, StatusTellsOutcome, NoLostTranscript, AnnouncedIsStored
<1>3. WorkersInStep
  BY DEF WorkersInStep
<1>. QED
  BY <1>1, <1>2, <1>3, MaxRetryAssumption DEF IInv, Copies

-----------------------------------------------------------------------------
(* One lemma per action.                                                   *)

LEMMA ReadStep == ASSUME IInv, NEW w \in Worker, Read(w) PROVE IInv'
<1>. USE DEF Read, Deliver, ReadNew, ReadNothing, Autoclaim, AutoclaimNothing,
       IInv, groupVars, jobVars, sourceVars, outcomeVars,
       localVars, Goto, Take, Leave, Drop
<1>1. TypeOK'
  BY NoMessageAssumption, NoTextAssumption, MaxRetryAssumption, FaultAssumption
  DEF TypeOK, GroupTypeOK
<1>2. OneOutcome' /\ StatusTellsOutcome' /\ AnnouncedIsStored'
  BY NoTextAssumption DEF TypeOK, GroupTypeOK, WorkersInStep, OneOutcome, StatusTellsOutcome,
     AnnouncedIsStored
<1>3. NoLostTranscript'
  BY DEF TypeOK, GroupTypeOK, WorkersInStep, NoLostTranscript, Circulating
<1>4. WorkersInStep'
  BY NoMessageAssumption, NoTextAssumption DEF TypeOK, GroupTypeOK, WorkersInStep, Copies
<1>. QED
  BY <1>1, <1>2, <1>3, <1>4, MaxRetryAssumption
  DEF Copies, WorkersInStep, TypeOK, GroupTypeOK, OneOutcome, StatusTellsOutcome

LEMMA CheckInboxStep == ASSUME IInv, NEW w \in Worker, CheckInbox(w) PROVE IInv'
<1>. USE DEF CheckInbox, Step, IsProcessed,
       IInv, groupVars, jobVars, sourceVars, outcomeVars,
       localVars, Goto, Take, Leave, Drop
<1>1. TypeOK'
  BY NoMessageAssumption, NoTextAssumption, MaxRetryAssumption, FaultAssumption
  DEF TypeOK, GroupTypeOK
<1>2. OneOutcome' /\ StatusTellsOutcome' /\ AnnouncedIsStored'
  BY NoTextAssumption DEF TypeOK, GroupTypeOK, WorkersInStep, OneOutcome, StatusTellsOutcome,
     AnnouncedIsStored
<1>3. NoLostTranscript'
  BY DEF TypeOK, GroupTypeOK, WorkersInStep, NoLostTranscript, Circulating
<1>4. WorkersInStep'
  BY NoMessageAssumption, NoTextAssumption DEF TypeOK, GroupTypeOK, WorkersInStep, Copies
<1>. QED
  BY <1>1, <1>2, <1>3, <1>4, MaxRetryAssumption
  DEF Copies, WorkersInStep, TypeOK, GroupTypeOK, OneOutcome, StatusTellsOutcome

LEMMA BeginStep == ASSUME IInv, NEW w \in Worker, Begin(w) PROVE IInv'
<1>. USE DEF Begin, Step, Raise, KeyFree, BeginStatus,
       IInv, groupVars, jobVars, sourceVars, outcomeVars,
       localVars, Goto, Take, Leave, Drop
<1>1. TypeOK'
  BY NoMessageAssumption, NoTextAssumption, MaxRetryAssumption, FaultAssumption
  DEF TypeOK, GroupTypeOK
<1>2. OneOutcome' /\ StatusTellsOutcome' /\ AnnouncedIsStored'
  BY NoTextAssumption DEF TypeOK, GroupTypeOK, WorkersInStep, OneOutcome, StatusTellsOutcome,
     AnnouncedIsStored
<1>3. NoLostTranscript'
  BY DEF TypeOK, GroupTypeOK, WorkersInStep, NoLostTranscript, Circulating
<1>4. WorkersInStep'
  BY NoMessageAssumption, NoTextAssumption DEF TypeOK, GroupTypeOK, WorkersInStep, Copies
<1>. QED
  BY <1>1, <1>2, <1>3, <1>4, MaxRetryAssumption
  DEF Copies, WorkersInStep, TypeOK, GroupTypeOK, OneOutcome, StatusTellsOutcome

LEMMA BuildStep == ASSUME IInv, NEW w \in Worker, Build(w) PROVE IInv'
<1>. USE DEF Build, Raise,
       IInv, groupVars, jobVars, sourceVars, outcomeVars,
       localVars, Goto, Take, Leave, Drop
<1>1. TypeOK'
  <2>1. GroupTypeOK(Handling)'
    BY NoMessageAssumption DEF TypeOK, GroupTypeOK
  <2>2. result' \in [Worker -> Text \cup {NoText}]
    BY DEF TypeOK
  <2>3. retryable' \in [Worker -> BOOLEAN]
    <3>1. retryable \in [Worker -> BOOLEAN]
      BY DEF TypeOK
    <3>. QED
      BY <3>1, Zenon
  <2>4. UNCHANGED <<jobVars, retryCount, outcomeVars, object, faults>>
    OBVIOUS
  <2>. QED
    BY <2>1, <2>2, <2>3, <2>4 DEF TypeOK
<1>2. OneOutcome' /\ StatusTellsOutcome' /\ AnnouncedIsStored'
  BY NoTextAssumption DEF TypeOK, GroupTypeOK, WorkersInStep, OneOutcome, StatusTellsOutcome,
     AnnouncedIsStored
<1>3. NoLostTranscript'
  BY DEF TypeOK, GroupTypeOK, WorkersInStep, NoLostTranscript, Circulating
<1>4. WorkersInStep'
  BY NoMessageAssumption, NoTextAssumption DEF TypeOK, GroupTypeOK, WorkersInStep, Copies
<1>. QED
  BY <1>1, <1>2, <1>3, <1>4, MaxRetryAssumption
  DEF Copies, WorkersInStep, TypeOK, GroupTypeOK, OneOutcome, StatusTellsOutcome

LEMMA UploadStep == ASSUME IInv, NEW w \in Worker, Upload(w) PROVE IInv'
<1>. USE DEF Upload, Step,
       IInv, groupVars, jobVars, sourceVars, outcomeVars,
       localVars, Goto, Take, Leave, Drop
<1>1. TypeOK'
  BY NoMessageAssumption, NoTextAssumption, MaxRetryAssumption, FaultAssumption
  DEF TypeOK, GroupTypeOK
<1>2. OneOutcome' /\ StatusTellsOutcome' /\ AnnouncedIsStored'
  BY NoTextAssumption DEF TypeOK, GroupTypeOK, WorkersInStep, OneOutcome, StatusTellsOutcome,
     AnnouncedIsStored
<1>3. NoLostTranscript'
  BY DEF TypeOK, GroupTypeOK, WorkersInStep, NoLostTranscript, Circulating
<1>4. WorkersInStep'
  BY NoMessageAssumption, NoTextAssumption DEF TypeOK, GroupTypeOK, WorkersInStep, Copies
<1>. QED
  BY <1>1, <1>2, <1>3, <1>4, MaxRetryAssumption
  DEF Copies, WorkersInStep, TypeOK, GroupTypeOK, OneOutcome, StatusTellsOutcome

LEMMA UploadFailsStep ==
    ASSUME IInv, NEW w \in Worker, NEW isRetryable \in BOOLEAN, UploadFails(w, isRetryable)
    PROVE  IInv'
<1>. USE DEF UploadFails, Raise,
       IInv, groupVars, jobVars, sourceVars, outcomeVars,
       localVars, Goto, Take, Leave, Drop
<1>1. TypeOK'
  BY NoMessageAssumption, NoTextAssumption, MaxRetryAssumption, FaultAssumption
  DEF TypeOK, GroupTypeOK
<1>2. OneOutcome' /\ StatusTellsOutcome' /\ AnnouncedIsStored'
  BY NoTextAssumption DEF TypeOK, GroupTypeOK, WorkersInStep, OneOutcome, StatusTellsOutcome,
     AnnouncedIsStored
<1>3. NoLostTranscript'
  BY DEF TypeOK, GroupTypeOK, WorkersInStep, NoLostTranscript, Circulating
<1>4. WorkersInStep'
  BY NoMessageAssumption, NoTextAssumption DEF TypeOK, GroupTypeOK, WorkersInStep, Copies
<1>. QED
  BY <1>1, <1>2, <1>3, <1>4, MaxRetryAssumption
  DEF Copies, WorkersInStep, TypeOK, GroupTypeOK, OneOutcome, StatusTellsOutcome

LEMMA ProcessFailsStep == ASSUME IInv, NEW w \in Worker, ProcessFails(w) PROVE IInv'
<1>. USE DEF ProcessFails, Fault,
       IInv, groupVars, jobVars, sourceVars, outcomeVars,
       localVars, Goto, Take, Leave, Drop
<1>1. TypeOK'
  BY NoMessageAssumption, NoTextAssumption, MaxRetryAssumption, FaultAssumption
  DEF TypeOK, GroupTypeOK
<1>2. OneOutcome' /\ StatusTellsOutcome' /\ AnnouncedIsStored'
  BY NoTextAssumption DEF TypeOK, GroupTypeOK, WorkersInStep, OneOutcome, StatusTellsOutcome,
     AnnouncedIsStored
<1>3. NoLostTranscript'
  BY DEF TypeOK, GroupTypeOK, WorkersInStep, NoLostTranscript, Circulating
<1>4. WorkersInStep'
  BY NoMessageAssumption, NoTextAssumption DEF TypeOK, GroupTypeOK, WorkersInStep, Copies
<1>. QED
  BY <1>1, <1>2, <1>3, <1>4, MaxRetryAssumption
  DEF Copies, WorkersInStep, TypeOK, GroupTypeOK, OneOutcome, StatusTellsOutcome

LEMMA SaveChecksStep == ASSUME IInv, NEW w \in Worker, SaveChecks(w) PROVE IInv'
<1>. USE DEF SaveChecks, Step, IsProcessed,
       IInv, groupVars, jobVars, sourceVars, outcomeVars,
       localVars, Goto, Take, Leave, Drop
<1>1. TypeOK'
  BY NoMessageAssumption, NoTextAssumption, MaxRetryAssumption, FaultAssumption
  DEF TypeOK, GroupTypeOK
<1>2. OneOutcome' /\ StatusTellsOutcome' /\ AnnouncedIsStored'
  BY NoTextAssumption DEF TypeOK, GroupTypeOK, WorkersInStep, OneOutcome, StatusTellsOutcome,
     AnnouncedIsStored
<1>3. NoLostTranscript'
  BY DEF TypeOK, GroupTypeOK, WorkersInStep, NoLostTranscript, Circulating
<1>4. WorkersInStep'
  BY NoMessageAssumption, NoTextAssumption DEF TypeOK, GroupTypeOK, WorkersInStep, Copies
<1>. QED
  BY <1>1, <1>2, <1>3, <1>4, MaxRetryAssumption
  DEF Copies, WorkersInStep, TypeOK, GroupTypeOK, OneOutcome, StatusTellsOutcome

LEMMA SaveStep == ASSUME IInv, NEW w \in Worker, Save(w) PROVE IInv'
<1>. USE DEF Save, SaveCommits, KeyFree, Step,
       IInv, groupVars, jobVars, sourceVars, outcomeVars,
       localVars, Goto, Take, Leave, Drop
<1>1. TypeOK'
  BY NoMessageAssumption, NoTextAssumption, MaxRetryAssumption, FaultAssumption
  DEF TypeOK, GroupTypeOK
<1>2. OneOutcome' /\ StatusTellsOutcome' /\ AnnouncedIsStored'
  BY NoTextAssumption DEF TypeOK, GroupTypeOK, WorkersInStep, OneOutcome, StatusTellsOutcome,
     AnnouncedIsStored
<1>3. NoLostTranscript'
  BY DEF TypeOK, GroupTypeOK, WorkersInStep, NoLostTranscript, Circulating
<1>4. WorkersInStep'
  BY NoMessageAssumption, NoTextAssumption DEF TypeOK, GroupTypeOK, WorkersInStep, Copies
<1>. QED
  BY <1>1, <1>2, <1>3, <1>4, MaxRetryAssumption
  DEF Copies, WorkersInStep, TypeOK, GroupTypeOK, OneOutcome, StatusTellsOutcome

LEMMA SaveRaisesStep == ASSUME IInv, NEW w \in Worker, SaveRaises(w) PROVE IInv'
<1>. USE DEF SaveRaises, Raise,
       IInv, groupVars, jobVars, sourceVars, outcomeVars,
       localVars, Goto, Take, Leave, Drop
<1>1. TypeOK'
  BY NoMessageAssumption, NoTextAssumption, MaxRetryAssumption, FaultAssumption
  DEF TypeOK, GroupTypeOK
<1>2. OneOutcome' /\ StatusTellsOutcome' /\ AnnouncedIsStored'
  BY NoTextAssumption DEF TypeOK, GroupTypeOK, WorkersInStep, OneOutcome, StatusTellsOutcome,
     AnnouncedIsStored
<1>3. NoLostTranscript'
  BY DEF TypeOK, GroupTypeOK, WorkersInStep, NoLostTranscript, Circulating
<1>4. WorkersInStep'
  BY NoMessageAssumption, NoTextAssumption DEF TypeOK, GroupTypeOK, WorkersInStep, Copies
<1>. QED
  BY <1>1, <1>2, <1>3, <1>4, MaxRetryAssumption
  DEF Copies, WorkersInStep, TypeOK, GroupTypeOK, OneOutcome, StatusTellsOutcome

LEMMA RecordChecksStep == ASSUME IInv, NEW w \in Worker, RecordChecks(w) PROVE IInv'
<1>. USE DEF RecordChecks, Step, IsProcessed,
       IInv, groupVars, jobVars, sourceVars, outcomeVars,
       localVars, Goto, Take, Leave, Drop
<1>1. TypeOK'
  BY NoMessageAssumption, NoTextAssumption, MaxRetryAssumption, FaultAssumption
  DEF TypeOK, GroupTypeOK
<1>2. OneOutcome' /\ StatusTellsOutcome' /\ AnnouncedIsStored'
  BY NoTextAssumption DEF TypeOK, GroupTypeOK, WorkersInStep, OneOutcome, StatusTellsOutcome,
     AnnouncedIsStored
<1>3. NoLostTranscript'
  BY DEF TypeOK, GroupTypeOK, WorkersInStep, NoLostTranscript, Circulating
<1>4. WorkersInStep'
  BY NoMessageAssumption, NoTextAssumption DEF TypeOK, GroupTypeOK, WorkersInStep, Copies
<1>. QED
  BY <1>1, <1>2, <1>3, <1>4, MaxRetryAssumption
  DEF Copies, WorkersInStep, TypeOK, GroupTypeOK, OneOutcome, StatusTellsOutcome

LEMMA NoteRetryStep == ASSUME IInv, NEW w \in Worker, NoteRetry(w) PROVE IInv'
<1>. USE DEF NoteRetry, CanRetry, Forget,
       IInv, groupVars, jobVars, sourceVars, outcomeVars,
       localVars, Goto, Take, Leave, Drop
<1>1. TypeOK'
  BY NoMessageAssumption, NoTextAssumption, MaxRetryAssumption, FaultAssumption
  DEF TypeOK, GroupTypeOK
<1>2. OneOutcome' /\ StatusTellsOutcome' /\ AnnouncedIsStored'
  BY NoTextAssumption, MaxRetryAssumption
  DEF TypeOK, GroupTypeOK, WorkersInStep, OneOutcome, StatusTellsOutcome, AnnouncedIsStored
<1>3. NoLostTranscript'
  BY DEF TypeOK, GroupTypeOK, WorkersInStep, NoLostTranscript, Circulating
<1>4. WorkersInStep'
  BY NoMessageAssumption, NoTextAssumption DEF TypeOK, GroupTypeOK, WorkersInStep, Copies
<1>. QED
  BY <1>1, <1>2, <1>3, <1>4, MaxRetryAssumption
  DEF Copies, WorkersInStep, TypeOK, GroupTypeOK, OneOutcome, StatusTellsOutcome

LEMMA NoteFailsStep == ASSUME IInv, NEW w \in Worker, NoteFails(w) PROVE IInv'
<1>. USE DEF NoteFails, NoteCommits, KeyFree, Step,
       IInv, groupVars, jobVars, sourceVars, outcomeVars,
       localVars, Goto, Take, Leave, Drop
<1>1. TypeOK'
  BY NoMessageAssumption, NoTextAssumption, MaxRetryAssumption, FaultAssumption
  DEF TypeOK, GroupTypeOK, OneOutcome
<1>2. OneOutcome' /\ StatusTellsOutcome' /\ AnnouncedIsStored'
  BY NoTextAssumption DEF TypeOK, GroupTypeOK, WorkersInStep, OneOutcome, StatusTellsOutcome,
     AnnouncedIsStored
<1>3. NoLostTranscript'
  BY DEF TypeOK, GroupTypeOK, WorkersInStep, NoLostTranscript, Circulating
<1>4. WorkersInStep'
  BY NoMessageAssumption, NoTextAssumption DEF TypeOK, GroupTypeOK, WorkersInStep, Copies
<1>. QED
  BY <1>1, <1>2, <1>3, <1>4, MaxRetryAssumption
  DEF Copies, WorkersInStep, TypeOK, GroupTypeOK, OneOutcome, StatusTellsOutcome

LEMMA NoteRaisesStep == ASSUME IInv, NEW w \in Worker, NoteRaises(w) PROVE IInv'
<1>. USE DEF NoteRaises, Forget,
       IInv, groupVars, jobVars, sourceVars, outcomeVars,
       localVars, Goto, Take, Leave, Drop
<1>1. TypeOK'
  BY NoMessageAssumption, NoTextAssumption, MaxRetryAssumption, FaultAssumption
  DEF TypeOK, GroupTypeOK
<1>2. OneOutcome' /\ StatusTellsOutcome' /\ AnnouncedIsStored'
  BY NoTextAssumption DEF TypeOK, GroupTypeOK, WorkersInStep, OneOutcome, StatusTellsOutcome,
     AnnouncedIsStored
<1>3. NoLostTranscript'
  BY DEF TypeOK, GroupTypeOK, WorkersInStep, NoLostTranscript, Circulating
<1>4. WorkersInStep'
  BY NoMessageAssumption, NoTextAssumption DEF TypeOK, GroupTypeOK, WorkersInStep, Copies
<1>. QED
  BY <1>1, <1>2, <1>3, <1>4, MaxRetryAssumption
  DEF Copies, WorkersInStep, TypeOK, GroupTypeOK, OneOutcome, StatusTellsOutcome

LEMMA AcknowledgeStep == ASSUME IInv, NEW w \in Worker, Acknowledge(w) PROVE IInv'
<1>. USE DEF Acknowledge, Ack, Forget,
       IInv, groupVars, jobVars, sourceVars, outcomeVars,
       localVars, Goto, Take, Leave, Drop
<1>1. TypeOK'
  BY NoMessageAssumption, NoTextAssumption, MaxRetryAssumption, FaultAssumption
  DEF TypeOK, GroupTypeOK
<1>2. OneOutcome' /\ StatusTellsOutcome' /\ AnnouncedIsStored'
  BY NoTextAssumption DEF TypeOK, GroupTypeOK, WorkersInStep, OneOutcome, StatusTellsOutcome,
     AnnouncedIsStored
<1>3. NoLostTranscript'
  BY DEF TypeOK, GroupTypeOK, WorkersInStep, NoLostTranscript, Circulating
<1>4. WorkersInStep'
  BY NoMessageAssumption, NoTextAssumption DEF TypeOK, GroupTypeOK, WorkersInStep, Copies
<1>. QED
  BY <1>1, <1>2, <1>3, <1>4, MaxRetryAssumption
  DEF Copies, WorkersInStep, TypeOK, GroupTypeOK, OneOutcome, StatusTellsOutcome

LEMMA AbandonStep == ASSUME IInv, NEW w \in Worker, Abandon(w) PROVE IInv'
<1>. USE DEF Abandon, Fault, Forget,
       IInv, groupVars, jobVars, sourceVars, outcomeVars,
       localVars, Goto, Take, Leave, Drop
<1>1. TypeOK'
  BY NoMessageAssumption, NoTextAssumption, MaxRetryAssumption, FaultAssumption
  DEF TypeOK, GroupTypeOK
<1>2. OneOutcome' /\ StatusTellsOutcome' /\ AnnouncedIsStored'
  BY NoTextAssumption DEF TypeOK, GroupTypeOK, WorkersInStep, OneOutcome, StatusTellsOutcome,
     AnnouncedIsStored
<1>3. NoLostTranscript'
  BY DEF TypeOK, GroupTypeOK, WorkersInStep, NoLostTranscript, Circulating
<1>4. WorkersInStep'
  BY NoMessageAssumption, NoTextAssumption DEF TypeOK, GroupTypeOK, WorkersInStep, Copies
<1>. QED
  BY <1>1, <1>2, <1>3, <1>4, MaxRetryAssumption
  DEF Copies, WorkersInStep, TypeOK, GroupTypeOK, OneOutcome, StatusTellsOutcome

LEMMA PublishStep == ASSUME IInv, NEW m \in Message, Publish(m) PROVE IInv'
<1>. USE DEF Publish, PublisherAdds, Xadd,
       IInv, groupVars, jobVars, sourceVars, outcomeVars,
       localVars, Goto, Take, Leave, Drop
<1>1. TypeOK'
  <2>1. GroupTypeOK(Handling)'
    BY DEF TypeOK, GroupTypeOK, Copies
  <2>2. entries' \subseteq Message /\ faults' \in 0..MaxFaults
    BY FaultAssumption DEF TypeOK
  <2>3. published' \in BOOLEAN
    BY Zenon DEF TypeOK
  <2>. QED
    BY <2>1, <2>2, <2>3 DEF TypeOK
<1>2. OneOutcome' /\ StatusTellsOutcome' /\ AnnouncedIsStored'
  BY NoTextAssumption DEF TypeOK, GroupTypeOK, WorkersInStep, OneOutcome, StatusTellsOutcome,
     AnnouncedIsStored
<1>3. NoLostTranscript'
  BY DEF TypeOK, GroupTypeOK, WorkersInStep, NoLostTranscript, Circulating
<1>4. WorkersInStep'
  BY NoMessageAssumption, NoTextAssumption DEF TypeOK, GroupTypeOK, WorkersInStep, Copies
<1>. QED
  BY <1>1, <1>2, <1>3, <1>4, MaxRetryAssumption
  DEF Copies, WorkersInStep, TypeOK, GroupTypeOK, OneOutcome, StatusTellsOutcome

LEMMA PublishTwiceStep == ASSUME IInv, NEW m \in Message, PublishTwice(m) PROVE IInv'
<1>. USE DEF PublishTwice, PublisherAdds, Xadd, Fault,
       IInv, groupVars, jobVars, sourceVars, outcomeVars,
       localVars, Goto, Take, Leave, Drop
<1>1. TypeOK'
  <2>1. GroupTypeOK(Handling)'
    BY DEF TypeOK, GroupTypeOK, Copies
  <2>2. entries' \subseteq Message /\ faults' \in 0..MaxFaults
    BY FaultAssumption DEF TypeOK
  <2>3. published' \in BOOLEAN
    BY Zenon DEF TypeOK
  <2>. QED
    BY <2>1, <2>2, <2>3 DEF TypeOK
<1>2. OneOutcome' /\ StatusTellsOutcome' /\ AnnouncedIsStored'
  BY NoTextAssumption DEF TypeOK, GroupTypeOK, WorkersInStep, OneOutcome, StatusTellsOutcome,
     AnnouncedIsStored
<1>3. NoLostTranscript'
  BY DEF TypeOK, GroupTypeOK, WorkersInStep, NoLostTranscript, Circulating
<1>4. WorkersInStep'
  BY NoMessageAssumption, NoTextAssumption DEF TypeOK, GroupTypeOK, WorkersInStep, Copies
<1>. QED
  BY <1>1, <1>2, <1>3, <1>4, MaxRetryAssumption
  DEF Copies, WorkersInStep, TypeOK, GroupTypeOK, OneOutcome, StatusTellsOutcome

LEMMA EarlierStagesStep == ASSUME IInv, EarlierStages PROVE IInv'
<1>. USE DEF EarlierStages, IInv, groupVars, jobVars, sourceVars, outcomeVars,
       localVars, Goto, Take, Leave, Drop
<1>1. TypeOK'
  BY NoMessageAssumption, NoTextAssumption, MaxRetryAssumption, FaultAssumption
  DEF TypeOK, GroupTypeOK
<1>2. OneOutcome' /\ StatusTellsOutcome' /\ AnnouncedIsStored'
  BY NoTextAssumption DEF TypeOK, GroupTypeOK, WorkersInStep, OneOutcome, StatusTellsOutcome,
     AnnouncedIsStored
<1>3. NoLostTranscript'
  BY DEF TypeOK, GroupTypeOK, WorkersInStep, NoLostTranscript, Circulating
<1>4. WorkersInStep'
  BY NoMessageAssumption, NoTextAssumption DEF TypeOK, GroupTypeOK, WorkersInStep, Copies
<1>. QED
  BY <1>1, <1>2, <1>3, <1>4, MaxRetryAssumption
  DEF Copies, WorkersInStep, TypeOK, GroupTypeOK, OneOutcome, StatusTellsOutcome

LEMMA LateMarkStep == ASSUME IInv, LateMark PROVE IInv'
<1>. USE DEF LateMark, IInv, groupVars, jobVars, sourceVars, outcomeVars,
       localVars, Goto, Take, Leave, Drop
<1>1. TypeOK'
  BY NoMessageAssumption, NoTextAssumption, MaxRetryAssumption, FaultAssumption
  DEF TypeOK, GroupTypeOK
<1>2. OneOutcome' /\ StatusTellsOutcome' /\ AnnouncedIsStored'
  BY NoTextAssumption DEF TypeOK, GroupTypeOK, WorkersInStep, OneOutcome, StatusTellsOutcome,
     AnnouncedIsStored
<1>3. NoLostTranscript'
  BY DEF TypeOK, GroupTypeOK, WorkersInStep, NoLostTranscript, Circulating
<1>4. WorkersInStep'
  BY NoMessageAssumption, NoTextAssumption DEF TypeOK, GroupTypeOK, WorkersInStep, Copies
<1>. QED
  BY <1>1, <1>2, <1>3, <1>4, MaxRetryAssumption
  DEF Copies, WorkersInStep, TypeOK, GroupTypeOK, OneOutcome, StatusTellsOutcome

LEMMA StutterStep == ASSUME IInv, UNCHANGED vars PROVE IInv'
BY DEF vars, groupVars, jobVars, sourceVars, outcomeVars, localVars, IInv, TypeOK, GroupTypeOK,
   OneOutcome, StatusTellsOutcome, NoLostTranscript, Circulating, AnnouncedIsStored,
   WorkersInStep, Copies

LEMMA NextIInv == IInv /\ [Next]_vars => IInv'
<1>. SUFFICES ASSUME IInv, [Next]_vars PROVE IInv'
  OBVIOUS
<1>1. ASSUME NEW w \in Worker, Handle(w) PROVE IInv'
  BY <1>1, CheckInboxStep, BeginStep, BuildStep, UploadStep, UploadFailsStep, SaveChecksStep,
     SaveStep, SaveRaisesStep, RecordChecksStep, NoteRetryStep, NoteFailsStep, NoteRaisesStep,
     AcknowledgeStep DEF Handle
<1>2. CASE Work
  BY <1>1, <1>2, ReadStep, ProcessFailsStep, AbandonStep, PublishStep, PublishTwiceStep DEF Work
<1>. QED
  BY <1>2, EarlierStagesStep, LateMarkStep, StutterStep DEF Next

\* The inductive invariant of the correction stage holds for every number of
\* workers, entries, retries, texts and faults.
THEOREM SpecIInv == Spec => []IInv
BY InitIInv, NextIInv, PTL DEF Spec

-----------------------------------------------------------------------------
(* Theorems.                                                               *)

\* The state of the correction stage is always well formed; in particular the count
\* of retries never passes its limit by more than the failure that ends them.
THEOREM TypeCorrect == Spec => []TypeOK
<1>1. IInv => TypeOK
  BY DEF IInv
<1>. QED
  BY <1>1, SpecIInv, PTL

\* Whatever is delivered twice, lost or raced, the event has one outcome, in the
\* transaction that marks it processed: the inbox key rolls any other back.
THEOREM OutcomeIsUnique == Spec => []OneOutcome
<1>1. IInv => OneOutcome
  BY DEF IInv
<1>. QED
  BY <1>1, SpecIInv, PTL

\* The job's status tells the outcome that was announced, but for an orchestrator's
\* late mark on a completed job.
THEOREM JobTellsOutcome == Spec => []StatusTellsOutcome
<1>1. IInv => StatusTellsOutcome
  BY DEF IInv
<1>. QED
  BY <1>1, SpecIInv, PTL

\* A transcript waits in the outbox or the group until its event is processed, so
\* no crash or error of a worker leaves it behind.
THEOREM NoTranscriptIsLost == Spec => []NoLostTranscript
<1>1. IInv => NoLostTranscript
  BY DEF IInv
<1>. QED
  BY <1>1, SpecIInv, PTL

\* A completion is announced only with a text in the object store.
THEOREM NothingAnnouncedUnstored == Spec => []AnnouncedIsStored
<1>1. IInv => AnnouncedIsStored
  BY DEF IInv
<1>. QED
  BY <1>1, SpecIInv, PTL
=============================================================================
