----------------------------- MODULE ChunkLedger -----------------------------
(***************************************************************************)
(* What the speech-to-text stage promises about the chunks of one          *)
(* transcription, with no queue, lease, inbox or worker in sight: each     *)
(* chunk is settled once, after at most MaxRetry + 1 failed attempts, and  *)
(* the step that settles the deciding chunk also decides the job and       *)
(* announces the decision.                                                 *)
(***************************************************************************)
EXTENDS Naturals

CONSTANTS Chunk, MaxRetry

VARIABLES
    outcome,      \* of each chunk: open, completed or failed
    failures,     \* failed attempts of each chunk
    verdict,      \* status of the job
    transcripts,  \* transcripts announced
    deadLetters   \* per chunk, failures announced

ledgerVars == <<outcome, failures, verdict, transcripts, deadLetters>>

Init ==
    /\ outcome = [c \in Chunk |-> "open"]
    /\ failures = [c \in Chunk |-> 0]
    /\ verdict = "transcribing"
    /\ transcripts = 0
    /\ deadLetters = [c \in Chunk |-> 0]

\* An attempt fails and another one is due.
Retry(c) ==
    /\ outcome[c] = "open"
    /\ failures[c] < MaxRetry
    /\ failures' = [failures EXCEPT ![c] = @ + 1]
    /\ UNCHANGED <<outcome, verdict, transcripts, deadLetters>>

\* The last allowed attempt fails, or one fails beyond retrying.
Fail(c) ==
    /\ outcome[c] = "open"
    /\ outcome' = [outcome EXCEPT ![c] = "failed"]
    /\ failures' = [failures EXCEPT ![c] = @ + 1]
    /\ verdict' = "failed"
    /\ deadLetters' = [deadLetters EXCEPT ![c] = 1]
    /\ UNCHANGED transcripts

\* Mutant: failed chunks count towards the total.
Complete_CountsFailed(c) ==
    /\ outcome[c] = "open"
    /\ outcome' = [outcome EXCEPT ![c] = "completed"]
    /\ IF \A d \in Chunk : outcome'[d] # "open"
         THEN verdict' = "transcript_completed" /\ transcripts' = 1
         ELSE UNCHANGED <<verdict, transcripts>>
    /\ UNCHANGED <<failures, deadLetters>>

\* Mutant: a chunk completes again with a late answer.
Complete_Again(c) ==
    /\ outcome[c] # "failed"
    /\ outcome' = [outcome EXCEPT ![c] = "completed"]
    /\ IF \A d \in Chunk : outcome'[d] = "completed"
         THEN verdict' = "transcript_completed" /\ transcripts' = 1
         ELSE UNCHANGED <<verdict, transcripts>>
    /\ UNCHANGED <<failures, deadLetters>>

\* The transcript appears with the last completion, if nothing failed.
Complete(c) ==
    /\ outcome[c] = "open"
    /\ outcome' = [outcome EXCEPT ![c] = "completed"]
    /\ IF \A d \in Chunk : outcome'[d] = "completed"
         THEN verdict' = "transcript_completed" /\ transcripts' = 1
         ELSE UNCHANGED <<verdict, transcripts>>
    /\ UNCHANGED <<failures, deadLetters>>

Next == \E c \in Chunk : Retry(c) \/ Fail(c) \/ Complete(c)

Spec == Init /\ [][Next]_ledgerVars
=============================================================================
