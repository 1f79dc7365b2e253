----------------------------- MODULE VadPacking -----------------------------
(***************************************************************************)
(* Voice activity chunking: frames become speech segments, segments are    *)
(* cut to the chunk limit, and the pieces are packed into chunks with a    *)
(* silent gap between two of them.  The three generators pull from one     *)
(* another, so a segment is cut and packed before the next frame is read;  *)
(* one loop iteration is one action.  write_vad_chunk walks the pieces of  *)
(* a chunk in the same order, so where it places a piece is computed when  *)
(* the piece is packed: from its own cursor, not from the packer's sum.    *)
(*                                                                         *)
(* Times are in ticks.  A sum of floats that is exactly the limit may come *)
(* out on either side of it: that is the parameter up.  A last frame that  *)
(* is cut short is not read and does not appear.                           *)
(***************************************************************************)
EXTENDS Integers, FiniteSets, Sequences, SequencesExt

CONSTANTS
    FrameTicks,     \* settings.stt_vad_frame_ms
    GapTicks,       \* settings.stt_vad_gap_ms
    MaxTicks,       \* settings.stt_vad_max_chunk_seconds
    Padding,        \* frames in the ring: max(1, padding_ms // frame_ms)
    TriggerPercent, \* settings.stt_vad_trigger_ratio
    MaxFrames       \* bound: length of the audio

ASSUME VadAssumption ==
    /\ FrameTicks \in Nat \ {0} /\ GapTicks \in Nat /\ Padding \in Nat \ {0}
    /\ MaxTicks \in Nat /\ FrameTicks <= MaxTicks
    /\ TriggerPercent \in 1..100 /\ MaxFrames \in Nat

VARIABLES
    audio,      \* for each frame read, whether it is speech
    triggered,
    ring,       \* the last frames since the trigger changed, at most Padding
    voiced,     \* frames of the segment being collected
    over,       \* no frame is left
    segment,    \* frames of the last segment that are not cut yet
    piece,      \* frames cut from it so far
    chunk,      \* the chunk being packed: pieces and where they are placed
    packed,     \* its duration as the packer sums it up
    chunks,     \* the chunks written
    closed      \* the last chunk is written

listenVars == <<audio, triggered, ring, voiced>>
packVars == <<chunk, packed, chunks>>
vadVars == <<listenVars, over, segment, piece, packVars, closed>>

Duration(frames) == FrameTicks * Len(frames)
PlacedEnd(placed) == placed.at + Duration(placed.frames)

VadInit ==
    /\ audio = <<>> /\ triggered = FALSE /\ ring = <<>> /\ voiced = <<>>
    /\ over = FALSE /\ segment = <<>> /\ piece = <<>>
    /\ chunk = <<>> /\ packed = 0 /\ chunks = <<>>
    /\ closed = FALSE

-----------------------------------------------------------------------------
\* deque(maxlen=Padding).append
Pushed(f) == Append(IF Len(ring) = Padding THEN Tail(ring) ELSE ring, f)

\* Enough frames of a full ring are speech, or silence, to change the trigger.
Enough(frames, heard, speech) ==
    /\ Len(frames) = Padding
    /\ 100 * Cardinality({i \in DOMAIN frames : heard[frames[i]] = speech}) >= TriggerPercent * Padding

\* Mutant: what the ring held before the trigger is dropped.
Waits_Unpadded(f, heard) ==
    LET now == Pushed(f) IN
    IF Enough(now, heard, TRUE)
      THEN triggered' = TRUE /\ voiced' = <<f>> /\ ring' = <<>>
      ELSE ring' = now /\ UNCHANGED <<triggered, voiced>>

\* Not triggered: the frames in the ring open the segment.
Waits(f, heard) ==
    LET now == Pushed(f) IN
    IF Enough(now, heard, TRUE)
      THEN triggered' = TRUE /\ voiced' = now /\ ring' = <<>>
      ELSE ring' = now /\ UNCHANGED <<triggered, voiced>>

\* Triggered: every frame belongs to the segment, its trailing silence included.
Collects(f, heard) ==
    LET now == Pushed(f) IN
    IF Enough(now, heard, FALSE)
      THEN /\ segment' = Append(voiced, f)
           /\ voiced' = <<>> /\ triggered' = FALSE /\ ring' = <<>>
      ELSE /\ voiced' = Append(voiced, f) /\ ring' = now
           /\ UNCHANGED <<triggered, segment>>

Listening == ~over /\ segment = <<>> /\ piece = <<>>

Listen(speech) ==
    /\ Listening
    /\ Len(audio) < MaxFrames
    /\ audio' = Append(audio, speech)
    /\ IF triggered
         THEN Collects(Len(audio'), audio')
         ELSE Waits(Len(audio'), audio') /\ UNCHANGED segment
    /\ UNCHANGED <<over, piece, packVars, closed>>

\* A segment that is still open is yielded; a ring that never triggered is not.
EndOfAudio ==
    /\ Listening
    /\ over' = TRUE
    /\ segment' = voiced /\ voiced' = <<>>
    /\ UNCHANGED <<audio, triggered, ring, piece, packVars, closed>>

-----------------------------------------------------------------------------
Exceeds(ticks, up) == ticks > MaxTicks \/ (up /\ ticks = MaxTicks)

\* Mutant: the gap before the piece is not counted.
Added_WithoutGap(frames) == Duration(frames)

Added(frames) == Duration(frames) + (IF chunk = <<>> THEN 0 ELSE GapTicks)

\* Mutant: pieces are placed one right after the other.
Cursor_WithoutGap == IF chunk = <<>> THEN 0 ELSE PlacedEnd(Last(chunk))

\* Where write_vad_chunk puts the next piece of the chunk.
Cursor == IF chunk = <<>> THEN 0 ELSE PlacedEnd(Last(chunk)) + GapTicks

Pack(frames, up) ==
    IF chunk # <<>> /\ Exceeds(packed + Added(frames), up)
      THEN /\ chunks' = Append(chunks, chunk)
           /\ chunk' = <<[at |-> 0, frames |-> frames]>>
           /\ packed' = Duration(frames)
      ELSE /\ chunk' = Append(chunk, [at |-> Cursor, frames |-> frames])
           /\ packed' = packed + Added(frames)
           /\ UNCHANGED chunks

CutFrame(up) ==
    /\ segment # <<>>
    /\ segment' = Tail(segment)
    /\ IF piece # <<>> /\ Exceeds(Duration(piece) + FrameTicks, up)
         THEN piece' = <<Head(segment)>> /\ Pack(piece, up)
         ELSE piece' = Append(piece, Head(segment)) /\ UNCHANGED packVars
    /\ UNCHANGED <<listenVars, over, closed>>

CutRest(up) ==
    /\ segment = <<>> /\ piece # <<>>
    /\ piece' = <<>>
    /\ Pack(piece, up)
    /\ UNCHANGED <<listenVars, over, segment, closed>>

\* No chunk at all is InvalidAudioError: chunks stays empty.
Close ==
    /\ over /\ segment = <<>> /\ piece = <<>> /\ ~closed
    /\ closed' = TRUE
    /\ chunks' = IF chunk = <<>> THEN chunks ELSE Append(chunks, chunk)
    /\ chunk' = <<>> /\ packed' = 0
    /\ UNCHANGED <<listenVars, over, segment, piece>>

VadNext ==
    \/ \E speech \in BOOLEAN : Listen(speech)
    \/ EndOfAudio
    \/ \E up \in BOOLEAN : CutFrame(up) \/ CutRest(up)
    \/ Close

-----------------------------------------------------------------------------
(* Properties.                                                             *)

Chunks == Range(chunks) \cup {chunk}
PlaceOf(c, i) == IF i = 1 THEN 0 ELSE PlacedEnd(c[i - 1]) + GapTicks
IsRun(frames) == \A i \in DOMAIN frames : frames[i] = frames[1] + i - 1

\* The chunk limit (README.md:33) holds of what is written, gaps included,
\* although cutting, packing and writing each keep a sum of their own
\* (vad.py:155, 178, 209-213).
ChunksWithinLimit ==
    \A c \in Chunks : \A i \in DOMAIN c : PlacedEnd(c[i]) <= MaxTicks

\* A source mapping is exact: a piece is an unbroken run of source frames, so equal
\* distances in chunk and source are equal times, and exactly one gap of silence
\* lies between two pieces (vad.py:206-221).
PiecesAreExact ==
    \A c \in Chunks : \A i \in DOMAIN c :
       /\ c[i].frames # <<>> /\ IsRun(c[i].frames)
       /\ c[i].at = PlaceOf(c, i)

FramesOf(c) == FlattenSeq([i \in DOMAIN c |-> c[i].frames])
FramesOfAll(cs) == FlattenSeq([k \in DOMAIN cs |-> FramesOf(cs[k])])

\* All frames kept so far, in the order they will be heard.
Kept == FramesOfAll(chunks) \o FramesOf(chunk) \o piece \o segment \o voiced

\* No frame is kept twice or out of order, whatever is cut and packed.
FramesInOrder == \A i \in 2..Len(Kept) : Kept[i - 1] < Kept[i]

\* Speech that lasts as long as the padding is never lost from its first frame
\* on, whatever state the ring was in (vad.py:127-148).
SpeechIsKept ==
    closed => \A f \in 1..(Len(audio) - Padding + 1) :
                 (\A g \in f..(f + Padding - 1) : audio[g]) => f \in Range(Kept)

\* What is spoken reaches the provider once, in order.
FramesAreKept == FramesInOrder /\ SpeechIsKept

-----------------------------------------------------------------------------
(* The invariant behind the limit and the exactness.                       *)

Frame == Nat \ {0}
Placed == [at : Nat, frames : Seq(Frame)]

VadTypeOK ==
    /\ audio \in Seq(BOOLEAN) /\ triggered \in BOOLEAN
    /\ over \in BOOLEAN /\ closed \in BOOLEAN
    /\ ring \in Seq(Frame) /\ voiced \in Seq(Frame)
    /\ segment \in Seq(Frame) /\ piece \in Seq(Frame)
    /\ chunk \in Seq(Placed) /\ packed \in Nat /\ chunks \in Seq(Seq(Placed))

EndsAt(frames, n) == \A i \in DOMAIN frames : frames[i] = n - Len(frames) + i

\* What is collected is the end of the audio; what is cut goes on from the piece.
RunsGoOn ==
    /\ EndsAt(ring, Len(audio)) /\ EndsAt(voiced, Len(audio))
    /\ ~triggered \/ over => voiced = <<>>
    /\ closed => over
    /\ IsRun(segment) /\ IsRun(piece)
    /\ piece # <<>> /\ segment # <<>> => segment[1] = piece[1] + Len(piece)

LastFrame(placed) == placed.frames[Len(placed.frames)]

Fits(c) ==
    \A i \in DOMAIN c :
       /\ c[i].frames # <<>> /\ IsRun(c[i].frames)
       /\ c[i].at = PlaceOf(c, i)
       /\ PlacedEnd(c[i]) <= MaxTicks
       /\ \A j \in 1..(i - 1) : /\ PlacedEnd(c[j]) + GapTicks <= c[i].at
                                /\ LastFrame(c[j]) < c[i].frames[1]

Writable(c) == c # <<>> /\ Fits(c)

\* The packer's sum is the writer's cursor.
SumsAgree ==
    /\ packed = IF chunk = <<>> THEN 0 ELSE PlacedEnd(chunk[Len(chunk)])
    /\ Duration(piece) <= MaxTicks
    /\ Fits(chunk) /\ \A k \in DOMAIN chunks : Writable(chunks[k])

PackedTo == IF chunk = <<>> THEN 0 ELSE LastFrame(chunk[Len(chunk)])

\* What is packed was heard before all that is still to be packed.
PackedFirst ==
    /\ piece # <<>> => PackedTo < piece[1]
    /\ segment # <<>> => PackedTo < segment[1]
    /\ ~over => /\ PackedTo + Len(ring) <= Len(audio) /\ PackedTo + Len(voiced) <= Len(audio)
                /\ segment # <<>> \/ piece # <<>> => ring = <<>> /\ voiced = <<>>
                /\ segment # <<>> => segment[1] + Len(segment) <= Len(audio) + 1
                /\ piece # <<>> => piece[1] + Len(piece) <= Len(audio) + 1

VadInv == VadTypeOK /\ RunsGoOn /\ SumsAgree /\ PackedFirst

-----------------------------------------------------------------------------
(* The invariant behind the completeness.                                  *)

\* Frames in the ring that no segment has yet.
Waiting == IF triggered THEN 0 ELSE Len(ring)

\* Speech from f on, for as long as the padding or up to what was heard so far.
Lasting(f) == \A g \in f..(f + Padding - 1) : g \in 1..Len(audio) => audio[g]

\* All that is kept lies behind the waiting frames; a full ring that did not trigger
\* holds a silent frame, so whatever falls out of it is no lasting speech.
KeptInv ==
    /\ FramesInOrder
    /\ \A i \in DOMAIN Kept : Kept[i] + Waiting <= Len(audio)
    /\ Len(ring) <= Padding
    /\ ~triggered /\ Len(ring) = Padding => \E i \in DOMAIN ring : ~audio[ring[i]]
    /\ \A f \in 1..(Len(audio) - Waiting) : Lasting(f) => f \in Range(Kept)
    /\ closed => chunk = <<>> /\ piece = <<>> /\ segment = <<>>
=============================================================================
