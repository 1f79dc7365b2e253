------------------------------ MODULE Timeline ------------------------------
(***************************************************************************)
(* From audio to transcript lines and back to source times: the chunks of  *)
(* VadPacking are stored with their source mappings, the provider answers  *)
(* with segments in chunk time, and Merger turns these into lines.  The    *)
(* chunks are merged in the order of their index, one segment per action.  *)
(***************************************************************************)
EXTENDS VadPacking, Merger

CONSTANTS
    Said,          \* what a segment may say, and how confidently
    MaxSegments    \* bound: segments in all answers

ASSUME BoundAssumption == MaxSegments \in Nat

VARIABLES
    stored,     \* source_mapping_json of each chunk row
    at,         \* the chunk whose answer is being merged; 0: none yet
    last,       \* start of its last segment
    answered,   \* segments merged so far
    lines,
    inOrder,    \* every answer so far was in order of start times
    sorted

mergeVars == <<stored, at, last, answered, lines, inOrder, sorted>>
vars == <<vadVars, mergeVars>>

Init ==
    /\ VadInit
    /\ stored = <<>> /\ at = 0 /\ last = 0 /\ answered = 0 /\ lines = <<>>
    /\ inOrder = TRUE /\ sorted = FALSE

SourceMapping(placed) ==
    [chunkStart |-> placed.at, chunkEnd |-> PlacedEnd(placed),
     sourceStart |-> FrameTicks * (Head(placed.frames) - 1),
     sourceEnd |-> FrameTicks * Last(placed.frames)]

Split == VadNext /\ UNCHANGED mergeVars

Mappings ==
    [k \in DOMAIN chunks |-> [i \in DOMAIN chunks[k] |-> SourceMapping(chunks[k][i])]]

\* The orchestrator stores index and mappings of each chunk; what led to them is
\* gone with its process.
Store ==
    /\ closed /\ chunks # <<>>
    /\ stored' = Mappings
    /\ at' = 1
    /\ audio' = <<>> /\ triggered' = FALSE /\ ring' = <<>> /\ chunks' = <<>>
    /\ UNCHANGED <<voiced, over, segment, piece, chunk, packed, closed,
                   last, answered, lines, inOrder, sorted>>

\* A time the provider reports may lie past the end; a missing one is 0.
Recognize(start, end, said) ==
    /\ at \in DOMAIN stored
    /\ answered < MaxSegments
    /\ lines' = Merged(lines, Line(stored[at], start, end, said))
    /\ answered' = answered + 1
    /\ last' = start
    /\ inOrder' = (inOrder /\ last <= start)
    /\ UNCHANGED <<vadVars, stored, at, sorted>>

NextChunk ==
    /\ at \in DOMAIN stored
    /\ at' = at + 1 /\ last' = 0
    /\ UNCHANGED <<vadVars, stored, answered, lines, inOrder, sorted>>

Sort ==
    /\ at = Len(stored) + 1 /\ stored # <<>> /\ ~sorted
    /\ lines' = SortedLines(lines)
    /\ sorted' = TRUE
    /\ UNCHANGED <<vadVars, stored, at, last, answered, inOrder>>

Times == 0..(MaxTicks + 1)

Next ==
    \/ Split
    \/ Store
    \/ \E start \in Times, said \in Said :
          \E end \in {0, start + FrameTicks} : Recognize(start, end, said)
    \/ NextChunk
    \/ Sort

Spec == Init /\ [][Next]_vars

-----------------------------------------------------------------------------
(* Properties.                                                             *)

\* Mapping back undoes packing: wherever in a piece the provider hears something,
\* the source time is the one that very sample came from (merger.py:44-64 against
\* vad.py:206-221).
RoundTrip ==
    \A mappings \in Range(Mappings) : \A m \in Range(mappings) :
       \A t \in m.chunkStart..m.chunkEnd :
          MapChunkTime(t, mappings) = m.sourceStart + (t - m.chunkStart)

\* Mapping keeps the order of times, in gaps and past the end too, and never
\* leaves the audio the chunk was made from.
MappingKeepsOrder ==
    \A mappings \in Range(Mappings) :
       LET source == [t \in Times |-> MapChunkTime(t, mappings)] IN
       \A t \in Times :
          /\ mappings[1].sourceStart <= source[t] /\ source[t] <= Last(mappings).sourceEnd
          /\ t > 0 => source[t - 1] <= source[t]

\* Both of the way from chunk time to source time.
MappingIsFaithful == RoundTrip /\ MappingKeepsOrder

\* If every answer is in order, so are the merged lines, across chunks and merged
\* duplicates, before the final sort looks at them.
LinesInSourceOrder ==
    inOrder => \A i \in 2..Len(lines) : lines[i - 1].start <= lines[i].start

\* Of a repetition within half a second one line is left, and the line that was
\* preferred does not repeat the one before it either (merger.py:37-38, 75-78).
NoEcho ==
    inOrder /\ ~sorted =>
       \A i \in 2..Len(lines) :
          \/ lines[i].said.word # lines[i - 1].said.word
          \/ lines[i].start > lines[i - 1].end + EchoTicks

\* Merging leaves lines in order, and none of them twice.
MergeIsOrderly == LinesInSourceOrder /\ NoEcho
=============================================================================
