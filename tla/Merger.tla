------------------------------- MODULE Merger -------------------------------
(***************************************************************************)
(* How recognized segments become the lines of a transcript: times of a    *)
(* chunk are mapped back to the source through the chunk's mappings,       *)
(* a segment that repeats the last line is merged into it, and the lines   *)
(* are sorted.  What is said is a record: what _normalize keeps of the     *)
(* text (word), the length of the text (size) and the confidence, 0 for    *)
(* none.  Speakers are carried along and decide nothing.                   *)
(***************************************************************************)
EXTENDS Integers, Sequences, SequencesExt

CONSTANT EchoTicks   \* the half second in _is_exact_duplicate

ASSUME EchoAssumption == EchoTicks \in Nat

Covers(m, t) == m.chunkStart <= t /\ t <= m.chunkEnd

Smaller(a, b) == IF a <= b THEN a ELSE b

InPiece(m, t) == Smaller(m.sourceStart + (t - m.chunkStart), m.sourceEnd)

\* Mutant: to the farther piece.
InGap_Farther(previous, m, t) ==
    IF t - previous.chunkEnd <= m.chunkStart - t THEN m.sourceStart ELSE previous.sourceEnd

\* A time inside a gap goes to the nearer piece, to the earlier one if in doubt.
InGap(previous, m, t) ==
    IF t - previous.chunkEnd <= m.chunkStart - t THEN previous.sourceEnd ELSE m.sourceStart

MapChunkTime(t, mappings) ==
    LET n == Len(mappings)
        decides == {i \in 1..n : Covers(mappings[i], t) \/ (i > 1 /\ t < mappings[i].chunkStart)}
    IN  IF n = 0 THEN t
        ELSE IF decides # {}
          THEN LET i == CHOOSE i \in decides : \A j \in decides : i <= j
               IN  IF Covers(mappings[i], t) THEN InPiece(mappings[i], t)
                   ELSE InGap(mappings[i - 1], mappings[i], t)
          ELSE IF t < mappings[1].chunkStart THEN mappings[1].sourceStart
               ELSE mappings[n].sourceEnd

Line(mappings, start, end, said) ==
    LET from == MapChunkTime(start, mappings)
        to == MapChunkTime(end, mappings)
    IN  [start |-> from, end |-> IF to < from THEN from ELSE to, said |-> said]

\* Mutant: texts are compared as they are.
IsDuplicate_Verbatim(left, right) ==
    left.said = right.said /\ right.start <= left.end + EchoTicks

IsDuplicate(left, right) ==
    left.said.word = right.said.word /\ right.start <= left.end + EchoTicks

Preferred(left, right) ==
    IF right.said.confidence > left.said.confidence THEN right
    ELSE IF left.said.size >= right.said.size THEN left ELSE right

Merged(lines, line) ==
    IF lines # <<>> /\ IsDuplicate(Last(lines), line)
      THEN [lines EXCEPT ![Len(lines)] = Preferred(Last(lines), line)]
      ELSE Append(lines, line)

\* Python's sort is stable: equal keys keep their order.
SortedLines(lines) ==
    LET Earlier(i, j) ==
          \/ lines[i].start < lines[j].start
          \/ lines[i].start = lines[j].start /\ lines[i].end < lines[j].end
          \/ lines[i].start = lines[j].start /\ lines[i].end = lines[j].end /\ i < j
        Place(i) == Cardinality({j \in DOMAIN lines : Earlier(j, i)}) + 1
    IN  [k \in DOMAIN lines |-> lines[CHOOSE i \in DOMAIN lines : Place(i) = k]]
=============================================================================
