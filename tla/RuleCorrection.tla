--------------------------- MODULE RuleCorrection ---------------------------
(***************************************************************************)
(* What the correction makes of a transcript, as operators.  A text is a   *)
(* sequence of words and line breaks; letters, case and word boundaries    *)
(* are below its grain.  A term is a record of id, canonical, phrases,     *)
(* policy and keywords.  Positions count from 1, and an end is the first   *)
(* position after.  Phrases do not overlap themselves.                     *)
(***************************************************************************)
EXTENDS Integers, FiniteSets, Sequences, SequencesExt

CONSTANTS
    Word,
    Break,         \* the line break
    Window,        \* context_window
    MinPercent     \* settings.stt_correction_min_response_ratio

ASSUME RatioAssumption == Window \in Nat /\ MinPercent \in Nat
ASSUME BreakAssumption == Break \notin Word

Text == Seq(Word \cup {Break})

Places(phrase, text) ==
    {i \in 1..(Len(text) - Len(phrase) + 1) : SubSeq(text, i, i + Len(phrase) - 1) = phrase}

Occurs(phrase, text) == Places(phrase, text) # {}

-----------------------------------------------------------------------------
(* RuleBasedCorrector.                                                     *)

\* Correcting a name to itself is no correction.
MatchPhrases(term) == term.phrases \ {term.canonical}

HasContext(text, start, end, term) ==
    \E i \in DOMAIN text :
       /\ text[i] \in term.keywords
       /\ i \in (start - Window)..(start - 1) \cup end..(end + Window - 1)

DecideAction(text, start, end, term) ==
    IF \/ term.policy = "safe"
       \/ term.policy = "context_required" /\ HasContext(text, start, end, term)
      THEN "replaced" ELSE "candidate"

Match(text, phrase, i, term) ==
    LET end == i + Len(phrase)
    IN  [start |-> i, end |-> end, original |-> phrase, canonical |-> term.canonical,
         id |-> term.id, action |-> DecideAction(text, i, end, term)]

Candidates(terms, text) ==
    UNION {UNION {{Match(text, phrase, i, term) : i \in Places(phrase, text)} :
                     phrase \in MatchPhrases(term)} : term \in Range(terms)}

IdBefore(a, b) == a.prefix < b.prefix \/ (a.prefix = b.prefix /\ a.number < b.number)

\* Earlier, then replaced, then longer, then by id.
Before(a, b) ==
    LET Rank(m) == IF m.action = "replaced" THEN 0 ELSE 1
    IN  \/ a.start < b.start
        \/ a.start = b.start /\ Rank(a) < Rank(b)
        \/ a.start = b.start /\ Rank(a) = Rank(b) /\ a.end > b.end
        \/ a.start = b.start /\ Rank(a) = Rank(b) /\ a.end = b.end /\ IdBefore(a.id, b.id)

\* Mutant: a match that touches the last one is skipped.
Skipped_Touching(m, selected) == selected # <<>> /\ m.start <= Last(selected).end

Skipped(m, selected) == selected # <<>> /\ m.start < Last(selected).end

Sorted(candidates) ==
    LET Place(m) == Cardinality({n \in candidates : Before(n, m)}) + 1
    IN  [k \in 1..Cardinality(candidates) |-> CHOOSE m \in candidates : Place(m) = k]

Selected(found) ==
    LET selected[k \in 0..Len(found)] ==
          IF k = 0 THEN <<>>
          ELSE IF Skipped(found[k], selected[k - 1]) THEN selected[k - 1]
          ELSE Append(selected[k - 1], found[k])
    IN  selected[Len(found)]

Matches(terms, text) == Selected(Sorted(Candidates(terms, text)))

\* Where the text goes on after the first k matches.
After(matches, k) == IF k = 0 THEN 1 ELSE matches[k].end

Replacement(m) == IF m.action = "replaced" THEN m.canonical ELSE m.original

Rendered(text, matches) ==
    LET n == Len(matches)
        done[k \in 0..n] ==
          IF k = 0 THEN <<>>
          ELSE done[k - 1] \o SubSeq(text, After(matches, k - 1), matches[k].start - 1)
                 \o Replacement(matches[k])
    IN  done[n] \o SubSeq(text, After(matches, n), Len(text))

Protected(matches) == {m.canonical : m \in {n \in Range(matches) : n.action = "replaced"}}

-----------------------------------------------------------------------------
(* Lines: splitlines and _line_ranges.                                     *)

\* Mutant: ranges are summed up from lines that have lost their breaks.
LineOf_WithoutBreaks(text, position) ==
    LET breaks(i) == Cardinality({j \in 1..i : text[j] = Break})
        starts == {i \in DOMAIN text : i = 1 \/ text[i - 1] = Break}
    IN  Cardinality({i \in starts : i - breaks(i - 1) <= position})

\* The line a position is in; a break belongs to the line it ends.
LineOf(text, position) == Cardinality({j \in 1..(position - 1) : text[j] = Break}) + 1

LineCount(text) == IF text = <<>> THEN 0 ELSE LineOf(text, Len(text))

Line(text, k) ==
    LET within == {i \in DOMAIN text : LineOf(text, i) = k /\ text[i] # Break}
    IN  IF within = {} THEN <<>>
        ELSE SubSeq(text, CHOOSE i \in within : \A j \in within : i <= j,
                          CHOOSE i \in within : \A j \in within : j <= i)

\* The merged text: one line per segment, if no segment has a break of its own.
Joined(segments) ==
    LET joined[k \in 0..Len(segments)] ==
          IF k = 0 THEN <<>>
          ELSE IF k = 1 THEN segments[1]
          ELSE joined[k - 1] \o <<Break>> \o segments[k]
    IN  joined[Len(segments)]

-----------------------------------------------------------------------------
(* The answer of the language model.                                       *)

Stripped(text) ==
    LET words == {i \in DOMAIN text : text[i] # Break}
    IN  IF words = {} THEN <<>>
        ELSE SubSeq(text, CHOOSE i \in words : \A j \in words : i <= j,
                          CHOOSE i \in words : \A j \in words : j <= i)

Acceptable(raw, fallback, answer, protected) ==
    /\ answer # <<>>
    /\ LineCount(answer) = LineCount(raw)
    /\ 100 * Len(answer) >= MinPercent * Len(raw)
    /\ \A t \in protected : Occurs(t, answer) \/ ~Occurs(t, fallback)

-----------------------------------------------------------------------------
(* CorrectionService.  An answer of <<>> stands for a model that is        *)
(* disabled, fails or says nothing.                                        *)

\* The first term of this id.
TermById(terms, id) == CHOOSE i \in DOMAIN terms : terms[i].id = id /\ \A j \in DOMAIN terms :
                          terms[j].id = id => i <= j

CorrectedSegments(segments, final) ==
    IF LineCount(final) = Len(segments)
      THEN [k \in DOMAIN segments |-> Line(final, k)]
      ELSE segments

Decision(m, original, corrected, applied, term) ==
    IF m.action = "candidate"
      THEN IF applied /\ corrected # original /\ Occurs(term.canonical, corrected)
             THEN "llm_verified" ELSE "review_required"
      ELSE IF corrected # original THEN "replaced" ELSE "kept"

\* A match outside the segments leaves no entry.
Audit(terms, raw, segments, final, matches, applied) ==
    LET Entry(m) ==
          LET k == LineOf(raw, m.start)
              original == segments[k]
              corrected == IF k <= LineCount(final) THEN Line(final, k) ELSE original
              term == terms[TermById(terms, m.id)]
          IN  [segment |-> k, match |-> m, term |-> term.canonical,
               original |-> original, corrected |-> corrected,
               decision |-> Decision(m, original, corrected, applied, term)]
    IN  {Entry(m) : m \in {n \in Range(matches) : LineOf(raw, n.start) \in DOMAIN segments}}

\* Whatever the model verified stays a review candidate.
Review(audit) ==
    {[segment |-> e.segment, text |-> e.match.original, term |-> e.term] :
        e \in {f \in audit : f.match.action = "candidate"}}

CorrectionOf(terms, segments, answer) ==
    LET raw == Joined(segments)
        matches == Matches(terms, raw)
        first == Rendered(raw, matches)
        said == Stripped(answer)
        applied == Acceptable(raw, first, said, Protected(matches))
        final == IF applied THEN said ELSE first
        audit == Audit(terms, raw, segments, final, matches, applied)
    IN  [terms |-> terms, raw |-> raw, segments |-> segments, matches |-> matches, first |-> first,
         final |-> final, corrected |-> CorrectedSegments(segments, final),
         audit |-> audit, review |-> Review(audit)]
=============================================================================
