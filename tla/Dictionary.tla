----------------------------- MODULE Dictionary -----------------------------
(***************************************************************************)
(* A correction worker beside the ingestions: it reads the dictionary file *)
(* once, when it starts, and corrects transcripts with what it read until  *)
(* it is restarted.                                                        *)
(***************************************************************************)
EXTENDS TermIngestion, RuleCorrection

CONSTANTS
    Transcript,  \* segment texts, as the merger leaves them
    Said,        \* answers of the language model; <<>> for none
    NotLoaded, NoResult

\* Phrases are stripped and empty ones dropped (term_dictionary.py:42-52); that names
\* are not empty and that a name or a phrase fits on one line is up to those who
\* maintain the dictionary.
ASSUME PhraseAssumption == Phrase \subseteq Seq(Word) \ {<<>>}
ASSUME TextAssumption == Transcript \subseteq Seq(Text) /\ Said \subseteq Text

VARIABLES
    dictionary,  \* the terms the worker has in memory
    result       \* of its last correction

workerVars == <<dictionary, result>>
vars == <<ingestVars, workerVars>>

Init ==
    /\ IngestInit
    /\ dictionary = NotLoaded /\ result = NoResult

Ingest == IngestNext /\ UNCHANGED workerVars

\* An unreadable file raises: the worker does not start.
Start ==
    /\ dictionary = NotLoaded
    /\ Readable(file)
    /\ dictionary' = file.terms
    /\ UNCHANGED <<ingestVars, result>>

\* The model may also repeat what the rules made of the text.
Answers(first) == Said \cup {first}

Correct(segments) ==
    /\ dictionary # NotLoaded
    /\ LET raw == Joined(segments)
           first == Rendered(raw, Matches(dictionary, raw))
       IN  \E answer \in Answers(first) :
              result' = CorrectionOf(dictionary, segments, answer)
    /\ UNCHANGED <<ingestVars, dictionary>>

Restart ==
    /\ dictionary # NotLoaded
    /\ dictionary' = NotLoaded /\ result' = NoResult
    /\ UNCHANGED ingestVars

Next == Ingest \/ Start \/ (\E segments \in Transcript : Correct(segments)) \/ Restart

Spec == Init /\ [][Next]_vars

-----------------------------------------------------------------------------
(* Properties.                                                             *)

Done == result # NoResult

\* The rules change what they log and nothing else: putting each original back in
\* the place of its replacement gives the raw text (rule_based_corrector.py:78-119).
OnlyMatchesChange ==
    Done => Rendered(result.raw, [i \in DOMAIN result.matches |->
                                    [result.matches[i] EXCEPT !.canonical = result.matches[i].original]])
              = result.raw

\* No replacement is forgotten: a phrase that may be replaced is left alone only
\* where it overlaps a match that was chosen before it.
NoReplacementSkipped ==
    Done => \A m \in Candidates(result.terms, result.raw) :
       m.action = "replaced" =>
          \E n \in Range(result.matches) : n.start <= m.start /\ m.start < n.end

\* Whatever the model answers, corrected segments keep their places: as many as
\* before, each of the text that was there or of the line of that number; and a name
\* the rules put in is still in the final text (validators.py:4-30, service.py:95-110).
SegmentsAndNamesStay ==
    Done =>
       /\ Len(result.corrected) = Len(result.segments)
       /\ LineCount(result.final) = LineCount(result.raw)
       /\ \A t \in Protected(result.matches) : Occurs(t, result.first) => Occurs(t, result.final)

\* All that a corrected transcript owes the raw one.
CorrectionIsFaithful == OnlyMatchesChange /\ NoReplacementSkipped /\ SegmentsAndNamesStay

PlainSegments == \A k \in DOMAIN result.segments : ~Contains(result.segments[k], Break)

\* Every audit entry is about its segment: the phrase it is about occurs there, and
\* every match has one (service.py:112-162, 209-226), unless a segment has a line
\* break of its own; what was only a candidate is up for review, even if the model
\* verified it.
AuditPointsHome ==
    Done /\ PlainSegments =>
       /\ \A e \in result.audit : Occurs(e.match.original, result.segments[e.segment])
       /\ \A m \in Range(result.matches) :
             /\ \E e \in result.audit : e.match = m
             /\ m.action = "candidate" => \E r \in result.review : r.text = m.original

\* An entry names the term that matched, although it is looked up again by its id
\* (glossary.py:71-75): no two terms a worker can ever load share one.
AuditNamesTerm == Done => \A e \in result.audit : e.term = e.match.canonical

\* An audit log can be trusted.
AuditIsTrue == AuditPointsHome /\ AuditNamesTerm

-----------------------------------------------------------------------------
(* The invariant behind them.                                              *)

Loaded(terms) == terms \in Seq(Term) /\ UniqueIds(terms)

Corrected(r) ==
    /\ Loaded(r.terms) /\ r.segments \in Transcript
    /\ \E answer \in Answers(r.first) : r = CorrectionOf(r.terms, r.segments, answer)

\* What a worker has in memory was once in the file.
DictInv ==
    /\ IngestInv
    /\ dictionary # NotLoaded => Loaded(dictionary)
    /\ Done => Corrected(result)
=============================================================================
