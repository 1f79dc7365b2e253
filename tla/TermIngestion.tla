---------------------------- MODULE TermIngestion ----------------------------
(***************************************************************************)
(* The term dictionary, one JSON file, and the command-line processes that *)
(* add terms to it or extend them.  A process reads the whole file,        *)
(* changes its copy and writes all of it back, with no lock and no         *)
(* temporary file: opening for writing truncates.  A process that finds    *)
(* the file unreadable raises and changes nothing.                         *)
(*                                                                         *)
(* Phrases are compared as _normalize_phrase leaves them.  Aliases and     *)
(* variants of a term are one set; description, source and confidence are  *)
(* carried along and decide nothing.                                       *)
(***************************************************************************)
EXTENDS Integers, Sequences, FiniteSets

CONSTANTS
    Ingester,      \* processes, each run once
    Request,       \* what they may be asked to upsert
    InitialTerms,  \* the dictionary of the repository
    Phrase, Keyword,
    MaxDay         \* bound: days that pass

Policy == {"safe", "context_required", "manual_review"}

\* "AWS_NET_007" is number 7 of the prefix AWS_NET, which is a number here.
Id == [prefix : Nat, number : Nat]

Term == [id : Id, canonical : Phrase, phrases : SUBSET Phrase, policy : Policy,
         keywords : SUBSET Keyword]

UniqueIds(terms) == \A i, j \in DOMAIN terms : terms[i].id = terms[j].id => i = j

ASSUME InitialAssumption == InitialTerms \in Seq(Term) /\ UniqueIds(InitialTerms)
ASSUME RequestAssumption ==
    Request \subseteq [canonical : Phrase, prefix : Nat, phrases : SUBSET Phrase,
                       policy : Policy, keywords : SUBSET Keyword]
ASSUME DayAssumption == MaxDay \in Nat

VARIABLES
    file,      \* truncated, garbled, or a whole dictionary
    today,
    pc,        \* per process: "started", "loaded", "writing", "done"
    request,
    copy,      \* the terms it will write
    reported,  \* what finished processes printed
    alone      \* no process ever ran while another one did, none crashed

ingestVars == <<file, today, pc, request, copy, reported, alone>>

Truncated == [kind |-> "truncated"]
Garbled == [kind |-> "garbled"]
Whole(version, terms) == [kind |-> "whole", version |-> version, terms |-> terms]

Readable(f) == f.kind = "whole"

IngestInit ==
    /\ file = Whole(0, InitialTerms)
    /\ today = 0
    /\ pc = [p \in Ingester |-> "started"]
    /\ request \in [Ingester -> Request]
    /\ copy = [p \in Ingester |-> <<>>]
    /\ reported = {}
    /\ alone = TRUE

-----------------------------------------------------------------------------
\* A candidate found in transcripts becomes one more phrase of a term.
Promoted(candidate, r) == [r EXCEPT !.phrases = @ \cup {candidate}]

\* Everything a term is known by.
TermPhrases(term) == term.phrases \cup {term.canonical}

First(S) == CHOOSE i \in S : \A j \in S : i <= j

\* The first term of this name, else the first that shares a phrase; 0 if none.
FindExisting(terms, r) ==
    LET named == {i \in DOMAIN terms : terms[i].canonical = r.canonical}
        sharing == {i \in DOMAIN terms : TermPhrases(terms[i]) \cap TermPhrases(r) # {}}
    IN  IF named # {} THEN First(named) ELSE IF sharing # {} THEN First(sharing) ELSE 0

WithPrefix(terms, prefix) == {i \in DOMAIN terms : terms[i].id.prefix = prefix}

\* Mutant: ids are handed out by counting.
NextNumber_Counts(terms, prefix) == Cardinality(WithPrefix(terms, prefix)) + 1

NextNumber(terms, prefix) ==
    LET numbers == {terms[i].id.number : i \in WithPrefix(terms, prefix)}
    IN  IF numbers = {} THEN 1 ELSE (CHOOSE n \in numbers : \A k \in numbers : k <= n) + 1

NewTerm(terms, r) ==
    [id |-> [prefix |-> r.prefix, number |-> NextNumber(terms, r.prefix)],
     canonical |-> r.canonical, phrases |-> r.phrases, policy |-> r.policy,
     keywords |-> r.keywords]

\* The name of a term stays, and a policy once loosened is never tightened.
Extended(term, r) ==
    [term EXCEPT !.phrases = @ \cup r.phrases, !.keywords = @ \cup r.keywords,
                 !.policy = IF @ = "manual_review" THEN r.policy ELSE @]

Upserted(terms, r) ==
    LET i == FindExisting(terms, r)
    IN  IF i = 0 THEN Append(terms, NewTerm(terms, r))
        ELSE [terms EXCEPT ![i] = Extended(@, r)]

Loadable(f) == IF Readable(f) THEN {f.terms} ELSE {}

Load(p) ==
    /\ pc[p] = "started"
    /\ \E terms \in Loadable(file) : copy' = [copy EXCEPT ![p] = Upserted(terms, request[p])]
    /\ pc' = [pc EXCEPT ![p] = "loaded"]
    /\ alone' = (alone /\ \A q \in Ingester : pc[q] \in {"started", "done"})
    /\ UNCHANGED <<file, today, request, reported>>

Truncate(p) ==
    /\ pc[p] = "loaded"
    /\ file' = Truncated
    /\ pc' = [pc EXCEPT ![p] = "writing"]
    /\ UNCHANGED <<today, request, copy, reported, alone>>

\* The text lands at the start of the file.  If another process has written there
\* meanwhile and its text is longer, the rest of that stays behind it.
Fill(p) ==
    /\ pc[p] = "writing"
    /\ \/ file' = Whole(today, copy[p])
       \/ file # Truncated /\ file' = Garbled
    /\ pc' = [pc EXCEPT ![p] = "done"]
    /\ reported' = reported \cup {request[p]}
    /\ UNCHANGED <<today, request, copy, alone>>

\* Buffered text may be lost or written in part.
Crash(p) ==
    /\ pc[p] \in {"loaded", "writing"}
    /\ file' \in {file} \cup (IF pc[p] = "writing" THEN {Garbled} ELSE {})
    /\ pc' = [pc EXCEPT ![p] = "done"]
    /\ alone' = FALSE
    /\ UNCHANGED <<today, request, copy, reported>>

Midnight ==
    /\ today < MaxDay
    /\ today' = today + 1
    /\ UNCHANGED <<file, pc, request, copy, reported, alone>>

IngestNext ==
    \/ \E p \in Ingester : Load(p) \/ Truncate(p) \/ Fill(p) \/ Crash(p)
    \/ Midnight

IngestSpec == IngestInit /\ [][IngestNext]_ingestVars

-----------------------------------------------------------------------------
(* Properties.                                                             *)

Copies == {copy[p] : p \in Ingester} \cup (IF Readable(file) THEN {file.terms} ELSE {})

\* Ids are unique in the file and in every copy about to become the file,
\* whatever numbers are missing and whatever raced (term_ingestion.py:82, 173-182).
IdsUnique == \A terms \in Copies : UniqueIds(terms)

\* What was asked for is there: all its phrases lead to one term.
Leads(terms, r) == \E i \in DOMAIN terms : r.phrases \subseteq TermPhrases(terms[i])

\* What a process reported is in the file, as long as processes ran one after the
\* other (term_ingestion.py:72-99 takes no lock; see InitialTermsStay for what holds
\* without that).
ReportedIsKept == alone /\ Readable(file) => \A r \in reported : Leads(file.terms, r)

HasInitial(terms) ==
    \A i \in DOMAIN InitialTerms :
       /\ i \in DOMAIN terms
       /\ terms[i].id = InitialTerms[i].id
       /\ terms[i].canonical = InitialTerms[i].canonical
       /\ InitialTerms[i].phrases \subseteq terms[i].phrases

\* Races and crashes lose additions or the whole file, but never silently a term
\* that was there: every readable version has all the initial terms, under their ids
\* and names and with all their phrases (term_ingestion.py:144-161).
InitialTermsStay == Readable(file) => HasInitial(file.terms)

\* All of what a dictionary owes the people who maintain it.
DictionaryIntact == IdsUnique /\ ReportedIsKept /\ InitialTermsStay

-----------------------------------------------------------------------------
(* The invariant behind them.                                              *)

Busy(p) == pc[p] \in {"loaded", "writing"}

IngestTypeOK ==
    /\ Readable(file) => file.terms \in Seq(Term)
    /\ pc \in [Ingester -> {"started", "loaded", "writing", "done"}]
    /\ request \in [Ingester -> Request]
    /\ copy \in [Ingester -> Seq(Term)]
    /\ reported \subseteq Request
    /\ alone \in BOOLEAN

\* Every copy a process may still write is as good as the file.
CopiesIntact ==
    /\ Readable(file) => UniqueIds(file.terms) /\ HasInitial(file.terms)
    /\ \A p \in Ingester : UniqueIds(copy[p]) /\ (Busy(p) => HasInitial(copy[p]))

\* As long as processes take turns, the one at work has all that was reported.
TakingTurns ==
    /\ \A p, q \in Ingester : Busy(p) /\ Busy(q) => p = q
    /\ \A p \in Ingester : Busy(p) =>
          \A r \in reported \cup {request[p]} : Leads(copy[p], r)
    /\ Readable(file) => \A r \in reported : Leads(file.terms, r)

IngestInv == IngestTypeOK /\ CopiesIntact /\ (alone => TakingTurns)
=============================================================================
