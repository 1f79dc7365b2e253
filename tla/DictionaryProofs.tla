-------------------------- MODULE DictionaryProofs --------------------------
(***************************************************************************)
(* Proofs about TermIngestion, RuleCorrection and Dictionary, for every    *)
(* number of processes, every initial dictionary with unique ids, all      *)
(* requests, all transcripts and every answer of the language model.       *)
(*                                                                         *)
(* What a recursive function of RuleCorrection (Selected, Rendered,        *)
(* Joined) returns is what its equations say of the CHOOSE that stands for *)
(* it: a function that satisfies them exists (ChainExists), and a property *)
(* of its values holds up to the last, or there is a least where it does   *)
(* not (UpTo).                                                             *)
(***************************************************************************)
EXTENDS Dictionary, FiniteSetTheorems, SequenceTheorems, WellFoundedInduction, TLAPS

-----------------------------------------------------------------------------
(* Choices that exist.                                                     *)

LEMMA LeastExists ==
    ASSUME NEW S \in SUBSET Nat, S # {}
    PROVE  \E n \in S : \A k \in S : n <= k
<1>. DEFINE less == OpToRel(<, Nat)
<1>1. IsWellFoundedOn(less, Nat)
  BY NatLessThanWellFounded
<1>2. \A x, y \in Nat : <<x, y>> \in less <=> x < y
  BY DEF OpToRel
<1>. HIDE DEF less
<1>3. PICK n \in S : \A k \in S : ~(<<k, n>> \in less)
  BY <1>1, WFMin
<1>4. ASSUME NEW k \in S PROVE n <= k
  <2>1. n \in Nat /\ k \in Nat
    OBVIOUS
  <2>2. ~(k < n)
    BY <1>2, <1>3, <2>1
  <2>. QED
    BY <2>1, <2>2
<1>. QED
  BY <1>4

\* A set of naturals that has a bound has a greatest element.
LEMMA GreatestExists ==
    ASSUME NEW S \in SUBSET Nat, S # {}, NEW b \in Nat, \A k \in S : k <= b
    PROVE  \E n \in S : \A k \in S : k <= n
<1>. DEFINE above == {n \in Nat : \A k \in S : k <= n}
<1>1. above \in SUBSET Nat /\ above # {}
  OBVIOUS
<1>2. PICK n \in above : \A m \in above : n <= m
  BY <1>1, LeastExists
<1>3. n \in Nat /\ \A k \in S : k <= n /\ k \in Nat
  BY <1>2
<1>4. n \in S
  <2>. SUFFICES ASSUME n \notin S PROVE FALSE
    OBVIOUS
  <2>1. \A k \in S : k < n
    BY <1>3
  <2>2. PICK k0 \in S : TRUE
    OBVIOUS
  <2>3. n - 1 \in Nat
    BY <1>3, <2>1, <2>2
  <2>4. \A k \in S : k <= n - 1
    BY <1>3, <2>1
  <2>5. n - 1 \in above
    BY <2>3, <2>4
  <2>6. n <= n - 1
    BY <1>2, <2>5
  <2>. QED
    BY <1>3, <2>6
<1>. QED
  BY <1>3, <1>4

LEMMA SumIsBound == \A x, y \in Nat : x + y \in Nat /\ x <= x + y /\ y <= x + y
  OBVIOUS

LEMMA LeqIsTransitive == \A x, y, z \in Nat : x <= y /\ y <= z => x <= z
  OBVIOUS

LEMMA LastOfInterval == \A n \in Nat : \A i \in 1..n : i = n \/ i \in 1..(n - 1)
  OBVIOUS

\* The numbers in a dictionary have a bound: by the least prefix of the
\* dictionary that has none.
LEMMA NumbersBounded ==
    ASSUME NEW terms \in Seq(Term)
    PROVE  \E b \in Nat : \A i \in DOMAIN terms : terms[i].id.number <= b
<1>. DEFINE num(i) == terms[i].id.number
            Bounded(n) == \E b \in Nat : \A i \in 1..n : num(i) <= b
            unbounded == {n \in 0..Len(terms) : ~Bounded(n)}
<1>1. Len(terms) \in Nat /\ DOMAIN terms = 1..Len(terms)
  OBVIOUS
<1>2. \A i \in 1..Len(terms) : num(i) \in Nat
  <2>1. \A i \in 1..Len(terms) : terms[i] \in Term
    BY <1>1
  <2>. QED
    BY <2>1 DEF Term, Id
<1>3. ASSUME NEW n \in 1..Len(terms), Bounded(n - 1) PROVE Bounded(n)
  <2>. HIDE DEF num
  <2>1. n \in Nat /\ num(n) \in Nat
    BY <1>1, <1>2
  <2>2. PICK b \in Nat : \A i \in 1..(n - 1) : num(i) <= b
    BY <1>3
  <2>. DEFINE both == b + num(n)
  <2>3. both \in Nat /\ b <= both /\ num(n) <= both
    BY <2>1, SumIsBound
  <2>. HIDE DEF both
  <2>4. ASSUME NEW i \in 1..n PROVE num(i) <= both
    <3>1. CASE i = n
      BY <2>3, <3>1
    <3>2. CASE i \in 1..(n - 1)
      <4>1. num(i) <= b
        BY <2>2, <3>2
      <4>2. i \in 1..Len(terms)
        BY <1>1
      <4>3. num(i) \in Nat
        BY <1>2, <4>2
      <4>. QED
        BY <2>3, <4>1, <4>3, LeqIsTransitive
    <3>. QED
      BY <2>1, <3>1, <3>2, LastOfInterval
  <2>. QED
    BY <2>3, <2>4
<1>. HIDE DEF num
<1>4. Bounded(0)
  <2>1. \A i \in 1..0 : num(i) <= 0
    OBVIOUS
  <2>. QED
    BY <2>1
<1>. HIDE DEF Bounded
<1>5. unbounded = {}
  <2>. SUFFICES ASSUME unbounded # {} PROVE FALSE
    OBVIOUS
  <2>1. unbounded \in SUBSET Nat
    BY <1>1
  <2>2. PICK n \in unbounded : \A k \in unbounded : n <= k
    BY <2>1, LeastExists
  <2>3. n \in 0..Len(terms) /\ ~Bounded(n)
    BY <2>2
  <2>4. n # 0
    BY <1>4, <2>3
  <2>5. n \in 1..Len(terms) /\ n - 1 \in 0..Len(terms) /\ ~(n <= n - 1)
    BY <1>1, <2>3, <2>4
  <2>6. n - 1 \notin unbounded
    BY <2>2, <2>5
  <2>7. Bounded(n - 1)
    BY <2>5, <2>6
  <2>8. Bounded(n)
    BY <1>3, <2>5, <2>7
  <2>. QED
    BY <2>3, <2>8
<1>6. Bounded(Len(terms))
  BY <1>1, <1>5
<1>. QED
  BY <1>1, <1>6 DEF Bounded, num

-----------------------------------------------------------------------------
(* Upserting.                                                              *)

\* A number that is handed out is no other term's.
LEMMA NumberIsFresh ==
    ASSUME NEW terms \in Seq(Term), NEW prefix \in Nat
    PROVE  /\ NextNumber(terms, prefix) \in Nat
           /\ \A i \in WithPrefix(terms, prefix) : terms[i].id.number # NextNumber(terms, prefix)
<1>. DEFINE numbers == {terms[i].id.number : i \in WithPrefix(terms, prefix)}
<1>1. \A i \in DOMAIN terms : terms[i] \in Term
  OBVIOUS
<1>2. numbers \in SUBSET Nat
  BY <1>1 DEF WithPrefix, Term, Id
<1>3. NextNumber(terms, prefix)
        = IF numbers = {} THEN 1 ELSE (CHOOSE n \in numbers : \A k \in numbers : k <= n) + 1
  BY DEF NextNumber
<1>4. CASE numbers = {}
  BY <1>3, <1>4
<1>5. CASE numbers # {}
  <2>1. PICK b \in Nat : \A k \in numbers : k <= b
    BY NumbersBounded DEF WithPrefix
  <2>. DEFINE top == CHOOSE n \in numbers : \A k \in numbers : k <= n
  <2>2. \E n \in numbers : \A k \in numbers : k <= n
    <3>. HIDE DEF numbers
    <3>. QED
      BY <1>2, <1>5, <2>1, GreatestExists
  <2>3. top \in numbers /\ \A k \in numbers : k <= top
    <3>. HIDE DEF numbers
    <3>. QED
      BY <2>2
  <2>4. NextNumber(terms, prefix) = top + 1
    BY <1>3, <1>5
  <2>5. ASSUME NEW k \in numbers PROVE k # top + 1
    <3>. HIDE DEF numbers, top
    <3>1. k \in Nat /\ top \in Nat /\ k <= top
      BY <1>2, <2>3
    <3>. QED
      BY <3>1
  <2>6. top \in Nat
    <3>. HIDE DEF numbers, top
    <3>. QED
      BY <1>2, <2>3
  <2>7. ASSUME NEW i \in WithPrefix(terms, prefix) PROVE terms[i].id.number \in numbers
    OBVIOUS
  <2>. HIDE DEF numbers, top
  <2>. QED
    BY <2>4, <2>5, <2>6, <2>7
<1>. QED
  BY <1>4, <1>5

LEMMA ExistingIsThere ==
    ASSUME NEW terms \in Seq(Term), NEW r
    PROVE  FindExisting(terms, r) = 0 \/ FindExisting(terms, r) \in DOMAIN terms
<1>1. ASSUME NEW S \in SUBSET DOMAIN terms, S # {} PROVE First(S) \in DOMAIN terms
  <2>1. DOMAIN terms \in SUBSET Nat
    OBVIOUS
  <2>2. \E n \in S : \A k \in S : n <= k
    BY <1>1, <2>1, LeastExists
  <2>. QED
    BY <2>2 DEF First
<1>. DEFINE named == {i \in DOMAIN terms : terms[i].canonical = r.canonical}
            sharing == {i \in DOMAIN terms : TermPhrases(terms[i]) \cap TermPhrases(r) # {}}
<1>2. named \in SUBSET DOMAIN terms /\ sharing \in SUBSET DOMAIN terms
  OBVIOUS
<1>3. FindExisting(terms, r)
        = IF named # {} THEN First(named) ELSE IF sharing # {} THEN First(sharing) ELSE 0
  BY DEF FindExisting
<1>. HIDE DEF named, sharing
<1>. QED
  BY <1>1, <1>2, <1>3

\* An upsert keeps all terms and their phrases in place, keeps ids unique, and
\* makes the request lead to a term.
LEMMA UpsertKeeps ==
    ASSUME NEW terms \in Seq(Term), NEW r \in Request
    PROVE  /\ Upserted(terms, r) \in Seq(Term)
           /\ UniqueIds(terms) => UniqueIds(Upserted(terms, r))
           /\ HasInitial(terms) => HasInitial(Upserted(terms, r))
           /\ Leads(Upserted(terms, r), r)
           /\ \A x \in Request : Leads(terms, x) => Leads(Upserted(terms, r), x)
<1>. DEFINE at == FindExisting(terms, r)
            res == Upserted(terms, r)
<1>0. /\ r.canonical \in Phrase /\ r.prefix \in Nat /\ r.phrases \in SUBSET Phrase
      /\ r.policy \in Policy /\ r.keywords \in SUBSET Keyword
  BY RequestAssumption
<1>1. \A i \in DOMAIN terms : terms[i] \in Term
  OBVIOUS
<1>2. DOMAIN terms = 1..Len(terms) /\ Len(terms) \in Nat
  OBVIOUS
<1>3. CASE at = 0
  <2>. DEFINE new == NewTerm(terms, r)
  <2>1. res = Append(terms, new)
    BY <1>3 DEF Upserted
  <2>2. /\ new \in Term /\ new.id.prefix = r.prefix /\ new.id.number = NextNumber(terms, r.prefix)
        /\ new.phrases = r.phrases
    BY <1>0, NumberIsFresh DEF NewTerm, Term, Id
  <2>3. \A i \in DOMAIN terms : terms[i].id # new.id
    BY <1>0, <2>2, NumberIsFresh DEF WithPrefix
  <2>. HIDE DEF new, res
  <2>4. /\ res \in Seq(Term) /\ DOMAIN res = 1..(Len(terms) + 1)
        /\ \A i \in 1..Len(terms) : res[i] = terms[i]
        /\ res[Len(terms) + 1] = new
    BY <2>1, <2>2
  <2>5. \A i \in DOMAIN res : i \in DOMAIN terms \/ i = Len(terms) + 1
    BY <1>2, <2>4
  <2>6. UniqueIds(terms) => UniqueIds(res)
    BY <1>2, <2>3, <2>4, <2>5 DEF UniqueIds
  <2>7. HasInitial(terms) => HasInitial(res)
    BY <1>2, <2>4 DEF HasInitial
  <2>8. Leads(res, r)
    BY <1>2, <2>2, <2>4 DEF Leads, TermPhrases
  <2>9. \A x \in Request : Leads(terms, x) => Leads(res, x)
    BY <1>2, <2>4 DEF Leads
  <2>. QED
    BY <2>4, <2>6, <2>7, <2>8, <2>9 DEF res
<1>4. CASE at \in DOMAIN terms
  <2>. DEFINE new == Extended(terms[at], r)
  <2>0. at # 0
    BY <1>2, <1>4
  <2>1. res = [terms EXCEPT ![at] = new]
    BY <2>0 DEF Upserted
  <2>2. terms[at] \in Term
    BY <1>1, <1>4
  <2>3. /\ new \in Term /\ new.id = terms[at].id /\ new.canonical = terms[at].canonical
        /\ new.phrases = terms[at].phrases \cup r.phrases
    BY <1>0, <2>2 DEF Extended, Term
  <2>. HIDE DEF new, res, at
  <2>4. /\ res \in Seq(Term) /\ DOMAIN res = DOMAIN terms
        /\ \A i \in DOMAIN terms : res[i] = IF i = at THEN new ELSE terms[i]
    BY <1>4, <2>1, <2>3
  <2>5. \A i \in DOMAIN terms : /\ res[i].id = terms[i].id /\ res[i].canonical = terms[i].canonical
                                /\ terms[i].phrases \subseteq res[i].phrases
    BY <2>3, <2>4
  <2>6. UniqueIds(terms) => UniqueIds(res)
    BY <2>4, <2>5 DEF UniqueIds
  <2>7. HasInitial(terms) => HasInitial(res)
    BY <2>4, <2>5 DEF HasInitial
  <2>8. Leads(res, r)
    BY <1>4, <2>3, <2>4 DEF Leads, TermPhrases
  <2>9. \A x \in Request : Leads(terms, x) => Leads(res, x)
    BY <2>4, <2>5 DEF Leads, TermPhrases
  <2>. QED
    BY <2>4, <2>6, <2>7, <2>8, <2>9 DEF res
<1>. QED
  BY <1>3, <1>4, ExistingIsThere

-----------------------------------------------------------------------------
(* Processes.                                                              *)

LEMMA TypeStep == IngestTypeOK /\ [IngestNext]_ingestVars => IngestTypeOK'
<1>. SUFFICES ASSUME IngestTypeOK, [IngestNext]_ingestVars PROVE IngestTypeOK'
  OBVIOUS
<1>. USE DEF IngestTypeOK
<1>1. ASSUME NEW p \in Ingester, Load(p) PROVE IngestTypeOK'
  <2>1. Readable(file) /\ copy' = [copy EXCEPT ![p] = Upserted(file.terms, request[p])]
    BY <1>1 DEF Load, Loadable
  <2>2. Upserted(file.terms, request[p]) \in Seq(Term)
    BY <2>1, UpsertKeeps
  <2>. HIDE DEF Upserted
  <2>3. alone' \in BOOLEAN
    BY <1>1 DEF Load
  <2>. QED
    BY <1>1, <2>1, <2>2, <2>3 DEF Load, Readable
<1>2. ASSUME NEW p \in Ingester, Truncate(p) PROVE IngestTypeOK'
  BY <1>2 DEF Truncate, Truncated, Readable
<1>3. ASSUME NEW p \in Ingester, Fill(p) PROVE IngestTypeOK'
  <2>1. Readable(file)' => file'.terms = copy[p]
    BY <1>3 DEF Fill, Whole, Garbled, Readable
  <2>2. request[p] \in Request /\ copy[p] \in Seq(Term)
    OBVIOUS
  <2>. QED
    BY <1>3, <2>1, <2>2 DEF Fill
<1>4. ASSUME NEW p \in Ingester, Crash(p) PROVE IngestTypeOK'
  <2>1. Readable(file)' => file' = file
    BY <1>4 DEF Crash, Garbled, Readable
  <2>. QED
    BY <1>4, <2>1 DEF Crash, Readable
<1>5. CASE Midnight \/ UNCHANGED ingestVars
  BY <1>5 DEF Midnight, ingestVars, Readable
<1>. QED
  BY <1>1, <1>2, <1>3, <1>4, <1>5 DEF IngestNext

LEMMA CopiesStep ==
    ASSUME IngestTypeOK, CopiesIntact, [IngestNext]_ingestVars
    PROVE  CopiesIntact'
<1>. USE DEF IngestTypeOK, CopiesIntact
<1>1. ASSUME NEW p \in Ingester, Load(p) PROVE CopiesIntact'
  <2>. DEFINE new == Upserted(file.terms, request[p])
  <2>1. Readable(file) /\ copy' = [copy EXCEPT ![p] = new]
    BY <1>1 DEF Load, Loadable
  <2>2. UniqueIds(new) /\ HasInitial(new)
    BY <2>1, UpsertKeeps
  <2>3. file' = file /\ pc' = [pc EXCEPT ![p] = "loaded"]
    BY <1>1 DEF Load
  <2>. HIDE DEF new
  <2>. QED
    BY <2>1, <2>2, <2>3 DEF Busy, Readable
<1>2. ASSUME NEW p \in Ingester, Truncate(p) PROVE CopiesIntact'
  BY <1>2 DEF Truncate, Truncated, Readable, Busy
<1>3. ASSUME NEW p \in Ingester, Fill(p) PROVE CopiesIntact'
  <2>1. Readable(file)' => file'.terms = copy[p]
    BY <1>3 DEF Fill, Whole, Garbled, Readable
  <2>2. UniqueIds(copy[p]) /\ HasInitial(copy[p])
    BY <1>3 DEF Fill, Busy
  <2>. QED
    BY <1>3, <2>1, <2>2 DEF Fill, Busy
<1>4. ASSUME NEW p \in Ingester, Crash(p) PROVE CopiesIntact'
  <2>1. Readable(file)' => file' = file
    BY <1>4 DEF Crash, Garbled, Readable
  <2>. QED
    BY <1>4, <2>1 DEF Crash, Readable, Busy
<1>5. CASE Midnight \/ UNCHANGED ingestVars
  BY <1>5 DEF Midnight, ingestVars, Readable, Busy
<1>. QED
  BY <1>1, <1>2, <1>3, <1>4, <1>5 DEF IngestNext

LEMMA TurnsStep ==
    ASSUME IngestTypeOK, alone => TakingTurns, [IngestNext]_ingestVars, alone'
    PROVE  TakingTurns'
<1>. USE DEF IngestTypeOK, TakingTurns
<1>0. alone
  BY DEF IngestNext, Load, Truncate, Fill, Crash, Midnight, ingestVars
<1>1. ASSUME NEW p \in Ingester, Load(p) PROVE TakingTurns'
  <2>. DEFINE new == Upserted(file.terms, request[p])
  <2>1. Readable(file) /\ copy' = [copy EXCEPT ![p] = new]
    BY <1>1 DEF Load, Loadable
  <2>2. \A q \in Ingester : ~Busy(q)
    BY <1>1 DEF Load, Busy
  <2>3. \A r \in reported \cup {request[p]} : Leads(new, r)
    BY <1>0, <2>1, UpsertKeeps
  <2>4. /\ file' = file /\ pc' = [pc EXCEPT ![p] = "loaded"]
        /\ request' = request /\ reported' = reported
    BY <1>1 DEF Load
  <2>. HIDE DEF new
  <2>. QED
    BY <1>0, <2>1, <2>2, <2>3, <2>4 DEF Busy, Readable
<1>2. ASSUME NEW p \in Ingester, Truncate(p) PROVE TakingTurns'
  BY <1>0, <1>2 DEF Truncate, Truncated, Readable, Busy
<1>3. ASSUME NEW p \in Ingester, Fill(p) PROVE TakingTurns'
  <2>1. Readable(file)' => file'.terms = copy[p]
    BY <1>3 DEF Fill, Whole, Garbled, Readable
  <2>2. \A q \in Ingester : Busy(q) => q = p
    BY <1>0, <1>3 DEF Fill, Busy
  <2>3. \A r \in reported \cup {request[p]} : Leads(copy[p], r)
    BY <1>0, <1>3 DEF Fill, Busy
  <2>4. \A q \in Ingester : ~Busy(q)'
    BY <1>3, <2>2 DEF Fill, Busy
  <2>. QED
    BY <1>3, <2>1, <2>3, <2>4 DEF Fill
<1>4. ASSUME NEW p \in Ingester, Crash(p) PROVE TakingTurns'
  BY <1>4 DEF Crash
<1>5. CASE Midnight \/ UNCHANGED ingestVars
  BY <1>0, <1>5 DEF Midnight, ingestVars, Readable, Busy
<1>. QED
  BY <1>1, <1>2, <1>3, <1>4, <1>5 DEF IngestNext

LEMMA InitIngestInv == IngestInit => IngestInv
<1>. SUFFICES ASSUME IngestInit PROVE IngestInv
  OBVIOUS
<1>1. IngestTypeOK
  BY InitialAssumption DEF IngestInit, IngestTypeOK, Whole
<1>2. CopiesIntact
  <2>1. UniqueIds(InitialTerms) /\ HasInitial(InitialTerms)
    BY InitialAssumption DEF HasInitial
  <2>2. \A p \in Ingester : copy[p] = <<>> /\ ~Busy(p)
    BY DEF IngestInit, Busy
  <2>3. UniqueIds(<<>>)
    BY DEF UniqueIds
  <2>. QED
    BY <2>1, <2>2, <2>3 DEF IngestInit, CopiesIntact, Whole
<1>3. TakingTurns
  BY DEF IngestInit, TakingTurns, Busy
<1>. QED
  BY <1>1, <1>2, <1>3 DEF IngestInv

-----------------------------------------------------------------------------
(* The ingestions alone.                                                   *)

\* What every process has in hand may become the file, in any order.
THEOREM SpecIngestInv == IngestSpec => []IngestInv
<1>1. IngestInv /\ [IngestNext]_ingestVars => IngestInv'
  BY TypeStep, CopiesStep, TurnsStep DEF IngestInv
<1>. QED
  BY <1>1, InitIngestInv, PTL DEF IngestSpec

\* Ids stay unique and the terms that were there stay, whatever races and crashes;
\* and what was reported stays as long as processes take turns.
THEOREM IngestionIsSafe == IngestSpec => []DictionaryIntact
<1>1. IngestInv => DictionaryIntact
  BY DEF IngestInv, CopiesIntact, TakingTurns, DictionaryIntact, IdsUnique, Copies,
         ReportedIsKept, InitialTermsStay
<1>. QED
  BY <1>1, SpecIngestInv, PTL

-----------------------------------------------------------------------------
(* Recursive functions on an interval, and ranks in a finite order.        *)

\* f begins with b, and each value is g of the one before.
IsChain(f, n, b, g) ==
    /\ DOMAIN f = 0..n
    /\ f[0] = b
    /\ \A k \in 1..n : f[k] = g[<<f[k - 1], k>>]

\* By the least length that has none.
LEMMA ChainExists ==
    ASSUME NEW T, NEW n \in Nat, NEW b \in T, NEW g \in [T \X (1..n) -> T]
    PROVE  \E f \in [0..n -> T] : IsChain(f, n, b, g)
<1>. DEFINE bad == {k \in 0..n : ~ \E f \in [0..k -> T] : IsChain(f, k, b, g)}
<1>1. SUFFICES ASSUME bad # {} PROVE FALSE
  <2>1. n \in 0..n
    OBVIOUS
  <2>. QED
    BY <1>1, <2>1
<1>2. PICK k \in bad : \A m \in bad : k <= m
  <2>1. bad \in SUBSET Nat
    OBVIOUS
  <2>. HIDE DEF bad
  <2>. QED
    BY <1>1, <2>1, LeastExists
<1>3. k \in 0..n /\ ~ \E f \in [0..k -> T] : IsChain(f, k, b, g)
  OBVIOUS
<1>4. k # 0
  <2>1. SUFFICES ASSUME k = 0 PROVE FALSE
    OBVIOUS
  <2>2. 0..0 = {0} /\ 1..0 = {}
    OBVIOUS
  <2>3. [i \in 0..0 |-> b] \in [0..0 -> T] /\ IsChain([i \in 0..0 |-> b], 0, b, g)
    BY <2>2 DEF IsChain
  <2>. QED
    BY <1>3, <2>1, <2>3
<1>. DEFINE j == k - 1
<1>5. k \in 1..n /\ j \in 0..n /\ ~(k <= j) /\ k = j + 1 /\ j \in Nat /\ k \in Nat
  BY <1>3, <1>4
<1>6. j \notin bad
  BY <1>2, <1>5
<1>7. PICK f \in [0..j -> T] : IsChain(f, j, b, g)
  BY <1>5, <1>6
<1>. HIDE DEF bad, j
<1>. DEFINE h == [i \in 0..k |-> IF i = k THEN g[<<f[j], k>>] ELSE f[i]]
<1>8. f[j] \in T /\ g[<<f[j], k>>] \in T
  BY <1>5, <1>7
<1>9. h \in [0..k -> T]
  <2>1. ASSUME NEW i \in 0..k, i # k PROVE f[i] \in T
    <3>1. i \in 0..j
      BY <1>5, <2>1
    <3>. QED
      BY <1>7, <3>1
  <2>. QED
    BY <1>8, <2>1
<1>10. IsChain(h, k, b, g)
  <2>1. h[0] = b
    BY <1>5, <1>7 DEF IsChain
  <2>2. ASSUME NEW i \in 1..k PROVE h[i] = g[<<h[i - 1], i>>]
    <3>1. CASE i = k
      <4>1. h[i] = g[<<f[j], k>>]
        BY <3>1, <1>5
      <4>2. i - 1 = j /\ j \in 0..k /\ j # k
        BY <3>1, <1>5
      <4>3. h[j] = f[j]
        BY <4>2
      <4>. QED
        BY <3>1, <4>1, <4>2, <4>3
    <3>2. CASE i # k
      <4>1. i \in 1..j /\ i \in 0..k /\ i - 1 \in 0..k /\ i - 1 # k
        BY <3>2, <1>5
      <4>2. h[i] = f[i] /\ h[i - 1] = f[i - 1]
        BY <3>2, <4>1
      <4>3. f[i] = g[<<f[i - 1], i>>]
        BY <4>1, <1>7 DEF IsChain
      <4>. QED
        BY <4>2, <4>3
    <3>. QED
      BY <3>1, <3>2
  <2>3. DOMAIN h = 0..k
    OBVIOUS
  <2>. QED
    BY <2>1, <2>2, <2>3 DEF IsChain
<1>. QED
  BY <1>3, <1>9, <1>10

\* What holds at 0 and goes on, holds up to n.
Inductive(P, n) == 0 \in P /\ \A k \in 1..n : k - 1 \in P => k \in P

LEMMA UpTo ==
    ASSUME NEW n \in Nat, NEW P, Inductive(P, n)
    PROVE  \A k \in 0..n : k \in P
<1>. DEFINE bad == (0..n) \ P
<1>1. SUFFICES ASSUME bad # {} PROVE FALSE
  OBVIOUS
<1>2. PICK k \in bad : \A m \in bad : k <= m
  <2>1. bad \in SUBSET Nat
    OBVIOUS
  <2>. HIDE DEF bad
  <2>. QED
    BY <1>1, <2>1, LeastExists
<1>3. k \in 1..n /\ k \notin P
  BY DEF Inductive
<1>4. k - 1 \in 0..n /\ ~(k <= k - 1)
  BY <1>3
<1>5. k - 1 \in P
  BY <1>2, <1>4
<1>. QED
  BY <1>3, <1>5 DEF Inductive

\* R is a strict order of S in which any two are comparable.
Orders(R, S) ==
    /\ \A x \in S : <<x, x>> \notin R
    /\ \A x, y, z \in S : <<x, y>> \in R /\ <<y, z>> \in R => <<x, z>> \in R
    /\ \A x, y \in S : x = y \/ <<x, y>> \in R \/ <<y, x>> \in R

RankIn(R, S, x) == Cardinality({y \in S : <<y, x>> \in R}) + 1

LEMMA RankRises ==
    ASSUME NEW S, IsFiniteSet(S), NEW R, Orders(R, S), NEW x \in S
    PROVE  /\ RankIn(R, S, x) \in 1..Cardinality(S)
           /\ \A y \in S : <<x, y>> \in R => RankIn(R, S, x) < RankIn(R, S, y)
<1>. DEFINE Under(y) == {z \in S : <<z, y>> \in R}
<1>1. ASSUME NEW y \in S
      PROVE  /\ Under(y) \in SUBSET S /\ y \notin Under(y)
             /\ IsFiniteSet(Under(y)) /\ Cardinality(Under(y)) \in Nat
             /\ RankIn(R, S, y) = Cardinality(Under(y)) + 1
  <2>1. Under(y) \in SUBSET S /\ y \notin Under(y)
    BY DEF Orders
  <2>2. IsFiniteSet(Under(y))
    BY <2>1, FS_Subset
  <2>. QED
    BY <2>1, <2>2, FS_CardinalityType DEF RankIn
<1>2. Cardinality(S) \in Nat
  BY FS_CardinalityType
<1>3. RankIn(R, S, x) \in 1..Cardinality(S)
  <2>. DEFINE T == Under(x)
  <2>1. T \in SUBSET S /\ x \notin T /\ Cardinality(T) \in Nat /\ RankIn(R, S, x) = Cardinality(T) + 1
    BY <1>1
  <2>. HIDE DEF T
  <2>2. Cardinality(T) <= Cardinality(S) /\ (Cardinality(S) = Cardinality(T) => S = T)
    BY <2>1, FS_Subset
  <2>. QED
    BY <1>2, <2>1, <2>2
<1>4. ASSUME NEW y \in S, <<x, y>> \in R PROVE RankIn(R, S, x) < RankIn(R, S, y)
  <2>. DEFINE T == Under(x)
              U == Under(y)
  <2>1. T \in SUBSET U /\ x \in U /\ x \notin T
    BY <1>1, <1>4 DEF Orders
  <2>2. /\ IsFiniteSet(U) /\ Cardinality(T) \in Nat /\ Cardinality(U) \in Nat
        /\ RankIn(R, S, x) = Cardinality(T) + 1 /\ RankIn(R, S, y) = Cardinality(U) + 1
    BY <1>1
  <2>. HIDE DEF T, U
  <2>3. Cardinality(T) <= Cardinality(U) /\ (Cardinality(U) = Cardinality(T) => U = T)
    BY <2>1, <2>2, FS_Subset
  <2>. QED
    BY <2>1, <2>2, <2>3
<1>. QED
  BY <1>3, <1>4

\* Every rank is taken, and only once.
LEMMA RanksAreTaken ==
    ASSUME NEW S, IsFiniteSet(S), NEW R, Orders(R, S)
    PROVE  /\ \A k \in 1..Cardinality(S) : \E x \in S : RankIn(R, S, x) = k
           /\ \A x, y \in S : RankIn(R, S, x) = RankIn(R, S, y) => x = y
<1>. DEFINE n == Cardinality(S)
            rank == [x \in S |-> RankIn(R, S, x)]
            I == 1..n
<1>1. n \in Nat
  BY FS_CardinalityType
<1>2. \A x \in S : /\ RankIn(R, S, x) \in I
                   /\ \A y \in S : <<x, y>> \in R => RankIn(R, S, x) < RankIn(R, S, y)
  BY RankRises
<1>3. ASSUME NEW x \in S, NEW y \in S, RankIn(R, S, x) = RankIn(R, S, y) PROVE x = y
  <2>1. RankIn(R, S, x) \in Nat /\ RankIn(R, S, y) \in Nat
    BY <1>1, <1>2
  <2>2. <<x, y>> \notin R /\ <<y, x>> \notin R
    BY <1>2, <1>3, <2>1
  <2>. QED
    BY <2>2 DEF Orders
<1>4. rank \in Injection(S, I)
  <2>1. rank \in [S -> I]
    BY <1>2
  <2>. QED
    BY <2>1, <1>3 DEF Injection, IsInjective
<1>5. IsFiniteSet(I) /\ Cardinality(I) = n
  <2>1. 1 \in Int /\ n \in Int
    BY <1>1
  <2>2. IsFiniteSet(1..n) /\ Cardinality(1..n) = IF 1 > n THEN 0 ELSE n - 1 + 1
    BY <2>1, FS_Interval
  <2>. QED
    BY <1>1, <2>2
<1>6. rank \in Surjection(S, I)
  <2>. HIDE DEF rank, I
  <2>1. Cardinality(S) = Cardinality(I) <=> rank \in Surjection(S, I)
    BY <1>4, <1>5, FS_Injection
  <2>. QED
    BY <1>5, <2>1
<1>7. \A k \in I : \E x \in S : rank[x] = k
  BY <1>6 DEF Surjection
<1>. QED
  BY <1>3, <1>7

-----------------------------------------------------------------------------
(* Candidates and their order.                                             *)

Letters == Word \cup {Break}

LEMMA PhraseFacts ==
    ASSUME NEW p \in Phrase
    PROVE  /\ p \in Seq(Word) /\ p \in Text /\ p # <<>>
           /\ Len(p) \in Nat \ {0} /\ DOMAIN p = 1..Len(p)
           /\ \A i \in 1..Len(p) : p[i] \in Word /\ p[i] # Break
<1>1. p \in Seq(Word) /\ p # <<>>
  BY PhraseAssumption
<1>2. p \in Seq(Word \cup {Break})
  BY <1>1, SeqMonotonic
<1>3. Len(p) \in Nat \ {0}
  BY <1>1, EmptySeq
<1>4. DOMAIN p = 1..Len(p) /\ \A i \in 1..Len(p) : p[i] \in Word
  BY <1>1
<1>. QED
  BY <1>1, <1>2, <1>3, <1>4, BreakAssumption DEF Text

LEMMA TextFacts ==
    ASSUME NEW text \in Text
    PROVE  /\ Len(text) \in Nat /\ DOMAIN text = 1..Len(text)
           /\ \A i \in 1..Len(text) : text[i] \in Letters
  BY DEF Text, Letters

LEMMA TermFacts ==
    ASSUME NEW terms \in Seq(Term), NEW j \in DOMAIN terms
    PROVE  /\ terms[j] \in Range(terms)
           /\ terms[j].canonical \in Phrase /\ terms[j].phrases \in SUBSET Phrase
           /\ terms[j].id \in Id
<1>1. terms[j] \in Term
  OBVIOUS
<1>. QED
  BY <1>1 DEF Term, Range

\* A candidate is a match of a phrase that stands in the text.
LEMMA CandidateFacts ==
    ASSUME NEW terms \in Seq(Term), NEW text \in Text, NEW m \in Candidates(terms, text)
    PROVE  /\ m.start \in 1..Len(text) /\ m.end \in 2..(Len(text) + 1) /\ m.start < m.end
           /\ m.original = SubSeq(text, m.start, m.end - 1)
           /\ m.original \in Phrase /\ m.canonical \in Phrase
           /\ m.id \in Id /\ m.action \in {"replaced", "candidate"}
           /\ \E j \in DOMAIN terms :
                 /\ terms[j].id = m.id /\ terms[j].canonical = m.canonical
                 /\ m = Match(text, SubSeq(text, m.start, m.end - 1), m.start, terms[j])
<1>1. PICK term \in Range(terms) : \E phrase \in MatchPhrases(term) :
         \E i \in Places(phrase, text) : m = Match(text, phrase, i, term)
  BY DEF Candidates
<1>2. PICK phrase \in MatchPhrases(term) : \E i \in Places(phrase, text) :
         m = Match(text, phrase, i, term)
  BY <1>1
<1>3. PICK i \in Places(phrase, text) : m = Match(text, phrase, i, term)
  BY <1>2
<1>4. PICK j \in DOMAIN terms : term = terms[j]
  BY DEF Range
<1>5. term.canonical \in Phrase /\ phrase \in Phrase /\ term.id \in Id
  BY <1>4, TermFacts DEF MatchPhrases
<1>6. Len(phrase) \in Nat \ {0} /\ Len(text) \in Nat
  BY <1>5, PhraseFacts, TextFacts
<1>7. i \in 1..(Len(text) - Len(phrase) + 1) /\ SubSeq(text, i, i + Len(phrase) - 1) = phrase
  BY DEF Places
<1>. DEFINE end == i + Len(phrase)
<1>8. i \in 1..Len(text) /\ end \in 2..(Len(text) + 1) /\ i < end
      /\ end - 1 = i + Len(phrase) - 1
  BY <1>6, <1>7
<1>9. /\ m.start = i /\ m.end = end /\ m.original = phrase /\ m.canonical = term.canonical
      /\ m.id = term.id /\ m.action \in {"replaced", "candidate"}
  BY <1>3 DEF Match, DecideAction
<1>10. SubSeq(text, m.start, m.end - 1) = phrase
  BY <1>7, <1>8, <1>9
<1>11. m = Match(text, SubSeq(text, m.start, m.end - 1), m.start, terms[j])
  BY <1>3, <1>4, <1>9, <1>10
<1>. QED
  BY <1>4, <1>5, <1>8, <1>9, <1>10, <1>11

LEMMA CandidatesAreFinite ==
    ASSUME NEW terms \in Seq(Term), NEW text \in Text
    PROVE  IsFiniteSet(Candidates(terms, text))
<1>. DEFINE n == Len(text)
            D == ((1..n) \X (2..(n + 1))) \X (DOMAIN terms)
            At(x) == Match(text, SubSeq(text, x[1][1], x[1][2] - 1), x[1][1], terms[x[2]])
            T == {At(x) : x \in D}
            f == [x \in D |-> At(x)]
<1>1. n \in Nat
  BY TextFacts
<1>2. IsFiniteSet(D)
  <2>1. /\ 1 \in Int /\ 2 \in Int /\ n \in Int /\ n + 1 \in Int /\ Len(terms) \in Int
        /\ DOMAIN terms = 1..Len(terms)
    BY <1>1
  <2>2. IsFiniteSet(1..n) /\ IsFiniteSet(2..(n + 1)) /\ IsFiniteSet(DOMAIN terms)
    BY <2>1, FS_Interval
  <2>. QED
    BY <2>2, FS_Product
<1>3. f \in Surjection(D, T)
  <2>. HIDE DEF D, At
  <2>. QED
    BY DEF Surjection
<1>4. IsFiniteSet(T)
  <2>. HIDE DEF D, T, f
  <2>. QED
    BY <1>2, <1>3, FS_Surjection
<1>5. ASSUME NEW m \in Candidates(terms, text) PROVE m \in T
  <2>1. PICK j \in DOMAIN terms :
           m = Match(text, SubSeq(text, m.start, m.end - 1), m.start, terms[j])
    BY CandidateFacts
  <2>. DEFINE x == <<<<m.start, m.end>>, j>>
  <2>2. x \in D
    BY CandidateFacts
  <2>3. m = At(x)
    BY <2>1
  <2>. HIDE DEF D, At, x
  <2>. QED
    BY <2>2, <2>3
<1>. HIDE DEF T
<1>. QED
  BY <1>4, <1>5, FS_Subset

\* Two candidates at one place and of one term are one.
LEMMA SamePlaceSameTerm ==
    ASSUME NEW terms, Loaded(terms), NEW text \in Text,
           NEW a \in Candidates(terms, text), NEW b \in Candidates(terms, text),
           a.start = b.start, a.end = b.end, a.id = b.id
    PROVE  a = b
<1>1. terms \in Seq(Term) /\ UniqueIds(terms)
  BY DEF Loaded
<1>2. PICK i \in DOMAIN terms :
         /\ terms[i].id = a.id
         /\ a = Match(text, SubSeq(text, a.start, a.end - 1), a.start, terms[i])
  BY <1>1, CandidateFacts
<1>3. PICK j \in DOMAIN terms :
         /\ terms[j].id = b.id
         /\ b = Match(text, SubSeq(text, b.start, b.end - 1), b.start, terms[j])
  BY <1>1, CandidateFacts
<1>4. i = j
  BY <1>1, <1>2, <1>3 DEF UniqueIds
<1>5. a = Match(text, SubSeq(text, b.start, b.end - 1), b.start, terms[j])
  BY <1>2, <1>4
<1>. QED
  BY <1>3, <1>5

Rank(m) == IF m.action = "replaced" THEN 0 ELSE 1

LEMMA BeforeIs ==
    \A a, b : Before(a, b) <=>
        \/ a.start < b.start
        \/ a.start = b.start /\ Rank(a) < Rank(b)
        \/ a.start = b.start /\ Rank(a) = Rank(b) /\ a.end > b.end
        \/ a.start = b.start /\ Rank(a) = Rank(b) /\ a.end = b.end /\ IdBefore(a.id, b.id)
  BY DEF Before, Rank

LEMMA IdsAreOrdered ==
    /\ \A i \in Id : ~IdBefore(i, i)
    /\ \A i, j, k \in Id : IdBefore(i, j) /\ IdBefore(j, k) => IdBefore(i, k)
    /\ \A i, j \in Id : i = j \/ IdBefore(i, j) \/ IdBefore(j, i)
<1>1. \A i \in Id : i.prefix \in Nat /\ i.number \in Nat
  BY DEF Id
<1>2. \A i \in Id : ~IdBefore(i, i)
  BY <1>1 DEF IdBefore
<1>3. ASSUME NEW i \in Id, NEW j \in Id, NEW k \in Id, IdBefore(i, j), IdBefore(j, k)
      PROVE  IdBefore(i, k)
  <2>1. /\ i.prefix \in Nat /\ i.number \in Nat /\ j.prefix \in Nat /\ j.number \in Nat
        /\ k.prefix \in Nat /\ k.number \in Nat
    BY <1>1
  <2>. QED
    BY <1>3, <2>1 DEF IdBefore
<1>4. ASSUME NEW i \in Id, NEW j \in Id, ~IdBefore(i, j), ~IdBefore(j, i) PROVE i = j
  <2>1. /\ i.prefix \in Nat /\ i.number \in Nat /\ j.prefix \in Nat /\ j.number \in Nat
    BY <1>1
  <2>2. i.prefix = j.prefix /\ i.number = j.number
    BY <1>4, <2>1 DEF IdBefore
  <2>. QED
    BY <2>2 DEF Id
<1>. QED
  BY <1>2, <1>3, <1>4

Ordering(C) == {x \in C \X C : Before(x[1], x[2])}

LEMMA CandidatesAreOrdered ==
    ASSUME NEW terms, Loaded(terms), NEW text \in Text
    PROVE  Orders(Ordering(Candidates(terms, text)), Candidates(terms, text))
<1>. DEFINE C == Candidates(terms, text)
            R == Ordering(C)
<1>1. \A m \in C : /\ m.start \in Nat /\ m.end \in Nat /\ m.id \in Id /\ Rank(m) \in Nat
  <2>1. terms \in Seq(Term) /\ Len(text) \in Nat
    BY TextFacts DEF Loaded
  <2>2. ASSUME NEW m \in C
        PROVE  m.start \in 1..Len(text) /\ m.end \in 2..(Len(text) + 1) /\ m.id \in Id
    BY <2>1, CandidateFacts
  <2>3. \A m : Rank(m) \in Nat
    BY DEF Rank
  <2>. QED
    BY <2>1, <2>2, <2>3
<1>2. \A a, b \in C : a.start = b.start /\ a.end = b.end /\ a.id = b.id => a = b
  BY SamePlaceSameTerm
<1>. HIDE DEF C
<1>3. \A a, b \in C : <<a, b>> \in R <=> Before(a, b)
  BY DEF Ordering
<1>. HIDE DEF R
<1>4. ASSUME NEW a \in C PROVE ~Before(a, a)
  <2>1. a.start \in Nat /\ a.end \in Nat /\ Rank(a) \in Nat /\ ~IdBefore(a.id, a.id)
    BY <1>1, IdsAreOrdered
  <2>. QED
    BY <2>1, BeforeIs
<1>5. ASSUME NEW a \in C, NEW b \in C, NEW c \in C, Before(a, b), Before(b, c)
      PROVE  Before(a, c)
  <2>1. /\ a.start \in Nat /\ a.end \in Nat /\ Rank(a) \in Nat
        /\ b.start \in Nat /\ b.end \in Nat /\ Rank(b) \in Nat
        /\ c.start \in Nat /\ c.end \in Nat /\ Rank(c) \in Nat
        /\ IdBefore(a.id, b.id) /\ IdBefore(b.id, c.id) => IdBefore(a.id, c.id)
    BY <1>1, IdsAreOrdered
  <2>. QED
    BY <1>5, <2>1, BeforeIs
<1>6. ASSUME NEW a \in C, NEW b \in C, ~Before(a, b), ~Before(b, a) PROVE a = b
  <2>1. /\ a.start \in Nat /\ a.end \in Nat /\ Rank(a) \in Nat
        /\ b.start \in Nat /\ b.end \in Nat /\ Rank(b) \in Nat
        /\ a.id = b.id \/ IdBefore(a.id, b.id) \/ IdBefore(b.id, a.id)
    BY <1>1, IdsAreOrdered
  <2>2. a.start = b.start
    BY <1>6, <2>1, BeforeIs
  <2>3. Rank(a) = Rank(b)
    BY <1>6, <2>1, <2>2, BeforeIs
  <2>4. a.end = b.end
    BY <1>6, <2>1, <2>2, <2>3, BeforeIs
  <2>5. a.id = b.id
    BY <1>6, <2>1, <2>2, <2>3, <2>4, BeforeIs
  <2>. QED
    BY <1>2, <2>2, <2>4, <2>5
<1>7. Orders(R, C)
  BY <1>3, <1>4, <1>5, <1>6 DEF Orders
<1>. QED
  BY <1>7 DEF R, C

\* Sorting lists every candidate, and none before one that starts earlier.
LEMMA SortedFacts ==
    ASSUME NEW terms, Loaded(terms), NEW text \in Text
    PROVE  LET C == Candidates(terms, text)
               s == Sorted(C)
           IN  /\ s \in Seq(C)
               /\ \A m \in C : \E k \in DOMAIN s : s[k] = m
               /\ \A i, j \in DOMAIN s : i <= j => s[i].start <= s[j].start
<1>. DEFINE C == Candidates(terms, text)
            R == Ordering(C)
            n == Cardinality(C)
            At(k) == CHOOSE m \in C : RankIn(R, C, m) = k
<1>1. IsFiniteSet(C) /\ n \in Nat /\ Orders(R, C)
  BY CandidatesAreFinite, CandidatesAreOrdered, FS_CardinalityType DEF Loaded
<1>2. \A m \in C : m.start \in Nat
  <2>1. terms \in Seq(Term) /\ Len(text) \in Nat
    BY TextFacts DEF Loaded
  <2>2. ASSUME NEW m \in C PROVE m.start \in 1..Len(text)
    BY <2>1, CandidateFacts
  <2>. QED
    BY <2>1, <2>2
<1>. HIDE DEF C
<1>3. \A m \in C : RankIn(R, C, m) = Cardinality({x \in C : Before(x, m)}) + 1
  <2>1. ASSUME NEW m \in C PROVE {y \in C : <<y, m>> \in R} = {x \in C : Before(x, m)}
    BY DEF Ordering
  <2>. QED
    BY <2>1 DEF RankIn
<1>4. Sorted(C) = [k \in 1..n |-> At(k)]
  <2>1. \A k : (CHOOSE m \in C : Cardinality({x \in C : Before(x, m)}) + 1 = k) = At(k)
    BY <1>3
  <2>. QED
    BY <2>1, SMTT(60) DEF Sorted
<1>5. \A a, b \in C : Before(a, b) => RankIn(R, C, a) < RankIn(R, C, b)
  <2>1. ASSUME NEW a \in C, NEW b \in C, Before(a, b) PROVE RankIn(R, C, a) < RankIn(R, C, b)
    <3>1. <<a, b>> \in R
      BY <2>1 DEF Ordering
    <3>. HIDE DEF R
    <3>. QED
      BY <1>1, <3>1, RankRises
  <2>. QED
    BY <2>1
<1>. HIDE DEF R
<1>6. /\ \A k \in 1..n : \E m \in C : RankIn(R, C, m) = k
      /\ \A x, y \in C : RankIn(R, C, x) = RankIn(R, C, y) => x = y
      /\ \A m \in C : RankIn(R, C, m) \in 1..n
  BY <1>1, RanksAreTaken, RankRises
<1>7. \A k \in 1..n : At(k) \in C /\ RankIn(R, C, At(k)) = k
  BY <1>6
<1>8. \A m \in C : At(RankIn(R, C, m)) = m
  BY <1>6
<1>. HIDE DEF At, n
<1>9. Sorted(C) \in Seq(C) /\ DOMAIN Sorted(C) = 1..n
  BY <1>1, <1>4, <1>7
<1>10. \A m \in C : \E k \in DOMAIN Sorted(C) : Sorted(C)[k] = m
  BY <1>4, <1>6, <1>8, <1>9
<1>11. ASSUME NEW i \in 1..n, NEW j \in 1..n, i <= j
       PROVE  Sorted(C)[i].start <= Sorted(C)[j].start
  <2>1. /\ Sorted(C)[i] = At(i) /\ Sorted(C)[j] = At(j) /\ At(i) \in C /\ At(j) \in C
        /\ RankIn(R, C, At(i)) = i /\ RankIn(R, C, At(j)) = j
    BY <1>4, <1>7
  <2>2. ~Before(At(j), At(i))
    BY <1>1, <1>5, <1>11, <2>1
  <2>3. ~(At(j).start < At(i).start)
    BY <2>2, BeforeIs
  <2>. QED
    BY <1>2, <2>1, <2>3
<1>. QED
  BY <1>9, <1>10, <1>11 DEF C

-----------------------------------------------------------------------------
(* Selection.                                                              *)

IsSelected(f, found) ==
    f = [k \in 0..Len(found) |->
          IF k = 0 THEN <<>>
          ELSE IF Skipped(found[k], f[k - 1]) THEN f[k - 1]
          ELSE Append(f[k - 1], found[k])]

LEMMA SelectedValue ==
    ASSUME NEW C, NEW found \in Seq(C)
    PROVE  \E f : /\ IsSelected(f, found)
                  /\ Selected(found) = f[Len(found)]
<1>. DEFINE n == Len(found)
            T == Seq(C)
            Step(s, k) == IF Skipped(found[k], s) THEN s ELSE Append(s, found[k])
            g == [x \in T \X (1..n) |-> Step(x[1], x[2])]
            c == CHOOSE f : IsSelected(f, found)
<1>1. n \in Nat /\ <<>> \in T /\ \A k \in 1..n : found[k] \in C
  OBVIOUS
<1>2. g \in [T \X (1..n) -> T]
  <2>1. ASSUME NEW s \in T, NEW k \in 1..n PROVE Step(s, k) \in T
    <3>1. Append(s, found[k]) \in T
      BY <1>1, AppendProperties
    <3>. QED
      BY <3>1
  <2>. HIDE DEF Step, T
  <2>. QED
    BY <2>1
<1>. HIDE DEF n, g
<1>3. PICK f \in [0..n -> T] : IsChain(f, n, <<>>, g)
  <2>. HIDE DEF T
  <2>. QED
    BY <1>1, <1>2, ChainExists
<1>4. ASSUME NEW k \in 1..n PROVE f[k] = Step(f[k - 1], k)
  <2>1. k - 1 \in 0..n
    BY <1>1
  <2>2. f[k - 1] \in T
    BY <1>3, <2>1
  <2>3. f[k] = g[<<f[k - 1], k>>]
    BY <1>3 DEF IsChain
  <2>. HIDE DEF Step, T
  <2>4. g[<<f[k - 1], k>>] = Step(f[k - 1], k)
    BY <2>2 DEF g
  <2>. QED
    BY <2>3, <2>4
<1>5. f[0] = <<>>
  BY <1>3 DEF IsChain
<1>6. \A k \in 0..n : f[k] = IF k = 0 THEN <<>> ELSE Step(f[k - 1], k)
  <2>1. \A k \in 0..n : k = 0 \/ k \in 1..n
    BY <1>1
  <2>2. \A k \in 1..n : k # 0
    BY <1>1
  <2>. HIDE DEF Step
  <2>. QED
    BY <1>4, <1>5, <2>1, <2>2
<1>7. IsSelected(f, found)
  <2>1. f = [k \in 0..n |-> f[k]]
    BY <1>3
  <2>. QED
    BY <1>6, <2>1 DEF IsSelected, n
<1>8. IsSelected(c, found)
  BY <1>7
<1>9. Selected(found) = c[Len(found)]
  BY DEF Selected, IsSelected
<1>. HIDE DEF c
<1>. QED
  BY <1>8, <1>9

\* No two selected matches overlap.
Apart(s) == \A k \in 2..Len(s) : s[k - 1].end <= s[k].start

\* Each of the first n found is selected, or starts within one that was found before.
Settled(s, found, n) ==
    \A j \in 1..n : \E x \in DOMAIN s :
       \/ s[x] = found[j]
       \/ found[j].start < s[x].end /\ \E i \in 1..j : s[x] = found[i]

Among(s, found, n) == \A x \in DOMAIN s : \E i \in 1..n : s[x] = found[i]

LEMMA SelectedStep ==
    ASSUME NEW C, \A m \in C : m.start \in Nat /\ m.end \in Nat,
           NEW found \in Seq(C), NEW k \in 1..Len(found),
           NEW s \in Seq(C), Apart(s), Settled(s, found, k - 1), Among(s, found, k - 1),
           NEW t, t = IF Skipped(found[k], s) THEN s ELSE Append(s, found[k])
    PROVE  t \in Seq(C) /\ Apart(t) /\ Settled(t, found, k) /\ Among(t, found, k)
<1>1. /\ found[k] \in C /\ k \in Nat /\ \A j \in 1..k : j = k \/ j \in 1..(k - 1)
      /\ \A j \in 1..(k - 1) : j \in 1..k
  OBVIOUS
<1>2. Len(s) \in Nat /\ DOMAIN s = 1..Len(s) /\ \A x \in 1..Len(s) : s[x] \in C
  OBVIOUS
<1>0. s # <<>> => Len(s) \in 1..Len(s)
  BY EmptySeq
<1>3. CASE Skipped(found[k], s)
  <2>1. t = s /\ s # <<>> /\ found[k].start < s[Len(s)].end
    BY <1>3 DEF Skipped, Last
  <2>2. Len(s) \in DOMAIN s
    BY <1>0, <1>2, <2>1
  <2>3. PICK i \in 1..(k - 1) : s[Len(s)] = found[i]
    BY <2>2 DEF Among
  <2>4. Among(t, found, k)
    BY <1>1, <2>1 DEF Among
  <2>5. ASSUME NEW j \in 1..k
        PROVE  \E x \in DOMAIN s : \/ s[x] = found[j]
                                   \/ found[j].start < s[x].end /\ \E y \in 1..j : s[x] = found[y]
    <3>1. CASE j = k
      BY <1>1, <2>1, <2>2, <2>3, <3>1
    <3>2. CASE j \in 1..(k - 1)
      BY <3>2 DEF Settled
    <3>. QED
      BY <1>1, <3>1, <3>2, Zenon
  <2>6. Settled(s, found, k)
    BY <2>5 DEF Settled
  <2>. QED
    BY <2>1, <2>4, <2>6
<1>4. CASE ~Skipped(found[k], s)
  <2>0. t = Append(s, found[k])
    BY <1>4
  <2>1. /\ t \in Seq(C) /\ Len(t) = Len(s) + 1 /\ DOMAIN t = 1..(Len(s) + 1)
        /\ \A x \in 1..Len(s) : t[x] = s[x]
        /\ t[Len(s) + 1] = found[k]
    BY <1>1, <1>2, <2>0
  <2>2. \A x \in 1..(Len(s) + 1) : x = Len(s) + 1 \/ x \in 1..Len(s)
    BY <1>2
  <2>3. \A x \in 1..Len(s) : x \in 1..(Len(s) + 1)
    BY <1>2
  <2>4. Among(t, found, k)
    BY <1>1, <1>2, <2>1, <2>2 DEF Among
  <2>5. ASSUME NEW j \in 1..k
        PROVE  \E x \in DOMAIN t : \/ t[x] = found[j]
                                   \/ found[j].start < t[x].end /\ \E y \in 1..j : t[x] = found[y]
    <3>1. CASE j = k
      <4>1. Len(s) + 1 \in DOMAIN t
        BY <1>2, <2>1
      <4>. QED
        BY <2>1, <3>1, <4>1
    <3>2. CASE j \in 1..(k - 1)
      <4>1. PICK x \in DOMAIN s : \/ s[x] = found[j]
                                  \/ found[j].start < s[x].end /\ \E y \in 1..j : s[x] = found[y]
        BY <3>2 DEF Settled
      <4>2. x \in DOMAIN t /\ t[x] = s[x]
        BY <1>2, <2>1, <2>3
      <4>. QED
        BY <4>1, <4>2
    <3>. QED
      BY <1>1, <3>1, <3>2
  <2>6. ASSUME NEW x \in 2..Len(t) PROVE t[x - 1].end <= t[x].start
    <3>1. CASE x = Len(t)
      <4>0. x - 1 = Len(s) /\ Len(s) \in 1..Len(s)
        <5>. DEFINE n == Len(s)
        <5>1. n \in Nat /\ x \in 2..(n + 1) /\ x = n + 1
          BY <1>2, <2>1, <3>1
        <5>. HIDE DEF n
        <5>2. x - 1 = n /\ n \in 1..n
          BY <5>1
        <5>. QED
          BY <5>2 DEF n
      <4>1. x - 1 = Len(s) /\ Len(s) \in 1..Len(s) /\ s # <<>>
        <5>1. <<>> \in Seq(C) /\ Len(<<>>) = 0
          OBVIOUS
        <5>. QED
          BY <4>0, <5>1
      <4>2. t[x - 1] = s[Len(s)] /\ t[x] = found[k]
        BY <2>1, <3>1, <4>1
      <4>3. ~(found[k].start < s[Len(s)].end)
        BY <1>4, <4>1 DEF Skipped, Last
      <4>4. found[k].start \in Nat /\ s[Len(s)].end \in Nat
        BY <1>1, <1>2, <4>1
      <4>5. s[Len(s)].end <= found[k].start
        <5>. DEFINE a == found[k].start
                    b == s[Len(s)].end
        <5>1. a \in Nat /\ b \in Nat /\ ~(a < b)
          BY <4>3, <4>4
        <5>. HIDE DEF a, b
        <5>2. b <= a
          BY <5>1
        <5>. QED
          BY <5>2 DEF a, b
      <4>. QED
        BY <4>2, <4>5, Zenon
    <3>2. CASE x # Len(t)
      <4>1. x \in 2..Len(s) /\ x \in 1..Len(s) /\ x - 1 \in 1..Len(s)
        BY <1>2, <2>1, <3>2
      <4>. QED
        BY <2>1, <4>1 DEF Apart
    <3>. QED
      BY <3>1, <3>2
  <2>. QED
    BY <2>1, <2>4, <2>5, <2>6 DEF Settled, Apart
<1>. QED
  BY <1>3, <1>4

LEMMA SelectedFacts ==
    ASSUME NEW C, \A m \in C : m.start \in Nat /\ m.end \in Nat, NEW found \in Seq(C)
    PROVE  /\ Selected(found) \in Seq(C)
           /\ Apart(Selected(found))
           /\ Settled(Selected(found), found, Len(found))
<1>. DEFINE n == Len(found)
<1>1. PICK f : IsSelected(f, found) /\ Selected(found) = f[n]
  BY SelectedValue
<1>2. n \in Nat
  OBVIOUS
<1>3. f = [k \in 0..n |->
          IF k = 0 THEN <<>>
          ELSE IF Skipped(found[k], f[k - 1]) THEN f[k - 1]
          ELSE Append(f[k - 1], found[k])]
  BY <1>1, Zenon DEF IsSelected
<1>4. f[0] = <<>>
  <2>1. 0 \in 0..n
    BY <1>2
  <2>. QED
    BY <1>3, <2>1, Zenon
<1>5. ASSUME NEW k \in 1..n
      PROVE f[k] = IF Skipped(found[k], f[k - 1]) THEN f[k - 1] ELSE Append(f[k - 1], found[k])
  <2>1. k \in 0..n /\ k # 0
    BY <1>2
  <2>. QED
    BY <1>3, <2>1, Zenon
<1>. HIDE DEF n
<1>. DEFINE Good(k) == /\ f[k] \in Seq(C) /\ Apart(f[k])
                       /\ Settled(f[k], found, k) /\ Among(f[k], found, k)
            P == {k \in 0..n : Good(k)}
<1>6. Good(0)
  <2>1. <<>> \in Seq(C) /\ Len(<<>>) = 0 /\ DOMAIN <<>> = {} /\ 1..0 = {} /\ 2..0 = {}
    OBVIOUS
  <2>. QED
    BY <1>4, <2>1 DEF Apart, Settled, Among
<1>7. ASSUME NEW k \in 1..n, Good(k - 1) PROVE Good(k)
  <2>. DEFINE s == f[k - 1]
              t == f[k]
  <2>1. t = IF Skipped(found[k], s) THEN s ELSE Append(s, found[k])
    BY <1>5
  <2>2. s \in Seq(C) /\ Apart(s) /\ Settled(s, found, k - 1) /\ Among(s, found, k - 1)
    BY <1>7
  <2>3. k \in 1..Len(found)
    BY DEF n
  <2>. HIDE DEF s, t
  <2>4. t \in Seq(C) /\ Apart(t) /\ Settled(t, found, k) /\ Among(t, found, k)
    BY <2>1, <2>2, <2>3, SelectedStep
  <2>. QED
    BY <2>4 DEF t
<1>. HIDE DEF Good
<1>8. Inductive(P, n)
  <2>1. 0 \in 0..n /\ \A k \in 1..n : k \in 0..n
    BY <1>2
  <2>. QED
    BY <1>6, <1>7, <2>1 DEF Inductive
<1>. HIDE DEF P
<1>9. \A k \in 0..n : k \in P
  BY <1>2, <1>8, UpTo
<1>10. Good(n)
  <2>1. n \in 0..n
    BY <1>2
  <2>. QED
    BY <1>9, <2>1 DEF P
<1>. QED
  BY <1>1, <1>10 DEF Good, n

\* What the rules choose.
LEMMA MatchesFacts ==
    ASSUME NEW terms, Loaded(terms), NEW text \in Text
    PROVE  LET C == Candidates(terms, text)
               s == Matches(terms, text)
           IN  /\ s \in Seq(C) /\ Apart(s)
               /\ \A m \in C : \E x \in DOMAIN s : s[x].start <= m.start /\ m.start < s[x].end
<1>. DEFINE C == Candidates(terms, text)
            found == Sorted(C)
            s == Matches(terms, text)
<1>1. /\ found \in Seq(C)
      /\ \A m \in C : \E k \in DOMAIN found : found[k] = m
      /\ \A i, j \in DOMAIN found : i <= j => found[i].start <= found[j].start
  BY SortedFacts
<1>2. \A m \in C : m.start \in Nat /\ m.end \in Nat /\ m.start < m.end
  <2>1. terms \in Seq(Term) /\ Len(text) \in Nat
    BY TextFacts DEF Loaded
  <2>2. ASSUME NEW m \in C
        PROVE  m.start \in 1..Len(text) /\ m.end \in 2..(Len(text) + 1) /\ m.start < m.end
    BY <2>1, CandidateFacts
  <2>. QED
    BY <2>1, <2>2
<1>3. s = Selected(found)
  BY DEF Matches
<1>. HIDE DEF C, found, s
<1>4. s \in Seq(C) /\ Apart(s) /\ Settled(s, found, Len(found))
  BY <1>1, <1>2, <1>3, SelectedFacts
<1>5. ASSUME NEW m \in C PROVE \E x \in DOMAIN s : s[x].start <= m.start /\ m.start < s[x].end
  <2>1. PICK j \in DOMAIN found : found[j] = m
    BY <1>1
  <2>2. j \in 1..Len(found) /\ DOMAIN found = 1..Len(found) /\ Len(found) \in Nat
    BY <1>1
  <2>3. PICK x \in DOMAIN s : \/ s[x] = m
                              \/ m.start < s[x].end /\ \E i \in 1..j : s[x] = found[i]
    BY <1>4, <2>1, <2>2 DEF Settled
  <2>4. CASE s[x] = m
    <3>1. s[x].start <= m.start /\ m.start < s[x].end
      BY <1>2, <2>4
    <3>. QED
      BY <3>1
  <2>5. CASE m.start < s[x].end /\ \E i \in 1..j : s[x] = found[i]
    <3>1. PICK i \in 1..j : s[x] = found[i]
      BY <2>5
    <3>2. i \in DOMAIN found /\ i <= j
      BY <2>2
    <3>3. found[i].start <= found[j].start
      BY <1>1, <3>2
    <3>. QED
      BY <2>1, <2>5, <3>1, <3>3
  <2>. QED
    BY <2>3, <2>4, <2>5
<1>. QED
  BY <1>4, <1>5 DEF C, s

-----------------------------------------------------------------------------
(* Lines.                                                                  *)

BreaksTo(t, p) == Cardinality({j \in 1..p : t[j] = Break})

Breaks(t) == BreaksTo(t, Len(t))

LEMMA BreaksAreFinite ==
    ASSUME NEW t, NEW p \in Int
    PROVE  BreaksTo(t, p) \in Nat /\ IsFiniteSet({j \in 1..p : t[j] = Break})
<1>. DEFINE B == {j \in 1..p : t[j] = Break}
<1>1. IsFiniteSet(1..p)
  <2>1. 1 \in Int
    OBVIOUS
  <2>. QED
    BY <2>1, FS_Interval
<1>2. B \in SUBSET (1..p)
  OBVIOUS
<1>3. IsFiniteSet(B)
  <2>. HIDE DEF B
  <2>. QED
    BY <1>1, <1>2, FS_Subset
<1>4. Cardinality(B) \in Nat
  <2>. HIDE DEF B
  <2>. QED
    BY <1>3, FS_CardinalityType
<1>. QED
  BY <1>3, <1>4 DEF BreaksTo

\* What comes behind does not change the lines before it.
LEMMA BreaksInPrefix ==
    ASSUME NEW s \in Text, NEW t \in Text, NEW p \in Int, p <= Len(s)
    PROVE  BreaksTo(s \o t, p) = BreaksTo(s, p)
<1>1. Len(s) \in Nat /\ Len(t) \in Nat
  BY TextFacts
<1>2. \A j \in 1..p : (s \o t)[j] = s[j]
  <2>1. \A j \in 1..(Len(s) + Len(t)) :
           (s \o t)[j] = IF j <= Len(s) THEN s[j] ELSE t[j - Len(s)]
    BY ConcatProperties DEF Text
  <2>2. \A j \in 1..p : j \in 1..(Len(s) + Len(t)) /\ j <= Len(s)
    BY <1>1
  <2>. QED
    BY <2>1, <2>2
<1>3. {j \in 1..p : (s \o t)[j] = Break} = {j \in 1..p : s[j] = Break}
  BY <1>2
<1>. QED
  BY <1>3 DEF BreaksTo

LEMMA BreaksBehind ==
    ASSUME NEW s \in Text, NEW t \in Text, NEW q \in 0..Len(t)
    PROVE  BreaksTo(s \o t, Len(s) + q) = Breaks(s) + BreaksTo(t, q)
<1>. DEFINE n == Len(s)
            u == s \o t
            A == {j \in 1..n : s[j] = Break}
            Q == {j \in 1..q : t[j] = Break}
            B == {j \in (n + 1)..(n + q) : u[j] = Break}
            W == {j \in 1..(n + q) : u[j] = Break}
            shift == [j \in Q |-> j + n]
<1>1. n \in Nat /\ Len(t) \in Nat /\ q \in Nat /\ q <= Len(t)
  BY TextFacts
<1>2. \A j \in 1..(n + q) : u[j] = IF j <= n THEN s[j] ELSE t[j - n]
  <2>1. \A j \in 1..(n + Len(t)) : u[j] = IF j <= n THEN s[j] ELSE t[j - n]
    BY ConcatProperties DEF Text
  <2>2. \A j \in 1..(n + q) : j \in 1..(n + Len(t))
    BY <1>1
  <2>. QED
    BY <2>1, <2>2
<1>. HIDE DEF n, u
<1>3. \A j \in 1..n : j \in 1..(n + q) /\ u[j] = s[j]
  BY <1>1, <1>2
<1>4. \A j \in (n + 1)..(n + q) : j \in 1..(n + q) /\ j - n \in 1..q /\ u[j] = t[j - n]
  BY <1>1, <1>2
<1>5. W = A \cup B /\ A \cap B = {}
  <2>1. \A j \in 1..(n + q) : j \in 1..n \/ j \in (n + 1)..(n + q)
    BY <1>1
  <2>2. \A j \in 1..n : j \notin (n + 1)..(n + q)
    BY <1>1
  <2>. QED
    BY <1>3, <1>4, <2>1, <2>2
<1>6. shift \in Bijection(Q, B)
  <2>1. \A j \in 1..q : j + n \in (n + 1)..(n + q) /\ (j + n) - n = j
    BY <1>1
  <2>2. ASSUME NEW j \in Q PROVE j + n \in B
    <3>1. j \in 1..q /\ t[j] = Break
      OBVIOUS
    <3>. DEFINE k == j + n
    <3>2. k \in (n + 1)..(n + q) /\ k - n = j
      BY <2>1, <3>1
    <3>. HIDE DEF k
    <3>3. u[k] = t[k - n]
      BY <1>4, <3>2
    <3>4. k \in B
      BY <3>1, <3>2, <3>3
    <3>. QED
      BY <3>4 DEF k
  <2>3. \A i, j \in Q : i + n = j + n => i = j
    BY <1>1
  <2>4. \A j \in B : j - n \in Q /\ (j - n) + n = j
    BY <1>1, <1>4
  <2>5. shift \in [Q -> B]
    BY <2>2
  <2>6. \A i, j \in Q : shift[i] = shift[j] => i = j
    BY <2>3
  <2>7. \A j \in B : \E i \in Q : shift[i] = j
    <3>1. ASSUME NEW j \in B PROVE \E i \in Q : shift[i] = j
      <4>1. j - n \in Q /\ (j - n) + n = j
        BY <2>4
      <4>2. shift[j - n] = (j - n) + n
        BY <4>1
      <4>. QED
        BY <4>1, <4>2
    <3>. QED
      BY <3>1
  <2>. HIDE DEF Q, B, shift
  <2>8. shift \in Injection(Q, B)
    BY <2>5, <2>6 DEF Injection, IsInjective
  <2>9. shift \in Surjection(Q, B)
    BY <2>5, <2>7 DEF Surjection
  <2>. QED
    BY <2>8, <2>9 DEF Bijection
<1>7. IsFiniteSet(A) /\ IsFiniteSet(Q) /\ Cardinality(A) \in Nat /\ Cardinality(Q) \in Nat
  <2>1. n \in Int /\ q \in Int
    BY <1>1
  <2>. QED
    BY <2>1, BreaksAreFinite DEF BreaksTo
<1>8. IsFiniteSet(B) /\ Cardinality(B) = Cardinality(Q)
  <2>. HIDE DEF Q, B, shift
  <2>1. ExistsBijection(Q, B)
    BY <1>6 DEF ExistsBijection
  <2>. QED
    BY <1>7, <2>1, FS_Bijection
<1>9. Cardinality(W) = Cardinality(A) + Cardinality(Q)
  <2>. HIDE DEF A, B, Q, W
  <2>1. Cardinality(A \cup B) = Cardinality(A) + Cardinality(B) - Cardinality(A \cap B)
    BY <1>7, <1>8, FS_Union
  <2>2. Cardinality(A \cap B) = 0
    BY <1>5, FS_EmptySet
  <2>. QED
    BY <1>5, <1>7, <1>8, <2>1, <2>2
<1>. QED
  BY <1>9 DEF BreaksTo, Breaks, n, u

LEMMA PhraseHasNoBreaks ==
    ASSUME NEW p \in Phrase, NEW q \in 0..Len(p)
    PROVE  BreaksTo(p, q) = 0
<1>1. Len(p) \in Nat /\ \A j \in 1..Len(p) : p[j] # Break
  BY PhraseFacts
<1>2. {j \in 1..q : p[j] = Break} = {}
  <2>1. \A j \in 1..q : j \in 1..Len(p)
    BY <1>1
  <2>. QED
    BY <1>1, <2>1
<1>. QED
  BY <1>2, FS_EmptySet DEF BreaksTo

LEMMA LineCountIs ==
    ASSUME NEW t \in Text
    PROVE  LineCount(t) = IF t = <<>> THEN 0 ELSE BreaksTo(t, Len(t) - 1) + 1
  BY DEF LineCount, LineOf, BreaksTo

\* Two texts have as many lines, whatever is put behind both.
Shape(s, t) ==
    /\ s = <<>> <=> t = <<>>
    /\ Breaks(s) = Breaks(t)
    /\ LineCount(s) = LineCount(t)

\* The lines of a text with something behind it.
LEMMA LinesOfConcat ==
    ASSUME NEW s \in Text, NEW u \in Text, u # <<>>
    PROVE  /\ s \o u \in Text /\ s \o u # <<>>
           /\ Breaks(s \o u) = Breaks(s) + Breaks(u)
           /\ LineCount(s \o u) = Breaks(s) + BreaksTo(u, Len(u) - 1) + 1
<1>1. /\ Len(s) \in Nat /\ Len(u) \in Nat /\ s \o u \in Text
      /\ Len(s \o u) = Len(s) + Len(u)
  BY TextFacts, ConcatProperties DEF Text
<1>2. Len(u) # 0
  <2>1. u \in Seq(Letters)
    BY DEF Text, Letters
  <2>. QED
    BY <2>1, EmptySeq
<1>3. s \o u # <<>>
  BY ConcatEqualIffEmpty DEF Text
<1>. DEFINE n == Len(u)
            k == Len(u) - 1
<1>4. n \in 0..Len(u) /\ k \in 0..Len(u)
  BY <1>1, <1>2
<1>. HIDE DEF n, k
<1>5. BreaksTo(s \o u, Len(s) + n) = Breaks(s) + BreaksTo(u, n)
  BY <1>4, BreaksBehind
<1>6. BreaksTo(s \o u, Len(s) + k) = Breaks(s) + BreaksTo(u, k)
  BY <1>4, BreaksBehind
<1>7. Breaks(s \o u) = Breaks(s) + Breaks(u)
  BY <1>1, <1>5 DEF Breaks, n
<1>8. Len(s \o u) - 1 = Len(s) + k
  BY <1>1 DEF k
<1>9. LineCount(s \o u) = Breaks(s) + BreaksTo(u, k) + 1
  BY <1>1, <1>3, <1>6, <1>8, LineCountIs
<1>. QED
  BY <1>1, <1>3, <1>7, <1>9 DEF k

LEMMA ShapeStays ==
    ASSUME NEW s \in Text, NEW t \in Text, Shape(s, t), NEW u \in Text
    PROVE  Shape(s \o u, t \o u)
<1>1. CASE u = <<>>
  <2>1. s \o u = s /\ t \o u = t
    BY <1>1, ConcatEmptySeq DEF Text
  <2>. QED
    BY <2>1
<1>2. CASE u # <<>>
  BY <1>2, LinesOfConcat DEF Shape
<1>. QED
  BY <1>1, <1>2

LEMMA ShapeOfPhrases ==
    ASSUME NEW s \in Text, NEW t \in Text, Shape(s, t), NEW p \in Phrase, NEW q \in Phrase
    PROVE  Shape(s \o p, t \o q)
<1>1. /\ p \in Text /\ q \in Text /\ p # <<>> /\ q # <<>>
      /\ Len(p) \in Nat \ {0} /\ Len(q) \in Nat \ {0}
  BY PhraseFacts
<1>. DEFINE i == Len(p) - 1
            j == Len(q) - 1
            n == Len(p)
            m == Len(q)
<1>2. i \in 0..Len(p) /\ j \in 0..Len(q) /\ n \in 0..Len(p) /\ m \in 0..Len(q)
  BY <1>1
<1>. HIDE DEF i, j, n, m
<1>3. BreaksTo(p, i) = 0 /\ BreaksTo(q, j) = 0 /\ BreaksTo(p, n) = 0 /\ BreaksTo(q, m) = 0
  BY <1>2, PhraseHasNoBreaks
<1>. QED
  BY <1>1, <1>3, LinesOfConcat DEF Shape, Breaks, i, j, n, m

-----------------------------------------------------------------------------
(* Rendering.                                                              *)

\* Matches one behind the other, of phrases, and with phrases to put in their place.
Spaced(text, s) ==
    /\ Len(s) \in Nat
    /\ \A k \in 1..Len(s) :
          /\ After(s, k - 1) \in 1..(Len(text) + 1)
          /\ s[k].start \in After(s, k - 1)..Len(text)
          /\ s[k].end \in (s[k].start + 1)..(Len(text) + 1)
          /\ SubSeq(text, s[k].start, s[k].end - 1) \in Phrase
          /\ Replacement(s[k]) \in Phrase

Gap(text, s, k) == SubSeq(text, After(s, k - 1), s[k].start - 1)

IsRendered(f, text, s) ==
    f = [k \in 0..Len(s) |->
          IF k = 0 THEN <<>>
          ELSE f[k - 1] \o SubSeq(text, After(s, k - 1), s[k].start - 1) \o Replacement(s[k])]

\* The result of rendering the first k matches, for every k.
Renders(f, text, s) ==
    /\ f[0] = <<>>
    /\ \A k \in 0..Len(s) : f[k] \in Text
    /\ \A k \in 1..Len(s) : f[k] = f[k - 1] \o Gap(text, s, k) \o Replacement(s[k])

LEMMA PartOfText ==
    ASSUME NEW text \in Text, NEW a \in 1..(Len(text) + 1), NEW b \in 0..Len(text)
    PROVE  SubSeq(text, a, b) \in Text
<1>1. Len(text) \in Nat /\ \A i \in 1..Len(text) : text[i] \in Letters
  BY TextFacts
<1>2. a \in Int /\ b \in Int /\ \A i \in a..b : text[i] \in Letters
  BY <1>1
<1>. QED
  BY <1>2, SubSeqProperties DEF Text, Letters

LEMMA EmptyText == <<>> \in Text
  BY DEF Text

LEMMA TextsConcat == \A s, t \in Text : s \o t \in Text
  BY ConcatProperties DEF Text

LEMMA SpacedFacts ==
    ASSUME NEW text \in Text, NEW s, Spaced(text, s)
    PROVE  /\ Len(s) \in Nat
           /\ \A k \in 1..Len(s) : Gap(text, s, k) \in Text /\ Replacement(s[k]) \in Text
           /\ \A k \in 0..Len(s) : After(s, k) \in 1..(Len(text) + 1)
<1>1. Len(s) \in Nat /\ Len(text) \in Nat
  BY TextFacts DEF Spaced
<1>2. ASSUME NEW k \in 1..Len(s)
      PROVE  Gap(text, s, k) \in Text /\ Replacement(s[k]) \in Text
             /\ s[k].end \in 1..(Len(text) + 1)
  <2>1. /\ After(s, k - 1) \in 1..(Len(text) + 1)
        /\ s[k].start \in After(s, k - 1)..Len(text)
        /\ s[k].end \in (s[k].start + 1)..(Len(text) + 1)
        /\ Replacement(s[k]) \in Phrase
    BY DEF Spaced
  <2>2. s[k].start - 1 \in 0..Len(text) /\ s[k].end \in 1..(Len(text) + 1)
    BY <1>1, <2>1
  <2>. QED
    BY <2>1, <2>2, PartOfText, PhraseFacts DEF Gap
<1>3. ASSUME NEW k \in 0..Len(s) PROVE After(s, k) \in 1..(Len(text) + 1)
  <2>1. CASE k = 0
    BY <1>1, <2>1 DEF After
  <2>2. CASE k # 0
    <3>1. k \in 1..Len(s)
      BY <1>1, <2>2
    <3>. QED
      BY <1>2, <2>2, <3>1 DEF After
  <2>. QED
    BY <2>1, <2>2
<1>. QED
  BY <1>1, <1>2, <1>3

LEMMA RenderedValue ==
    ASSUME NEW text \in Text, NEW s, Spaced(text, s)
    PROVE  \E f : /\ Renders(f, text, s)
                  /\ Rendered(text, s) = f[Len(s)] \o SubSeq(text, After(s, Len(s)), Len(text))
<1>. DEFINE n == Len(s)
            Step(t, k) == t \o Gap(text, s, k) \o Replacement(s[k])
            g == [x \in Text \X (1..n) |-> Step(x[1], x[2])]
            c == CHOOSE f : IsRendered(f, text, s)
<1>1. n \in Nat /\ \A k \in 1..n : Gap(text, s, k) \in Text /\ Replacement(s[k]) \in Text
  BY SpacedFacts
<1>2. \A t \in Text, k \in 1..n : Step(t, k) \in Text
  <2>1. ASSUME NEW t \in Text, NEW k \in 1..n PROVE Step(t, k) \in Text
    <3>1. t \o Gap(text, s, k) \in Text
      BY <1>1, TextsConcat
    <3>. QED
      BY <1>1, <3>1, TextsConcat
  <2>. QED
    BY <2>1
<1>3. g \in [Text \X (1..n) -> Text]
  <2>. HIDE DEF Step, n
  <2>. QED
    BY <1>2
<1>. HIDE DEF n, g
<1>4. PICK f \in [0..n -> Text] : IsChain(f, n, <<>>, g)
  BY <1>1, <1>3, EmptyText, ChainExists
<1>5. ASSUME NEW h, h \in [0..n -> Text], IsChain(h, n, <<>>, g), NEW k \in 1..n
      PROVE  h[k] = Step(h[k - 1], k)
  <2>1. k - 1 \in 0..n
    BY <1>1
  <2>2. h[k - 1] \in Text
    BY <1>5, <2>1
  <2>3. h[k] = g[<<h[k - 1], k>>]
    BY <1>5 DEF IsChain
  <2>. HIDE DEF Step
  <2>4. g[<<h[k - 1], k>>] = Step(h[k - 1], k)
    BY <2>2 DEF g
  <2>. QED
    BY <2>3, <2>4
<1>6. \A k \in 0..n : f[k] = IF k = 0 THEN <<>> ELSE Step(f[k - 1], k)
  <2>1. \A k \in 0..n : k = 0 \/ k \in 1..n
    BY <1>1
  <2>2. \A k \in 1..n : k # 0
    BY <1>1
  <2>3. f[0] = <<>>
    BY <1>4 DEF IsChain
  <2>4. \A k \in 1..n : f[k] = Step(f[k - 1], k)
    BY <1>4, <1>5
  <2>. HIDE DEF Step
  <2>. QED
    BY <2>1, <2>2, <2>3, <2>4
<1>7. IsRendered(f, text, s)
  <2>1. f = [k \in 0..n |-> f[k]]
    BY <1>4
  <2>. QED
    BY <1>6, <2>1 DEF IsRendered, n, Gap
<1>8. IsRendered(c, text, s)
  BY <1>7
<1>9. Rendered(text, s) = c[Len(s)] \o SubSeq(text, After(s, Len(s)), Len(text))
  BY DEF Rendered, IsRendered
<1>. HIDE DEF c
<1>10. c = [k \in 0..n |-> IF k = 0 THEN <<>> ELSE Step(c[k - 1], k)]
  BY <1>8, Zenon DEF IsRendered, Gap, n
<1>. HIDE DEF Step
<1>11. c[0] = <<>>
  <2>1. 0 \in 0..n
    BY <1>1
  <2>. QED
    BY <1>10, <2>1, Zenon
<1>12. ASSUME NEW k \in 1..n PROVE c[k] = Step(c[k - 1], k)
  <2>1. k \in 0..n /\ k # 0
    BY <1>1
  <2>. QED
    BY <1>10, <2>1, Zenon
<1>. DEFINE P == {k \in 0..n : c[k] \in Text}
<1>13. Inductive(P, n)
  <2>1. 0 \in P
    BY <1>1, <1>11, EmptyText
  <2>2. ASSUME NEW k \in 1..n, k - 1 \in P PROVE k \in P
    <3>1. c[k] \in Text
      BY <1>2, <1>12, <2>2
    <3>. QED
      BY <1>1, <3>1
  <2>. HIDE DEF P
  <2>. QED
    BY <2>1, <2>2 DEF Inductive
<1>14. \A k \in 0..n : c[k] \in Text
  <2>1. \A k \in 0..n : k \in P
    <3>. HIDE DEF P
    <3>. QED
      BY <1>1, <1>13, UpTo
  <2>. QED
    BY <2>1
<1>15. Renders(c, text, s)
  BY <1>11, <1>12, <1>14 DEF Renders, Step, n
<1>. QED
  BY <1>9, <1>15

\* The text up to the end of the first k matches, and the rest of it.
Upto(text, s, k) == SubSeq(text, 1, After(s, k) - 1)

Rest(text, s) == SubSeq(text, After(s, Len(s)), Len(text))

LEMMA UptoGrows ==
    ASSUME NEW text \in Text, NEW s, Spaced(text, s), NEW k \in 1..Len(s)
    PROVE  Upto(text, s, k)
             = Upto(text, s, k - 1) \o Gap(text, s, k) \o SubSeq(text, s[k].start, s[k].end - 1)
<1>. DEFINE a == After(s, k - 1)
            b == s[k].start
            e == s[k].end
            l == Len(text)
<1>1. l \in Nat /\ Len(s) \in Nat /\ text \in Seq(Word \cup {Break})
  BY TextFacts DEF Spaced, Text
<1>2. a \in 1..(l + 1) /\ b \in a..l /\ e \in (b + 1)..(l + 1)
  BY DEF Spaced
<1>3. After(s, k) = e
  BY <1>1 DEF After
<1>. HIDE DEF a, b, e, l
<1>4. /\ a - 1 \in 0..l /\ b - 1 \in (a - 1)..l /\ b - 1 \in 0..l /\ e - 1 \in (b - 1)..l
      /\ (a - 1) + 1 = a /\ (b - 1) + 1 = b /\ 1 \in 1..(l + 1) /\ 1 - 1 = 0
  BY <1>1, <1>2
<1>. DEFINE a1 == a - 1
            b1 == b - 1
            e1 == e - 1
<1>. HIDE DEF a1, b1, e1
<1>5. /\ a1 \in (1 - 1)..l /\ b1 \in a1..l /\ b1 \in (1 - 1)..l /\ e1 \in b1..l
      /\ 1 \in 1..(l + 1) /\ a1 + 1 = a /\ b1 + 1 = b
  BY <1>4 DEF a1, b1, e1
<1>6. SubSeq(text, 1, a1) \o SubSeq(text, a1 + 1, b1) = SubSeq(text, 1, b1)
  BY <1>1, <1>5, ConcatAdjacentSubSeq DEF l
<1>7. SubSeq(text, 1, b1) \o SubSeq(text, b1 + 1, e1) = SubSeq(text, 1, e1)
  BY <1>1, <1>5, ConcatAdjacentSubSeq DEF l
<1>. QED
  BY <1>3, <1>5, <1>6, <1>7 DEF a1, b1, e1, a, b, e, Gap, Upto

LEMMA UptoFacts ==
    ASSUME NEW text \in Text, NEW s, Spaced(text, s)
    PROVE  /\ Upto(text, s, 0) = <<>>
           /\ \A k \in 0..Len(s) : Upto(text, s, k) \in Text
           /\ Rest(text, s) \in Text
           /\ Upto(text, s, Len(s)) \o Rest(text, s) = text
<1>. DEFINE n == Len(s)
            l == Len(text)
<1>1. /\ n \in Nat /\ l \in Nat /\ n \in 0..n /\ l \in 0..l /\ 1 \in 1..(l + 1)
      /\ \A k \in 0..n : After(s, k) \in 1..(l + 1)
      /\ text \in Seq(Word \cup {Break})
  BY SpacedFacts, TextFacts DEF Text
<1>2. Upto(text, s, 0) = <<>>
  BY SubSeqEmpty DEF After, Upto
<1>3. ASSUME NEW k \in 0..n PROVE Upto(text, s, k) \in Text
  <2>1. After(s, k) - 1 \in 0..l
    BY <1>1
  <2>. QED
    BY <1>1, <2>1, PartOfText DEF Upto
<1>4. Rest(text, s) \in Text
  BY <1>1, PartOfText DEF Rest
<1>. DEFINE a1 == After(s, n) - 1
<1>5. a1 + 1 = After(s, n) /\ a1 \in (1 - 1)..l /\ l \in a1..l
  <2>. DEFINE a == After(s, n)
  <2>1. a \in 1..(l + 1)
    BY <1>1
  <2>. HIDE DEF a
  <2>2. (a - 1) + 1 = a /\ a - 1 \in (1 - 1)..l /\ l \in (a - 1)..l
    BY <1>1, <2>1
  <2>. QED
    BY <2>2 DEF a
<1>. HIDE DEF a1
<1>6. SubSeq(text, 1, a1) \o SubSeq(text, a1 + 1, l) = SubSeq(text, 1, l)
  BY <1>1, <1>5, ConcatAdjacentSubSeq
<1>7. SubSeq(text, 1, l) = text
  BY <1>1, SubSeqFull
<1>. QED
  BY <1>2, <1>3, <1>4, <1>5, <1>6, <1>7 DEF a1, Upto, Rest

\* The rendered text has the lines of the text.
LEMMA RenderedShape ==
    ASSUME NEW text \in Text, NEW s, Spaced(text, s)
    PROVE  Rendered(text, s) \in Text /\ Shape(Rendered(text, s), text)
<1>. DEFINE n == Len(s)
            Raw(k) == Upto(text, s, k)
<1>1. n \in Nat /\ n \in 0..n /\ \A k \in 1..n : Gap(text, s, k) \in Text
  BY SpacedFacts
<1>2. PICK f : Renders(f, text, s) /\ Rendered(text, s) = f[n] \o Rest(text, s)
  BY RenderedValue DEF Rest
<1>3. /\ f[0] = <<>> /\ \A k \in 0..n : f[k] \in Text
      /\ \A k \in 1..n : f[k] = f[k - 1] \o Gap(text, s, k) \o Replacement(s[k])
  BY <1>2 DEF Renders
<1>4. Raw(0) = <<>> /\ (\A k \in 0..n : Raw(k) \in Text)
      /\ Rest(text, s) \in Text /\ Raw(n) \o Rest(text, s) = text
  BY UptoFacts
<1>. DEFINE P == {k \in 0..n : Shape(f[k], Raw(k))}
<1>5. 0 \in P
  <2>1. 0 \in 0..n /\ Shape(<<>>, <<>>)
    BY <1>1 DEF Shape
  <2>. HIDE DEF Raw
  <2>. QED
    BY <1>3, <1>4, <2>1
<1>6. ASSUME NEW k \in 1..n, k - 1 \in P PROVE k \in P
  <2>. DEFINE j == k - 1
              p == Replacement(s[k])
              q == SubSeq(text, s[k].start, s[k].end - 1)
              d == Gap(text, s, k)
  <2>1. p \in Phrase /\ q \in Phrase /\ d \in Text /\ j \in 0..n /\ k \in 0..n
    BY <1>1 DEF Spaced
  <2>2. f[k] = f[j] \o d \o p /\ Raw(k) = Raw(j) \o d \o q
    BY <1>3, UptoGrows
  <2>3. Shape(f[j], Raw(j))
    BY <1>6
  <2>4. f[j] \in Text /\ Raw(j) \in Text
    BY <1>3, <1>4, <2>1
  <2>. HIDE DEF j, p, q, d, Raw
  <2>5. f[j] \o d \in Text /\ Raw(j) \o d \in Text /\ Shape(f[j] \o d, Raw(j) \o d)
    BY <2>1, <2>3, <2>4, TextsConcat, ShapeStays
  <2>6. Shape(f[k], Raw(k))
    BY <2>1, <2>2, <2>5, ShapeOfPhrases
  <2>. QED
    BY <2>1, <2>6
<1>. HIDE DEF P
<1>7. \A k \in 0..n : k \in P
  <2>1. Inductive(P, n)
    BY <1>5, <1>6 DEF Inductive
  <2>. HIDE DEF n
  <2>. QED
    BY <1>1, <2>1, UpTo
<1>. HIDE DEF n, Raw
<1>8. f[n] \in Text /\ Raw(n) \in Text /\ Shape(f[n], Raw(n))
  BY <1>1, <1>3, <1>4, <1>7 DEF P
<1>. DEFINE rest == Rest(text, s)
            now == f[n]
            was == Raw(n)
<1>9. now \in Text /\ was \in Text /\ Shape(now, was) /\ rest \in Text
  BY <1>4, <1>8
<1>10. was \o rest = text /\ Rendered(text, s) = now \o rest
  BY <1>2, <1>4
<1>. HIDE DEF rest, now, was
<1>11. now \o rest \in Text /\ Shape(now \o rest, was \o rest)
  BY <1>9, ShapeStays, TextsConcat
<1>. QED
  BY <1>10, <1>11

\* With the originals put in, it is the text.
LEMMA RenderedOriginals ==
    ASSUME NEW text \in Text, NEW s, Spaced(text, s),
           \A k \in 1..Len(s) : Replacement(s[k]) = SubSeq(text, s[k].start, s[k].end - 1)
    PROVE  Rendered(text, s) = text
<1>. DEFINE n == Len(s)
            Raw(k) == Upto(text, s, k)
<1>1. n \in Nat /\ n \in 0..n
  BY SpacedFacts
<1>2. PICK f : Renders(f, text, s) /\ Rendered(text, s) = f[n] \o Rest(text, s)
  BY RenderedValue DEF Rest
<1>3. /\ f[0] = <<>>
      /\ \A k \in 1..n : f[k] = f[k - 1] \o Gap(text, s, k) \o Replacement(s[k])
  BY <1>2 DEF Renders
<1>4. Raw(0) = <<>> /\ Raw(n) \o Rest(text, s) = text
  BY UptoFacts
<1>. DEFINE P == {k \in 0..n : f[k] = Raw(k)}
<1>5. 0 \in P
  <2>1. 0 \in 0..n
    BY <1>1
  <2>. HIDE DEF Raw
  <2>. QED
    BY <1>3, <1>4, <2>1
<1>6. ASSUME NEW k \in 1..n, k - 1 \in P PROVE k \in P
  <2>1. k \in 0..n
    BY <1>1
  <2>2. Raw(k) = Raw(k - 1) \o Gap(text, s, k) \o Replacement(s[k])
    BY UptoGrows
  <2>. HIDE DEF Raw
  <2>. QED
    BY <1>3, <1>6, <2>1, <2>2
<1>. HIDE DEF P
<1>7. \A k \in 0..n : k \in P
  <2>1. Inductive(P, n)
    BY <1>5, <1>6 DEF Inductive
  <2>. HIDE DEF n
  <2>. QED
    BY <1>1, <2>1, UpTo
<1>. HIDE DEF n, Raw
<1>8. f[n] = Raw(n)
  BY <1>1, <1>7 DEF P
<1>. QED
  BY <1>2, <1>4, <1>8

-----------------------------------------------------------------------------
(* Where matches and segments are.                                         *)

LEMMA MatchesAreSpaced ==
    ASSUME NEW terms, Loaded(terms), NEW text \in Text
    PROVE  /\ Spaced(text, Matches(terms, text))
           /\ Range(Matches(terms, text)) \subseteq Candidates(terms, text)
           /\ DOMAIN Matches(terms, text) = 1..Len(Matches(terms, text))
<1>. DEFINE C == Candidates(terms, text)
            s == Matches(terms, text)
            l == Len(text)
<1>1. s \in Seq(C) /\ Apart(s)
  BY MatchesFacts
<1>2. ASSUME NEW m \in C
      PROVE  /\ m.start \in 1..l /\ m.end \in 2..(l + 1) /\ m.start < m.end
             /\ m.original = SubSeq(text, m.start, m.end - 1)
             /\ m.original \in Phrase /\ m.canonical \in Phrase
  <2>1. terms \in Seq(Term)
    BY DEF Loaded
  <2>. QED
    BY <2>1, CandidateFacts
<1>3. l \in Nat
  BY TextFacts
<1>. HIDE DEF C, s, l
<1>4. Len(s) \in Nat /\ DOMAIN s = 1..Len(s) /\ \A k \in 1..Len(s) : s[k] \in C
  BY <1>1
<1>5. ASSUME NEW k \in 1..Len(s)
      PROVE  After(s, k - 1) \in 1..(l + 1) /\ s[k].start \in After(s, k - 1)..l
  <2>1. s[k].start \in 1..l
    BY <1>2, <1>4
  <2>2. CASE k = 1
    <3>1. After(s, k - 1) = 1
      BY <2>2 DEF After
    <3>. QED
      BY <1>3, <2>1, <3>1
  <2>3. CASE k # 1
    <3>. DEFINE j == k - 1
    <3>1. k \in 2..Len(s) /\ j \in 1..Len(s) /\ j # 0
      BY <1>4, <2>3
    <3>2. s[j].end <= s[k].start
      BY <1>1, <3>1 DEF Apart
    <3>3. s[j].end \in 2..(l + 1)
      BY <1>2, <1>4, <3>1
    <3>4. After(s, j) = s[j].end
      BY <3>1 DEF After
    <3>. HIDE DEF j
    <3>5. After(s, j) \in 1..(l + 1) /\ s[k].start \in After(s, j)..l
      BY <1>3, <2>1, <3>2, <3>3, <3>4
    <3>. QED
      BY <3>5 DEF j
  <2>. QED
    BY <2>2, <2>3
<1>6. ASSUME NEW k \in 1..Len(s)
      PROVE  /\ s[k].end \in (s[k].start + 1)..(l + 1)
             /\ SubSeq(text, s[k].start, s[k].end - 1) \in Phrase
             /\ Replacement(s[k]) \in Phrase
  <2>1. s[k] \in C
    BY <1>4
  <2>2. /\ s[k].start \in 1..l /\ s[k].end \in 2..(l + 1) /\ s[k].start < s[k].end
        /\ s[k].original = SubSeq(text, s[k].start, s[k].end - 1)
        /\ s[k].original \in Phrase /\ s[k].canonical \in Phrase
    BY <1>2, <2>1
  <2>3. s[k].end \in (s[k].start + 1)..(l + 1)
    BY <1>3, <2>2
  <2>. QED
    BY <2>2, <2>3 DEF Replacement
<1>7. Spaced(text, s)
  BY <1>4, <1>5, <1>6 DEF Spaced, l
<1>8. Range(s) \subseteq C
  BY <1>4 DEF Range
<1>. QED
  BY <1>4, <1>7, <1>8 DEF s, C

\* Matches with each original in the place of its replacement.
Undone(s) == [i \in DOMAIN s |-> [s[i] EXCEPT !.canonical = s[i].original]]

LEMMA UndoneIsText ==
    ASSUME NEW terms, Loaded(terms), NEW text \in Text
    PROVE  Rendered(text, Undone(Matches(terms, text))) = text
<1>. DEFINE s == Matches(terms, text)
            t == Undone(s)
            n == Len(s)
<1>1. Spaced(text, s) /\ Range(s) \subseteq Candidates(terms, text) /\ DOMAIN s = 1..n
  BY MatchesAreSpaced
<1>2. ASSUME NEW k \in 1..n
      PROVE  /\ t[k].start = s[k].start /\ t[k].end = s[k].end
             /\ Replacement(t[k]) = SubSeq(text, s[k].start, s[k].end - 1)
  <2>1. s[k] \in Candidates(terms, text)
    BY <1>1 DEF Range
  <2>2. terms \in Seq(Term)
    BY DEF Loaded
  <2>. DEFINE m == s[k]
              r == [m EXCEPT !.canonical = m.original]
  <2>3. PICK j \in DOMAIN terms :
           m = Match(text, SubSeq(text, m.start, m.end - 1), m.start, terms[j])
    BY <2>1, <2>2, CandidateFacts
  <2>4. m.original = SubSeq(text, m.start, m.end - 1)
    BY <2>1, <2>2, CandidateFacts
  <2>5. t[k] = r
    BY <1>1 DEF Undone
  <2>. HIDE DEF s
  <2>6. /\ r.start = m.start /\ r.end = m.end /\ r.original = m.original
        /\ r.canonical = m.original
    BY <2>3 DEF Match
  <2>. HIDE DEF r, m, t
  <2>7. Replacement(r) = m.original
    BY <2>6 DEF Replacement
  <2>. QED
    BY <2>4, <2>5, <2>6, <2>7 DEF m
<1>3. n \in Nat /\ DOMAIN t = 1..n /\ Len(t) = n
  <2>1. n \in Nat
    BY <1>1 DEF Spaced
  <2>2. t = [i \in 1..n |-> t[i]]
    BY <1>1 DEF Undone
  <2>. HIDE DEF n, t
  <2>. QED
    BY <2>1, <2>2
<1>. HIDE DEF s, t, n
<1>4. \A k \in 0..n : After(t, k) = After(s, k)
  <2>1. \A k \in 0..n : k # 0 => k \in 1..n
    BY <1>3
  <2>. QED
    BY <1>2, <2>1 DEF After
<1>5. Spaced(text, t)
  <2>1. ASSUME NEW k \in 1..n
        PROVE /\ After(t, k - 1) \in 1..(Len(text) + 1)
              /\ t[k].start \in After(t, k - 1)..Len(text)
              /\ t[k].end \in (t[k].start + 1)..(Len(text) + 1)
              /\ SubSeq(text, t[k].start, t[k].end - 1) \in Phrase
              /\ Replacement(t[k]) \in Phrase
    <3>1. k - 1 \in 0..n
      BY <1>3
    <3>2. After(t, k - 1) = After(s, k - 1)
      BY <1>4, <3>1
    <3>. QED
      BY <1>1, <1>2, <3>2 DEF Spaced, n
  <2>. QED
    BY <1>3, <2>1 DEF Spaced
<1>6. \A k \in 1..Len(t) : Replacement(t[k]) = SubSeq(text, t[k].start, t[k].end - 1)
  BY <1>2, <1>3
<1>7. Rendered(text, t) = text
  BY <1>5, <1>6, RenderedOriginals
<1>. QED
  BY <1>7 DEF s, t

-----------------------------------------------------------------------------
(* Joining.                                                                *)

IsJoined(f, segments) ==
    f = [k \in 0..Len(segments) |->
          IF k = 0 THEN <<>>
          ELSE IF k = 1 THEN segments[1]
          ELSE f[k - 1] \o <<Break>> \o segments[k]]

Joins(f, segments) ==
    /\ f[0] = <<>>
    /\ \A k \in 0..Len(segments) : f[k] \in Text
    /\ \A k \in 1..Len(segments) :
          f[k] = IF k = 1 THEN segments[1] ELSE f[k - 1] \o <<Break>> \o segments[k]

LEMMA BreakText == <<Break>> \in Text /\ Len(<<Break>>) = 1 /\ <<Break>>[1] = Break
  BY DEF Text

LEMMA JoinedValue ==
    ASSUME NEW segments \in Seq(Text)
    PROVE  \E f : Joins(f, segments) /\ Joined(segments) = f[Len(segments)]
<1>. DEFINE n == Len(segments)
            Step(t, k) == IF k = 1 THEN segments[1] ELSE t \o <<Break>> \o segments[k]
            g == [x \in Text \X (1..n) |-> Step(x[1], x[2])]
            c == CHOOSE f : IsJoined(f, segments)
<1>1. n \in Nat /\ \A k \in 1..n : segments[k] \in Text
  OBVIOUS
<1>2. \A t \in Text, k \in 1..n : Step(t, k) \in Text
  <2>1. ASSUME NEW t \in Text, NEW k \in 1..n PROVE Step(t, k) \in Text
    <3>1. t \o <<Break>> \in Text
      BY BreakText, TextsConcat
    <3>2. t \o <<Break>> \o segments[k] \in Text
      BY <1>1, <3>1, TextsConcat
    <3>3. k = 1 => segments[1] \in Text
      BY <1>1
    <3>. QED
      BY <3>2, <3>3
  <2>. QED
    BY <2>1
<1>3. g \in [Text \X (1..n) -> Text]
  <2>. HIDE DEF Step, n
  <2>. QED
    BY <1>2
<1>. HIDE DEF n, g
<1>4. PICK f \in [0..n -> Text] : IsChain(f, n, <<>>, g)
  BY <1>1, <1>3, EmptyText, ChainExists
<1>5. ASSUME NEW k \in 1..n PROVE f[k] = Step(f[k - 1], k)
  <2>1. k - 1 \in 0..n
    BY <1>1
  <2>2. f[k - 1] \in Text
    BY <1>4, <2>1
  <2>3. f[k] = g[<<f[k - 1], k>>]
    BY <1>4 DEF IsChain
  <2>. HIDE DEF Step
  <2>4. g[<<f[k - 1], k>>] = Step(f[k - 1], k)
    BY <2>2 DEF g
  <2>. QED
    BY <2>3, <2>4
<1>6. \A k \in 0..n : f[k] = IF k = 0 THEN <<>> ELSE Step(f[k - 1], k)
  <2>1. \A k \in 0..n : k = 0 \/ k \in 1..n
    BY <1>1
  <2>2. \A k \in 1..n : k # 0
    BY <1>1
  <2>3. f[0] = <<>>
    BY <1>4 DEF IsChain
  <2>. HIDE DEF Step
  <2>. QED
    BY <1>5, <2>1, <2>2, <2>3
<1>7. IsJoined(f, segments)
  <2>1. f = [k \in 0..n |-> f[k]]
    BY <1>4
  <2>. QED
    BY <1>6, <2>1 DEF IsJoined, n
<1>8. IsJoined(c, segments)
  BY <1>7
<1>9. Joined(segments) = c[Len(segments)]
  BY DEF Joined, IsJoined
<1>. HIDE DEF c
<1>10. c = [k \in 0..n |-> IF k = 0 THEN <<>> ELSE Step(c[k - 1], k)]
  BY <1>8, Zenon DEF IsJoined, n
<1>. HIDE DEF Step
<1>11. c[0] = <<>>
  <2>1. 0 \in 0..n
    BY <1>1
  <2>. QED
    BY <1>10, <2>1, Zenon
<1>12. ASSUME NEW k \in 1..n PROVE c[k] = Step(c[k - 1], k)
  <2>1. k \in 0..n /\ k # 0
    BY <1>1
  <2>. QED
    BY <1>10, <2>1, Zenon
<1>. DEFINE P == {k \in 0..n : c[k] \in Text}
<1>13. Inductive(P, n)
  <2>1. 0 \in P
    BY <1>1, <1>11, EmptyText
  <2>2. ASSUME NEW k \in 1..n, k - 1 \in P PROVE k \in P
    <3>1. c[k] \in Text
      BY <1>2, <1>12, <2>2
    <3>. QED
      BY <1>1, <3>1
  <2>. HIDE DEF P
  <2>. QED
    BY <2>1, <2>2 DEF Inductive
<1>14. \A k \in 0..n : c[k] \in Text
  <2>1. \A k \in 0..n : k \in P
    <3>. HIDE DEF P
    <3>. QED
      BY <1>1, <1>13, UpTo
  <2>. QED
    BY <2>1
<1>15. Joins(c, segments)
  BY <1>11, <1>12, <1>14 DEF Joins, Step, n
<1>. QED
  BY <1>9, <1>15

LEMMA JoinedIsText ==
    ASSUME NEW segments \in Seq(Text)
    PROVE  Joined(segments) \in Text
<1>1. Len(segments) \in 0..Len(segments)
  OBVIOUS
<1>. QED
  BY <1>1, JoinedValue DEF Joins

Plain(t) == \A i \in 1..Len(t) : t[i] # Break

\* g stands in t behind the first o elements, and fills a line there.
StandsAt(t, g, o) ==
    /\ o + Len(g) <= Len(t)
    /\ \A i \in 1..Len(g) : t[o + i] = g[i]
    /\ o + Len(g) < Len(t) => t[o + Len(g) + 1] = Break

\* p is in g, which is the j-th line of t.
HomeAt(t, p, g, j, o) ==
    /\ BreaksTo(t, p - 1) + 1 = j
    /\ o + 1 <= p /\ p <= o + Len(g)
    /\ StandsAt(t, g, o)

\* Whatever is no break in t is in the segment that is the line.
Homes(t, segments, k) ==
    \A p \in 1..Len(t) : t[p] # Break =>
       \E j \in 1..k, o \in Nat : HomeAt(t, p, segments[j], j, o)

LEMMA PlainHasNoBreaks ==
    ASSUME NEW t \in Text, Plain(t), NEW q \in 0..Len(t)
    PROVE  BreaksTo(t, q) = 0
<1>1. {j \in 1..q : t[j] = Break} = {}
  <2>1. \A j \in 1..q : j \in 1..Len(t)
    BY TextFacts
  <2>. QED
    BY <2>1 DEF Plain
<1>. QED
  BY <1>1, FS_EmptySet DEF BreaksTo

LEMMA ConcatFacts ==
    ASSUME NEW s \in Text, NEW t \in Text
    PROVE  /\ s \o t \in Text /\ Len(s \o t) = Len(s) + Len(t)
           /\ \A i \in 1..(Len(s) + Len(t)) :
                 (s \o t)[i] = IF i <= Len(s) THEN s[i] ELSE t[i - Len(s)]
  BY ConcatProperties DEF Text

LEMMA FirstHome ==
    ASSUME NEW segments \in Seq(Text), Len(segments) # 0, Plain(segments[1])
    PROVE  Homes(segments[1], segments, 1) /\ Breaks(segments[1]) = 0
<1>. DEFINE t == segments[1]
<1>1. t \in Text
  <2>1. 1 \in 1..Len(segments)
    OBVIOUS
  <2>. QED
    BY <2>1
<1>2. Len(t) \in Nat /\ Len(t) \in 0..Len(t)
  BY <1>1, TextFacts
<1>3. ASSUME NEW p \in 1..Len(t) PROVE HomeAt(t, p, t, 1, 0)
  <2>1. p - 1 \in 0..Len(t) /\ 0 + 1 <= p /\ p <= 0 + Len(t)
    BY <1>2
  <2>2. BreaksTo(t, p - 1) = 0
    BY <1>1, <2>1, PlainHasNoBreaks
  <2>3. StandsAt(t, t, 0)
    BY <1>2 DEF StandsAt
  <2>. QED
    BY <2>1, <2>2, <2>3 DEF HomeAt
<1>4. Breaks(t) = 0
  BY <1>1, <1>2, PlainHasNoBreaks DEF Breaks
<1>5. 1 \in 1..1 /\ 0 \in Nat
  OBVIOUS
<1>. QED
  BY <1>3, <1>4, <1>5 DEF Homes

LEMMA NextHome ==
    ASSUME NEW segments \in Seq(Text), NEW k \in 2..Len(segments), Plain(segments[k]),
           NEW f \in Text, Homes(f, segments, k - 1), Breaks(f) = k - 2,
           NEW t, t = f \o <<Break>> \o segments[k]
    PROVE  Homes(t, segments, k) /\ Breaks(t) = k - 1
<1>. DEFINE g == segments[k]
            u == f \o <<Break>>
            n == Len(f)
            m == Len(g)
<1>1. g \in Text /\ k \in Nat /\ k \in 1..k /\ \A j \in 1..(k - 1) : j \in 1..k
  OBVIOUS
<1>2. n \in Nat /\ m \in Nat
  BY <1>1, TextFacts
<1>3. /\ u \in Text /\ Len(u) = n + 1
      /\ \A i \in 1..(n + 1) : u[i] = IF i <= n THEN f[i] ELSE <<Break>>[i - n]
  BY BreakText, ConcatProperties DEF Text
<1>4. u[n + 1] = Break /\ \A i \in 1..n : u[i] = f[i]
  <2>1. n + 1 \in 1..(n + 1) /\ ~(n + 1 <= n) /\ (n + 1) - n = 1
    BY <1>2
  <2>2. \A i \in 1..n : i \in 1..(n + 1) /\ i <= n
    BY <1>2
  <2>. QED
    BY <1>3, <2>1, <2>2, BreakText
<1>. HIDE DEF g
<1>5. t = u \o g
  BY DEF g
<1>. HIDE DEF u
<1>6. /\ t \in Text /\ Len(t) = (n + 1) + m
      /\ \A i \in 1..((n + 1) + m) : t[i] = IF i <= n + 1 THEN u[i] ELSE g[i - (n + 1)]
  <2>0. u \in Text /\ g \in Text
    BY <1>1, <1>3
  <2>1. /\ t \in Text /\ Len(t) = Len(u) + m
        /\ \A i \in 1..(Len(u) + m) : t[i] = IF i <= Len(u) THEN u[i] ELSE g[i - Len(u)]
    <3>1. /\ u \o g \in Text /\ Len(u \o g) = Len(u) + Len(g)
          /\ \A i \in 1..(Len(u) + Len(g)) :
                (u \o g)[i] = IF i <= Len(u) THEN u[i] ELSE g[i - Len(u)]
      BY <2>0, ConcatFacts
    <3>. QED
      BY <1>5, <3>1, Zenon
  <2>2. Len(u) = n + 1
    BY <1>3
  <2>. HIDE DEF n, m
  <2>. QED
    BY <2>1, <2>2
<1>. DEFINE N == Len(t)
<1>. HIDE DEF n, m, N
<1>0. N \in Nat /\ N = (n + 1) + m /\ N = Len(t)
  <2>1. Len(t) \in Nat
    BY <1>6, TextFacts, Zenon
  <2>. QED
    BY <1>6, <2>1, Zenon DEF N
<1>7. t[n + 1] = Break /\ \A i \in 1..n : t[i] = f[i]
  <2>1. n + 1 \in 1..((n + 1) + m) /\ n + 1 <= n + 1
    BY <1>2
  <2>2. \A i \in 1..n : i \in 1..((n + 1) + m) /\ i <= n + 1
    BY <1>2
  <2>. QED
    BY <1>4, <1>6, <2>1, <2>2
<1>8. \A i \in 1..m : t[(n + 1) + i] = g[i]
  <2>1. ASSUME NEW i \in 1..m
        PROVE  /\ (n + 1) + i \in 1..((n + 1) + m) /\ ~((n + 1) + i <= n + 1)
               /\ ((n + 1) + i) - (n + 1) = i
    BY <1>2
  <2>. QED
    BY <1>6, <2>1
<1>9. BreaksTo(u, Len(u)) = k - 1
  <2>1. 1 \in 0..Len(<<Break>>)
    BY BreakText
  <2>2. BreaksTo(f \o <<Break>>, Len(f) + 1) = Breaks(f) + BreaksTo(<<Break>>, 1)
    BY <2>1, BreakText, BreaksBehind
  <2>3. BreaksTo(<<Break>>, 1) = 1
    <3>1. {j \in 1..1 : <<Break>>[j] = Break} = {1}
      BY BreakText
    <3>2. Cardinality({1}) = 1
      BY FS_Singleton
    <3>. QED
      BY <3>1, <3>2 DEF BreaksTo
  <2>4. BreaksTo(u, n + 1) = (k - 2) + 1
    BY <2>2, <2>3 DEF u, n
  <2>. QED
    BY <1>1, <1>3, <2>4
<1>10. ASSUME NEW q \in 0..m PROVE BreaksTo(t, (n + 1) + q) = k - 1
  <2>1. q \in 0..Len(g)
    BY DEF m
  <2>2. BreaksTo(u \o g, Len(u) + q) = Breaks(u) + BreaksTo(g, q)
    BY <1>1, <1>3, <2>1, BreaksBehind
  <2>3. BreaksTo(g, q) = 0
    BY <1>1, <2>1, PlainHasNoBreaks DEF g
  <2>4. Breaks(u) = k - 1
    BY <1>9 DEF Breaks
  <2>. DEFINE x == (n + 1) + q
  <2>5. Len(u) + q = x
    BY <1>3
  <2>. HIDE DEF x
  <2>6. BreaksTo(t, x) = (k - 1) + 0
    BY <1>5, <2>2, <2>3, <2>4, <2>5
  <2>7. BreaksTo(t, x) = k - 1
    BY <1>1, <2>6
  <2>. QED
    BY <2>7 DEF x
<1>11. Breaks(t) = k - 1
  <2>1. m \in 0..m
    BY <1>2
  <2>. QED
    BY <1>6, <1>10, <2>1 DEF Breaks
<1>12. ASSUME NEW p \in 1..Len(t), t[p] # Break
       PROVE  \E j \in 1..k, o \in Nat : HomeAt(t, p, segments[j], j, o)
  <2>1. CASE p <= n
    <3>1. p \in 1..n /\ p - 1 \in Int /\ p - 1 <= n /\ p - 1 <= Len(u)
      BY <1>2, <1>3, <2>1
    <3>2. f[p] # Break
      BY <1>7, <1>12, <3>1
    <3>3. PICK j \in 1..(k - 1), o \in Nat : HomeAt(f, p, segments[j], j, o)
      BY <3>1, <3>2 DEF Homes, n
    <3>. DEFINE h == segments[j]
                l == Len(h)
    <3>4. l \in Nat
      <4>1. j \in 1..Len(segments)
        OBVIOUS
      <4>2. h \in Text
        BY <4>1
      <4>. QED
        BY <4>2, TextFacts
    <3>5. BreaksTo(t, p - 1) = BreaksTo(f, p - 1)
      <4>1. BreaksTo(u \o g, p - 1) = BreaksTo(u, p - 1)
        BY <1>1, <1>3, <3>1, BreaksInPrefix
      <4>2. BreaksTo(f \o <<Break>>, p - 1) = BreaksTo(f, p - 1)
        BY <3>1, BreakText, BreaksInPrefix DEF n
      <4>. QED
        BY <1>5, <4>1, <4>2 DEF u
    <3>6. /\ BreaksTo(f, p - 1) + 1 = j /\ o + 1 <= p /\ p <= o + l
          /\ StandsAt(f, h, o)
      BY <3>3 DEF HomeAt
    <3>. HIDE DEF h, l
    <3>7. /\ o + l <= n /\ \A i \in 1..l : f[o + i] = h[i]
          /\ o + l < n => f[o + l + 1] = Break
      BY <3>6 DEF StandsAt, n, l
    <3>8. o + l <= Len(t)
      <4>1. o + l <= N
        BY <1>0, <1>2, <3>4, <3>7
      <4>. QED
        BY <1>0, <4>1
    <3>9. \A i \in 1..l : t[o + i] = h[i]
      <4>1. \A i \in 1..l : o + i \in 1..n
        BY <1>2, <3>4, <3>7
      <4>. QED
        BY <1>7, <3>7, <4>1
    <3>10. t[o + l + 1] = Break
      <4>1. CASE o + l = n
        BY <1>7, <4>1
      <4>2. CASE o + l < n
        <5>1. o + l + 1 \in 1..n
          BY <1>2, <3>4, <4>2
        <5>. QED
          BY <1>7, <3>7, <4>2, <5>1
      <4>3. o + l = n \/ o + l < n
        BY <1>2, <3>4, <3>7
      <4>. QED
        BY <4>1, <4>2, <4>3
    <3>11. StandsAt(t, h, o)
      BY <3>8, <3>9, <3>10 DEF StandsAt, l
    <3>12. HomeAt(t, p, h, j, o)
      BY <3>5, <3>6, <3>11 DEF HomeAt, l
    <3>. QED
      BY <1>1, <3>12 DEF h
  <2>2. CASE ~(p <= n)
    <3>. DEFINE o == n + 1
                q == p - o - 1
    <3>1. p # n + 1
      BY <1>7, <1>12
    <3>2. /\ o \in Nat /\ o + 1 <= p /\ p <= o + m /\ q \in 0..m /\ p - 1 = (n + 1) + q
      <4>1. p \in 1..N
        BY <1>0
      <4>. QED
        BY <1>0, <1>2, <2>2, <3>1, <4>1
    <3>3. BreaksTo(t, p - 1) = k - 1
      BY <1>10, <3>2
    <3>4. StandsAt(t, g, o)
      <4>1. o + m <= N /\ ~(o + m < N)
        BY <1>0, <1>2
      <4>2. o + m <= Len(t) /\ ~(o + m < Len(t))
        BY <1>0, <4>1
      <4>. QED
        BY <1>8, <4>2 DEF StandsAt, m
    <3>. HIDE DEF o, q
    <3>5. BreaksTo(t, p - 1) + 1 = k
      BY <1>1, <3>3
    <3>6. HomeAt(t, p, g, k, o)
      BY <3>2, <3>4, <3>5 DEF HomeAt, m
    <3>. QED
      BY <1>1, <3>2, <3>6 DEF g
  <2>. QED
    BY <2>1, <2>2
<1>. QED
  BY <1>11, <1>12 DEF Homes

\* If no segment has a break of its own, segments are lines.
LEMMA JoinedHomes ==
    ASSUME NEW segments \in Seq(Text), \A k \in 1..Len(segments) : Plain(segments[k])
    PROVE  Homes(Joined(segments), segments, Len(segments))
<1>. DEFINE n == Len(segments)
<1>1. PICK f : Joins(f, segments) /\ Joined(segments) = f[n]
  BY JoinedValue
<1>2. /\ f[0] = <<>> /\ \A k \in 0..n : f[k] \in Text
      /\ \A k \in 1..n : f[k] = IF k = 1 THEN segments[1] ELSE f[k - 1] \o <<Break>> \o segments[k]
  BY <1>1 DEF Joins
<1>3. n \in Nat /\ n \in 0..n
  OBVIOUS
<1>. DEFINE Good(k) == Homes(f[k], segments, k) /\ (k # 0 => Breaks(f[k]) = k - 1)
            P == {k \in 0..n : Good(k)}
<1>4. Good(0)
  <2>1. Len(<<>>) = 0 /\ 1..0 = {}
    OBVIOUS
  <2>. QED
    BY <1>2, <2>1 DEF Homes
<1>5. ASSUME NEW k \in 1..n, Good(k - 1) PROVE Good(k)
  <2>1. CASE k = 1
    <3>1. f[1] = segments[1] /\ n # 0 /\ Plain(segments[1])
      BY <1>2, <1>3, <2>1
    <3>2. Homes(segments[1], segments, 1) /\ Breaks(segments[1]) = 0
      BY <3>1, FirstHome
    <3>. QED
      BY <2>1, <3>1, <3>2
  <2>2. CASE k # 1
    <3>. DEFINE j == k - 1
    <3>1. k \in 2..n /\ j \in 0..n /\ j # 0 /\ j - 1 = k - 2
      BY <1>3, <2>2
    <3>2. f[j] \in Text /\ Homes(f[j], segments, j) /\ Breaks(f[j]) = k - 2
      BY <1>2, <1>5, <3>1
    <3>3. f[k] = f[j] \o <<Break>> \o segments[k]
      BY <1>2, <2>2
    <3>4. Plain(segments[k])
      OBVIOUS
    <3>5. Homes(f[k], segments, k) /\ Breaks(f[k]) = k - 1
      BY <3>1, <3>2, <3>3, <3>4, NextHome
    <3>. QED
      BY <3>5
  <2>. QED
    BY <2>1, <2>2
<1>. HIDE DEF Good
<1>6. Inductive(P, n)
  <2>1. 0 \in 0..n /\ \A k \in 1..n : k \in 0..n
    BY <1>3
  <2>. QED
    BY <1>4, <1>5, <2>1 DEF Inductive
<1>7. \A k \in 0..n : k \in P
  <2>. HIDE DEF P, n
  <2>. QED
    BY <1>3, <1>6, UpTo
<1>8. Good(n)
  BY <1>3, <1>7
<1>. QED
  BY <1>1, <1>8 DEF Good

\* A phrase that stands in a text of lines stands in the line it begins in.
LEMMA PhraseAtHome ==
    ASSUME NEW t \in Text, NEW g \in Text, NEW j, NEW o \in Nat, NEW p \in 1..Len(t),
           NEW e \in (p + 1)..(Len(t) + 1), SubSeq(t, p, e - 1) \in Phrase,
           HomeAt(t, p, g, j, o)
    PROVE  Occurs(SubSeq(t, p, e - 1), g)
<1>. DEFINE q == SubSeq(t, p, e - 1)
            l == Len(g)
            n == e - p
<1>1. /\ Len(t) \in Nat /\ l \in Nat /\ p \in Nat /\ e \in Nat /\ n \in Nat \ {0}
      /\ n = (e - 1) - p + 1 /\ p <= e - 1
  BY TextFacts
<1>2. Len(q) = n /\ \A i \in 1..n : q[i] = t[p + i - 1]
  <2>1. \A i \in p..(e - 1) : t[i] \in Letters
    <3>1. \A i \in p..(e - 1) : i \in 1..Len(t)
      BY <1>1
    <3>. QED
      BY <3>1, TextFacts
  <2>2. p \in Int /\ e - 1 \in Int
    BY <1>1
  <2>3. /\ Len(q) = IF p <= e - 1 THEN (e - 1) - p + 1 ELSE 0
        /\ \A i \in 1..((e - 1) - p + 1) : q[i] = t[p + i - 1]
    BY <2>1, <2>2, SubSeqProperties
  <2>. QED
    BY <1>1, <2>3
<1>3. \A i \in 1..n : q[i] # Break
  <2>1. \A i \in 1..Len(q) : q[i] # Break
    BY PhraseFacts
  <2>. QED
    BY <1>2, <2>1
<1>. HIDE DEF q
<1>4. /\ o + 1 <= p /\ p <= o + l /\ o + l <= Len(t)
      /\ \A i \in 1..l : t[o + i] = g[i]
      /\ o + l < Len(t) => t[o + l + 1] = Break
  BY DEF HomeAt, StandsAt
<1>. HIDE DEF n, l
\* It does not reach beyond the line.
<1>5. p + n - 1 <= o + l
  <2>. SUFFICES ASSUME o + l < p + n - 1 PROVE FALSE
    BY <1>1
  <2>. DEFINE x == (o + l + 1) - p + 1
  <2>1. p + n - 1 <= Len(t)
    BY <1>1 DEF n
  <2>2. o + l < Len(t) /\ x \in 1..n /\ p + x - 1 = o + l + 1
    BY <1>1, <1>4, <2>1
  <2>. HIDE DEF x
  <2>3. t[o + l + 1] = Break
    BY <1>4, <2>2
  <2>. QED
    BY <1>2, <1>3, <2>2, <2>3
<1>. DEFINE s == p - o
<1>6. s \in 1..(l - n + 1) /\ s + n - 1 <= l /\ s \in Nat /\ s >= 1
  BY <1>1, <1>4, <1>5
<1>7. \A i \in 1..n : g[s + i - 1] = q[i]
  <2>1. ASSUME NEW i \in 1..n PROVE s + i - 1 \in 1..l /\ o + (s + i - 1) = p + i - 1
    BY <1>1, <1>6
  <2>. QED
    BY <1>2, <1>4, <2>1
<1>. HIDE DEF s
<1>8. SubSeq(g, s, s + n - 1) = q
  <2>. DEFINE r == SubSeq(g, s, s + n - 1)
              b == s + n - 1
  <2>1. \A i \in 1..l : g[i] \in Letters
    BY TextFacts DEF l
  <2>2. s \in Int /\ b \in Int /\ s <= b /\ b - s + 1 = n /\ \A i \in s..b : i \in 1..l
    BY <1>1, <1>6
  <2>3. \A i \in s..b : g[i] \in Letters
    BY <2>1, <2>2
  <2>. HIDE DEF b
  <2>4. /\ SubSeq(g, s, b) \in Seq(Letters)
        /\ Len(SubSeq(g, s, b)) = IF s <= b THEN b - s + 1 ELSE 0
        /\ \A i \in 1..(b - s + 1) : SubSeq(g, s, b)[i] = g[s + i - 1]
    BY <2>2, <2>3, SubSeqProperties
  <2>5. r \in Seq(Letters) /\ Len(r) = n /\ \A i \in 1..n : r[i] = g[s + i - 1]
    BY <2>2, <2>4 DEF b
  <2>6. q \in Seq(Letters)
    BY PhraseFacts DEF q, Text, Letters
  <2>. HIDE DEF r
  <2>7. r = q
    <3>1. Len(r) = Len(q) /\ \A i \in 1..Len(r) : r[i] = q[i]
      BY <1>2, <1>7, <2>5
    <3>. QED
      BY <2>5, <2>6, <3>1, SeqEqual
  <2>. QED
    BY <2>7 DEF r
<1>9. s \in Places(q, g)
  BY <1>2, <1>6, <1>8 DEF Places, l
<1>. QED
  BY <1>9 DEF Occurs, q

-----------------------------------------------------------------------------
(* What a correction leaves behind.                                        *)

\* All there is to know of a result.
ResultIs(r, applied) ==
    /\ Loaded(r.terms) /\ r.segments \in Seq(Text)
    /\ r.raw = Joined(r.segments) /\ r.raw \in Text
    /\ r.matches = Matches(r.terms, r.raw)
    /\ r.first = Rendered(r.raw, r.matches)
    /\ \/ r.final = r.first
       \/ Acceptable(r.raw, r.first, r.final, Protected(r.matches))
    /\ r.corrected = CorrectedSegments(r.segments, r.final)
    /\ r.audit = Audit(r.terms, r.raw, r.segments, r.final, r.matches, applied)
    /\ r.review = Review(r.audit)

LEMMA ResultFacts ==
    ASSUME NEW r, Corrected(r)
    PROVE  \E applied \in BOOLEAN : ResultIs(r, applied)
<1>. DEFINE terms == r.terms
            segments == r.segments
<1>1. Loaded(terms) /\ segments \in Seq(Text)
  BY TextAssumption DEF Corrected
<1>2. PICK answer : r = CorrectionOf(terms, segments, answer)
  BY DEF Corrected
<1>. DEFINE raw == Joined(segments)
            matches == Matches(terms, raw)
            first == Rendered(raw, matches)
            said == Stripped(answer)
            applied == Acceptable(raw, first, said, Protected(matches))
            final == IF applied THEN said ELSE first
            audit == Audit(terms, raw, segments, final, matches, applied)
<1>. HIDE DEF terms, segments
<1>3. r = [terms |-> terms, raw |-> raw, segments |-> segments, matches |-> matches,
           first |-> first, final |-> final, corrected |-> CorrectedSegments(segments, final),
           audit |-> audit, review |-> Review(audit)]
  BY <1>2, Zenon DEF CorrectionOf
<1>4. raw \in Text
  BY <1>1, JoinedIsText
<1>5. applied \in BOOLEAN
  BY DEF Acceptable
<1>6. final = first \/ Acceptable(raw, first, final, Protected(matches))
  <2>. HIDE DEF raw, matches, first, said
  <2>. QED
    OBVIOUS
<1>. HIDE DEF raw, matches, first, said, applied, final, audit
<1>7. /\ r.terms = terms /\ r.raw = raw /\ r.segments = segments /\ r.matches = matches
      /\ r.first = first /\ r.final = final
      /\ r.corrected = CorrectedSegments(segments, final)
      /\ r.audit = audit /\ r.review = Review(audit)
  BY <1>3
<1>8. raw = Joined(segments) /\ matches = Matches(terms, raw) /\ first = Rendered(raw, matches)
  BY DEF raw, matches, first
<1>9. audit = Audit(terms, raw, segments, final, matches, applied)
  BY DEF audit
<1>. QED
  BY <1>1, <1>4, <1>5, <1>6, <1>7, <1>8, <1>9 DEF ResultIs

LEMMA OnlyMatchesChanged ==
    ASSUME DictInv
    PROVE  OnlyMatchesChange
<1>. SUFFICES ASSUME Done PROVE Rendered(result.raw, Undone(result.matches)) = result.raw
  BY DEF OnlyMatchesChange, Undone
<1>1. PICK applied \in BOOLEAN : ResultIs(result, applied)
  BY ResultFacts DEF DictInv
<1>. QED
  BY <1>1, UndoneIsText DEF ResultIs

LEMMA NoneSkipped ==
    ASSUME DictInv
    PROVE  NoReplacementSkipped
<1>. SUFFICES ASSUME Done, NEW m \in Candidates(result.terms, result.raw)
              PROVE  \E n \in Range(result.matches) : n.start <= m.start /\ m.start < n.end
  BY DEF NoReplacementSkipped
<1>1. PICK applied \in BOOLEAN : ResultIs(result, applied)
  BY ResultFacts DEF DictInv
<1>2. /\ Loaded(result.terms) /\ result.raw \in Text
      /\ result.matches = Matches(result.terms, result.raw)
  BY <1>1 DEF ResultIs
<1>3. PICK x \in DOMAIN result.matches :
         result.matches[x].start <= m.start /\ m.start < result.matches[x].end
  BY <1>2, MatchesFacts
<1>. QED
  BY <1>3 DEF Range

LEMMA SegmentsAndNamesStayed ==
    ASSUME DictInv
    PROVE  SegmentsAndNamesStay
<1>. SUFFICES ASSUME Done
              PROVE  /\ Len(result.corrected) = Len(result.segments)
                     /\ LineCount(result.final) = LineCount(result.raw)
                     /\ \A t \in Protected(result.matches) :
                           Occurs(t, result.first) => Occurs(t, result.final)
  BY DEF SegmentsAndNamesStay
<1>1. PICK applied \in BOOLEAN : ResultIs(result, applied)
  BY ResultFacts DEF DictInv
<1>2. /\ Loaded(result.terms) /\ result.raw \in Text /\ result.segments \in Seq(Text)
      /\ result.matches = Matches(result.terms, result.raw)
      /\ result.first = Rendered(result.raw, result.matches)
      /\ \/ result.final = result.first
         \/ Acceptable(result.raw, result.first, result.final, Protected(result.matches))
      /\ result.corrected = CorrectedSegments(result.segments, result.final)
  BY <1>1 DEF ResultIs
<1>3. LineCount(result.first) = LineCount(result.raw)
  BY <1>2, MatchesAreSpaced, RenderedShape DEF Shape
<1>4. LineCount(result.final) = LineCount(result.raw)
  BY <1>2, <1>3 DEF Acceptable
<1>5. \A t \in Protected(result.matches) : Occurs(t, result.first) => Occurs(t, result.final)
  BY <1>2 DEF Acceptable
<1>6. Len(result.corrected) = Len(result.segments)
  <2>. DEFINE lines == [k \in DOMAIN result.segments |-> Line(result.final, k)]
  <2>1. Len(lines) = Len(result.segments)
    <3>1. DOMAIN lines = 1..Len(result.segments) /\ Len(result.segments) \in Nat
      BY <1>2
    <3>2. lines = [k \in 1..Len(result.segments) |-> lines[k]]
      BY <3>1
    <3>. HIDE DEF lines
    <3>. QED
      BY <3>1, <3>2
  <2>2. result.corrected = lines \/ result.corrected = result.segments
    BY <1>2 DEF CorrectedSegments
  <2>. HIDE DEF lines
  <2>. QED
    BY <2>1, <2>2
<1>. QED
  BY <1>4, <1>5, <1>6

-----------------------------------------------------------------------------
(* The audit log.                                                          *)

EntryOf(terms, raw, segments, final, applied, m) ==
    LET k == LineOf(raw, m.start)
        original == segments[k]
        corrected == IF k <= LineCount(final) THEN Line(final, k) ELSE original
        term == terms[TermById(terms, m.id)]
    IN  [segment |-> k, match |-> m, term |-> term.canonical,
         original |-> original, corrected |-> corrected,
         decision |-> Decision(m, original, corrected, applied, term)]

Shown(raw, segments, matches) ==
    {n \in Range(matches) : LineOf(raw, n.start) \in DOMAIN segments}

LEMMA AuditIs ==
    \A terms, raw, segments, final, matches, applied :
       Audit(terms, raw, segments, final, matches, applied)
         = {EntryOf(terms, raw, segments, final, applied, m) : m \in Shown(raw, segments, matches)}
  BY DEF Audit, EntryOf, Shown

LEMMA EntryFacts ==
    \A terms, raw, segments, final, applied, m :
       LET e == EntryOf(terms, raw, segments, final, applied, m)
       IN  /\ e.match = m /\ e.segment = LineOf(raw, m.start)
           /\ e.term = terms[TermById(terms, m.id)].canonical
  BY DEF EntryOf

\* Looking a term up by its id finds the one that matched.
LEMMA LookupFinds ==
    ASSUME NEW terms, Loaded(terms), NEW j \in DOMAIN terms
    PROVE  TermById(terms, terms[j].id) = j
<1>. DEFINE id == terms[j].id
            Is(i) == terms[i].id = id /\ \A k \in DOMAIN terms : terms[k].id = id => i <= k
<1>1. \A k \in DOMAIN terms : terms[k].id = id => k = j
  BY DEF Loaded, UniqueIds
<1>2. j \in Nat
  BY DEF Loaded
<1>3. Is(j)
  BY <1>1, <1>2
<1>4. \A i \in DOMAIN terms : Is(i) => i = j
  BY <1>1
<1>5. TermById(terms, id) = CHOOSE i \in DOMAIN terms : Is(i)
  BY DEF TermById
<1>. HIDE DEF Is
<1>. QED
  BY <1>3, <1>4, <1>5

LEMMA NamesTheTerm ==
    ASSUME DictInv
    PROVE  AuditNamesTerm
<1>. SUFFICES ASSUME Done, NEW e \in result.audit PROVE e.term = e.match.canonical
  BY DEF AuditNamesTerm
<1>1. PICK applied \in BOOLEAN : ResultIs(result, applied)
  BY ResultFacts DEF DictInv
<1>2. /\ Loaded(result.terms) /\ result.raw \in Text
      /\ result.matches = Matches(result.terms, result.raw)
      /\ result.audit = Audit(result.terms, result.raw, result.segments, result.final,
                              result.matches, applied)
  BY <1>1 DEF ResultIs
<1>3. PICK m \in Shown(result.raw, result.segments, result.matches) :
         e = EntryOf(result.terms, result.raw, result.segments, result.final, applied, m)
  BY <1>2, AuditIs
<1>4. e.match = m /\ e.term = result.terms[TermById(result.terms, m.id)].canonical
  BY <1>3, EntryFacts
<1>5. m \in Candidates(result.terms, result.raw)
  BY <1>2, MatchesAreSpaced DEF Shown
<1>6. PICK j \in DOMAIN result.terms :
         result.terms[j].id = m.id /\ result.terms[j].canonical = m.canonical
  <2>1. result.terms \in Seq(Term)
    BY <1>2 DEF Loaded
  <2>. QED
    BY <1>2, <1>5, <2>1, CandidateFacts
<1>7. TermById(result.terms, m.id) = j
  BY <1>2, <1>6, LookupFinds
<1>. QED
  BY <1>4, <1>6, <1>7

\* A match is in a segment, and the phrase occurs there.
LEMMA MatchHasSegment ==
    ASSUME NEW terms, Loaded(terms), NEW segments \in Seq(Text),
           \A k \in 1..Len(segments) : Plain(segments[k]),
           NEW m \in Range(Matches(terms, Joined(segments)))
    PROVE  LET k == LineOf(Joined(segments), m.start)
           IN  k \in DOMAIN segments /\ Occurs(m.original, segments[k])
<1>. DEFINE raw == Joined(segments)
            p == m.start
            e == m.end
<1>1. raw \in Text /\ Homes(raw, segments, Len(segments)) /\ Len(raw) \in Nat
  BY JoinedIsText, JoinedHomes, TextFacts
<1>2. m \in Candidates(terms, raw)
  BY <1>1, MatchesAreSpaced
<1>3. /\ p \in 1..Len(raw) /\ e \in 2..(Len(raw) + 1) /\ p < e
      /\ m.original = SubSeq(raw, p, e - 1) /\ m.original \in Phrase
  BY <1>1, <1>2, CandidateFacts DEF Loaded
<1>. HIDE DEF raw, p, e
<1>4. e \in (p + 1)..(Len(raw) + 1)
  BY <1>1, <1>3
<1>5. raw[p] # Break
  <2>. DEFINE q == SubSeq(raw, p, e - 1)
  <2>1. \A i \in p..(e - 1) : raw[i] \in Letters
    <3>1. \A i \in p..(e - 1) : i \in 1..Len(raw)
      BY <1>1, <1>3
    <3>. QED
      BY <1>1, <3>1, TextFacts
  <2>2. p \in Int /\ e - 1 \in Int /\ 1 \in 1..((e - 1) - p + 1) /\ p + 1 - 1 = p
    BY <1>1, <1>3
  <2>3. \A i \in 1..((e - 1) - p + 1) : q[i] = raw[p + i - 1]
    BY <2>1, <2>2, SubSeqProperties
  <2>4. q[1] = raw[p]
    BY <2>2, <2>3
  <2>5. 1 \in 1..Len(q) /\ \A i \in 1..Len(q) : q[i] # Break
    <3>1. q \in Phrase
      BY <1>3
    <3>. HIDE DEF q
    <3>2. Len(q) \in Nat \ {0} /\ \A i \in 1..Len(q) : q[i] # Break
      BY <3>1, PhraseFacts
    <3>. QED
      BY <3>2
  <2>. QED
    BY <2>4, <2>5
<1>6. PICK j \in 1..Len(segments), o \in Nat : HomeAt(raw, p, segments[j], j, o)
  BY <1>1, <1>3, <1>5 DEF Homes
<1>7. j \in DOMAIN segments /\ segments[j] \in Text
  OBVIOUS
<1>8. Occurs(SubSeq(raw, p, e - 1), segments[j])
  BY <1>1, <1>3, <1>4, <1>6, <1>7, PhraseAtHome
<1>9. LineOf(raw, p) = j
  BY <1>6 DEF HomeAt, LineOf, BreaksTo
<1>. QED
  BY <1>3, <1>7, <1>8, <1>9 DEF raw, p

LEMMA PointsHome ==
    ASSUME DictInv
    PROVE  AuditPointsHome
<1>. SUFFICES ASSUME Done, PlainSegments
              PROVE  /\ \A e \in result.audit :
                           Occurs(e.match.original, result.segments[e.segment])
                     /\ \A m \in Range(result.matches) :
                           /\ \E e \in result.audit : e.match = m
                           /\ m.action = "candidate" =>
                                 \E r \in result.review : r.text = m.original
  BY DEF AuditPointsHome
<1>1. PICK applied \in BOOLEAN : ResultIs(result, applied)
  BY ResultFacts DEF DictInv
<1>2. /\ Loaded(result.terms) /\ result.segments \in Seq(Text)
      /\ result.raw = Joined(result.segments)
      /\ result.matches = Matches(result.terms, result.raw)
      /\ result.audit = Audit(result.terms, result.raw, result.segments, result.final,
                              result.matches, applied)
      /\ result.review = Review(result.audit)
  BY <1>1 DEF ResultIs
<1>3. \A k \in 1..Len(result.segments) : Plain(result.segments[k])
  <2>1. DOMAIN result.segments = 1..Len(result.segments)
    BY <1>2
  <2>. QED
    BY <2>1 DEF PlainSegments, Contains, Plain
<1>. DEFINE At(m) == LineOf(result.raw, m.start)
            Entry(m) == EntryOf(result.terms, result.raw, result.segments, result.final,
                                applied, m)
<1>4. ASSUME NEW m \in Range(result.matches)
      PROVE  At(m) \in DOMAIN result.segments /\ Occurs(m.original, result.segments[At(m)])
  BY <1>2, <1>3, MatchHasSegment
<1>5. result.audit = {Entry(m) : m \in Shown(result.raw, result.segments, result.matches)}
  BY <1>2, AuditIs
<1>6. Shown(result.raw, result.segments, result.matches) = Range(result.matches)
  BY <1>4 DEF Shown
<1>7. \A m : Entry(m).match = m /\ Entry(m).segment = At(m)
  BY EntryFacts
<1>. HIDE DEF Entry, At
<1>8. ASSUME NEW e \in result.audit PROVE Occurs(e.match.original, result.segments[e.segment])
  <2>1. PICK m \in Range(result.matches) : e = Entry(m)
    BY <1>5, <1>6
  <2>. QED
    BY <1>4, <1>7, <2>1
<1>9. ASSUME NEW m \in Range(result.matches)
      PROVE  /\ \E e \in result.audit : e.match = m
             /\ m.action = "candidate" => \E r \in result.review : r.text = m.original
  <2>1. Entry(m) \in result.audit /\ Entry(m).match = m
    BY <1>5, <1>6, <1>7
  <2>2. ASSUME m.action = "candidate" PROVE \E r \in result.review : r.text = m.original
    <3>. DEFINE e == Entry(m)
                r == [segment |-> e.segment, text |-> e.match.original, term |-> e.term]
    <3>1. r \in result.review
      BY <1>2, <2>1, <2>2 DEF Review
    <3>2. r.text = m.original
      BY <2>1
    <3>. QED
      BY <3>1, <3>2
  <2>. QED
    BY <2>1, <2>2
<1>. QED
  BY <1>8, <1>9

-----------------------------------------------------------------------------
(* A worker beside the ingestions.                                         *)

LEMMA DictStep == DictInv /\ [Next]_vars => DictInv'
<1>. SUFFICES ASSUME DictInv, [Next]_vars PROVE DictInv'
  OBVIOUS
<1>1. /\ IngestInv
      /\ dictionary # NotLoaded => Loaded(dictionary)
      /\ Done => Corrected(result)
  BY DEF DictInv
<1>2. [IngestNext]_ingestVars
  BY DEF Next, Ingest, Start, Correct, Restart, vars
<1>3. IngestInv'
  BY <1>1, <1>2, TypeStep, CopiesStep, TurnsStep DEF IngestInv
<1>4. (dictionary # NotLoaded => Loaded(dictionary))'
  <2>1. CASE Start
    <3>1. Readable(file) /\ dictionary' = file.terms
      BY <2>1 DEF Start
    <3>2. Loaded(file.terms)
      BY <1>1, <3>1 DEF IngestInv, IngestTypeOK, CopiesIntact, Loaded
    <3>3. Loaded(dictionary')
      BY <3>1, <3>2
    <3>. QED
      BY <3>3 DEF Loaded
  <2>2. CASE dictionary' = NotLoaded \/ dictionary' = dictionary
    BY <1>1, <2>2 DEF Loaded
  <2>. QED
    BY <2>1, <2>2 DEF Next, Ingest, Correct, Restart, vars, workerVars
<1>5. (Done => Corrected(result))'
  <2>1. ASSUME NEW segments \in Transcript, Correct(segments) PROVE Corrected(result')
    <3>. DEFINE raw == Joined(segments)
                first == Rendered(raw, Matches(dictionary, raw))
    <3>1. PICK answer \in Answers(first) : result' = CorrectionOf(dictionary, segments, answer)
      BY <2>1 DEF Correct
    <3>2. Loaded(dictionary)
      BY <1>1, <2>1 DEF Correct
    <3>3. /\ result'.terms = dictionary /\ result'.segments = segments
          /\ result'.first = first
      BY <3>1 DEF CorrectionOf
    <3>. HIDE DEF first
    <3>. QED
      BY <3>1, <3>2, <3>3 DEF Corrected
  <2>2. CASE result' = NoResult \/ result' = result
    BY <1>1, <2>2 DEF Done, Corrected, Loaded
  <2>3. CASE \E segments \in Transcript : Correct(segments)
    <3>1. Corrected(result')
      BY <2>1, <2>3
    <3>. QED
      BY <3>1 DEF Done, Corrected, Loaded
  <2>. QED
    BY <2>2, <2>3 DEF Next, Ingest, Start, Restart, vars, workerVars
<1>. QED
  BY <1>3, <1>4, <1>5 DEF DictInv

\* What a worker has in memory has unique ids, and its last result is a correction with
\* such a dictionary.
THEOREM SpecDictInv == Spec => []DictInv
<1>1. Init => DictInv
  BY InitIngestInv DEF Init, DictInv, Done
<1>. QED
  BY <1>1, DictStep, PTL DEF Spec

\* A worker changes nothing for the ingestions: each of its steps leaves their state
\* alone.
THEOREM WorkerLeavesIngestionAlone == Spec => IngestSpec
<1>1. Init => IngestInit
  BY DEF Init
<1>2. [Next]_vars => [IngestNext]_ingestVars
  BY DEF Next, Ingest, Start, Correct, Restart, vars
<1>. QED
  BY <1>1, <1>2, PTL DEF Spec, IngestSpec

\* So beside a worker, the dictionary is as safe as without it.
THEOREM DictionaryIsSafe == Spec => []DictionaryIntact
  BY WorkerLeavesIngestionAlone, IngestionIsSafe, PTL

\* The rules change what they log and nothing else, skip no replacement, and whatever
\* the model says, segments and names stay.
THEOREM CorrectionKeepsFaith == Spec => []CorrectionIsFaithful
<1>1. DictInv => CorrectionIsFaithful
  BY OnlyMatchesChanged, NoneSkipped, SegmentsAndNamesStayed DEF CorrectionIsFaithful
<1>. QED
  BY <1>1, SpecDictInv, PTL

\* Audit entries are about the segment and the term they name, and none is missing.
THEOREM AuditCanBeTrusted == Spec => []AuditIsTrue
<1>1. DictInv => AuditIsTrue
  BY PointsHome, NamesTheTerm DEF AuditIsTrue
<1>. QED
  BY <1>1, SpecDictInv, PTL

=============================================================================
