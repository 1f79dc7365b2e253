-------------------------- MODULE OutboxRelayProofs --------------------------
(***************************************************************************)
(* Proofs about OutboxRelay, for every number of publishers, rows and      *)
(* faults, every batch size and every set of rows that cannot be sent.     *)
(***************************************************************************)
EXTENDS OutboxRelay, FiniteSetTheorems, TLAPS

-----------------------------------------------------------------------------
(* Lemmas about the operators.                                             *)

LEMMA RangeOfAppend ==
    ASSUME NEW entries \in Seq(Row), NEW r \in Row
    PROVE  Range(Append(entries, r)) = Range(entries) \cup {r}
<1>1. /\ DOMAIN entries = 1..Len(entries) /\ Len(entries) \in Nat
      /\ DOMAIN Append(entries, r) = 1..(Len(entries) + 1)
      /\ \A i \in 1..Len(entries) : Append(entries, r)[i] = entries[i]
      /\ Append(entries, r)[Len(entries) + 1] = r
  OBVIOUS
<1>. QED
  BY <1>1 DEF Range

\* An XADD makes one more copy of its row and none of another.
LEMMA CopiesOfAppend ==
    ASSUME NEW entries \in Seq(Row), NEW r \in Row, NEW x \in Row
    PROVE  /\ Copies(entries, x) \in Nat
           /\ Copies(Append(entries, r), x) = Copies(entries, x) + (IF x = r THEN 1 ELSE 0)
<1>. DEFINE places == {i \in DOMAIN entries : entries[i] = x}
            after == {i \in DOMAIN Append(entries, r) : Append(entries, r)[i] = x}
            last == Len(entries) + 1
<1>1. /\ DOMAIN entries = 1..Len(entries) /\ Len(entries) \in Nat
      /\ DOMAIN Append(entries, r) = 1..last
      /\ \A i \in 1..Len(entries) : Append(entries, r)[i] = entries[i]
      /\ Append(entries, r)[last] = r
  OBVIOUS
<1>2. Copies(entries, x) = Cardinality(places) /\ Copies(Append(entries, r), x) = Cardinality(after)
  BY DEF Copies
<1>3. IsFiniteSet(DOMAIN entries) /\ places \in SUBSET DOMAIN entries
  BY <1>1, FS_Interval
<1>4. IsFiniteSet(places) /\ Cardinality(places) \in Nat
  BY <1>3, FS_Subset, FS_CardinalityType
<1>5. last \notin places
  BY <1>1
<1>6. CASE x = r
  <2>1. after = places \cup {last}
    BY <1>1, <1>6
  <2>. HIDE DEF places, after, last
  <2>2. Cardinality(places \cup {last}) = Cardinality(places) + 1
    BY <1>4, <1>5, FS_AddElement
  <2>. QED
    BY <1>2, <1>4, <1>6, <2>1, <2>2
<1>7. CASE x # r
  <2>1. after = places
    BY <1>1, <1>7
  <2>. HIDE DEF places, after, last
  <2>. QED
    BY <1>2, <1>4, <1>7, <2>1
<1>. QED
  BY <1>6, <1>7

\* The batch is older than whatever was left behind.
LEMMA OldestComeFirst ==
    ASSUME NEW rows \in SUBSET Row, NEW y \in Oldest(rows), NEW x \in rows \ Oldest(rows)
    PROVE  y < x
<1>. DEFINE below(r) == {s \in rows : s < r}
<1>1. y \in Int /\ x \in Int /\ y \in rows
  BY RelayAssumption DEF Row, Oldest
<1>2. IsFiniteSet(rows)
  <2>1. IsFiniteSet(Row) /\ rows \in SUBSET Row
    BY RelayAssumption, FS_Interval DEF Row
  <2>. QED
    BY <2>1, FS_Subset
<1>3. Cardinality(below(y)) < BatchSize /\ ~(Cardinality(below(x)) < BatchSize)
  BY DEF Oldest
<1>4. SUFFICES ASSUME x <= y PROVE FALSE
  BY <1>1
<1>5. below(x) \in SUBSET below(y)
  <2>1. \A s \in rows : s \in Int
    BY RelayAssumption DEF Row
  <2>. QED
    <3>1. ASSUME NEW s \in rows, s < x PROVE s < y
      BY <1>1, <1>4, <2>1, <3>1
    <3>. QED
      BY <3>1
<1>6. IsFiniteSet(below(y)) /\ IsFiniteSet(below(x))
  BY <1>2, FS_Subset
<1>7. Cardinality(below(x)) <= Cardinality(below(y))
  BY <1>5, <1>6, FS_Subset
<1>8. Cardinality(below(x)) \in Nat /\ Cardinality(below(y)) \in Nat
  BY <1>6, FS_CardinalityType
<1>. HIDE DEF below
<1>. QED
  BY <1>3, <1>7, <1>8, RelayAssumption

-----------------------------------------------------------------------------
(* Types and locks.                                                        *)

LEMMA TypeStep == TypeOK /\ [Next]_vars => TypeOK'
<1>. SUFFICES ASSUME TypeOK, [Next]_vars PROVE TypeOK'
  OBVIOUS
<1>. USE DEF TypeOK
<1>1. ASSUME NEW r \in Row, Insert(r) PROVE TypeOK'
  BY <1>1 DEF Insert, Visible, batchVars
<1>2. ASSUME NEW r \in Row, BecomesDue(r) PROVE TypeOK'
  BY <1>2 DEF BecomesDue, Visible, batchVars
<1>3. ASSUME NEW p \in Publisher, Select(p) PROVE TypeOK'
  BY <1>3 DEF Select, Oldest, Selectable, rowVars
<1>4. ASSUME NEW p \in Publisher, NEW r \in Row, Send(p, r) PROVE TypeOK'
  <2>1. Append(log, r) \in Seq(Row)
    OBVIOUS
  <2>. QED
    BY <1>4, <2>1 DEF Send, Advance, rowVars
<1>5. ASSUME NEW p \in Publisher, NEW r \in Row, SendPoison(p, r) PROVE TypeOK'
  BY <1>5 DEF SendPoison, Fails, Advance, rowVars
<1>6. ASSUME NEW p \in Publisher, Commit(p) PROVE TypeOK'
  BY <1>6 DEF Commit, Release
<1>7. ASSUME NEW p \in Publisher, NEW r \in Row, NEW landed \in BOOLEAN, SendFails(p, r, landed)
      PROVE  TypeOK'
  <2>1. Append(log, r) \in Seq(Row)
    OBVIOUS
  <2>2. log' \in Seq(Row)
    BY <1>7, <2>1 DEF SendFails
  <2>3. faults' \in Nat
    BY <1>7 DEF SendFails, Fault
  <2>4. calm' \in BOOLEAN
    BY <1>7 DEF SendFails, Fault
  <2>5. UNCHANGED <<committed, due, published, batch, sent>> /\ todo' \in [Publisher -> SUBSET Row]
    BY <1>7 DEF SendFails, Fails, Advance, rowVars
  <2>. QED
    BY <2>2, <2>3, <2>4, <2>5
<1>8. ASSUME NEW p \in Publisher, Crash(p) PROVE TypeOK'
  <2>1. faults' \in Nat
    BY <1>8 DEF Crash, Fault
  <2>2. calm' \in BOOLEAN
    BY <1>8 DEF Crash, Fault
  <2>. QED
    BY <1>8, <2>1, <2>2 DEF Crash, Release
<1>9. CASE UNCHANGED vars
  BY <1>9 DEF vars, rowVars, batchVars
<1>. QED
  BY <1>1, <1>2, <1>3, <1>4, <1>5, <1>6, <1>7, <1>8, <1>9 DEF Next, Publish

LEMMA LocksStep == TypeOK /\ LocksExclude /\ [Next]_vars => LocksExclude'
<1>. SUFFICES ASSUME TypeOK, LocksExclude, [Next]_vars PROVE LocksExclude'
  OBVIOUS
<1>. USE DEF TypeOK, LocksExclude
<1>1. ASSUME NEW r \in Row, Insert(r) PROVE LocksExclude'
  BY <1>1 DEF Insert, batchVars
<1>2. ASSUME NEW r \in Row, BecomesDue(r) PROVE LocksExclude'
  BY <1>2 DEF BecomesDue, batchVars
<1>3. ASSUME NEW p \in Publisher, Select(p) PROVE LocksExclude'
  <2>1. Oldest(Selectable(p)) \subseteq Selectable(p)
    BY DEF Oldest
  <2>2. \A q \in Publisher \ {p} : Selectable(p) \cap batch[q] = {}
    BY DEF Selectable, LockedByOthers
  <2>3. Selectable(p) \subseteq (committed \cap due) \ published
    BY DEF Selectable
  <2>4. sent[p] = {}
    BY <1>3 DEF Select, Open
  <2>. QED
    BY <1>3, <2>1, <2>2, <2>3, <2>4 DEF Select, rowVars
<1>4. ASSUME NEW p \in Publisher, NEW r \in Row, Send(p, r) PROVE LocksExclude'
  BY <1>4 DEF Send, IsNext, Advance, rowVars
<1>5. ASSUME NEW p \in Publisher, NEW r \in Row, SendPoison(p, r) PROVE LocksExclude'
  BY <1>5 DEF SendPoison, Fails, Advance, rowVars
<1>6. ASSUME NEW p \in Publisher, Commit(p) PROVE LocksExclude'
  BY <1>6 DEF Commit, Release
<1>7. ASSUME NEW p \in Publisher, NEW r \in Row, NEW landed \in BOOLEAN, SendFails(p, r, landed)
      PROVE  LocksExclude'
  BY <1>7 DEF SendFails, Fails, Advance, rowVars
<1>8. ASSUME NEW p \in Publisher, Crash(p) PROVE LocksExclude'
  BY <1>8 DEF Crash, Release
<1>9. CASE UNCHANGED vars
  BY <1>9 DEF vars, rowVars, batchVars
<1>. QED
  BY <1>1, <1>2, <1>3, <1>4, <1>5, <1>6, <1>7, <1>8, <1>9 DEF Next, Publish

-----------------------------------------------------------------------------
(* The log and the stamps.                                                 *)

\* A row about to be sent is not marked: whoever had sent it holds its lock or has
\* stamped it.
LEMMA NextIsUnmarked ==
    ASSUME TypeOK, LocksExclude, NEW p \in Publisher, NEW r \in todo[p]
    PROVE  r \notin Marked /\ r \in committed \cap due /\ r \in Row
BY DEF TypeOK, LocksExclude, Marked

\* Releasing the locks of a publisher takes its rows' marks away unless they are stamped.
LEMMA MarksAfterRelease ==
    ASSUME TypeOK, NEW p \in Publisher, Release(p)
    PROVE  /\ published' = published \cup sent[p] => Marked' = Marked
           /\ UNCHANGED published => Marked' \subseteq Marked
BY DEF TypeOK, Release, Marked

LEMMA LogStep ==
    ASSUME TypeOK, LocksExclude, LogAccounted, [Next]_vars
    PROVE  LogAccounted'
<1>. USE DEF TypeOK
<1>0. \A r \in Row : CopiesOf(r) \in Nat
  BY CopiesOfAppend DEF CopiesOf
<1>1. ASSUME UNCHANGED <<log, faults>>, Marked' = Marked, committed \cap due \subseteq committed' \cap due'
      PROVE  LogAccounted'
  BY <1>1 DEF LogAccounted, CopiesOf
<1>2. ASSUME NEW r \in Row, Insert(r) \/ BecomesDue(r) PROVE LogAccounted'
  BY <1>1, <1>2 DEF Insert, BecomesDue, batchVars, Marked
<1>3. ASSUME NEW p \in Publisher, Select(p) PROVE LogAccounted'
  BY <1>1, <1>3 DEF Select, rowVars, Marked
<1>4. ASSUME NEW p \in Publisher, NEW r \in Row, Send(p, r) PROVE LogAccounted'
  <2>1. r \notin Marked /\ r \in committed \cap due
    BY <1>4, NextIsUnmarked DEF Send, IsNext
  <2>2. Range(log') = Range(log) \cup {r}
    BY <1>4, RangeOfAppend DEF Send
  <2>3. Marked' = Marked \cup {r}
    BY <1>4 DEF Send, Advance, rowVars, Marked
  <2>4. UNCHANGED <<committed, due, faults>>
    BY <1>4 DEF Send, Advance, rowVars
  <2>5. ASSUME NEW x \in Row
        PROVE  CopiesOf(x)' <= IF x \in Marked' THEN faults' + 1 ELSE faults'
    <3>1. CopiesOf(x)' = CopiesOf(x) + (IF x = r THEN 1 ELSE 0)
      BY <1>4, CopiesOfAppend DEF Send, CopiesOf
    <3>2. CopiesOf(x) <= IF x \in Marked THEN faults + 1 ELSE faults
      BY DEF LogAccounted
    <3>. QED
      BY <1>0, <2>1, <2>3, <2>4, <3>1, <3>2
  <2>. QED
    BY <2>1, <2>2, <2>3, <2>4, <2>5 DEF LogAccounted
<1>5. ASSUME NEW p \in Publisher, NEW r \in Row, SendPoison(p, r) PROVE LogAccounted'
  BY <1>1, <1>5 DEF SendPoison, Fails, Advance, rowVars, Marked
<1>6. ASSUME NEW p \in Publisher, Commit(p) PROVE LogAccounted'
  BY <1>1, <1>6, MarksAfterRelease DEF Commit, Release
<1>7. ASSUME NEW p \in Publisher, NEW r \in Row, NEW landed \in BOOLEAN, SendFails(p, r, landed)
      PROVE  LogAccounted'
  <2>1. r \in committed \cap due
    BY <1>7, NextIsUnmarked DEF SendFails, IsNext
  <2>2. Marked' = Marked /\ UNCHANGED <<committed, due>> /\ faults' = faults + 1
    BY <1>7 DEF SendFails, Fault, Fails, Advance, rowVars, Marked
  <2>3. Range(log) \subseteq Range(log') /\ Range(log') \subseteq Range(log) \cup {r}
    BY <1>7, RangeOfAppend DEF SendFails
  <2>4. ASSUME NEW x \in Row
        PROVE  CopiesOf(x)' <= IF x \in Marked' THEN faults' + 1 ELSE faults'
    <3>1. CopiesOf(x)' \in Nat /\ CopiesOf(x)' <= CopiesOf(x) + 1
      <4>1. CASE landed
        BY <1>0, <1>7, <4>1, CopiesOfAppend, SMTT(60) DEF SendFails, CopiesOf
      <4>2. CASE ~landed
        BY <1>0, <1>7, <4>2 DEF SendFails, CopiesOf
      <4>. QED
        BY <4>1, <4>2
    <3>2. CopiesOf(x) <= IF x \in Marked THEN faults + 1 ELSE faults
      BY DEF LogAccounted
    <3>. QED
      BY <1>0, <2>2, <3>1, <3>2
  <2>. QED
    BY <2>1, <2>2, <2>3, <2>4 DEF LogAccounted
<1>8. ASSUME NEW p \in Publisher, Crash(p) PROVE LogAccounted'
  <2>1. Marked' \subseteq Marked /\ UNCHANGED <<committed, due, log>> /\ faults' = faults + 1
    BY <1>8, MarksAfterRelease DEF Crash, Fault, Release
  <2>2. \A x \in Row : CopiesOf(x) <= faults + 1 /\ CopiesOf(x)' = CopiesOf(x)
    BY <1>0, <2>1 DEF LogAccounted, CopiesOf
  <2>. QED
    BY <1>0, <2>1, <2>2 DEF LogAccounted
<1>9. CASE UNCHANGED vars
  BY <1>1, <1>9 DEF vars, rowVars, batchVars, Marked
<1>. QED
  BY <1>2, <1>3, <1>4, <1>5, <1>6, <1>7, <1>8, <1>9 DEF Next, Publish

-----------------------------------------------------------------------------
(* Order.                                                                  *)

\* A row that shows up in order is younger than all that was sent.
LEMMA OrderAfterArrival ==
    ASSUME TypeOK, LocksExclude, LogAccounted, CalmOrder, NEW r \in Row,
           Insert(r) \/ BecomesDue(r), calm'
    PROVE  CalmOrder'
<1>1. UNCHANGED <<published, batch, todo, sent, log>>
  BY DEF Insert, BecomesDue, batchVars
<1>2. /\ committed' \cap due' \subseteq (committed \cap due) \cup {r}
      /\ r \notin committed \cap due
      /\ r \in committed' \cap due' => \A s \in committed \cap due : s <= r
  BY DEF Insert, BecomesDue, Visible
<1>3. Ahead' \subseteq Ahead \cup {r}
  BY <1>1, <1>2 DEF Ahead
<1>4. r \in Ahead' => \A s \in committed \cap due : s < r
  <2>1. \A s \in committed \cap due : s \in Int /\ r \in Int /\ s # r
    BY <1>2, RelayAssumption DEF TypeOK, Row
  <2>2. r \in Ahead' => r \in committed' \cap due'
    BY DEF Ahead
  <2>. QED
    BY <1>2, <2>1, <2>2
<1>5. \A s \in Range(log)', x \in Ahead' : s < x
  BY <1>1, <1>3, <1>4 DEF CalmOrder, LogAccounted
<1>6. ASSUME NEW p \in Publisher, NEW s \in batch[p], NEW x \in Ahead' \ batch[p] PROVE s < x
  <2>1. s \in committed \cap due
    BY DEF LocksExclude
  <2>. QED
    BY <1>3, <1>4, <1>6, <2>1 DEF CalmOrder
<1>7. Range(log)' = Range(log) /\ Marked' = Marked /\ \A p \in Publisher : Open(p)' = Open(p)
  BY <1>1 DEF Range, Marked, Open
<1>. QED
  BY <1>1, <1>5, <1>6, <1>7 DEF CalmOrder

\* With nobody else at work, what Oldest leaves behind is younger than the batch.
LEMMA OrderAfterSelect ==
    ASSUME TypeOK, LocksExclude, LogAccounted, CalmOrder, NEW p \in Publisher,
           Select(p), calm'
    PROVE  CalmOrder'
<1>. DEFINE rows == Selectable(p)
<1>1. \A q \in Publisher : batch[q] = {} /\ sent[q] = {} /\ todo[q] = {}
  BY DEF Select, Open, LocksExclude
<1>2. UNCHANGED <<committed, due, published, sent, log>>
  BY DEF Select, rowVars
<1>3. rows = (committed \cap due) \ published /\ rows \in SUBSET Row
  BY <1>1 DEF Selectable, LockedByOthers, TypeOK
<1>4. /\ batch' = [batch EXCEPT ![p] = Oldest(rows)]
      /\ todo' = [todo EXCEPT ![p] = Oldest(rows)]
  BY DEF Select
<1>5. Ahead' = Ahead /\ Marked' = Marked /\ Range(log)' = Range(log)
  BY <1>2 DEF Ahead, Marked, Range
<1>6. Ahead \subseteq rows
  BY <1>3 DEF Ahead, LogAccounted, Marked
<1>7. ASSUME NEW q \in Publisher, NEW r \in batch'[q], NEW x \in Ahead \ batch'[q] PROVE r < x
  <2>1. q = p /\ r \in Oldest(rows) /\ x \in rows \ Oldest(rows)
    BY <1>1, <1>4, <1>6 DEF TypeOK
  <2>. QED
    BY <1>3, <2>1, OldestComeFirst
<1>8. \A q, q1 \in Publisher : Open(q)' /\ Open(q1)' => q = q1
  BY <1>1, <1>4 DEF Open, TypeOK
<1>9. \A q \in Publisher : batch'[q] \ todo'[q] = {}
  BY <1>1, <1>4 DEF TypeOK
<1>. QED
  BY <1>2, <1>5, <1>7, <1>8, <1>9 DEF CalmOrder

LEMMA OrderAfterSend ==
    ASSUME TypeOK, LocksExclude, LogAccounted, CalmOrder, NEW p \in Publisher, NEW r \in Row,
           Send(p, r)
    PROVE  CalmOrder'
<1>1. /\ r \in todo[p] /\ r \in batch[p] /\ r \notin Poison /\ \A s \in todo[p] : r <= s
      /\ r \in committed \cap due /\ r \notin Marked
  BY NextIsUnmarked DEF Send, IsNext, LocksExclude
<1>2. /\ UNCHANGED <<committed, due, published, batch>> /\ log' = Append(log, r)
      /\ sent' = [sent EXCEPT ![p] = @ \cup {r}] /\ todo' = [todo EXCEPT ![p] = @ \ {r}]
  BY DEF Send, Advance, rowVars
<1>3. Range(log') = Range(log) \cup {r} /\ Marked' = Marked \cup {r}
  BY <1>2, RangeOfAppend DEF TypeOK, Marked
<1>4. r \in Ahead /\ Ahead' = Ahead \ {r}
  BY <1>1, <1>2, <1>3 DEF Ahead, CalmOrder
<1>5. \A s \in Range(log) : s < r
  BY <1>4 DEF CalmOrder
<1>6. ASSUME NEW i \in DOMAIN log', NEW j \in DOMAIN log', i < j PROVE log'[i] < log'[j]
  <2>1. /\ DOMAIN log = 1..Len(log) /\ Len(log) \in Nat /\ DOMAIN log' = 1..(Len(log) + 1)
        /\ \A k \in 1..Len(log) : log'[k] = log[k]
        /\ log'[Len(log) + 1] = r
    BY <1>2 DEF TypeOK
  <2>2. i \in DOMAIN log /\ log'[i] = log[i] /\ log[i] \in Range(log)
    BY <1>6, <2>1 DEF Range
  <2>3. CASE j \in DOMAIN log
    BY <1>6, <2>1, <2>2, <2>3 DEF CalmOrder
  <2>4. CASE j = Len(log) + 1
    BY <1>5, <2>1, <2>2, <2>4
  <2>. QED
    BY <2>1, <2>3, <2>4
<1>7. ASSUME NEW x \in Ahead' PROVE r < x
  <2>1. x \in Ahead /\ x # r /\ x \in Int /\ r \in Int
    <3>1. x \in Ahead /\ x # r
      BY <1>4
    <3>2. x \in Row /\ \A y \in Row : y \in Int
      BY <3>1, RelayAssumption DEF Ahead, TypeOK, Row
    <3>. QED
      BY <3>1, <3>2
  <2>2. CASE x \in batch[p]
    <3>1. x \in todo[p]
      BY <2>1, <2>2 DEF CalmOrder, Ahead, LogAccounted, Marked
    <3>. QED
      BY <1>1, <2>1, <3>1
  <2>3. CASE x \notin batch[p]
    BY <1>1, <2>1, <2>3 DEF CalmOrder
  <2>. QED
    BY <2>2, <2>3
<1>8. \A s \in Range(log)', x \in Ahead' : s < x
  BY <1>3, <1>4, <1>7 DEF CalmOrder
<1>9. \A q \in Publisher : batch'[q] \ todo'[q] \subseteq sent'[q] \cup Poison
  BY <1>2 DEF CalmOrder, TypeOK
<1>10. \A q \in Publisher : \A s \in batch'[q], x \in Ahead' \ batch'[q] : s < x
  BY <1>2, <1>4 DEF CalmOrder
<1>11. \A q, q1 \in Publisher : Open(q)' /\ Open(q1)' => q = q1
  BY <1>2 DEF CalmOrder, Open
<1>12. Range(log)' \subseteq Marked'
  BY <1>3 DEF CalmOrder
<1>. QED
  BY <1>6, <1>8, <1>9, <1>10, <1>11, <1>12 DEF CalmOrder

LEMMA OrderAfterSkip ==
    ASSUME TypeOK, CalmOrder, NEW p \in Publisher, NEW r \in Row, SendPoison(p, r)
    PROVE  CalmOrder'
<1>1. /\ UNCHANGED <<committed, due, published, batch, sent, log>>
      /\ todo' = [todo EXCEPT ![p] = @ \ {r}] /\ r \in Poison
  BY DEF SendPoison, Fails, Advance, rowVars
<1>2. Ahead' = Ahead /\ Marked' = Marked /\ Range(log)' = Range(log)
  BY <1>1 DEF Ahead, Marked, Range
<1>3. \A q \in Publisher : batch'[q] \ todo'[q] \subseteq sent'[q] \cup Poison
  BY <1>1 DEF CalmOrder, TypeOK
<1>4. \A q, q1 \in Publisher : Open(q)' /\ Open(q1)' => q = q1
  BY <1>1 DEF CalmOrder, Open
<1>. QED
  BY <1>1, <1>2, <1>3, <1>4 DEF CalmOrder

LEMMA OrderAfterCommit ==
    ASSUME TypeOK, LocksExclude, CalmOrder, NEW p \in Publisher, Commit(p)
    PROVE  CalmOrder'
<1>1. /\ UNCHANGED <<committed, due, log>>
      /\ batch' = [batch EXCEPT ![p] = {}]
      /\ todo' = [todo EXCEPT ![p] = {}] /\ sent' = [sent EXCEPT ![p] = {}]
  BY DEF Commit, Release
<1>2. Ahead' = Ahead /\ Range(log)' = Range(log)
  BY <1>1 DEF Ahead, Range
<1>3. Marked' = Marked
  BY MarksAfterRelease DEF Commit
<1>4. \A q \in Publisher :
         /\ batch'[q] \ todo'[q] \subseteq sent'[q] \cup Poison
         /\ \A s \in batch'[q], x \in Ahead \ batch'[q] : s < x
  BY <1>1 DEF CalmOrder, TypeOK
<1>5. \A q, q1 \in Publisher : Open(q)' /\ Open(q1)' => q = q1
  BY <1>1 DEF CalmOrder, Open, TypeOK
<1>. QED
  BY <1>1, <1>2, <1>3, <1>4, <1>5 DEF CalmOrder

LEMMA OrderStep ==
    ASSUME TypeOK, LocksExclude, LogAccounted, calm => CalmOrder, [Next]_vars
    PROVE  calm' => CalmOrder'
<1>. SUFFICES ASSUME calm' PROVE CalmOrder'
  OBVIOUS
<1>1. calm /\ CalmOrder
  <2>1. calm' => calm
    BY DEF Next, Insert, BecomesDue, Visible, Publish, Select, Send, SendPoison, Commit, SendFails,
           Crash, Fault, vars
  <2>. QED
    BY <2>1
<1>2. ASSUME NEW r \in Row, Insert(r) \/ BecomesDue(r) PROVE CalmOrder'
  BY <1>1, <1>2, OrderAfterArrival
<1>3. ASSUME NEW p \in Publisher, Publish(p) PROVE CalmOrder'
  BY <1>1, <1>3, OrderAfterSelect, OrderAfterSend, OrderAfterSkip, OrderAfterCommit DEF Publish
<1>4. ASSUME NEW p \in Publisher, Crash(p) \/ \E r \in Row, landed \in BOOLEAN : SendFails(p, r, landed)
      PROVE  CalmOrder'
  BY <1>4 DEF Crash, SendFails, Fault
<1>5. CASE UNCHANGED vars
  <2>1. UNCHANGED <<committed, due, published, batch, todo, sent, log>>
    BY <1>5 DEF vars, rowVars, batchVars
  <2>. QED
    BY <1>1, <2>1 DEF CalmOrder, Ahead, Marked, Range, Open
<1>. QED
  BY <1>2, <1>3, <1>4, <1>5 DEF Next

-----------------------------------------------------------------------------
(* Theorems.                                                               *)

LEMMA InitIInv == Init => IInv
<1>. SUFFICES ASSUME Init PROVE IInv
  OBVIOUS
<1>1. log = <<>> /\ DOMAIN log = {} /\ Range(log) = {} /\ Marked = {}
  BY DEF Init, Range, Marked
<1>2. TypeOK
  BY <1>1 DEF Init, TypeOK
<1>3. LocksExclude /\ CalmOrder
  BY <1>1 DEF Init, LocksExclude, CalmOrder, Ahead, Open
<1>4. LogAccounted
  <2>1. ASSUME NEW r \in Row PROVE CopiesOf(r) = 0
    <3>1. {i \in DOMAIN log : log[i] = r} = {}
      BY <1>1
    <3>. QED
      BY <3>1, FS_EmptySet DEF CopiesOf, Copies
  <2>. QED
    BY <1>1, <2>1 DEF Init, LogAccounted
<1>. QED
  BY <1>2, <1>3, <1>4 DEF IInv

\* The invariant behind the others: locks exclude each other, the log accounts for
\* every stamp, and in calm the queue is ahead of the log.
THEOREM SpecIInv == Spec => []IInv
<1>1. IInv /\ [Next]_vars => IInv'
  BY TypeStep, LocksStep, LogStep, OrderStep DEF IInv
<1>. QED
  BY <1>1, InitIInv, PTL DEF Spec

\* However many publishers share the outbox, a row is sent once, and once more for
\* each fault at most.
THEOREM OneCopyPerFault == Spec => []CopiesNeedFaults
<1>1. IInv => CopiesNeedFaults
  <2>. SUFFICES ASSUME IInv, NEW r \in Row PROVE CopiesOf(r) <= 1 + faults
    BY DEF CopiesNeedFaults
  <2>1. CopiesOf(r) \in Nat /\ faults \in Nat
    BY CopiesOfAppend DEF IInv, TypeOK, CopiesOf
  <2>2. CopiesOf(r) <= IF r \in Marked THEN faults + 1 ELSE faults
    BY DEF IInv, LogAccounted
  <2>. QED
    BY <2>1, <2>2
<1>. QED
  BY <1>1, SpecIInv, PTL

\* A row is stamped only when it is in the stream, whatever failed beside it.
THEOREM StampsAreTrue == Spec => []StampedIsSent
<1>1. IInv => StampedIsSent
  BY DEF IInv, LogAccounted, Marked, StampedIsSent
<1>. QED
  BY <1>1, SpecIInv, PTL

\* In calm, batches follow each other in the order of creation.
THEOREM CalmIsOrdered == Spec => []CalmIsInOrder
<1>1. IInv => CalmIsInOrder
  <2>. SUFFICES ASSUME IInv, calm, NEW i \in 2..Len(log) PROVE log[i - 1] < log[i]
    BY DEF CalmIsInOrder
  <2>1. i - 1 \in DOMAIN log /\ i \in DOMAIN log /\ i - 1 < i
    BY DEF IInv, TypeOK
  <2>. QED
    BY <2>1 DEF IInv, CalmOrder
<1>. QED
  BY <1>1, SpecIInv, PTL

=============================================================================
