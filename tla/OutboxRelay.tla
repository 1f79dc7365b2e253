---------------------------- MODULE OutboxRelay ----------------------------
(***************************************************************************)
(* Several publishers copying one outbox to Redis.  A publisher locks the  *)
(* oldest due rows that nobody else has locked, sends them one by one and  *)
(* stamps those that were sent when it commits.  Rows are numbered by      *)
(* created_at, which their writer chooses before it commits: a row may     *)
(* become visible after younger ones.  SELECT and lock are one action: a   *)
(* row stamped in between fails the condition when PostgreSQL rechecks it. *)
(***************************************************************************)
EXTENDS Integers, Sequences, FiniteSets, Functions

CONSTANTS
    Publisher,
    MaxRow,      \* bound: rows
    BatchSize,   \* batch_size
    Poison,      \* rows whose XADD always raises
    Delayed,     \* rows inserted with an available_at that lies ahead
    MaxFaults    \* bound: crashes, failed commits, and XADDs that fail otherwise

Row == 1..MaxRow

ASSUME RelayAssumption ==
    /\ MaxRow \in Nat /\ BatchSize \in Nat \ {0} /\ MaxFaults \in Nat
    /\ Poison \subseteq Row /\ Delayed \subseteq Row

VARIABLES
    committed,  \* rows other transactions can see
    due,        \* rows whose available_at has come
    published,  \* rows whose published_at is committed
    batch,      \* per publisher, the rows it has locked
    todo,       \* rows of its batch it has not tried to send yet
    sent,       \* rows of its batch that it will stamp
    log,        \* the XADDs that reached Redis
    calm,       \* no fault so far, one transaction at a time, and no row became
                \* visible or due after a younger one
    faults

rowVars == <<committed, due, published>>
batchVars == <<batch, todo, sent>>
vars == <<rowVars, batchVars, log, calm, faults>>

Init ==
    /\ committed = {} /\ published = {}
    /\ due = Row \ Delayed
    /\ batch = [p \in Publisher |-> {}]
    /\ todo = [p \in Publisher |-> {}]
    /\ sent = [p \in Publisher |-> {}]
    /\ log = <<>>
    /\ calm = TRUE
    /\ faults = 0

Visible(S, r) == calm /\ \A s \in committed \cap due : r \in S => s <= r

Insert(r) ==
    /\ r \in Row \ committed
    /\ committed' = committed \cup {r}
    /\ calm' = Visible(due, r)
    /\ UNCHANGED <<due, published, batchVars, log, faults>>

BecomesDue(r) ==
    /\ r \in Row \ due
    /\ due' = due \cup {r}
    /\ calm' = Visible(committed, r)
    /\ UNCHANGED <<committed, published, batchVars, log, faults>>

-----------------------------------------------------------------------------
\* A transaction that selected nothing ends at once and is left out.
Open(p) == batch[p] # {}

\* Mutant: rows locked by others are read all the same.
LockedByOthers_Ignored(p) == {}

LockedByOthers(p) == UNION {batch[q] : q \in Publisher \ {p}}

Selectable(p) == ((committed \cap due) \ published) \ LockedByOthers(p)

Oldest(rows) == {r \in rows : Cardinality({s \in rows : s < r}) < BatchSize}

Select(p) ==
    /\ ~Open(p)
    /\ Selectable(p) # {}
    /\ batch' = [batch EXCEPT ![p] = Oldest(Selectable(p))]
    /\ todo' = [todo EXCEPT ![p] = Oldest(Selectable(p))]
    /\ calm' = (calm /\ \A q \in Publisher : ~Open(q))
    /\ UNCHANGED <<rowVars, sent, log, faults>>

\* Mutant: the rows come in no particular order.
IsNext_Unordered(p, r) == r \in todo[p]

IsNext(p, r) == r \in todo[p] /\ \A s \in todo[p] : r <= s

Advance(p, r) == todo' = [todo EXCEPT ![p] = @ \ {r}] /\ UNCHANGED <<rowVars, batch>>

Send(p, r) ==
    /\ IsNext(p, r) /\ r \notin Poison
    /\ log' = Append(log, r)
    /\ sent' = [sent EXCEPT ![p] = @ \cup {r}]
    /\ Advance(p, r)
    /\ UNCHANGED <<calm, faults>>

\* Mutants: the row is stamped although its XADD raised; the exception is not
\* caught, and the batch is rolled back.
Fails_Stamped(p, r) ==
    /\ sent' = [sent EXCEPT ![p] = @ \cup {r}]
    /\ Advance(p, r)

Fails_RollsBack(p, r) ==
    /\ batch' = [batch EXCEPT ![p] = {}]
    /\ todo' = [todo EXCEPT ![p] = {}]
    /\ sent' = [sent EXCEPT ![p] = {}]
    /\ UNCHANGED rowVars

\* The row is passed over and stays unpublished; the others go on.
Fails(p, r) == Advance(p, r) /\ UNCHANGED sent

SendPoison(p, r) ==
    /\ IsNext(p, r) /\ r \in Poison
    /\ Fails(p, r)
    /\ UNCHANGED <<log, calm, faults>>

Fault == faults < MaxFaults /\ faults' = faults + 1 /\ calm' = FALSE

SendFails(p, r, landed) ==
    /\ Fault
    /\ IsNext(p, r)
    /\ log' = IF landed THEN Append(log, r) ELSE log
    /\ Fails(p, r)

Release(p) ==
    /\ batch' = [batch EXCEPT ![p] = {}]
    /\ todo' = [todo EXCEPT ![p] = {}]
    /\ sent' = [sent EXCEPT ![p] = {}]
    /\ UNCHANGED <<committed, due, log>>

Commit(p) ==
    /\ Open(p) /\ todo[p] = {}
    /\ published' = published \cup sent[p]
    /\ Release(p)
    /\ UNCHANGED <<calm, faults>>

\* The process dies or the commit fails: nothing is stamped, all is unlocked.
Crash(p) ==
    /\ Fault
    /\ Open(p)
    /\ Release(p)
    /\ UNCHANGED published

Publish(p) ==
    \/ Select(p)
    \/ \E r \in Row : Send(p, r) \/ SendPoison(p, r)
    \/ Commit(p)

Next ==
    \/ \E r \in Row : Insert(r) \/ BecomesDue(r)
    \/ \E p \in Publisher : \/ Publish(p)
                            \/ \E r \in Row, landed \in BOOLEAN : SendFails(p, r, landed)
                            \/ Crash(p)

Spec == Init /\ [][Next]_vars

\* Publishers loop for ever, and time comes.  Writers need not commit.
FairSpec ==
    /\ Spec
    /\ \A p \in Publisher : WF_vars(Publish(p))
    /\ \A r \in Row : WF_vars(BecomesDue(r))

-----------------------------------------------------------------------------
(* Properties.                                                             *)

Copies(entries, r) == Cardinality({i \in DOMAIN entries : entries[i] = r})
CopiesOf(r) == Copies(log, r)

\* Several publishers at once send nothing twice: only a fault makes another copy,
\* and of each row at most one (outbox.py:42, 61-64).
CopiesNeedFaults == \A r \in Row : CopiesOf(r) <= 1 + faults

\* A stamped row is in its stream, whatever failed inside its batch.
StampedIsSent == published \subseteq Range(log)

\* As long as all is calm the stream has the rows in the order they were created,
\* across batches too (outbox.py:40).  The outbox promises no more than that.
CalmIsInOrder == calm => \A i \in 2..Len(log) : log[i - 1] < log[i]

\* Rows that can never be sent hold up no others, as long as a batch has room beside
\* them: they are the oldest, are never put off, and are in every batch
\* (outbox.py:56-60).
OthersGetThrough ==
    Cardinality(Poison) < BatchSize =>
       \A r \in Row \ Poison : [](r \in committed => <>(r \in published))

-----------------------------------------------------------------------------
(* The invariant behind the safety properties.                             *)

TypeOK ==
    /\ committed \in SUBSET Row /\ due \in SUBSET Row /\ published \in SUBSET Row
    /\ batch \in [Publisher -> SUBSET Row]
    /\ todo \in [Publisher -> SUBSET Row]
    /\ sent \in [Publisher -> SUBSET Row]
    /\ log \in Seq(Row)
    /\ calm \in BOOLEAN
    /\ faults \in Nat

\* FOR UPDATE SKIP LOCKED gives a row to one publisher, as long as it is not stamped.
LocksExclude ==
    /\ \A p \in Publisher :
          /\ batch[p] \subseteq (committed \cap due) \ published
          /\ todo[p] \subseteq batch[p]
          /\ sent[p] \subseteq batch[p] \ todo[p]
    /\ \A p, q \in Publisher : p # q => batch[p] \cap batch[q] = {}

\* Rows that are stamped or will be.
Marked == published \cup UNION {sent[p] : p \in Publisher}

LogAccounted ==
    /\ Marked \subseteq Range(log)
    /\ Range(log) \subseteq committed \cap due
    /\ \A r \in Row : CopiesOf(r) <= IF r \in Marked THEN faults + 1 ELSE faults

\* Rows a publisher could still send for the first time.
Ahead == ((committed \cap due) \ Poison) \ Range(log)

CalmOrder ==
    /\ Range(log) \subseteq Marked
    /\ \A i, j \in DOMAIN log : i < j => log[i] < log[j]
    /\ \A s \in Range(log), r \in Ahead : s < r
    /\ \A p, q \in Publisher : Open(p) /\ Open(q) => p = q
    /\ \A p \in Publisher :
          /\ batch[p] \ todo[p] \subseteq sent[p] \cup Poison
          /\ \A r \in batch[p], x \in Ahead \ batch[p] : r < x

IInv == TypeOK /\ LocksExclude /\ LogAccounted /\ (calm => CalmOrder)
=============================================================================
