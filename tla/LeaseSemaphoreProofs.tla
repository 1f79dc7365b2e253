------------------------ MODULE LeaseSemaphoreProofs ------------------------
(***************************************************************************)
(* Proofs about LeaseSemaphore, for every number of workers, every limit,  *)
(* every lease and heartbeat interval and every clock skew that leaves a   *)
(* margin (TimeAssumption).                                                *)
(***************************************************************************)
EXTENDS LeaseSemaphore, FiniteSetTheorems, TLAPS

SemaphoreInv == TypeOK /\ PermitsWithinLimit /\ BeatKeepsPermit

-----------------------------------------------------------------------------
(* Lemmas.                                                                 *)

\* Giving a permit up or purging some never exceeds the limit.
LEMMA SubsetWithinLimit ==
    ASSUME TypeOK, PermitsWithinLimit, NEW S \in SUBSET members
    PROVE  IsFiniteSet(S) /\ Cardinality(S) \in Nat /\ Cardinality(S) <= Limit
<1>1. IsFiniteSet(members)
  BY WorkerAssumption, FS_Subset DEF TypeOK
<1>2. IsFiniteSet(S) /\ Cardinality(S) <= Cardinality(members)
  BY <1>1, FS_Subset
<1>3. Cardinality(S) \in Nat /\ Cardinality(members) \in Nat
  BY <1>1, <1>2, FS_CardinalityType
<1>. QED
  BY <1>2, <1>3, LimitAssumption DEF PermitsWithinLimit

\* A permit added where there was room keeps the limit.
LEMMA AddedWithinLimit ==
    ASSUME TypeOK, PermitsWithinLimit, NEW w \in Worker, HasRoom(w), AddPermit(w)
    PROVE  PermitsWithinLimit'
<1>1. IsFiniteSet(Purged(w)) /\ Cardinality(Purged(w)) \in Nat
  BY SubsetWithinLimit DEF Purged
<1>2. /\ IsFiniteSet(Purged(w) \cup {w})
      /\ \/ Cardinality(Purged(w) \cup {w}) = Cardinality(Purged(w))
         \/ Cardinality(Purged(w) \cup {w}) = Cardinality(Purged(w)) + 1
  BY <1>1, FS_AddElement
<1>3. Cardinality(Purged(w) \cup {w}) \in Nat
  BY <1>2, FS_CardinalityType
<1>. QED
  BY <1>1, <1>2, <1>3, LimitAssumption DEF HasRoom, AddPermit, PermitsWithinLimit

\* No client's clock takes a renewed lease for lapsed.
LEMMA BeatingSurvivesPurge ==
    ASSUME TypeOK, BeatKeepsPermit, NEW v \in beating
    PROVE  /\ v \in members /\ v \in Worker
           /\ ttl[v] > MaxSkew
           /\ \A w \in Worker : v \in Purged(w)
<1>1. v \in members /\ v \in Worker
  BY DEF BeatKeepsPermit, TypeOK
<1>2. /\ ttl[v] >= LeaseTicks + skew[v] - (BeatTicks - beat[v])
      /\ ttl[v] \in 0..(LeaseTicks + MaxSkew) /\ skew[v] \in 0..MaxSkew /\ beat[v] \in 0..BeatTicks
  BY <1>1 DEF BeatKeepsPermit, TypeOK
<1>3. ttl[v] > MaxSkew
  BY <1>2, TimeAssumption
<1>4. ASSUME NEW w \in Worker PROVE v \in Purged(w)
  <2>1. skew[w] \in 0..MaxSkew
    BY DEF TypeOK
  <2>. QED
    BY <1>1, <1>2, <1>3, <2>1, TimeAssumption DEF Purged
<1>. QED
  BY <1>1, <1>3, <1>4

-----------------------------------------------------------------------------
(* The invariant.                                                          *)

LEMMA InitSemaphoreInv == Init => SemaphoreInv
<1>. SUFFICES ASSUME Init PROVE SemaphoreInv
  OBVIOUS
<1>1. TypeOK
  BY TimeAssumption, FaultAssumption DEF Init, TypeOK, Phase
<1>2. PermitsWithinLimit
  BY FS_EmptySet, LimitAssumption DEF Init, PermitsWithinLimit
<1>3. BeatKeepsPermit
  BY DEF Init, BeatKeepsPermit
<1>. QED
  BY <1>1, <1>2, <1>3 DEF SemaphoreInv

LEMMA AcquireGrantedStep ==
    ASSUME SemaphoreInv, NEW w \in Worker, AcquireGranted(w) PROVE SemaphoreInv'
<1>. USE DEF SemaphoreInv, AcquireGranted, Goto
<1>1. ttl' \in [Worker -> 0..(LeaseTicks + MaxSkew)] /\ keyTtl' = LeaseTicks
  <2>1. LeaseTicks + skew[w] \in 0..(LeaseTicks + MaxSkew)
    BY TimeAssumption DEF TypeOK
  <2>. QED
    BY <2>1 DEF AddPermit, TypeOK
<1>2. TypeOK'
  <2>1. members' \subseteq {v \in Worker : pc'[v] \in {"calling", "releasing", "dead"}}
    BY DEF TypeOK, AddPermit, Purged
  <2>2. pc' \in [Worker -> Phase] /\ beating' \subseteq {v \in Worker : pc'[v] = "calling"}
    BY DEF TypeOK, Phase
  <2>3. beat' \in [Worker -> 0..BeatTicks]
    BY TimeAssumption DEF TypeOK
  <2>. QED
    BY <1>1, <2>1, <2>2, <2>3, TimeAssumption DEF TypeOK
<1>3. PermitsWithinLimit'
  BY AddedWithinLimit
<1>4. BeatKeepsPermit'
  <2>. SUFFICES ASSUME NEW v \in beating'
       PROVE  /\ v \in members'
              /\ ttl'[v] >= LeaseTicks + skew[v] - (BeatTicks - beat'[v])
              /\ keyTtl' >= LeaseTicks - (BeatTicks - beat'[v])
    BY DEF BeatKeepsPermit
  <2>1. v \in Worker /\ beat'[v] \in 0..BeatTicks /\ skew[v] \in 0..MaxSkew
    BY <1>2 DEF TypeOK
  <2>2. CASE v = w
    <3>1. ttl'[v] = LeaseTicks + skew[v] /\ beat'[v] = BeatTicks /\ v \in members'
      BY <2>2 DEF TypeOK, AddPermit
    <3>. QED
      BY <3>1, <1>1, <2>1, TimeAssumption
  <2>3. CASE v # w
    <3>1. v \in beating /\ ttl'[v] = ttl[v] /\ beat'[v] = beat[v]
      BY <2>3 DEF TypeOK, AddPermit
    <3>2. v \in members' /\ ttl[v] >= LeaseTicks + skew[v] - (BeatTicks - beat[v])
      BY <3>1, BeatingSurvivesPurge DEF AddPermit, BeatKeepsPermit
    <3>. QED
      BY <1>1, <2>1, <3>1, <3>2, TimeAssumption
  <2>. QED
    BY <2>2, <2>3
<1>. QED
  BY <1>2, <1>3, <1>4

LEMMA AcquireReplyLostStep ==
    ASSUME SemaphoreInv, NEW w \in Worker, AcquireReplyLost(w) PROVE SemaphoreInv'
<1>. USE DEF SemaphoreInv, AcquireReplyLost, Goto
<1>1. ttl' \in [Worker -> 0..(LeaseTicks + MaxSkew)] /\ keyTtl' = LeaseTicks
  <2>1. LeaseTicks + skew[w] \in 0..(LeaseTicks + MaxSkew)
    BY TimeAssumption DEF TypeOK
  <2>. QED
    BY <2>1 DEF AddPermit, TypeOK
<1>2. TypeOK'
  <2>1. members' \subseteq {v \in Worker : pc'[v] \in {"calling", "releasing", "dead"}}
    BY DEF TypeOK, AddPermit, Purged
  <2>2. pc' \in [Worker -> Phase] /\ beating' \subseteq {v \in Worker : pc'[v] = "calling"}
    BY DEF TypeOK, Phase
  <2>3. faults' \in 0..MaxFaults
    BY FaultAssumption DEF TypeOK, Fault
  <2>. QED
    BY <1>1, <2>1, <2>2, <2>3, TimeAssumption DEF TypeOK
<1>3. PermitsWithinLimit'
  BY AddedWithinLimit
<1>4. BeatKeepsPermit'
  <2>. SUFFICES ASSUME NEW v \in beating
       PROVE  /\ v \in members'
              /\ ttl'[v] >= LeaseTicks + skew[v] - (BeatTicks - beat[v])
              /\ keyTtl' >= LeaseTicks - (BeatTicks - beat[v])
    BY DEF BeatKeepsPermit
  <2>1. v \in Worker /\ v # w /\ beat[v] \in 0..BeatTicks
    BY DEF TypeOK
  <2>2. ttl'[v] = ttl[v]
    BY <2>1 DEF TypeOK, AddPermit
  <2>3. v \in members' /\ ttl[v] >= LeaseTicks + skew[v] - (BeatTicks - beat[v])
    BY BeatingSurvivesPurge DEF AddPermit, BeatKeepsPermit
  <2>. QED
    BY <1>1, <2>1, <2>2, <2>3, TimeAssumption
<1>. QED
  BY <1>2, <1>3, <1>4

LEMMA AcquireDeniedStep ==
    ASSUME SemaphoreInv, NEW w \in Worker, AcquireDenied(w) PROVE SemaphoreInv'
<1>. USE DEF SemaphoreInv, AcquireDenied
<1>1. members' \subseteq members
  BY DEF Purged
<1>2. TypeOK'
  BY <1>1 DEF TypeOK
<1>3. PermitsWithinLimit'
  BY <1>1, SubsetWithinLimit DEF PermitsWithinLimit
<1>4. BeatKeepsPermit'
  BY BeatingSurvivesPurge DEF BeatKeepsPermit
<1>. QED
  BY <1>2, <1>3, <1>4

LEMMA RenewStep == ASSUME SemaphoreInv, NEW w \in Worker, Renew(w) PROVE SemaphoreInv'
<1>. USE DEF SemaphoreInv, Renew
<1>1. w \in members /\ w \in beating
  BY DEF BeatKeepsPermit
<1>2. /\ ttl' = [ttl EXCEPT ![w] = LeaseTicks + skew[w]]
      /\ keyTtl' = LeaseTicks
      /\ beat' = [beat EXCEPT ![w] = BeatTicks]
      /\ UNCHANGED <<beating, pc, skew, members, faults>>
  BY <1>1
<1>3. TypeOK'
  <2>1. LeaseTicks + skew[w] \in 0..(LeaseTicks + MaxSkew)
    BY TimeAssumption DEF TypeOK
  <2>. QED
    BY <1>2, <2>1, TimeAssumption DEF TypeOK
<1>4. PermitsWithinLimit'
  BY <1>2 DEF PermitsWithinLimit
<1>5. BeatKeepsPermit'
  <2>. SUFFICES ASSUME NEW v \in beating
       PROVE  /\ v \in members
              /\ ttl'[v] >= LeaseTicks + skew[v] - (BeatTicks - beat'[v])
              /\ keyTtl' >= LeaseTicks - (BeatTicks - beat'[v])
    BY <1>2 DEF BeatKeepsPermit
  <2>1. v \in Worker /\ beat'[v] \in 0..BeatTicks /\ skew[v] \in 0..MaxSkew /\ v \in members
    BY <1>2, <1>3 DEF TypeOK, BeatKeepsPermit
  <2>2. CASE v = w
    <3>1. ttl'[v] = LeaseTicks + skew[v] /\ beat'[v] = BeatTicks
      BY <1>2, <2>2 DEF TypeOK
    <3>. QED
      BY <1>2, <2>1, <3>1, TimeAssumption
  <2>3. CASE v # w
    <3>1. ttl'[v] = ttl[v] /\ beat'[v] = beat[v]
      BY <1>2, <2>1, <2>3 DEF TypeOK
    <3>. QED
      BY <1>2, <2>1, <3>1, TimeAssumption DEF BeatKeepsPermit
  <2>. QED
    BY <2>2, <2>3
<1>. QED
  BY <1>3, <1>4, <1>5

\* A renewal that is due has happened before time goes on, so no heartbeat sees
\* its permit or the whole key lapse.
LEMMA TickStep == ASSUME SemaphoreInv, Tick PROVE SemaphoreInv'
<1>. USE DEF SemaphoreInv, Tick
<1>1. TypeOK'
  <2>1. \A n, b \in Nat : n \in 0..b => Less(n) \in 0..b
    BY DEF Less
  <2>. QED
    BY <2>1, TimeAssumption DEF TypeOK
<1>2. PermitsWithinLimit'
  <2>1. members' \in SUBSET members
    OBVIOUS
  <2>. QED
    BY <2>1, SubsetWithinLimit DEF PermitsWithinLimit
<1>3. BeatKeepsPermit'
  <2>. SUFFICES ASSUME NEW v \in beating
       PROVE  /\ v \in members'
              /\ ttl'[v] >= LeaseTicks + skew[v] - (BeatTicks - beat'[v])
              /\ keyTtl' >= LeaseTicks - (BeatTicks - beat'[v])
    BY DEF BeatKeepsPermit
  <2>1. /\ v \in Worker /\ v \in members
        /\ ttl[v] > MaxSkew /\ ttl[v] \in 0..(LeaseTicks + MaxSkew)
        /\ beat[v] \in 1..BeatTicks
        /\ skew[v] \in 0..MaxSkew
        /\ keyTtl \in 0..LeaseTicks
        /\ ttl[v] >= LeaseTicks + skew[v] - (BeatTicks - beat[v])
        /\ keyTtl >= LeaseTicks - (BeatTicks - beat[v])
    BY BeatingSurvivesPurge, TimeAssumption DEF TypeOK, BeatKeepsPermit
  <2>2. keyTtl > 1
    BY <2>1, TimeAssumption
  <2>3. ttl'[v] = ttl[v] - 1 /\ beat'[v] = beat[v] - 1 /\ keyTtl' = keyTtl - 1
    BY <2>1, <2>2, TimeAssumption DEF Less
  <2>4. v \in members'
    BY <2>1, <2>2
  <2>. QED
    BY <2>1, <2>3, <2>4, TimeAssumption
<1>. QED
  BY <1>1, <1>2, <1>3

LEMMA NextSemaphoreInv == SemaphoreInv /\ [Next]_vars => SemaphoreInv'
<1>. SUFFICES ASSUME SemaphoreInv, [Next]_vars PROVE SemaphoreInv'
  OBVIOUS
<1>. USE DEF SemaphoreInv, Goto
<1>1. ASSUME NEW w \in Worker, Deliver(w) PROVE SemaphoreInv'
  BY <1>1 DEF Deliver, TypeOK, Phase, PermitsWithinLimit, BeatKeepsPermit
<1>2. ASSUME NEW w \in Worker, RenewFails(w) PROVE SemaphoreInv'
  BY <1>2, FaultAssumption DEF RenewFails, Fault, TypeOK, PermitsWithinLimit, BeatKeepsPermit
<1>3. ASSUME NEW w \in Worker, Finish(w) PROVE SemaphoreInv'
  BY <1>3 DEF Finish, TypeOK, Phase, PermitsWithinLimit, BeatKeepsPermit
<1>4. ASSUME NEW w \in Worker, Release(w) PROVE SemaphoreInv'
  <2>1. TypeOK' /\ BeatKeepsPermit'
    BY <1>4 DEF Release, TypeOK, Phase, BeatKeepsPermit
  <2>2. members' \in SUBSET members
    BY <1>4 DEF Release
  <2>. QED
    BY <2>1, <2>2, SubsetWithinLimit DEF PermitsWithinLimit
<1>5. ASSUME NEW w \in Worker, Crash(w) PROVE SemaphoreInv'
  BY <1>5, FaultAssumption DEF Crash, Fault, TypeOK, Phase, PermitsWithinLimit, BeatKeepsPermit
<1>6. CASE UNCHANGED vars
  BY <1>6 DEF vars, TypeOK, PermitsWithinLimit, BeatKeepsPermit
<1>. QED
  BY <1>1, <1>2, <1>3, <1>4, <1>5, <1>6, AcquireGrantedStep, AcquireReplyLostStep,
     AcquireDeniedStep, RenewStep, TickStep DEF Next, Acquire

LEMMA SpecSemaphoreInv == Spec => []SemaphoreInv
BY InitSemaphoreInv, NextSemaphoreInv, PTL DEF Spec

-----------------------------------------------------------------------------
(* Theorems.                                                               *)

\* Redis never holds more permits than the limit.
THEOREM PermitBound == Spec => []PermitsWithinLimit
<1>1. SemaphoreInv => PermitsWithinLimit
  BY DEF SemaphoreInv
<1>. QED
  BY <1>1, SpecSemaphoreInv, PTL

\* The semaphore's state is always well formed: heartbeats run only for calls, and
\* permits belong to workers that call, release or died.
THEOREM TypeCorrect == Spec => []TypeOK
<1>1. SemaphoreInv => TypeOK
  BY DEF SemaphoreInv
<1>. QED
  BY <1>1, SpecSemaphoreInv, PTL

\* Since its last renewal a heartbeat's score and the key's expiry have lost no more
\* ticks than the heartbeat has counted.
THEOREM HeartbeatKeepsScore == Spec => []BeatKeepsPermit
<1>1. SemaphoreInv => BeatKeepsPermit
  BY DEF SemaphoreInv
<1>. QED
  BY <1>1, SpecSemaphoreInv, PTL

\* A running heartbeat means an owned permit that no client's clock has lapsed.
THEOREM HeartbeatHolds == Spec => []BeatingHoldsPermit
<1>1. SemaphoreInv => BeatingHoldsPermit
  BY BeatingSurvivesPurge DEF SemaphoreInv, BeatingHoldsPermit
<1>. QED
  BY <1>1, SpecSemaphoreInv, PTL

\* The calls protected by a running heartbeat never exceed the limit.
THEOREM ProtectedCallBound == Spec => []ProtectedCallsWithinLimit
<1>1. SemaphoreInv => ProtectedCallsWithinLimit
  <2>1. ASSUME SemaphoreInv PROVE beating \in SUBSET members
    BY <2>1 DEF SemaphoreInv, BeatKeepsPermit
  <2>. QED
    BY <2>1, SubsetWithinLimit DEF SemaphoreInv, ProtectedCallsWithinLimit
<1>. QED
  BY <1>1, SpecSemaphoreInv, PTL
=============================================================================
