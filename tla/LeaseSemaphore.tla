---------------------------- MODULE LeaseSemaphore ----------------------------
(***************************************************************************)
(* The Redis semaphore that caps concurrent Clova calls over all worker    *)
(* processes, with the worker loop and the heartbeat task that use it.     *)
(*                                                                         *)
(* A permit is a member of one sorted set, scored by the time its lease    *)
(* ends.  Every script runs atomically in Redis but is given the time by   *)
(* its client, so clocks matter: skew[w] is how far ahead w's clock is.    *)
(* Times are kept relative to the present: ttl[w] is w's score minus now   *)
(* and one Tick is a third of the lease or less.  A process acquires under *)
(* a fresh uuid each time and gives the old one up first, so the worker's  *)
(* name stands for its current lease id; a crashed process is not reused.  *)
(***************************************************************************)
EXTENDS Integers, FiniteSets

CONSTANTS
    Worker,
    Limit,      \* settings.clova_max_concurrent_jobs
    LeaseTicks, \* settings.clova_semaphore_lease_sec
    BeatTicks,  \* the heartbeat's interval, a third of the lease
    MaxSkew,    \* bound: how far two clients' clocks are apart
    MaxFaults   \* bound: crashes, lost replies and failed renewals

ASSUME WorkerAssumption == IsFiniteSet(Worker)
ASSUME LimitAssumption == Limit \in Nat \ {0}
ASSUME TimeAssumption ==
    /\ LeaseTicks \in Nat /\ BeatTicks \in Nat \ {0} /\ MaxSkew \in Nat
    /\ BeatTicks + MaxSkew < LeaseTicks
ASSUME FaultAssumption == MaxFaults \in Nat

VARIABLES
    pc,       \* what each worker process does
    skew,     \* how far each worker's clock is ahead
    beating,  \* workers whose heartbeat task runs
    beat,     \* ticks until the heartbeat of a worker renews
    members,  \* permits in the sorted set
    ttl,      \* their scores, relative to now
    keyTtl,   \* ticks until Redis expires the whole key; 0: no key
    faults

vars == <<pc, skew, beating, beat, members, ttl, keyTtl, faults>>

Phase == {"idle", "waiting", "calling", "releasing", "dead"}

TypeOK ==
    /\ pc \in [Worker -> Phase]
    /\ skew \in [Worker -> 0..MaxSkew]
    /\ beating \subseteq {w \in Worker : pc[w] = "calling"}
    /\ beat \in [Worker -> 0..BeatTicks]
    /\ members \subseteq {w \in Worker : pc[w] \in {"calling", "releasing", "dead"}}
    /\ ttl \in [Worker -> 0..(LeaseTicks + MaxSkew)]
    /\ keyTtl \in 0..LeaseTicks
    /\ faults \in 0..MaxFaults

Init ==
    /\ pc = [w \in Worker |-> "idle"]
    /\ skew \in [Worker -> 0..MaxSkew]
    /\ beating = {} /\ beat = [w \in Worker |-> 0]
    /\ members = {} /\ ttl = [w \in Worker |-> 0]
    /\ keyTtl = 0
    /\ faults = 0

Goto(w, phase) == pc' = [pc EXCEPT ![w] = phase]
Fault == faults < MaxFaults /\ faults' = faults + 1

\* The loop hands a message over and asks for a permit.
Deliver(w) ==
    /\ pc[w] = "idle"
    /\ Goto(w, "waiting")
    /\ UNCHANGED <<skew, beating, beat, members, ttl, keyTtl, faults>>

\* Mutant: the script does not purge lapsed leases.
Purged_Not(w) == members

\* ZREMRANGEBYSCORE, by the clock of the client that runs the script.
Purged(w) == {v \in members : ttl[v] > skew[w]}

\* Mutant: ZCARD > limit instead of >=.
HasRoom_OneMore(w) == Cardinality(Purged(w)) <= Limit

HasRoom(w) == Cardinality(Purged(w)) < Limit

\* ZADD and EXPIRE of ACQUIRE_SCRIPT.
AddPermit(w) ==
    /\ members' = Purged(w) \cup {w}
    /\ ttl' = [ttl EXCEPT ![w] = LeaseTicks + skew[w]]
    /\ keyTtl' = LeaseTicks

AcquireGranted(w) ==
    /\ pc[w] = "waiting" /\ HasRoom(w)
    /\ AddPermit(w)
    /\ Goto(w, "calling")
    /\ beating' = beating \cup {w}
    /\ beat' = [beat EXCEPT ![w] = BeatTicks]
    /\ UNCHANGED <<skew, faults>>

\* Tried again after a second.
AcquireDenied(w) ==
    /\ pc[w] = "waiting" /\ ~HasRoom(w)
    /\ members' = Purged(w)
    /\ UNCHANGED <<pc, skew, beating, beat, ttl, keyTtl, faults>>

\* Redis grants the permit, the reply is lost, the exception ends the process.
AcquireReplyLost(w) ==
    /\ Fault
    /\ pc[w] = "waiting" /\ HasRoom(w)
    /\ AddPermit(w)
    /\ Goto(w, "dead")
    /\ UNCHANGED <<skew, beating, beat>>

\* Mutant: the script reports success without moving the score.
Renew_KeepsScore(w) ==
    /\ w \in beating /\ beat[w] = 0
    /\ IF w \in members
         THEN /\ keyTtl' = LeaseTicks
              /\ beat' = [beat EXCEPT ![w] = BeatTicks]
              /\ UNCHANGED <<beating, ttl>>
         ELSE /\ beating' = beating \ {w}
              /\ UNCHANGED <<ttl, keyTtl, beat>>
    /\ UNCHANGED <<pc, skew, members, faults>>

\* The heartbeat renews, or finds its lease gone, warns and stops; the call it
\* was to protect goes on.  The score is not compared with the time: a lease
\* that lapsed is revived unless somebody's acquire has purged it.
Renew(w) ==
    /\ w \in beating /\ beat[w] = 0
    /\ IF w \in members
         THEN /\ ttl' = [ttl EXCEPT ![w] = LeaseTicks + skew[w]]
              /\ keyTtl' = LeaseTicks
              /\ beat' = [beat EXCEPT ![w] = BeatTicks]
              /\ UNCHANGED beating
         ELSE /\ beating' = beating \ {w}
              /\ UNCHANGED <<ttl, keyTtl, beat>>
    /\ UNCHANGED <<pc, skew, members, faults>>

\* renew() raises: the exception ends the heartbeat task and is looked at only
\* when the call is over.
RenewFails(w) ==
    /\ Fault
    /\ w \in beating /\ beat[w] = 0
    /\ beating' = beating \ {w}
    /\ UNCHANGED <<pc, skew, beat, members, ttl, keyTtl>>

\* The call ends, well or not; the heartbeat is cancelled first.
Finish(w) ==
    /\ pc[w] = "calling"
    /\ Goto(w, "releasing")
    /\ beating' = beating \ {w}
    /\ UNCHANGED <<skew, beat, members, ttl, keyTtl, faults>>

\* ZREM; an emptied sorted set disappears with its expiry.
Release(w) ==
    /\ pc[w] = "releasing"
    /\ members' = members \ {w}
    /\ Goto(w, "idle")
    /\ UNCHANGED <<skew, beating, beat, ttl, keyTtl, faults>>

Crash(w) ==
    /\ Fault
    /\ pc[w] \in {"waiting", "calling", "releasing"}
    /\ Goto(w, "dead")
    /\ beating' = beating \ {w}
    /\ UNCHANGED <<skew, beat, members, ttl, keyTtl>>

Less(n) == IF n = 0 THEN 0 ELSE n - 1

\* A heartbeat that is due renews before time goes on: it is late by less than
\* a tick as long as its event loop runs.
Tick ==
    /\ \A w \in beating : beat[w] > 0
    /\ ttl' = [w \in Worker |-> Less(ttl[w])]
    /\ beat' = [w \in Worker |-> Less(beat[w])]
    /\ keyTtl' = Less(keyTtl)
    /\ members' = IF keyTtl <= 1 THEN {} ELSE members
    /\ UNCHANGED <<pc, skew, beating, faults>>

Acquire(w) == AcquireGranted(w) \/ AcquireDenied(w)

Next ==
    \/ \E w \in Worker :
          \/ Deliver(w)
          \/ Acquire(w)
          \/ AcquireReplyLost(w)
          \/ Renew(w)
          \/ RenewFails(w)
          \/ Finish(w)
          \/ Release(w)
          \/ Crash(w)
    \/ Tick

Spec == Init /\ [][Next]_vars

\* Clocks advance, heartbeats and releases are scheduled, a waiting worker polls.
Fairness ==
    /\ WF_vars(Tick)
    /\ \A w \in Worker : WF_vars(Renew(w)) /\ WF_vars(Release(w)) /\ WF_vars(Acquire(w))

FairSpec == Spec /\ Fairness

-----------------------------------------------------------------------------
(* Properties.                                                             *)

Calling == {w \in Worker : pc[w] = "calling"}

\* The sorted set never holds more permits than the limit, whatever lapses, is
\* revived by a renewal (semaphore.py:24-34) or purged by a clock that is ahead.
PermitsWithinLimit == Cardinality(members) <= Limit

\* A worker whose heartbeat runs still owns a permit that no client's clock
\* takes for lapsed: heartbeats every third of the lease leave enough margin
\* for clocks that differ by less than the rest (workers/clova.py:73-79).
BeatingHoldsPermit == \A w \in beating : w \in members /\ ttl[w] > MaxSkew

\* Why: since its last renewal a heartbeat's score and the key's expiry have lost
\* no more ticks than the heartbeat has counted.
BeatKeepsPermit ==
    \A w \in beating :
       /\ w \in members
       /\ ttl[w] >= LeaseTicks + skew[w] - (BeatTicks - beat[w])
       /\ keyTtl >= LeaseTicks - (BeatTicks - beat[w])

\* So the calls under a running heartbeat respect the limit.
ProtectedCallsWithinLimit == Cardinality(beating) <= Limit

\* README.md:141: CLOVA_MAX_CONCURRENT_JOBS is the number of concurrent requests
\* over all workers.
CallsWithinLimit == Cardinality(Calling) <= Limit

\* No permit leaks for ever: a worker that waits while from some time on fewer
\* than Limit others wait or call gets its permit, whoever died holding one.
PermitsComeBack ==
    \A w \in Worker :
       <>[](Cardinality({v \in Worker \ {w} : pc[v] \in {"waiting", "calling", "releasing"}}) < Limit)
          => []<>(pc[w] # "waiting")
=============================================================================
