---------------------------- MODULE ConsumerGroup ----------------------------
(***************************************************************************)
(* One Redis stream with one consumer group, and the loop in which every   *)
(* worker process of the group reads it: a new entry if there is one, else *)
(* one that has been pending for long enough, whoever had it.  An entry    *)
(* leaves the group by XACK only; whatever a handler does not acknowledge  *)
(* comes back.  Stage modules extend this one with their handlers.         *)
(***************************************************************************)
EXTENDS Naturals

CONSTANTS
    Worker,    \* worker slots; a restarted process takes its slot again
    Message,   \* the stream entries there can be
    NoMessage

ASSUME NoMessageAssumption == NoMessage \notin Message

VARIABLES
    unread,   \* entries never delivered
    pending,  \* entries delivered and not acknowledged
    pc,       \* where each worker is
    held      \* the entry it works on

groupVars == <<unread, pending, pc, held>>

\* handling: the phases of the stage's handler.
GroupTypeOK(handling) ==
    /\ unread \subseteq Message
    /\ pending \subseteq Message \ unread
    /\ pc \in [Worker -> {"idle", "reclaim"} \cup handling]
    /\ held \in [Worker -> Message \cup {NoMessage}]
    /\ \A w \in Worker : pc[w] \in {"idle", "reclaim"} <=> held[w] = NoMessage

GroupInit ==
    /\ unread = {} /\ pending = {}
    /\ pc = [w \in Worker |-> "idle"]
    /\ held = [w \in Worker |-> NoMessage]

Xadd(m) == unread' = unread \cup {m}

Goto(w, phase) == pc' = [pc EXCEPT ![w] = phase] /\ UNCHANGED <<unread, pending, held>>
Take(w, m) == pc' = [pc EXCEPT ![w] = "delivered"] /\ held' = [held EXCEPT ![w] = m]
Leave(w) == pc' = [pc EXCEPT ![w] = "idle"] /\ held' = [held EXCEPT ![w] = NoMessage]

\* XREADGROUP ">"
ReadNew(w, m) ==
    /\ pc[w] = "idle"
    /\ m \in unread
    /\ unread' = unread \ {m}
    /\ pending' = pending \cup {m}
    /\ Take(w, m)

ReadNothing(w) ==
    /\ pc[w] = "idle"
    /\ unread = {}
    /\ Goto(w, "reclaim")

\* XAUTOCLAIM: its consumer may be dead, or only slow and still at work.
Autoclaim(w, m) ==
    /\ pc[w] = "reclaim"
    /\ m \in pending
    /\ Take(w, m)
    /\ UNCHANGED <<unread, pending>>

AutoclaimNothing(w) ==
    /\ pc[w] = "reclaim"
    /\ Goto(w, "idle")

Deliver(w) ==
    \/ \E m \in unread : ReadNew(w, m)
    \/ ReadNothing(w)
    \/ \E m \in pending : Autoclaim(w, m)
    \/ AutoclaimNothing(w)

\* The handler raised, or the process died: the entry stays pending.
Drop(w) == Leave(w) /\ UNCHANGED <<unread, pending>>

Ack(w) ==
    /\ pc[w] = "ack"
    /\ pending' = pending \ {held[w]}
    /\ Leave(w)
    /\ UNCHANGED unread

Circulating(m) == m \in unread \cup pending
=============================================================================
