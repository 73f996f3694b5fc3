------------------------------ MODULE TxQueue ------------------------------
(***************************************************************************)
(* What the network layer is promised by the transmit path: the contract   *)
(* of a multiqueue device between ndo_start_xmit, netif_stop_subqueue,     *)
(* netif_wake_subqueue and the freeing of a packet.  A packet is handed    *)
(* over only while its queue runs, is finished or refused once, and a      *)
(* stopped queue is woken by the end of one of its own packets and by      *)
(* nothing else.  A queue is stopped only while it has a packet under way. *)
(***************************************************************************)
CONSTANTS
  Queue,          \* the subqueues of the device
  Packet,         \* the packets
  QueueOf(_)      \* the queue of each

VARIABLES
  fate,           \* of each packet: "out", then "in", then "done" or "refused"
  stopped         \* the queues that are stopped

Inside(q) == {p \in Packet : QueueOf(p) = q /\ fate[p] = "in"}

Init == fate = [p \in Packet |-> "out"] /\ stopped = {}

\* One packet moves on.  (The first conjunct follows from the second; it
\* spares TLC the comparison of the functions where fate is not a variable.)
Becomes(p, f) == fate'[p] = f /\ fate' = [fate EXCEPT ![p] = f]

HandOver(p) ==
  /\ fate[p] = "out" /\ QueueOf(p) \notin stopped
  /\ Becomes(p, "in")
  /\ UNCHANGED stopped

Stop(q) == Inside(q) # {} /\ stopped' = stopped \cup {q} /\ UNCHANGED fate

\* A packet for which there is no room, or that is not to be sent.
Refuse(p) ==
  /\ fate[p] \in {"out", "in"}
  /\ Becomes(p, "refused")
  /\ UNCHANGED stopped

\* Packets are freed, and their queues woken.
Finish(P) ==
  /\ P # {}
  /\ fate' = [p \in Packet |-> IF p \in P THEN "done" ELSE fate[p]]
  /\ stopped' = stopped \ {QueueOf(p) : p \in P}

Next ==
  \/ \E p \in Packet : HandOver(p) \/ Refuse(p)
  \/ \E q \in Queue : Stop(q)
  \/ \E P \in SUBSET {p \in Packet : fate[p] = "in"} : Finish(P)

Spec == Init /\ [][Next]_<<fate, stopped>>

=============================================================================
