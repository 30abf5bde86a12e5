------------------------------- MODULE JackFifo --------------------------------
(* What the router promises a USB host about its MIDI outputs: every jack is a  *)
(* FIFO of bytes.  A packet is accepted only while at most Room bytes wait at   *)
(* each jack, all of its bytes are then queued at once in the order of the      *)
(* events, and each jack transmits what waits there.                            *)
EXTENDS Naturals, Sequences

CONSTANTS Jacks,
          Packets,
          BytesFor(_, _),    \* BytesFor(packet, jack): what the packet holds for a jack
          Room               \* the backlog of one jack at which packets are still accepted

VARIABLE q

Init == q = [j \in Jacks |-> << >>]

Accept(packet) ==
    /\ \A j \in Jacks : Len(q[j]) <= Room
    /\ q' = [j \in Jacks |-> q[j] \o BytesFor(packet, j)]

Transmit(j) ==
    /\ q[j] # << >>
    /\ q' = [q EXCEPT ![j] = Tail(@)]

\* A packet without bytes changes nothing.
Next ==
    /\ q' # q
    /\ \/ \E j \in Jacks : Transmit(j)
       \/ \E packet \in Packets : Accept(packet)

Spec == Init /\ [][Next]_q

\* Nothing that was accepted waits for ever.
FairSpec == Spec /\ \A j \in Jacks : WF_q(Transmit(j))
================================================================================
