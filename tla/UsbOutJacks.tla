------------------------------ MODULE UsbOutJacks ------------------------------
(* What UsbOut promises the host: it implements JackFifo.                       *)
EXTENDS UsbOut

\* What a packet, from event n on, holds for jack p.  It ends where an event names a jack
\* the board lacks: those behind it are never taken.
BytesFrom(packet, n, p) ==
    LET from[i \in 1 .. Len(packet) + 1] ==
            IF i > Len(packet) THEN << >>
            ELSE IF Unsendable(packet[i]) THEN << >>
            ELSE IF packet[i].jack = p THEN Bytes(packet[i]) \o from[i + 1]
            ELSE from[i + 1]
    IN  from[n]

BytesOf(packet, p) == BytesFrom(packet, 1, p)

\* The first event whose bytes are not in a ring or transmitter yet.
Unsent ==
    IF got THEN 1
    ELSE IF \E l \in Levels : pc[l] = "pop" THEN start + 2 ELSE start + 1

\* What the packet buffer still holds for jack p.
Buffered(p) == IF got \/ Pending THEN BytesFrom(ev, Unsent, p) ELSE << >>

\* What a jack owes: the transmitter, then the ring, then the buffer.
Owed == [p \in Ports |-> hw[p] \o ring[p] \o Buffered(p)]

Jacks == INSTANCE JackFifo WITH
    Jacks <- Ports, Packets <- Packet, BytesFor <- BytesOf,
    Room <- HwDepth + TxCap - 1, q <- Owed

\* No byte of a packet, up to an event for a jack the board lacks, is lost, duplicated,
\* reordered within its jack or sent to another jack by the two levels that share the
\* buffer and the rings (main.cpp:520-610, uart.h:396-453), and a packet is accepted
\* only while the jacks' backlog fits the rings.
ImplementsJackFifo == Jacks!Spec

\* Moreover every such byte of every packet is transmitted in the end.
ImplementsFairJackFifo == Jacks!FairSpec
================================================================================
