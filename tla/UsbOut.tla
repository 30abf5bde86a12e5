-------------------------------- MODULE UsbOut ---------------------------------
(* From USB to the MIDI jacks: the packet buffer usb_recv_buf, its processing   *)
(* by usb_recv_process, and one transmitting UART per jack (uart_t of uart.h)   *)
(* with its byte ring and the want_write handshake that resumes a packet which  *)
(* found no room.                                                               *)
(*                                                                              *)
(* Two interrupt levels run this code.  LO is the USB interrupt: it takes a     *)
(* received packet and processes it.  HI is the data-register-empty interrupt   *)
(* of any UART: it moves a byte from the ring to the transmitter and, when a    *)
(* stalled event fits again, runs usb_recv_process itself.  HI preempts LO      *)
(* between any two of the steps below; nothing preempts HI but the hardware.    *)
EXTENDS Naturals, Sequences

CONSTANTS Ports,       \* the MIDI jacks of the board
          Cables,      \* the cable numbers a packet may name (a nibble), the jacks among them
          Tags,        \* distinguishes the contents of messages
          Sizes,       \* the message lengths cin2size gives, 0 included
          Offered,     \* the events the host sends: all, or those an instance explores
          TxCap,       \* slots of a transmit ring (64), one of which stays unused
          BufEvents,   \* events in a USB packet (16)
          HwDepth      \* bytes the transmitter holds: data and shift register

ASSUME CablesAssumption == Ports \subseteq Cables
ASSUME SizesAssumption == Sizes \subseteq Nat
ASSUME TxCapAssumption == TxCap \in Nat \ {0} /\ \A s \in Sizes : s + 1 < TxCap
ASSUME BufEventsAssumption == BufEvents \in Nat
ASSUME HwDepthAssumption == HwDepth \in Nat \ {0}

Levels == {"LO", "HI"}

Event == [jack : Cables, size : Sizes, tag : Tags]

ASSUME OfferedAssumption == Offered \subseteq Event

\* midi::send of the board knows no such jack: it takes nothing, now or later.  An event
\* of no message counts as sent before that matters.
Unsendable(e) == e.size # 0 /\ e.jack \notin Ports

Byte == Tags \X Nat

\* The bytes of an event, in the order they go to the wire.
Bytes(e) == [i \in 1 .. e.size |-> <<e.tag, i>>]

VARIABLES
    ev,           \* usb_recv_buf.ev, the events of the last packet
    start, end,   \* usb_recv_buf.start and .end
    stall,        \* usb_recv_buf.stall
    armed,        \* a transfer waits for the host (udd_ep_run succeeded)
    got,          \* the host sent a packet, the USB interrupt is pending
    ring,         \* tx_ring of every UART, oldest byte first (see Ring)
    want_write,   \* size of the message that found no room, 0 if none
    dre_int,      \* the data-register-empty interrupt is enabled
    hw,           \* bytes in the transmitter
    pc,           \* where each level is in usb_recv_process
    cur           \* the event that level refers to (an index like start), 0 if none

recvVars == <<ev, start, end, stall>>
usbVars  == <<armed, got>>
uartVars == <<ring, want_write, dre_int, hw>>
vars     == <<recvVars, usbVars, uartVars, pc, cur>>

\* Places of usb_recv_process and what it calls:
\*   loop  the test of the while loop          entry  first test of write_buf
\*   fast  the write without the ring          crit   the critical section
\*   pop   the message was taken               tail   it was not
Places == {"idle", "loop", "entry", "fast", "crit", "pop", "tail"}

\* What one transfer can hold, nothing included.
Packet == UNION {[1 .. n -> Offered] : n \in 0 .. BufEvents}

TypeOK ==
    /\ ev \in Packet
    /\ start \in 0 .. BufEvents
    /\ end \in 0 .. BufEvents
    /\ stall \in BOOLEAN
    /\ armed \in BOOLEAN
    /\ got \in BOOLEAN
    /\ ring \in [Ports -> Seq(Byte)]
    /\ want_write \in [Ports -> Nat]
    /\ dre_int \in [Ports -> BOOLEAN]
    /\ hw \in [Ports -> Seq(Byte)]
    /\ pc \in [Levels -> Places]
    /\ cur \in [Levels -> Nat]

--------------------------------------------------------------------------------

tx_ring_avail(p) == TxCap - Len(ring[p])

dre(p) == Len(hw[p]) < HwDepth

\* The event at the front of the buffer.
First == ev[start + 1]

\* A level runs only while no higher one does.
Runs(l) == l = "LO" => pc["HI"] = "idle"

At(l, place) == pc[l] = place /\ Runs(l)

Go(l, place) == pc' = [pc EXCEPT ![l] = place]

Init ==
    /\ ev = << >> /\ start = 0 /\ end = 0 /\ stall = FALSE
    /\ armed = TRUE             \* udi_midi_enable ran
    /\ got = FALSE
    /\ ring = [p \in Ports |-> << >>]
    /\ want_write = [p \in Ports |-> 0]
    /\ dre_int = [p \in Ports |-> FALSE]
    /\ hw = [p \in Ports |-> << >>]
    /\ pc = [l \in Levels |-> "idle"]
    /\ cur = [l \in Levels |-> 0]

--------------------------------------------------------------------------------
(* The hardware.                                                                *)

\* The host sends a packet into the armed endpoint; the controller stores it.
HostPacket(packet) ==
    /\ armed
    /\ armed' = FALSE
    /\ got' = TRUE
    /\ ev' = packet
    /\ UNCHANGED <<start, end, stall, uartVars, pc, cur>>

\* The transmitter finishes a byte.
Shift(p) ==
    /\ hw[p] # << >>
    /\ hw' = [hw EXCEPT ![p] = Tail(@)]
    /\ UNCHANGED <<recvVars, usbVars, ring, want_write, dre_int, pc, cur>>

--------------------------------------------------------------------------------
(* usb_recv_process, midi_send and write_buf, at either level.                  *)

\* while (!usb_recv_buf.empty()) over: the endpoint is armed, unless it still is.
LoopEnd(l) ==
    /\ At(l, "loop")
    /\ start = end
    /\ armed' = (armed \/ ~got)
    /\ Go(l, "idle")
    /\ UNCHANGED <<recvVars, got, uartVars, cur>>

\* The next event: one that encodes no message counts as sent.
LoopNext(l) ==
    /\ At(l, "loop")
    /\ start # end
    /\ start < Len(ev)
    /\ ~Unsendable(First)
    /\ cur' = [cur EXCEPT ![l] = start]
    /\ Go(l, IF First.size = 0 THEN "pop" ELSE "entry")
    /\ UNCHANGED <<recvVars, usbVars, uartVars>>

\* One for a jack the board lacks is not sent, and no UART is told to ask for it.
Refuse(l) ==
    /\ At(l, "loop")
    /\ start # end
    /\ start < Len(ev)
    /\ Unsendable(First)
    /\ cur' = [cur EXCEPT ![l] = start]
    /\ Go(l, "tail")
    /\ UNCHANGED <<recvVars, usbVars, uartVars>>

\* The event level l is sending, and its jack.
Cur(l) == ev[cur[l] + 1]
Jack(l) == Cur(l).jack

\* Mutant of Entry: the test of the ring is missing.
EntryNoRingTest(l) ==
    /\ At(l, "entry")
    /\ Go(l, IF Cur(l).size = 1 /\ dre(Jack(l)) THEN "fast" ELSE "crit")
    /\ UNCHANGED <<recvVars, usbVars, uartVars, cur>>

\* A single byte may go straight to the transmitter if nothing waits before it.
Entry(l) ==
    /\ At(l, "entry")
    /\ Go(l, IF Cur(l).size = 1 /\ ring[Jack(l)] = << >> /\ dre(Jack(l))
             THEN "fast" ELSE "crit")
    /\ UNCHANGED <<recvVars, usbVars, uartVars, cur>>

\* The write without the ring, outside the critical section.  A transmitter that
\* is full by now ignores it.
Fast(l) ==
    /\ At(l, "fast")
    /\ hw' = IF dre(Jack(l)) THEN [hw EXCEPT ![Jack(l)] = @ \o Bytes(Cur(l))] ELSE hw
    /\ Go(l, "pop")
    /\ UNCHANGED <<recvVars, usbVars, ring, want_write, dre_int, cur>>

\* How many of n bytes the transmitter of p takes at once.
Taken(p, n) == IF n < HwDepth - Len(hw[p]) THEN n ELSE HwDepth - Len(hw[p])

\* The transmitter of p is filled up from bytes, the ring keeps the rest, the interrupt
\* is enabled if there is any.
Refill(p, bytes) ==
    LET k == Taken(p, Len(bytes))
        rest == SubSeq(bytes, k + 1, Len(bytes))
    IN  /\ hw' = [hw EXCEPT ![p] = @ \o SubSeq(bytes, 1, k)]
        /\ ring' = [ring EXCEPT ![p] = rest]
        /\ dre_int' = [dre_int EXCEPT ![p] = @ \/ rest # << >>]

\* Mutant of CritPush: want_write is not reset.
CritPushKeepsWant(l) ==
    /\ At(l, "crit")
    /\ tx_ring_avail(Jack(l)) > Cur(l).size
    /\ Refill(Jack(l), ring[Jack(l)] \o Bytes(Cur(l)))
    /\ Go(l, "pop")
    /\ UNCHANGED <<recvVars, usbVars, want_write, cur>>

\* The critical section finds room: the message follows what is in the ring.
CritPush(l) ==
    /\ At(l, "crit")
    /\ tx_ring_avail(Jack(l)) > Cur(l).size
    /\ Refill(Jack(l), ring[Jack(l)] \o Bytes(Cur(l)))
    /\ want_write' = [want_write EXCEPT ![Jack(l)] = 0]
    /\ Go(l, "pop")
    /\ UNCHANGED <<recvVars, usbVars, cur>>

\* Mutant of CritFull: want_write is not set.
CritFullForgets(l) ==
    /\ At(l, "crit")
    /\ ~(tx_ring_avail(Jack(l)) > Cur(l).size)
    /\ Go(l, "tail")
    /\ UNCHANGED <<recvVars, usbVars, uartVars, cur>>

\* It finds no room: the size is left for the interrupt to compare.
CritFull(l) ==
    /\ At(l, "crit")
    /\ ~(tx_ring_avail(Jack(l)) > Cur(l).size)
    /\ want_write' = [want_write EXCEPT ![Jack(l)] = Cur(l).size]
    /\ Go(l, "tail")
    /\ UNCHANGED <<recvVars, usbVars, ring, dre_int, hw, cur>>

\* Sent: usb_recv_buf.pop().
Pop(l) ==
    /\ At(l, "pop")
    /\ start' = start + 1
    /\ cur' = [cur EXCEPT ![l] = 0]
    /\ Go(l, "loop")
    /\ UNCHANGED <<ev, end, stall, usbVars, uartVars>>

\* Mutant of Stalled: break for return, the endpoint is armed.
StalledBreaks(l) ==
    /\ At(l, "tail")
    /\ stall' = TRUE
    /\ armed' = (armed \/ ~got)
    /\ cur' = [cur EXCEPT ![l] = 0]
    /\ Go(l, "idle")
    /\ UNCHANGED <<ev, start, end, got, uartVars>>

\* Not sent: usb_recv_buf.set_stall() and return.
Stalled(l) ==
    /\ At(l, "tail")
    /\ stall' = TRUE
    /\ cur' = [cur EXCEPT ![l] = 0]
    /\ Go(l, "idle")
    /\ UNCHANGED <<ev, start, end, usbVars, uartVars>>

Process(l) ==
    \/ LoopEnd(l) \/ LoopNext(l) \/ Refuse(l)
    \/ Entry(l) \/ Fast(l) \/ CritPush(l) \/ CritFull(l)
    \/ Pop(l) \/ Stalled(l)

--------------------------------------------------------------------------------
(* The two interrupt entries.                                                   *)

\* Mutant of Received: the stall of the last packet is not forgotten.
ReceivedKeepsStall ==
    /\ got
    /\ At("LO", "idle")
    /\ got' = FALSE
    /\ start' = 0
    /\ end' = Len(ev)
    /\ Go("LO", "loop")
    /\ UNCHANGED <<ev, stall, armed, uartVars, cur>>

\* The USB interrupt: usb_midi_received.
Received ==
    /\ got
    /\ At("LO", "idle")
    /\ got' = FALSE
    /\ start' = 0
    /\ end' = Len(ev)
    /\ stall' = FALSE
    /\ Go("LO", "loop")
    /\ UNCHANGED <<ev, armed, uartVars, cur>>

\* Mutant of Retry: every byte sent retries.
RetryAlways(p) == start # end

\* on_dre_int and midi_send_ready: a byte taken from the ring of p makes room for the
\* message that found none, and an event is left.
Retry(p) ==
    want_write[p] # 0 /\ tx_ring_avail(p) + 1 > want_write[p] /\ start # end

\* on_dre_int, a byte waits: it is sent, and a message that fits now is retried.
DreByte(p) ==
    /\ dre_int[p] /\ dre(p)
    /\ At("HI", "idle")
    /\ ring[p] # << >>
    /\ hw' = [hw EXCEPT ![p] = Append(@, Head(ring[p]))]
    /\ ring' = [ring EXCEPT ![p] = Tail(@)]
    /\ IF Retry(p) THEN Go("HI", "loop") ELSE UNCHANGED pc
    /\ UNCHANGED <<recvVars, usbVars, want_write, dre_int, cur>>

\* on_dre_int, the ring is empty: the interrupt is disabled.
DreOff(p) ==
    /\ dre_int[p] /\ dre(p)
    /\ At("HI", "idle")
    /\ ring[p] = << >>
    /\ dre_int' = [dre_int EXCEPT ![p] = FALSE]
    /\ UNCHANGED <<recvVars, usbVars, ring, want_write, hw, pc, cur>>

Next ==
    \/ \E packet \in Packet : HostPacket(packet)
    \/ Received
    \/ \E l \in Levels : Process(l)
    \/ \E p \in Ports : DreByte(p) \/ DreOff(p) \/ Shift(p)

Spec == Init /\ [][Next]_vars

\* Interrupts are served, a level that may run does, a transmitter sends on.
Fairness ==
    /\ WF_vars(Received)
    /\ \A l \in Levels : WF_vars(Process(l))
    /\ \A p \in Ports : SF_vars(DreByte(p) \/ DreOff(p)) /\ WF_vars(Shift(p))

LiveSpec == Spec /\ Fairness

--------------------------------------------------------------------------------
(* Properties.                                                                  *)

\* Level l is between taking up the buffer and leaving it.
Busy(l) == pc[l] \notin {"idle", "tail"}

Pending == start < end

\* The event at the front names no jack of the board: usb_recv_process leaves it, and
\* those behind it, until the host configures the device again.
Wedged == Pending /\ Unsendable(First)

\* usb_recv_process keeps no lock, and the interrupt of a UART may call it while the
\* USB interrupt is inside it (main.cpp:261-265): both are never at work on the
\* buffer together, the one that was overtaken is at most about to note the stall.
NoReentry == ~(Busy("LO") /\ Busy("HI"))

\* The host is let in (main.cpp:605) only when every event it sent before was taken
\* and no level still refers to the buffer it is about to overwrite.
ArmedBufferIsFree == armed => start = end /\ ~got /\ \A l \in Levels : ~Busy(l)

\* The handshake of write_buf and on_dre_int (uart.h:430-449): a size left in
\* want_write belongs to the event at the front of the buffer, which still does not
\* fit unless it is being retried, and whose interrupt is enabled with a byte to
\* send: the wake-up is never missed.
StalledIsAwaited ==
    \A p \in Ports : want_write[p] # 0 =>
        /\ Pending /\ First.jack = p /\ First.size = want_write[p]
        /\ ring[p] # << >> /\ dre_int[p]
        /\ ~Busy("HI") => tx_ring_avail(p) <= want_write[p]

\* Events left in the buffer are in somebody's hands: a level is at work on them, or
\* the first one waits in want_write for the interrupt of its UART.  Nothing else would
\* ever resume them (main.cpp:594-610, uart.h:430, 448).  The one exception: an event
\* that names no jack of the board stays, nothing resumes the packet behind it.
NeverAbandoned ==
    Pending => \/ Busy("LO") \/ Busy("HI")
               \/ Wedged
               \/ want_write[First.jack] # 0

\* The write outside the critical section (uart.h:397-398) is neither lost in a full
\* transmitter nor overtakes bytes of the ring, whatever interrupted since the test.
FastWriteIsSafe ==
    \A l \in Levels : pc[l] = "fast" => ring[Jack(l)] = << >> /\ dre(Jack(l))

\* stall_msgs and stall_bytes count what had to wait (main.cpp:542-545): the first
\* pass over a packet never counts, a retry always does, except the one that overtakes
\* the USB interrupt before it could note the stall.
StallIsCounted ==
    /\ Busy("LO") => ~stall
    /\ Busy("HI") /\ pc["LO"] # "tail" => stall

\* Every packet is processed to its end: the endpoint is armed again and again as
\* long as the UARTs transmit (no lost wake-up of a stalled packet), unless the packet
\* holds an event for a jack the board lacks.
Rearmed == []<>(armed \/ Wedged)

--------------------------------------------------------------------------------
(* Parts of the inductive invariant behind these (UsbOutProofs).                *)

\* The events not yet taken are the last ones of the last packet.
BufferInv ==
    /\ start <= end
    /\ start # end => end = Len(ev)

\* The buffer has one owner: the host, the USB interrupt, a level, or nobody (stalled).
OwnerInv ==
    /\ armed \/ got => start = end /\ ~Busy("LO") /\ ~Busy("HI")
    /\ ~(armed /\ got)
    /\ Busy("LO") => pc["HI"] = "idle" /\ \A p \in Ports : want_write[p] = 0

\* A level inside midi_send sends the event at the front.
PlaceInv ==
    \A l \in Levels :
        /\ pc[l] \in {"entry", "fast", "crit", "pop"} => start < end /\ cur[l] = start
        /\ pc[l] \in {"entry", "fast", "crit"} => Jack(l) \in Ports
        /\ pc[l] = "fast" => /\ Cur(l).size = 1
                             /\ ring[Jack(l)] = << >>
                             /\ dre(Jack(l))

\* A ring never fills its last slot and drains by interrupt; the transmitter is not
\* written beyond its depth.
RingInv ==
    \A p \in Ports :
        /\ Len(ring[p]) < TxCap
        /\ Len(hw[p]) <= HwDepth
        /\ ring[p] # << >> => dre_int[p]

\* The stalled event, exactly: until the retry one byte of room is missing or more,
\* during the retry there is one more than the ring needs.
HandshakeInv ==
    \A p \in Ports : want_write[p] # 0 =>
        /\ Pending /\ First.jack = p /\ First.size = want_write[p]
        /\ ring[p] # << >>
        /\ pc["HI"] \in {"idle", "tail"} => tx_ring_avail(p) <= want_write[p]
        /\ pc["HI"] \in {"loop", "entry", "crit"} => tx_ring_avail(p) = want_write[p] + 1
        /\ pc["HI"] \notin {"fast", "pop"}

StallInv ==
    /\ StallIsCounted
    /\ (\E p \in Ports : want_write[p] # 0) /\ pc["LO"] # "tail" /\ pc["HI"] # "tail" => stall
================================================================================
