------------------------------ MODULE UsbOutProofs -----------------------------
(* Proofs about UsbOut for every number of jacks, ring and packet size, and     *)
(* about UsbOutActiveTest, where the main level writes to the UARTs too.        *)
(*                                                                              *)
(* B are the bytes that may be on a wire: those of the events and, in the test, *)
(* the one it sends.                                                            *)
EXTENDS UsbOutActiveTest, UsbOutJacks, SequenceTheorems, WellFoundedInduction, TLAPS

--------------------------------------------------------------------------------
(* The inductive invariants.                                                    *)

TypesOf(B) ==
    /\ ev \in Packet
    /\ start \in 0 .. BufEvents
    /\ end \in 0 .. BufEvents
    /\ stall \in BOOLEAN
    /\ armed \in BOOLEAN
    /\ got \in BOOLEAN
    /\ ring \in [Ports -> Seq(B)]
    /\ want_write \in [Ports -> Sizes \cup {0, 1}]
    /\ dre_int \in [Ports -> BOOLEAN]
    /\ hw \in [Ports -> Seq(B)]
    /\ pc \in [Levels -> Places]
    /\ cur \in [Levels -> Nat]

\* Whatever the main level did: the host has the buffer or a level has it, and a level
\* inside midi_send sends the event at its front.
HeldInv ==
    /\ armed \/ got => start = end /\ ~Busy("LO") /\ ~Busy("HI")
    /\ ~(armed /\ got)
    /\ \A l \in Levels :
           /\ pc[l] \in {"entry", "fast", "crit", "pop"} => start < end /\ cur[l] = start
           /\ pc[l] \in {"entry", "fast", "crit"} => Jack(l) \in Ports
           /\ pc[l] = "fast" => Cur(l).size = 1

\* What holds until both levels are at work in the buffer.
SafeInv(B) ==
    /\ TypesOf(B)
    /\ BufferInv
    /\ HeldInv
    /\ RingInv

\* What holds unless the main level came between: both levels never are.
IInv(B) ==
    /\ SafeInv(B)
    /\ OwnerInv
    /\ PlaceInv
    /\ HandshakeInv
    /\ StallInv

--------------------------------------------------------------------------------
(* Data.                                                                        *)

\* A size in want_write is a number, and a number of bytes of an event can be one.
LEMMA SizeFacts == \A s \in Sizes \cup {0, 1} : s \in Nat
  BY SizesAssumption

LEMMA EventBytes ==
    ASSUME NEW e \in Event
    PROVE  /\ Bytes(e) \in Seq(Byte)
           /\ Len(Bytes(e)) = e.size
           /\ e.size \in Nat /\ e.size \in Sizes /\ e.size + 1 < TxCap
  <1>1. e.size \in Nat /\ e.tag \in Tags /\ e.size + 1 < TxCap /\ e.size \in Sizes
    BY SizesAssumption, TxCapAssumption DEF Event
  <1>2. Bytes(e) \in [1 .. e.size -> Byte]
    BY <1>1 DEF Bytes, Byte
  <1> QED  BY <1>1, <1>2

\* A sequence of some bytes is one of more.
LEMMA MoreBytes ==
    ASSUME NEW A, NEW B, A \subseteq B, NEW s \in Seq(A)
    PROVE  s \in Seq(B)
  <1>1. Len(s) \in Nat /\ s \in [1 .. Len(s) -> A]
    BY LenProperties
  <1>2. s \in [1 .. Len(s) -> B]
    BY <1>1
  <1> QED  BY <1>1, <1>2

\* A packet is a sequence of events.
LEMMA PacketSeq ==
    ASSUME NEW packet \in Packet
    PROVE  /\ Len(packet) \in 0 .. BufEvents
           /\ \A n \in 1 .. Len(packet) : packet[n] \in Event
  <1>1. PICK n \in 0 .. BufEvents : packet \in [1 .. n -> Event]
    BY OfferedAssumption DEF Packet
  <1>2. n \in Nat
    BY BufEventsAssumption
  <1>3. Len(packet) = n
    BY <1>1, <1>2
  <1> QED  BY <1>1, <1>3

\* The event a level is sending.
LEMMA CurEvent ==
    ASSUME NEW B, SafeInv(B), NEW l \in Levels, pc[l] \in {"entry", "fast", "crit", "pop"}
    PROVE  /\ Cur(l) = First /\ Cur(l) \in Event /\ Pending /\ start + 1 \in 1 .. Len(ev)
           /\ pc[l] # "pop" => Jack(l) = First.jack /\ First.jack \in Ports
  <1>1. start < end /\ cur[l] = start /\ end <= Len(ev) /\ start \in Nat /\ end \in Nat
    BY BufEventsAssumption DEF SafeInv, HeldInv, BufferInv, TypesOf
  <1>2. Len(ev) \in Nat /\ \A n \in 1 .. Len(ev) : ev[n] \in Event
    BY PacketSeq, BufEventsAssumption DEF SafeInv, TypesOf
  <1>3. Cur(l) = First
    BY <1>1 DEF Cur, First
  <1>4. pc[l] # "pop" => Jack(l) \in Ports
    BY DEF SafeInv, HeldInv
  <1> QED  BY <1>1, <1>2, <1>3, <1>4 DEF Cur, First, Pending, Jack

\* While one level is at work in the buffer, it is nobody else's.
LEMMA OtherQuiet ==
    ASSUME NEW B, SafeInv(B), NoReentry, NEW l \in Levels, Busy(l)
    PROVE  /\ \A m \in Levels : m # l => pc[m] \in {"idle", "tail"}
           /\ ~armed /\ ~got
  BY DEF SafeInv, HeldInv, NoReentry, Busy, Levels

\* What Refill leaves in the ring and in the transmitter.
LEMMA RefillFacts ==
    ASSUME NEW B, NEW p \in Ports, NEW all \in Seq(B), Len(all) < TxCap,
           ring \in [Ports -> Seq(B)], hw \in [Ports -> Seq(B)], dre_int \in [Ports -> BOOLEAN],
           RingInv, Refill(p, all)
    PROVE  /\ ring' \in [Ports -> Seq(B)]
           /\ hw' \in [Ports -> Seq(B)]
           /\ dre_int' \in [Ports -> BOOLEAN]
           /\ RingInv'
           /\ \A q \in Ports : q # p => ring'[q] = ring[q]
  <1> DEFINE k == Taken(p, Len(all))
             rest == SubSeq(all, k + 1, Len(all))
  <1>1. /\ hw' = [hw EXCEPT ![p] = hw[p] \o SubSeq(all, 1, k)]
        /\ ring' = [ring EXCEPT ![p] = rest]
        /\ dre_int' = [dre_int EXCEPT ![p] = dre_int[p] \/ rest # << >>]
    BY DEF Refill
  <1>2. /\ hw[p] \in Seq(B) /\ Len(hw[p]) \in Nat /\ Len(all) \in Nat
    BY LenProperties
  <1>3. /\ k \in 0 .. Len(all)
        /\ k <= HwDepth - Len(hw[p])
        /\ k = Len(all) \/ k = HwDepth - Len(hw[p])
    <2> DEFINE room == HwDepth - Len(hw[p])
    <2>1. room \in Nat
      BY <1>2, HwDepthAssumption DEF RingInv
    <2>2. k = IF Len(all) < room THEN Len(all) ELSE room
      BY DEF Taken
    <2> HIDE DEF k, room
    <2>3. k \in 0 .. Len(all) /\ k <= room /\ (k = Len(all) \/ k = room)
      BY <1>2, <2>1, <2>2
    <2> QED  BY <2>3 DEF room
  <1>4. /\ rest \in Seq(B) /\ Len(rest) = Len(all) - k
        /\ SubSeq(all, 1, k) \in Seq(B) /\ Len(SubSeq(all, 1, k)) = k
    <2>1. \A n \in 1 .. Len(all) : all[n] \in B
      BY ElementOfSeq
    <2> HIDE DEF k
    <2>2. /\ rest \in Seq(B)
          /\ Len(rest) = IF k + 1 <= Len(all) THEN Len(all) - (k + 1) + 1 ELSE 0
      BY <1>2, <1>3, <2>1, SubSeqProperties
    <2>3. /\ SubSeq(all, 1, k) \in Seq(B)
          /\ Len(SubSeq(all, 1, k)) = IF 1 <= k THEN k - 1 + 1 ELSE 0
      BY <1>2, <1>3, <2>1, SubSeqProperties
    <2> QED  BY <1>2, <1>3, <2>2, <2>3
  <1>5. /\ hw[p] \o SubSeq(all, 1, k) \in Seq(B)
        /\ Len(hw[p] \o SubSeq(all, 1, k)) = Len(hw[p]) + k
    BY <1>2, <1>4, ConcatProperties
  <1> HIDE DEF k, rest
  <1>6. /\ ring' \in [Ports -> Seq(B)] /\ hw' \in [Ports -> Seq(B)]
        /\ \A q \in Ports : q # p => ring'[q] = ring[q]
    BY <1>1, <1>4, <1>5
  <1>7. dre_int' \in [Ports -> BOOLEAN]
    BY <1>1
  <1>8. RingInv'
    <2> SUFFICES ASSUME NEW q \in Ports
                 PROVE  /\ Len(ring'[q]) < TxCap
                        /\ Len(hw'[q]) <= HwDepth
                        /\ ring'[q] # << >> => dre_int'[q]
      BY DEF RingInv
    <2>1. CASE q = p
      <3>1. ring'[q] = rest /\ hw'[q] = hw[p] \o SubSeq(all, 1, k)
            /\ (rest # << >> => dre_int'[q])
        BY <1>1, <2>1
      <3>2. Len(ring'[q]) = Len(all) - k /\ Len(hw'[q]) = Len(hw[p]) + k
        BY <1>4, <1>5, <3>1
      <3>3. Len(ring'[q]) < TxCap /\ Len(hw'[q]) <= HwDepth
        BY <1>2, <1>3, <3>2, HwDepthAssumption, TxCapAssumption
      <3> QED  BY <3>1, <3>3
    <2>2. CASE q # p
      BY <1>1, <2>2 DEF RingInv
    <2> QED  BY <2>1, <2>2
  <1> QED  BY <1>6, <1>7, <1>8

--------------------------------------------------------------------------------
(* Initially.                                                                   *)

LEMMA InitInv == Init => IInv(Byte)
  <1> SUFFICES ASSUME Init PROVE IInv(Byte)
    OBVIOUS
  <1>1. << >> \in Packet /\ Len(<< >>) = 0 /\ << >> \in Seq(Byte)
    <2>1. << >> \in [1 .. 0 -> Offered]
      OBVIOUS
    <2> QED  BY <2>1, BufEventsAssumption DEF Packet
  <1>2. TypesOf(Byte)
    <2>1. pc \in [Levels -> Places] /\ cur \in [Levels -> Nat]
      BY DEF Init, Places
    <2>2. ring \in [Ports -> Seq(Byte)] /\ hw \in [Ports -> Seq(Byte)]
      BY <1>1 DEF Init
    <2>3. want_write \in [Ports -> Sizes \cup {0, 1}] /\ dre_int \in [Ports -> BOOLEAN]
      BY DEF Init
    <2>4. ev \in Packet
      BY <1>1 DEF Init
    <2>5. start \in 0 .. BufEvents /\ end \in 0 .. BufEvents
      BY BufEventsAssumption DEF Init
    <2>6. stall \in BOOLEAN /\ armed \in BOOLEAN /\ got \in BOOLEAN
      BY DEF Init
    <2> QED  BY <2>1, <2>2, <2>3, <2>4, <2>5, <2>6 DEF TypesOf
  <1>3. BufferInv /\ OwnerInv /\ PlaceInv /\ HeldInv
    BY DEF Init, BufferInv, OwnerInv, PlaceInv, HeldInv, Busy, Levels
  <1>4. RingInv
    <2>1. \A p \in Ports : ring[p] = << >> /\ hw[p] = << >>
      BY DEF Init
    <2>2. 0 < TxCap /\ 0 <= HwDepth
      BY TxCapAssumption, HwDepthAssumption
    <2>3. \A p \in Ports : Len(ring[p]) < TxCap /\ Len(hw[p]) <= HwDepth
      BY <1>1, <2>1, <2>2, Zenon
    <2> QED  BY <2>1, <2>3 DEF RingInv
  <1>5. HandshakeInv /\ StallInv
    BY DEF Init, HandshakeInv, StallInv, StallIsCounted, Busy, Levels
  <1> QED  BY <1>2, <1>3, <1>4, <1>5 DEF IInv, SafeInv

--------------------------------------------------------------------------------
(* The steps of the two levels and of the hardware, whatever the main level did. *)

LEMMA HostPacketSafe ==
    ASSUME NEW B, SafeInv(B), NEW packet \in Packet, HostPacket(packet)
    PROVE  SafeInv(B)'
  <1> USE DEF SafeInv, HostPacket, uartVars
  <1>1. TypesOf(B)'
    BY DEF TypesOf
  <1>2. BufferInv' /\ RingInv'
    BY DEF BufferInv, HeldInv, RingInv
  <1>3. HeldInv'
    BY DEF HeldInv, Busy, Levels
  <1> QED  BY <1>1, <1>2, <1>3

LEMMA ReceivedSafe ==
    ASSUME NEW B, SafeInv(B), Received
    PROVE  SafeInv(B)'
  <1> USE DEF SafeInv, Received, uartVars, Go, At, Runs
  <1>0. Len(ev) \in 0 .. BufEvents /\ pc["HI"] = "idle" /\ pc["LO"] = "idle"
    BY PacketSeq DEF TypesOf
  <1>1. TypesOf(B)'
    <2>1. pc' \in [Levels -> Places]
      BY DEF TypesOf, Levels, Places
    <2>2. start' \in 0 .. BufEvents /\ end' \in 0 .. BufEvents
      BY <1>0, BufEventsAssumption
    <2>3. stall' \in BOOLEAN /\ got' \in BOOLEAN
      OBVIOUS
    <2> QED  BY <2>1, <2>2, <2>3 DEF TypesOf
  <1>2. pc'["LO"] = "loop" /\ pc'["HI"] = "idle"
    BY <1>0 DEF TypesOf, Levels
  <1>3. BufferInv' /\ RingInv'
    BY <1>0, BufEventsAssumption DEF BufferInv, RingInv
  <1>4. HeldInv'
    BY <1>2 DEF HeldInv, Busy, Levels
  <1> QED  BY <1>1, <1>3, <1>4

LEMMA ShiftSafe ==
    ASSUME NEW B, SafeInv(B), NEW p \in Ports, Shift(p)
    PROVE  SafeInv(B)'
  <1> USE DEF SafeInv, Shift, recvVars, usbVars
  <1>1. /\ Tail(hw[p]) \in Seq(B)
        /\ Len(Tail(hw[p])) = Len(hw[p]) - 1
        /\ Len(hw[p]) \in Nat
    BY HeadTailProperties, LenProperties DEF TypesOf
  <1>2. TypesOf(B)'
    BY <1>1 DEF TypesOf
  <1>3. BufferInv' /\ RingInv'
    BY <1>1, HwDepthAssumption DEF BufferInv, RingInv, TypesOf
  <1>4. HeldInv'
    BY DEF HeldInv, Busy, Cur, Jack
  <1> QED  BY <1>2, <1>3, <1>4

LEMMA DreOffSafe ==
    ASSUME NEW B, SafeInv(B), NEW p \in Ports, DreOff(p)
    PROVE  SafeInv(B)'
  <1> USE DEF SafeInv, DreOff, recvVars, usbVars
  <1>1. TypesOf(B)'
    BY DEF TypesOf
  <1>2. BufferInv' /\ RingInv'
    BY DEF BufferInv, RingInv, TypesOf
  <1>3. HeldInv'
    BY DEF HeldInv, Busy, Cur, Jack
  <1> QED  BY <1>1, <1>2, <1>3

LEMMA DreByteSafe ==
    ASSUME NEW B, SafeInv(B), NEW p \in Ports, DreByte(p)
    PROVE  SafeInv(B)'
  <1> USE DEF SafeInv, At, Runs, Go, recvVars, usbVars
  <1>0. /\ dre_int[p] /\ dre(p) /\ pc["HI"] = "idle" /\ ring[p] # << >>
        /\ hw' = [hw EXCEPT ![p] = Append(hw[p], Head(ring[p]))]
        /\ ring' = [ring EXCEPT ![p] = Tail(ring[p])]
        /\ \/ pc' = [pc EXCEPT !["HI"] = "loop"] /\ start # end
           \/ pc' = pc
        /\ UNCHANGED <<recvVars, usbVars, want_write, dre_int, cur>>
    BY DEF DreByte, Retry
  <1>1. /\ ring[p] \in Seq(B) /\ hw[p] \in Seq(B)
        /\ Len(ring[p]) \in Nat /\ Len(hw[p]) \in Nat
        /\ Head(ring[p]) \in B /\ Tail(ring[p]) \in Seq(B)
        /\ Len(Tail(ring[p])) = Len(ring[p]) - 1
    BY <1>0, LenProperties, HeadTailProperties DEF TypesOf
  <1>2. /\ Append(hw[p], Head(ring[p])) \in Seq(B)
        /\ Len(Append(hw[p], Head(ring[p]))) = Len(hw[p]) + 1
    BY <1>1, AppendProperties
  <1>3. TypesOf(B)'
    BY <1>0, <1>1, <1>2 DEF TypesOf, Places, Levels
  <1>4. BufferInv'
    BY <1>0 DEF BufferInv
  <1>5. RingInv'
    BY <1>0, <1>1, <1>2, HwDepthAssumption, TxCapAssumption DEF RingInv, TypesOf, dre
  <1>6. HeldInv'
    BY <1>0 DEF HeldInv, Busy, Cur, Jack, TypesOf, Levels
  <1> QED  BY <1>3, <1>4, <1>5, <1>6

LEMMA LoopEndSafe ==
    ASSUME NEW B, SafeInv(B), NoReentry, NEW l \in Levels, LoopEnd(l)
    PROVE  SafeInv(B)'
  <1> USE DEF SafeInv, LoopEnd, At, Runs, Go, recvVars, uartVars, Levels
  <1>0. pc' = [pc EXCEPT ![l] = "idle"] /\ pc[l] = "loop" /\ Busy(l)
    BY DEF Busy
  <1>1. TypesOf(B)'
    BY DEF TypesOf, Places
  <1>2. BufferInv' /\ RingInv'
    BY DEF BufferInv, RingInv
  <1>3. HeldInv'
    BY <1>0, OtherQuiet DEF HeldInv, Busy, Cur, Jack, TypesOf
  <1> QED  BY <1>1, <1>2, <1>3

LEMMA LoopNextSafe ==
    ASSUME NEW B, SafeInv(B), NoReentry, NEW l \in Levels, LoopNext(l)
    PROVE  SafeInv(B)'
  <1> USE DEF SafeInv, LoopNext, At, Runs, Go, recvVars, usbVars, uartVars, Levels
  <1>0. pc' \in {[pc EXCEPT ![l] = "pop"], [pc EXCEPT ![l] = "entry"]} /\ Busy(l)
    BY DEF Busy
  <1>1. TypesOf(B)'
    BY <1>0 DEF TypesOf, Places
  <1>2. BufferInv' /\ RingInv'
    BY DEF BufferInv, RingInv
  <1>3. start < end
    BY BufEventsAssumption DEF BufferInv, TypesOf
  <1>4. pc'[l] = "entry" => First.jack \in Ports
    BY DEF Unsendable, TypesOf
  <1>5. Cur(l)' = First
    BY DEF Cur, First, TypesOf
  <1>6. \A m \in Levels : m # l => pc'[m] = pc[m] /\ cur'[m] = cur[m] /\ Cur(m)' = Cur(m)
    BY DEF Cur, TypesOf
  <1>7. HeldInv'
    BY <1>0, <1>3, <1>4, <1>5, <1>6, OtherQuiet DEF HeldInv, Busy, Jack, TypesOf
  <1> QED  BY <1>1, <1>2, <1>7

LEMMA RefuseSafe ==
    ASSUME NEW B, SafeInv(B), NoReentry, NEW l \in Levels, Refuse(l)
    PROVE  SafeInv(B)'
  <1> USE DEF SafeInv, Refuse, At, Runs, Go, recvVars, usbVars, uartVars, Levels
  <1>0. pc' = [pc EXCEPT ![l] = "tail"] /\ Busy(l)
    BY DEF Busy
  <1>1. TypesOf(B)'
    BY <1>0 DEF TypesOf, Places
  <1>2. BufferInv' /\ RingInv'
    BY DEF BufferInv, RingInv
  <1>3. HeldInv'
    BY <1>0, OtherQuiet DEF HeldInv, Busy, TypesOf
  <1> QED  BY <1>1, <1>2, <1>3

LEMMA EntrySafe ==
    ASSUME NEW B, SafeInv(B), NoReentry, NEW l \in Levels, Entry(l)
    PROVE  SafeInv(B)'
  <1> USE DEF SafeInv, Entry, At, Runs, Go, recvVars, usbVars, uartVars, Levels
  <1>0. /\ pc' \in {[pc EXCEPT ![l] = "fast"], [pc EXCEPT ![l] = "crit"]}
        /\ pc[l] = "entry" /\ Busy(l)
    BY DEF Busy
  <1>1. TypesOf(B)'
    BY <1>0 DEF TypesOf, Places
  <1>2. BufferInv' /\ RingInv'
    BY DEF BufferInv, RingInv
  <1>3. pc'[l] = "fast" => Cur(l).size = 1
    BY DEF TypesOf
  <1>4. HeldInv'
    BY <1>0, <1>3, OtherQuiet DEF HeldInv, Busy, Cur, Jack, TypesOf
  <1> QED  BY <1>1, <1>2, <1>4

LEMMA FastSafe ==
    ASSUME NEW B, Byte \subseteq B, SafeInv(B), NoReentry, NEW l \in Levels, Fast(l)
    PROVE  SafeInv(B)'
  <1> USE DEF SafeInv, Fast, At, Go, recvVars, usbVars
  <1>0. /\ Cur(l) \in Event /\ Jack(l) \in Ports /\ Busy(l)
        /\ Bytes(Cur(l)) \in Seq(B)
    BY CurEvent, EventBytes, MoreBytes DEF Jack, Busy
  <1>1. /\ hw' \in [Ports -> Seq(B)]
        /\ \A p \in Ports : Len(hw'[p]) <= HwDepth
    <2> DEFINE p == Jack(l)
               b == Bytes(Cur(l))
    <2>1. /\ p \in Ports /\ hw[p] \in Seq(B) /\ b \in Seq(B) /\ Len(b) = 1
          /\ Len(hw[p]) \in Nat
      BY <1>0, EventBytes, LenProperties DEF HeldInv, TypesOf
    <2> HIDE DEF b
    <2>2. hw[p] \o b \in Seq(B) /\ Len(hw[p] \o b) = Len(hw[p]) + Len(b)
      BY <2>1, ConcatProperties
    <2>3. hw' = hw \/ (Len(hw[p]) < HwDepth /\ hw' = [hw EXCEPT ![p] = hw[p] \o b])
      BY DEF dre, b
    <2> HIDE DEF p
    <2>4. CASE hw' = hw
      BY <2>4 DEF TypesOf, RingInv
    <2>5. CASE Len(hw[p]) < HwDepth /\ hw' = [hw EXCEPT ![p] = hw[p] \o b]
      <3>1. Len(hw[p] \o b) <= HwDepth
        BY <2>1, <2>2, <2>5, HwDepthAssumption
      <3> QED  BY <2>1, <2>2, <2>5, <3>1 DEF TypesOf, RingInv
    <2> QED  BY <2>3, <2>4, <2>5
  <1>2. TypesOf(B)'
    BY <1>1 DEF TypesOf, Places, Levels
  <1>3. BufferInv' /\ RingInv'
    BY <1>1 DEF BufferInv, RingInv
  <1>4. HeldInv'
    BY <1>0, OtherQuiet DEF HeldInv, Busy, TypesOf, Levels
  <1> QED  BY <1>2, <1>3, <1>4

LEMMA CritPushSafe ==
    ASSUME NEW B, Byte \subseteq B, SafeInv(B), NoReentry, NEW l \in Levels, CritPush(l)
    PROVE  SafeInv(B)'
  <1> USE DEF SafeInv, At, Go, recvVars, usbVars
  <1> DEFINE p == Jack(l)
             all == ring[p] \o Bytes(Cur(l))
  <1>0. pc[l] = "crit" /\ Busy(l)
    BY DEF CritPush, Busy
  <1>1. /\ p \in Ports /\ Cur(l).size \in Nat /\ Bytes(Cur(l)) \in Seq(B)
        /\ Len(Bytes(Cur(l))) = Cur(l).size
    BY <1>0, CurEvent, EventBytes, MoreBytes DEF Jack
  <1>2. /\ pc' = [pc EXCEPT ![l] = "pop"] /\ tx_ring_avail(p) > Cur(l).size
        /\ Refill(p, all)
        /\ want_write' = [want_write EXCEPT ![p] = 0]
        /\ UNCHANGED <<recvVars, usbVars, cur>>
    BY DEF CritPush
  <1>3. ring[p] \in Seq(B) /\ Len(ring[p]) \in Nat
    BY <1>1, LenProperties DEF TypesOf
  <1>4. all \in Seq(B) /\ Len(all) \in Nat /\ Len(all) < TxCap
    BY <1>1, <1>2, <1>3, ConcatProperties, LenProperties, TxCapAssumption DEF tx_ring_avail
  <1> HIDE DEF p, all
  <1>5. /\ ring' \in [Ports -> Seq(B)] /\ hw' \in [Ports -> Seq(B)]
        /\ dre_int' \in [Ports -> BOOLEAN] /\ RingInv'
    BY <1>1, <1>2, <1>4, RefillFacts DEF TypesOf
  <1>6. TypesOf(B)'
    BY <1>1, <1>2, <1>5 DEF TypesOf, Places, Levels
  <1>7. BufferInv'
    BY <1>2 DEF BufferInv
  <1>8. HeldInv'
    BY <1>0, <1>2, OtherQuiet DEF HeldInv, Busy, TypesOf, Levels
  <1> QED  BY <1>5, <1>6, <1>7, <1>8

LEMMA CritFullSafe ==
    ASSUME NEW B, SafeInv(B), NoReentry, NEW l \in Levels, CritFull(l)
    PROVE  SafeInv(B)'
  <1> USE DEF SafeInv, CritFull, At, Go, recvVars, usbVars
  <1>0. Jack(l) \in Ports /\ Cur(l).size \in Sizes /\ Busy(l)
    BY CurEvent, EventBytes DEF Jack, Busy
  <1>1. TypesOf(B)'
    BY <1>0 DEF TypesOf, Places, Levels
  <1>2. BufferInv' /\ RingInv'
    BY DEF BufferInv, RingInv
  <1>3. HeldInv'
    BY <1>0, OtherQuiet DEF HeldInv, Busy, Cur, Jack, TypesOf, Levels
  <1> QED  BY <1>1, <1>2, <1>3

LEMMA PopSafe ==
    ASSUME NEW B, SafeInv(B), NoReentry, NEW l \in Levels, Pop(l)
    PROVE  SafeInv(B)'
  <1> USE DEF SafeInv, Pop, At, Go, usbVars, uartVars
  <1>0. /\ start < end /\ start \in Nat /\ end \in 0 .. BufEvents /\ Busy(l)
        /\ start' \in 0 .. BufEvents /\ start' <= end
    BY BufEventsAssumption DEF HeldInv, TypesOf, Busy
  <1>1. TypesOf(B)'
    BY <1>0 DEF TypesOf, Places, Levels
  <1>2. BufferInv' /\ RingInv'
    BY <1>0 DEF BufferInv, RingInv
  <1>3. HeldInv'
    BY <1>0, OtherQuiet DEF HeldInv, Busy, TypesOf, Levels
  <1> QED  BY <1>1, <1>2, <1>3

LEMMA StalledSafe ==
    ASSUME NEW B, SafeInv(B), NEW l \in Levels, Stalled(l)
    PROVE  SafeInv(B)'
  <1> USE DEF SafeInv, Stalled, At, Runs, Go, usbVars, uartVars, Levels
  <1>1. TypesOf(B)'
    BY DEF TypesOf, Places
  <1>2. BufferInv' /\ RingInv'
    BY DEF BufferInv, RingInv
  <1>3. HeldInv'
    BY DEF HeldInv, Busy, Cur, Jack, TypesOf
  <1> QED  BY <1>1, <1>2, <1>3

LEMMA NextSafe ==
    ASSUME NEW B, Byte \subseteq B, SafeInv(B), NoReentry, Next
    PROVE  SafeInv(B)'
  <1>1. CASE \E packet \in Packet : HostPacket(packet)
    BY <1>1, HostPacketSafe
  <1>2. CASE Received
    BY <1>2, ReceivedSafe
  <1>3. ASSUME NEW l \in Levels, Process(l)
        PROVE  SafeInv(B)'
    BY <1>3, LoopEndSafe, LoopNextSafe, RefuseSafe, EntrySafe, FastSafe, CritPushSafe, CritFullSafe,
       PopSafe, StalledSafe DEF Process
  <1>4. ASSUME NEW p \in Ports, DreByte(p) \/ DreOff(p) \/ Shift(p)
        PROVE  SafeInv(B)'
    BY <1>4, DreByteSafe, DreOffSafe, ShiftSafe
  <1> QED  BY <1>1, <1>2, <1>3, <1>4 DEF Next

--------------------------------------------------------------------------------
(* The same steps while the main level has not come between.                    *)

LEMMA Quiet ==
    ASSUME NEW B, IInv(B)
    PROVE  SafeInv(B) /\ NoReentry
  BY DEF IInv, OwnerInv, NoReentry, Busy

LEMMA HostPacketInv ==
    ASSUME NEW B, IInv(B), NEW packet \in Packet, HostPacket(packet)
    PROVE  IInv(B)'
  <1> USE DEF IInv, HostPacket, uartVars
  <1>1. SafeInv(B)'
    BY HostPacketSafe
  <1>2. OwnerInv'
    BY DEF OwnerInv, Busy
  <1>3. PlaceInv'
    BY DEF PlaceInv, OwnerInv, Busy, Levels
  <1>4. HandshakeInv' /\ StallInv'
    BY DEF HandshakeInv, StallInv, StallIsCounted, OwnerInv, Busy, Pending, SafeInv, TypesOf
  <1> QED  BY <1>1, <1>2, <1>3, <1>4

LEMMA ReceivedInv ==
    ASSUME NEW B, IInv(B), Received
    PROVE  IInv(B)'
  <1> USE DEF IInv, Received, uartVars, Go, At, Runs
  <1>0. SafeInv(B)' /\ pc["HI"] = "idle" /\ pc["LO"] = "idle"
    BY ReceivedSafe
  <1>1. pc' = [pc EXCEPT !["LO"] = "loop"] /\ pc'["LO"] = "loop" /\ pc'["HI"] = "idle"
    BY <1>0 DEF SafeInv, TypesOf, Levels
  <1>2. \A p \in Ports : want_write[p] = 0
    BY DEF OwnerInv, HandshakeInv, Pending, SafeInv, TypesOf
  <1>3. OwnerInv'
    BY <1>0, <1>1, <1>2 DEF OwnerInv, Busy
  <1>4. PlaceInv'
    BY <1>1 DEF PlaceInv, Levels
  <1>5. HandshakeInv' /\ StallInv'
    BY <1>1, <1>2 DEF HandshakeInv, StallInv, StallIsCounted, Busy
  <1> QED  BY <1>0, <1>3, <1>4, <1>5

LEMMA ShiftInv ==
    ASSUME NEW B, IInv(B), NEW p \in Ports, Shift(p)
    PROVE  IInv(B)'
  <1> USE DEF IInv, Shift, recvVars, usbVars
  <1>1. SafeInv(B)' /\ Len(Tail(hw[p])) = Len(hw[p]) - 1 /\ Len(hw[p]) \in Nat
    BY ShiftSafe, HeadTailProperties, LenProperties DEF SafeInv, TypesOf
  <1>2. OwnerInv'
    BY DEF OwnerInv, Busy
  <1>3. \A q \in Ports : dre(q) => dre(q)'
    BY <1>1, HwDepthAssumption DEF dre, SafeInv, TypesOf
  <1>4. PlaceInv'
    <2> SUFFICES ASSUME NEW l \in Levels, pc[l] = "fast"
                 PROVE  dre(Jack(l))'
      BY DEF PlaceInv, Cur, Jack
    <2>1. Jack(l) \in Ports /\ dre(Jack(l)) /\ Jack(l)' = Jack(l)
      BY CurEvent, EventBytes DEF PlaceInv, Cur, Jack
    <2> QED  BY <1>3, <2>1 DEF dre
  <1>5. HandshakeInv' /\ StallInv'
    BY DEF HandshakeInv, StallInv, StallIsCounted, Busy, Pending, First, tx_ring_avail
  <1> QED  BY <1>1, <1>2, <1>4, <1>5

LEMMA DreOffInv ==
    ASSUME NEW B, IInv(B), NEW p \in Ports, DreOff(p)
    PROVE  IInv(B)'
  <1> USE DEF IInv, DreOff, recvVars, usbVars
  <1>1. SafeInv(B)'
    BY DreOffSafe
  <1>2. OwnerInv'
    BY DEF OwnerInv, Busy
  <1>3. PlaceInv'
    BY DEF PlaceInv, Cur, Jack, dre
  <1>4. HandshakeInv' /\ StallInv'
    BY DEF HandshakeInv, StallInv, StallIsCounted, Busy, Pending, First, tx_ring_avail
  <1> QED  BY <1>1, <1>2, <1>3, <1>4

LEMMA LoopEndInv ==
    ASSUME NEW B, IInv(B), NEW l \in Levels, LoopEnd(l)
    PROVE  IInv(B)'
  <1> USE DEF IInv, LoopEnd, At, Runs, Go, recvVars, uartVars, Levels
  <1>0. pc' = [pc EXCEPT ![l] = "idle"] /\ pc[l] = "loop" /\ Busy(l)
    BY DEF Busy
  <1>1. SafeInv(B)'
    BY LoopEndSafe, Quiet
  <1>2. OwnerInv'
    BY <1>0 DEF OwnerInv, Busy, SafeInv, TypesOf
  <1>3. PlaceInv'
    BY DEF PlaceInv, Cur, Jack, dre, SafeInv, TypesOf
  <1>4. \A p \in Ports : want_write[p] = 0
    BY DEF HandshakeInv, Pending, SafeInv, TypesOf
  <1>5. HandshakeInv' /\ StallInv'
    BY <1>4 DEF HandshakeInv, StallInv, StallIsCounted, Busy, SafeInv, TypesOf
  <1> QED  BY <1>1, <1>2, <1>3, <1>5

LEMMA LoopNextInv ==
    ASSUME NEW B, IInv(B), NEW l \in Levels, LoopNext(l)
    PROVE  IInv(B)'
  <1> USE DEF IInv, LoopNext, At, Runs, Go, recvVars, usbVars, uartVars, Levels
  <1>0. pc' \in {[pc EXCEPT ![l] = "pop"], [pc EXCEPT ![l] = "entry"]}
    OBVIOUS
  <1>1. SafeInv(B)'
    BY LoopNextSafe, Quiet
  <1>2. OwnerInv'
    BY <1>0 DEF OwnerInv, Busy, SafeInv, TypesOf
  <1>3. PlaceInv'
    <2>1. Busy(l)
      BY DEF Busy
    <2>2. \A m \in Levels : pc'[m] # "fast"
      BY <1>0, <2>1, OtherQuiet, Quiet DEF SafeInv, TypesOf
    <2> QED  BY <1>1, <2>2 DEF PlaceInv, SafeInv, HeldInv
  <1>4. HandshakeInv'
    <2> SUFFICES ASSUME NEW p \in Ports, want_write[p] # 0
                 PROVE  pc'["HI"] \in {"idle", "tail", "entry"} /\ (l = "HI" => pc["HI"] = "loop")
      BY DEF HandshakeInv, Pending, First, tx_ring_avail, SafeInv, TypesOf
    <2>1. First.size # 0
      BY DEF HandshakeInv
    <2>2. pc'[l] = "entry"
      BY <2>1 DEF First, SafeInv, TypesOf
    <2> QED  BY <2>2, <1>0 DEF OwnerInv, Busy, SafeInv, TypesOf
  <1>5. StallInv'
    BY <1>0 DEF StallInv, StallIsCounted, Busy, SafeInv, TypesOf
  <1> QED  BY <1>1, <1>2, <1>3, <1>4, <1>5

LEMMA RefuseInv ==
    ASSUME NEW B, IInv(B), NEW l \in Levels, Refuse(l)
    PROVE  IInv(B)'
  <1> USE DEF IInv, Refuse, At, Runs, Go, recvVars, usbVars, uartVars, Levels
  <1>0. pc' = [pc EXCEPT ![l] = "tail"] /\ pc[l] = "loop" /\ Busy(l)
    BY DEF Busy
  <1>1. SafeInv(B)'
    BY RefuseSafe, Quiet
  <1>2. OwnerInv'
    BY <1>0 DEF OwnerInv, Busy, SafeInv, TypesOf
  <1>3. \A m \in Levels : pc'[m] \in {"entry", "fast", "crit", "pop"} => m # l
    BY <1>0 DEF SafeInv, TypesOf
  <1>4. PlaceInv'
    BY <1>0, <1>3, OtherQuiet, Quiet DEF PlaceInv, SafeInv, TypesOf
  <1>5. \A p \in Ports : want_write[p] = 0
    BY DEF HandshakeInv, Unsendable
  <1>6. HandshakeInv' /\ StallInv'
    BY <1>0, <1>5 DEF HandshakeInv, StallInv, StallIsCounted, Busy, SafeInv, TypesOf
  <1> QED  BY <1>1, <1>2, <1>4, <1>6

LEMMA EntryInv ==
    ASSUME NEW B, IInv(B), NEW l \in Levels, Entry(l)
    PROVE  IInv(B)'
  <1> USE DEF IInv, Entry, At, Runs, Go, recvVars, usbVars, uartVars, Levels
  <1>0. /\ pc' \in {[pc EXCEPT ![l] = "fast"], [pc EXCEPT ![l] = "crit"]}
        /\ Cur(l) = First /\ Cur(l) \in Event /\ Jack(l) \in Ports
    BY CurEvent, EventBytes DEF Jack
  <1>1. SafeInv(B)'
    BY EntrySafe, Quiet
  <1>2. OwnerInv'
    BY <1>0 DEF OwnerInv, Busy, SafeInv, TypesOf
  <1>3. PlaceInv'
    BY <1>0 DEF PlaceInv, Cur, Jack, dre, SafeInv, TypesOf
  <1>4. HandshakeInv'
    <2> SUFFICES ASSUME NEW p \in Ports, want_write[p] # 0
                 PROVE  pc'["HI"] \in {"idle", "tail", "crit"} /\ (l = "HI" => pc["HI"] = "entry")
      BY DEF HandshakeInv, Pending, First, tx_ring_avail, SafeInv, TypesOf
    <2>1. l = "HI"
      BY DEF OwnerInv, Busy
    <2>2. Jack(l) = p /\ ring[p] # << >>
      BY <1>0 DEF HandshakeInv, Jack
    <2>3. pc'[l] = "crit"
      BY <2>2 DEF SafeInv, TypesOf
    <2> QED  BY <2>1, <2>3
  <1>5. StallInv'
    BY <1>0 DEF StallInv, StallIsCounted, Busy, SafeInv, TypesOf
  <1> QED  BY <1>1, <1>2, <1>3, <1>4, <1>5

\* A level whose message was taken leaves no size behind.
LEMMA TakenInv ==
    ASSUME NEW B, IInv(B), SafeInv(B)', NEW l \in Levels, Busy(l), Runs(l),
           \/ pc' = [pc EXCEPT ![l] = "pop"] /\ UNCHANGED <<start, cur>> /\ pc[l] \in {"fast", "crit"}
           \/ pc' = [pc EXCEPT ![l] = "loop"],
           UNCHANGED <<stall, end, armed, got>>, \A p \in Ports : want_write'[p] = 0
    PROVE  IInv(B)'
  <1> USE DEF IInv
  <1>0. /\ pc'[l] \in {"pop", "loop"}
        /\ \A m \in Levels : m # l => pc'[m] = pc[m] /\ pc[m] \in {"idle", "tail"}
        /\ ~armed /\ ~got
    BY OtherQuiet, Quiet DEF SafeInv, TypesOf
  <1>1. OwnerInv'
    BY <1>0 DEF OwnerInv, Busy, Levels, Runs
  <1>2. PlaceInv'
    BY <1>0 DEF PlaceInv, SafeInv, HeldInv
  <1>3. HandshakeInv'
    BY DEF HandshakeInv
  <1>4. StallInv'
    BY <1>0 DEF StallInv, StallIsCounted, Busy, Levels
  <1> QED  BY <1>1, <1>2, <1>3, <1>4

LEMMA FastInv ==
    ASSUME NEW B, Byte \subseteq B, IInv(B), NEW l \in Levels, Fast(l)
    PROVE  IInv(B)'
  <1>1. /\ pc[l] = "fast" /\ Runs(l) /\ Busy(l) /\ pc' = [pc EXCEPT ![l] = "pop"]
        /\ UNCHANGED <<start, end, stall, armed, got, cur, want_write>>
    BY DEF Fast, At, Go, recvVars, usbVars, Busy
  <1>2. \A p \in Ports : want_write[p] = 0
    BY <1>1 DEF IInv, HandshakeInv, OwnerInv, Busy, Levels
  <1> QED  BY <1>1, <1>2, FastSafe, Quiet, TakenInv

LEMMA CritPushInv ==
    ASSUME NEW B, Byte \subseteq B, IInv(B), NEW l \in Levels, CritPush(l)
    PROVE  IInv(B)'
  <1>1. /\ pc[l] = "crit" /\ Runs(l) /\ Busy(l) /\ pc' = [pc EXCEPT ![l] = "pop"]
        /\ UNCHANGED <<start, end, stall, armed, got, cur>>
        /\ want_write' = [want_write EXCEPT ![Jack(l)] = 0]
    BY DEF CritPush, At, Go, recvVars, usbVars, Busy
  <1>2. Jack(l) = First.jack /\ Jack(l) \in Ports
    BY <1>1, Quiet, CurEvent, EventBytes DEF Jack
  <1>3. \A p \in Ports : want_write'[p] = 0
    BY <1>1, <1>2 DEF IInv, HandshakeInv, SafeInv, TypesOf
  <1> QED  BY <1>1, <1>3, CritPushSafe, Quiet, TakenInv

LEMMA PopInv ==
    ASSUME NEW B, IInv(B), NEW l \in Levels, Pop(l)
    PROVE  IInv(B)'
  <1>1. /\ pc[l] = "pop" /\ Runs(l) /\ Busy(l) /\ pc' = [pc EXCEPT ![l] = "loop"]
        /\ UNCHANGED <<end, stall, armed, got, want_write>>
    BY DEF Pop, At, Go, usbVars, uartVars, Busy
  <1>2. \A p \in Ports : want_write[p] = 0
    BY <1>1 DEF IInv, HandshakeInv, OwnerInv, Busy, Levels
  <1> QED  BY <1>1, <1>2, PopSafe, Quiet, TakenInv

LEMMA StalledInv ==
    ASSUME NEW B, IInv(B), NEW l \in Levels, Stalled(l)
    PROVE  IInv(B)'
  <1> USE DEF IInv, Stalled, At, Runs, Go, usbVars, uartVars, Levels
  <1>1. SafeInv(B)'
    BY StalledSafe
  <1>2. OwnerInv'
    BY DEF OwnerInv, Busy, SafeInv, TypesOf
  <1>3. PlaceInv'
    BY DEF PlaceInv, Cur, Jack, dre, SafeInv, TypesOf
  <1>4. HandshakeInv'
    BY DEF HandshakeInv, Pending, First, tx_ring_avail, SafeInv, TypesOf
  <1>5. StallInv'
    BY DEF StallInv, StallIsCounted, OwnerInv, Busy, SafeInv, TypesOf
  <1> QED  BY <1>1, <1>2, <1>3, <1>4, <1>5

LEMMA CritFullInv ==
    ASSUME NEW B, IInv(B), NEW l \in Levels, CritFull(l)
    PROVE  IInv(B)'
  <1> USE DEF IInv, CritFull, At, Go, recvVars, usbVars
  <1> DEFINE p == Jack(l)
             s == Cur(l).size
  <1>0. /\ Cur(l) = First /\ p \in Ports /\ First.jack = p /\ First.size = s
        /\ s \in Nat /\ s + 1 < TxCap /\ Pending
    BY CurEvent, EventBytes DEF Jack
  <1>1. /\ pc' = [pc EXCEPT ![l] = "tail"]
        /\ want_write' = [want_write EXCEPT ![p] = s]
    OBVIOUS
  <1>2. SafeInv(B)'
    BY CritFullSafe, Quiet
  <1>3. Runs(l) /\ pc[l] = "crit"
    OBVIOUS
  <1>4. OwnerInv'
    BY <1>1, <1>3 DEF OwnerInv, Busy, SafeInv, TypesOf, Levels, Runs
  <1>5. PlaceInv'
    BY <1>1 DEF PlaceInv, Cur, Jack, dre, SafeInv, TypesOf
  <1>6. /\ Len(ring[p]) \in Nat /\ ring[p] \in Seq(B)
        /\ tx_ring_avail(p) <= s
        /\ ring[p] # << >>
    BY <1>0, TxCapAssumption, LenProperties, EmptySeq DEF SafeInv, TypesOf, tx_ring_avail
  <1>7. \A q \in Ports : q # p => want_write[q] = 0
    BY <1>0 DEF HandshakeInv
  <1>8. pc'["HI"] \in {"idle", "tail"}
    BY <1>1, <1>3 DEF SafeInv, TypesOf, Levels, Runs
  <1>9. HandshakeInv'
    <2> SUFFICES ASSUME NEW q \in Ports, want_write'[q] # 0
                 PROVE  /\ Pending /\ First.jack = q /\ First.size = want_write'[q]
                        /\ ring[q] # << >>
                        /\ tx_ring_avail(q) <= want_write'[q]
      BY <1>8 DEF HandshakeInv, Pending, First, tx_ring_avail
    <2>1. q = p
      BY <1>1, <1>7 DEF SafeInv, TypesOf
    <2>2. want_write'[q] = s
      BY <1>0, <1>1, <2>1 DEF SafeInv, TypesOf
    <2> QED  BY <1>0, <1>6, <2>1, <2>2
  <1>10. StallInv'
    BY <1>1, <1>3 DEF StallInv, StallIsCounted, Busy, SafeInv, TypesOf, Levels, Runs
  <1> QED  BY <1>2, <1>4, <1>5, <1>9, <1>10

LEMMA DreByteInv ==
    ASSUME NEW B, IInv(B), NEW p \in Ports, DreByte(p)
    PROVE  IInv(B)'
  <1> USE DEF IInv, At, Runs, Go, recvVars, usbVars
  <1> DEFINE retry == want_write[p] # 0 /\ tx_ring_avail(p) + 1 > want_write[p] /\ start # end
  <1>0. /\ dre_int[p] /\ dre(p) /\ pc["HI"] = "idle" /\ ring[p] # << >>
        /\ hw' = [hw EXCEPT ![p] = Append(hw[p], Head(ring[p]))]
        /\ ring' = [ring EXCEPT ![p] = Tail(ring[p])]
        /\ pc' = IF retry THEN [pc EXCEPT !["HI"] = "loop"] ELSE pc
        /\ UNCHANGED <<recvVars, usbVars, want_write, dre_int, cur>>
    BY DEF DreByte, Retry
  <1>1. /\ ring[p] \in Seq(B) /\ Len(ring[p]) \in Nat
        /\ Tail(ring[p]) \in Seq(B)
        /\ Len(Tail(ring[p])) = Len(ring[p]) - 1
    BY <1>0, LenProperties, HeadTailProperties DEF SafeInv, TypesOf
  <1>2. SafeInv(B)'
    BY DreByteSafe
  <1>3. OwnerInv'
    BY <1>0 DEF OwnerInv, Busy, SafeInv, TypesOf, Levels
  <1>4. \A q \in Ports : q # p => ring'[q] = ring[q] /\ hw'[q] = hw[q]
    BY <1>0 DEF SafeInv, TypesOf
  <1>5. PlaceInv'
    <2> SUFFICES ASSUME NEW l \in Levels, pc'[l] \in {"entry", "fast", "crit", "pop"}
                 PROVE  /\ start < end /\ cur[l] = start
                        /\ pc[l] = "fast" => ring'[Jack(l)] = << >> /\ dre(Jack(l))'
                        /\ pc'[l] = pc[l]
      BY <1>0 DEF PlaceInv, Cur, Jack, dre
    <2>1. pc'[l] = pc[l]
      BY <1>0 DEF SafeInv, TypesOf, Levels
    <2>2. ASSUME pc[l] = "fast"
          PROVE  ring'[Jack(l)] = << >> /\ dre(Jack(l))'
      <3>1. Jack(l) \in Ports /\ ring[Jack(l)] = << >> /\ dre(Jack(l))
        BY <2>2, CurEvent, EventBytes DEF PlaceInv, Jack
      <3>2. Jack(l)' = Jack(l) /\ Jack(l) # p
        BY <1>0, <3>1 DEF Jack, Cur
      <3> QED  BY <1>4, <3>1, <3>2 DEF dre
    <2> QED  BY <2>1, <2>2 DEF PlaceInv
  <1>6. HandshakeInv'
    <2> SUFFICES ASSUME NEW q \in Ports, want_write[q] # 0
                 PROVE  /\ Pending /\ First.jack = q /\ First.size = want_write[q]
                        /\ ring'[q] # << >>
                        /\ pc'["HI"] = "idle" => TxCap - Len(ring'[q]) <= want_write[q]
                        /\ pc'["HI"] = "loop" => TxCap - Len(ring'[q]) = want_write[q] + 1
                        /\ pc'["HI"] \in {"idle", "loop"}
      BY <1>0 DEF HandshakeInv, Pending, First, tx_ring_avail
    <2>1. /\ Pending /\ First.jack = q /\ First.size = want_write[q]
          /\ ring[q] # << >> /\ tx_ring_avail(q) <= want_write[q]
          /\ want_write[q] \in Nat /\ start # end
      BY <1>0, SizeFacts DEF HandshakeInv, Pending, SafeInv, TypesOf
    <2>2. pc'["HI"] = IF retry THEN "loop" ELSE "idle"
      BY <1>0 DEF SafeInv, TypesOf, Levels
    <2>3. First \in Event
      <3>1. Len(ev) \in 0 .. BufEvents /\ \A n \in 1 .. Len(ev) : ev[n] \in Event
        BY PacketSeq DEF SafeInv, TypesOf
      <3>2. start \in Nat /\ end = Len(ev) /\ start < end /\ Len(ev) \in Nat
        BY <2>1, <3>1, BufEventsAssumption DEF Pending, BufferInv, SafeInv, TypesOf
      <3>3. start + 1 \in 1 .. Len(ev)
        BY <3>2
      <3> QED  BY <3>1, <3>3 DEF First
    <2>4. want_write[q] + 1 < TxCap
      BY <2>1, <2>3, EventBytes
    <2>5. CASE q = p
      <3>1. Len(ring'[q]) = Len(ring[p]) - 1 /\ ring'[q] \in Seq(B)
        BY <1>0, <1>1, <2>5 DEF SafeInv, TypesOf
      <3>2. TxCap - Len(ring'[q]) = tx_ring_avail(p) + 1
        BY <1>1, <3>1, TxCapAssumption DEF tx_ring_avail
      <3>3. Len(ring'[q]) > 0
        BY <1>1, <2>1, <2>4, <2>5, <3>1, TxCapAssumption DEF tx_ring_avail
      <3>4. ring'[q] # << >>
        BY <3>1, <3>3
      <3>5. /\ pc'["HI"] = "idle" => TxCap - Len(ring'[q]) <= want_write[q]
            /\ pc'["HI"] = "loop" => TxCap - Len(ring'[q]) = want_write[q] + 1
        <4>1. tx_ring_avail(p) \in Int
          BY <1>1, TxCapAssumption DEF tx_ring_avail
        <4>2. CASE retry
          BY <2>1, <2>2, <2>5, <3>2, <4>1, <4>2
        <4>3. CASE ~retry
          <5>1. tx_ring_avail(p) + 1 <= want_write[p]
            BY <2>1, <2>5, <4>1, <4>3
          <5> QED  BY <2>2, <2>5, <3>2, <4>3, <5>1
        <4> QED  BY <4>2, <4>3
      <3> QED  BY <2>1, <2>2, <3>4, <3>5
    <2>6. CASE q # p
      <3>1. want_write[p] = 0
        BY <2>1, <2>6 DEF HandshakeInv
      <3>2. pc'["HI"] = "idle"
        BY <2>2, <3>1
      <3> QED  BY <1>4, <2>1, <2>6, <3>2 DEF tx_ring_avail
    <2> QED  BY <2>5, <2>6
  <1>7. StallInv'
    BY <1>0 DEF StallInv, StallIsCounted, OwnerInv, Busy, SafeInv, TypesOf, Levels
  <1> QED  BY <1>2, <1>3, <1>5, <1>6, <1>7

LEMMA NextInv ==
    ASSUME NEW B, Byte \subseteq B, IInv(B), [Next]_vars
    PROVE  IInv(B)'
  <1>1. CASE \E packet \in Packet : HostPacket(packet)
    BY <1>1, HostPacketInv
  <1>2. CASE Received
    BY <1>2, ReceivedInv
  <1>3. ASSUME NEW l \in Levels, Process(l)
        PROVE  IInv(B)'
    BY <1>3, LoopEndInv, LoopNextInv, RefuseInv, EntryInv, FastInv, CritPushInv, CritFullInv,
       PopInv, StalledInv DEF Process
  <1>4. ASSUME NEW p \in Ports, DreByte(p) \/ DreOff(p) \/ Shift(p)
        PROVE  IInv(B)'
    BY <1>4, DreByteInv, DreOffInv, ShiftInv
  <1>5. CASE UNCHANGED vars
    BY <1>5 DEF vars, recvVars, usbVars, uartVars, IInv, SafeInv, TypesOf, BufferInv, HeldInv,
       OwnerInv, PlaceInv, RingInv, HandshakeInv, StallInv, StallIsCounted, Busy, Pending,
       First, Cur, Jack, dre, tx_ring_avail
  <1> QED  BY <1>1, <1>2, <1>3, <1>4, <1>5 DEF Next

LEMMA Invariance == Spec => []IInv(Byte)
  <1>1. IInv(Byte) /\ [Next]_vars => IInv(Byte)'
    BY NextInv
  <1> QED  BY <1>1, InitInv, PTL DEF Spec

\* Whoever leaves events in the buffer leaves their first one awaited.
LEMMA AbandonStep ==
    ASSUME NEW B, IInv(B), IInv(B)', NeverAbandoned, [Next]_vars
    PROVE  NeverAbandoned'
  <1> USE DEF NeverAbandoned, Wedged, Levels, At, Go
  <1>0. pc \in [Levels -> Places]
    BY DEF IInv, SafeInv, TypesOf
  <1>1. CASE \E packet \in Packet : HostPacket(packet)
    BY <1>1 DEF HostPacket, IInv, OwnerInv, SafeInv, TypesOf, Pending
  <1>2. CASE Received
    BY <1>0, <1>2 DEF Received, Busy
  <1>3. ASSUME NEW l \in Levels, Process(l)
        PROVE  NeverAbandoned'
    <2>1. CASE LoopEnd(l)
      BY <2>1 DEF LoopEnd, recvVars, Pending, IInv, SafeInv, TypesOf
    <2>2. ASSUME pc'[l] \in {"entry", "fast", "crit", "pop", "loop"}
          PROVE  NeverAbandoned'
      BY <2>2 DEF Busy
    <2>3. CASE LoopNext(l) \/ Entry(l) \/ Fast(l) \/ CritPush(l) \/ Pop(l)
      BY <1>0, <2>2, <2>3 DEF LoopNext, Entry, Fast, CritPush, Pop
    <2>4. CASE CritFull(l)
      <3>1. /\ Cur(l) = First /\ First.jack \in Ports /\ First.size \in Nat
            /\ Jack(l) = First.jack
        BY <2>4, Quiet, CurEvent, EventBytes DEF CritFull
      <3>2. First.size # 0
        BY <2>4, <3>1, TxCapAssumption, LenProperties
           DEF CritFull, IInv, SafeInv, RingInv, TypesOf, tx_ring_avail
      <3>3. want_write'[First.jack] # 0 /\ First' = First
        BY <2>4, <3>1, <3>2 DEF CritFull, IInv, SafeInv, TypesOf, recvVars, First
      <3> QED  BY <3>3
    <2>5. CASE Stalled(l)
      BY <1>0, <2>5 DEF Stalled, Busy, Pending, First, uartVars
    <2>6. CASE Refuse(l)
      BY <2>6 DEF Refuse, Pending, First, recvVars
    <2> QED  BY <1>3, <2>1, <2>3, <2>4, <2>5, <2>6 DEF Process
  <1>4. ASSUME NEW p \in Ports, DreByte(p) \/ DreOff(p) \/ Shift(p)
        PROVE  NeverAbandoned'
    <2>1. /\ UNCHANGED <<ev, start, end, want_write>>
          /\ pc' \in {pc, [pc EXCEPT !["HI"] = "loop"]} /\ (pc' # pc => pc["HI"] = "idle")
      BY <1>4 DEF DreByte, DreOff, Shift, recvVars
    <2>2. Busy("LO") => Busy("LO")'
      BY <1>0, <2>1 DEF Busy
    <2>3. Busy("HI") => Busy("HI")'
      BY <1>0, <2>1 DEF Busy
    <2> QED  BY <2>1, <2>2, <2>3 DEF Pending, First
  <1>5. CASE UNCHANGED vars
    BY <1>5 DEF vars, recvVars, uartVars, Pending, First, Busy
  <1> QED  BY <1>1, <1>2, <1>3, <1>4, <1>5 DEF Next

--------------------------------------------------------------------------------
(* The active-sensing test.                                                     *)

Wire == Byte \cup {Sense}

AInv ==
    /\ SafeInv(Wire)
    /\ i \in 0 .. NPorts /\ mpc \in {"entry", "fast", "crit"} /\ touched \in BOOLEAN
    /\ ~touched => IInv(Wire) /\ NeverAbandoned

LEMMA AInitInv == AInit => AInv
  <1> SUFFICES ASSUME AInit PROVE AInv
    OBVIOUS
  <1>1. IInv(Byte)
    BY InitInv DEF AInit
  <1>2. TypesOf(Wire)
    <2>1. \A s \in Seq(Byte) : s \in Seq(Wire)
      BY MoreBytes DEF Wire
    <2>2. ring \in [Ports -> Seq(Wire)] /\ hw \in [Ports -> Seq(Wire)]
      BY <1>1, <2>1 DEF IInv, SafeInv, TypesOf
    <2> QED  BY <1>1, <2>2 DEF IInv, SafeInv, TypesOf
  <1>3. IInv(Wire) /\ SafeInv(Wire)
    BY <1>1, <1>2 DEF IInv, SafeInv
  <1>4. NeverAbandoned
    BY DEF AInit, Init, NeverAbandoned, Pending
  <1>5. i \in 0 .. NPorts /\ mpc \in {"entry", "fast", "crit"} /\ touched \in BOOLEAN
    <2>1. NPorts \in 0 .. NPorts
      BY PortsAssumption
    <2> QED  BY <2>1 DEF AInit
  <1> QED  BY <1>3, <1>4, <1>5 DEF AInv

\* What a step of the main level does to the UART of jack i.
LEMMA MainUart ==
    ASSUME SafeInv(Wire), i \in 0 .. NPorts, MainStep
    PROVE  /\ ring' \in [Ports -> Seq(Wire)] /\ hw' \in [Ports -> Seq(Wire)]
           /\ want_write' \in [Ports -> Sizes \cup {0, 1}] /\ dre_int' \in [Ports -> BOOLEAN]
           /\ RingInv'
           /\ i' \in 0 .. NPorts /\ mpc' \in {"entry", "fast", "crit", mpc}
           /\ \A p \in Ports : ring'[p] = ring[p] \/ (p = i /\ want_write'[p] = 0)
           /\ UNCHANGED <<recvVars, usbVars, pc, cur>>
           /\ pc["LO"] = "idle" /\ pc["HI"] = "idle"
  <1> USE DEF SafeInv
  <1>1. /\ ring \in [Ports -> Seq(Wire)] /\ hw \in [Ports -> Seq(Wire)] /\ RingInv
        /\ want_write \in [Ports -> Sizes \cup {0, 1}] /\ dre_int \in [Ports -> BOOLEAN]
    BY DEF TypesOf
  <1>2. NPorts \in Nat /\ (i < NPorts => i \in Ports /\ i + 1 \in 0 .. NPorts)
    BY PortsAssumption
  <1>3. pc["LO"] = "idle" /\ pc["HI"] = "idle"
    BY DEF MainStep, MainRuns, TestStart, MainEntry, MainFast, MainPush, MainFull
  <1>4. CASE TestStart \/ MainEntry
    <2>1. /\ UNCHANGED vars /\ i' \in {0, i} /\ mpc' \in {"fast", "crit", mpc}
      BY <1>4 DEF TestStart, MainEntry
    <2>2. UNCHANGED <<ring, hw, want_write, dre_int>> /\ UNCHANGED <<recvVars, usbVars, pc, cur>>
      BY <2>1 DEF vars, uartVars
    <2>3. RingInv'
      BY <1>1, <2>2 DEF RingInv
    <2> QED  BY <1>1, <1>2, <1>3, <2>1, <2>2, <2>3
  <1>5. CASE MainFast
    <2>1. /\ i < NPorts /\ i' = i + 1 /\ mpc' = "entry"
          /\ hw' = IF dre(i) THEN [hw EXCEPT ![i] = Append(hw[i], Sense)] ELSE hw
          /\ UNCHANGED <<ring, want_write, dre_int, pc, cur>> /\ UNCHANGED <<recvVars, usbVars>>
      BY <1>5 DEF MainFast, Continue
    <2>2. /\ i \in Ports /\ hw[i] \in Seq(Wire) /\ Len(hw[i]) \in Nat /\ Sense \in Wire
      BY <1>1, <1>2, <2>1, LenProperties DEF Wire
    <2>3. /\ Append(hw[i], Sense) \in Seq(Wire)
          /\ Len(Append(hw[i], Sense)) = Len(hw[i]) + 1
      BY <2>2, AppendProperties
    <2>4. hw' \in [Ports -> Seq(Wire)]
      BY <1>1, <2>1, <2>2, <2>3
    <2>5. \A p \in Ports : Len(hw'[p]) <= HwDepth
      <3>1. dre(i) => Len(Append(hw[i], Sense)) <= HwDepth
        BY <2>2, <2>3, HwDepthAssumption DEF dre
      <3> QED  BY <1>1, <2>1, <2>2, <3>1 DEF RingInv
    <2>6. RingInv'
      BY <1>1, <2>1, <2>5 DEF RingInv
    <2> QED  BY <1>1, <1>2, <1>3, <2>1, <2>4, <2>6
  <1>6. CASE MainPush
    <2>1. /\ i < NPorts /\ i' = i + 1 /\ mpc' = "entry"
          /\ tx_ring_avail(i) > 1
          /\ Refill(i, Append(ring[i], Sense))
          /\ want_write' = [want_write EXCEPT ![i] = 0]
          /\ UNCHANGED <<pc, cur>> /\ UNCHANGED <<recvVars, usbVars>>
      BY <1>6 DEF MainPush, Continue
    <2>2. i \in Ports /\ ring[i] \in Seq(Wire) /\ Len(ring[i]) \in Nat /\ Sense \in Wire
      BY <1>1, <1>2, <2>1, LenProperties DEF Wire
    <2> DEFINE all == Append(ring[i], Sense)
    <2>3. all \in Seq(Wire) /\ Len(all) = Len(ring[i]) + 1
      BY <2>2, AppendProperties
    <2>4. Len(all) < TxCap
      BY <2>1, <2>2, <2>3, TxCapAssumption DEF tx_ring_avail
    <2> HIDE DEF all
    <2>5. Refill(i, all)
      BY <2>1 DEF all
    <2>6. /\ ring' \in [Ports -> Seq(Wire)] /\ hw' \in [Ports -> Seq(Wire)]
          /\ dre_int' \in [Ports -> BOOLEAN] /\ RingInv'
          /\ \A q \in Ports : q # i => ring'[q] = ring[q]
      BY <1>1, <2>2, <2>3, <2>4, <2>5, RefillFacts
    <2>7. want_write' \in [Ports -> Sizes \cup {0, 1}] /\ want_write'[i] = 0
      BY <1>1, <2>1, <2>2
    <2> QED  BY <1>2, <1>3, <2>1, <2>6, <2>7
  <1>7. CASE MainFull
    <2>1. /\ i < NPorts /\ i' = i + 1 /\ mpc' = "entry"
          /\ want_write' = [want_write EXCEPT ![i] = 1]
          /\ UNCHANGED <<ring, hw, dre_int, pc, cur>> /\ UNCHANGED <<recvVars, usbVars>>
      BY <1>7 DEF MainFull, Continue
    <2>2. want_write' \in [Ports -> Sizes \cup {0, 1}]
      BY <1>1, <2>1
    <2>3. RingInv'
      BY <1>1, <2>1 DEF RingInv
    <2> QED  BY <1>1, <1>2, <1>3, <2>1, <2>2, <2>3
  <1> QED  BY <1>4, <1>5, <1>6, <1>7 DEF MainStep

LEMMA MainSafe ==
    ASSUME AInv, MainStep
    PROVE  SafeInv(Wire)' /\ i' \in 0 .. NPorts /\ mpc' \in {"entry", "fast", "crit"}
  <1> USE DEF AInv
  <1>1. /\ UNCHANGED <<ev, start, end, stall, armed, got, pc, cur>>
        /\ RingInv' /\ i' \in 0 .. NPorts /\ mpc' \in {"entry", "fast", "crit"}
    BY MainUart DEF recvVars, usbVars
  <1>2. TypesOf(Wire)'
    BY <1>1, MainUart DEF SafeInv, TypesOf
  <1>3. BufferInv' /\ HeldInv'
    BY <1>1 DEF SafeInv, BufferInv, HeldInv, Busy, Cur, Jack
  <1> QED  BY <1>1, <1>2, <1>3 DEF SafeInv

\* A byte of the test that finds no stalled event at its jack disturbs nobody.
LEMMA MainHarmless ==
    ASSUME AInv, ~touched, MainStep, want_write' = want_write
    PROVE  IInv(Wire)' /\ NeverAbandoned'
  <1> USE DEF AInv, IInv
  <1>1. /\ UNCHANGED <<ev, start, end, stall, armed, got, pc, cur>>
        /\ pc["LO"] = "idle" /\ pc["HI"] = "idle"
        /\ \A p \in Ports : want_write[p] # 0 => ring'[p] = ring[p]
    BY MainUart DEF recvVars, usbVars
  <1>2. OwnerInv'
    BY <1>1 DEF OwnerInv, Busy
  <1>3. PlaceInv'
    BY <1>1 DEF PlaceInv, Levels
  <1>4. HandshakeInv'
    BY <1>1 DEF HandshakeInv, Pending, First, tx_ring_avail
  <1>5. StallInv'
    BY <1>1 DEF StallInv, StallIsCounted, Busy
  <1>6. NeverAbandoned'
    BY <1>1, MainUart DEF NeverAbandoned, Wedged, Pending, First, Busy
  <1> QED  BY <1>2, <1>3, <1>4, <1>5, <1>6, MainSafe

LEMMA ANextInv == AInv /\ [ANext]_avars => AInv'
  <1> SUFFICES ASSUME AInv, [ANext]_avars PROVE AInv'
    OBVIOUS
  <1>0. Byte \subseteq Wire
    BY DEF Wire
  <1>1. CASE NoReentry /\ Next /\ UNCHANGED <<mainVars, touched>>
    <2>1. SafeInv(Wire)' /\ UNCHANGED <<i, mpc, touched>>
      BY <1>0, <1>1, NextSafe DEF AInv, mainVars
    <2>2. ASSUME ~touched PROVE IInv(Wire)' /\ NeverAbandoned'
      <3>1. IInv(Wire) /\ NeverAbandoned
        BY <2>2 DEF AInv
      <3>2. IInv(Wire)'
        BY <1>0, <1>1, <3>1, NextInv
      <3> QED  BY <1>1, <3>1, <3>2, AbandonStep
    <2> QED  BY <2>1, <2>2 DEF AInv
  <1>2. CASE MainStep
    <2>1. touched' = (touched \/ want_write' # want_write)
      BY <1>2 DEF MainStep
    <2>2. touched' \in BOOLEAN
      BY <2>1
    <2>3. ASSUME ~touched' PROVE IInv(Wire)' /\ NeverAbandoned'
      BY <1>2, <2>1, <2>3, MainHarmless
    <2> QED  BY <1>2, <2>2, <2>3, MainSafe DEF AInv
  <1>3. CASE UNCHANGED avars
    <2>1. UNCHANGED vars /\ UNCHANGED <<i, mpc, touched>>
      BY <1>3 DEF avars, mainVars
    <2>2. SafeInv(Wire)'
      BY <2>1 DEF AInv, vars, recvVars, usbVars, uartVars, SafeInv, TypesOf, BufferInv,
         HeldInv, RingInv, Busy, Cur, Jack
    <2>3. ASSUME ~touched PROVE IInv(Wire)' /\ NeverAbandoned'
      <3>1. IInv(Wire) /\ NeverAbandoned
        BY <2>3 DEF AInv
      <3>2. IInv(Wire)'
        BY <1>0, <2>1, <3>1, NextInv
      <3> QED  BY <2>1, <3>1, <3>2, AbandonStep
    <2> QED  BY <2>1, <2>2, <2>3 DEF AInv
  <1> QED  BY <1>1, <1>2, <1>3 DEF ANext

LEMMA AInvariance == ASpec => []AInv
  BY AInitInv, ANextInv, PTL DEF ASpec

--------------------------------------------------------------------------------

\* Every variable keeps its range, in particular start never passes the packet
\* (usb_midi_buf.h:18) and no pc leaves usb_recv_process.
THEOREM TypeCorrect == Spec => []TypeOK
  <1>1. IInv(Byte) => TypeOK
    <2> SUFFICES ASSUME IInv(Byte) PROVE TypeOK
      OBVIOUS
    <2>1. want_write \in [Ports -> Nat]
      BY SizeFacts DEF IInv, SafeInv, TypesOf
    <2> QED  BY <2>1 DEF IInv, SafeInv, TypesOf, TypeOK
  <1> QED  BY <1>1, Invariance, PTL

\* usb_recv_process is never entered by the UART interrupt while the USB interrupt
\* is at work in it, although nothing locks it (main.cpp:261-265, 594-610).
THEOREM NeverReentered == Spec => []NoReentry
  <1>1. IInv(Byte) => NoReentry
    BY DEF IInv, OwnerInv, NoReentry, Busy
  <1> QED  BY <1>1, Invariance, PTL

\* The host overwrites the packet buffer only when it was processed to the end.
THEOREM HostWritesFreeBuffer == Spec => []ArmedBufferIsFree
  <1>1. IInv(Byte) => ArmedBufferIsFree
    BY DEF IInv, OwnerInv, ArmedBufferIsFree, Levels
  <1> QED  BY <1>1, Invariance, PTL

\* A stalled event never waits for a wake-up that already happened: the handshake of
\* want_write and on_dre_int is sound for every ring size and message length.
THEOREM StalledAwaited == Spec => []StalledIsAwaited
  <1>1. IInv(Byte) => StalledIsAwaited
    BY DEF IInv, SafeInv, HandshakeInv, RingInv, StalledIsAwaited, Busy
  <1> QED  BY <1>1, Invariance, PTL

\* The unlocked write of a single byte is neither lost nor out of order.
THEOREM FastWriteSafe == Spec => []FastWriteIsSafe
  <1>1. IInv(Byte) => FastWriteIsSafe
    BY DEF IInv, PlaceInv, FastWriteIsSafe
  <1> QED  BY <1>1, Invariance, PTL

\* The stall counters count exactly the retried messages, but for one overtaken pass.
THEOREM StallsCounted == Spec => []StallIsCounted
  <1>1. IInv(Byte) => StallIsCounted
    BY DEF IInv, StallInv
  <1> QED  BY <1>1, Invariance, PTL

\* Events left in the buffer are always in somebody's hands: no interleaving of the two
\* levels leaves a packet that nothing would resume, but for an event that names no jack
\* of the board, which the levels leave where it is.
THEOREM NothingAbandoned == Spec => []NeverAbandoned
  <1>1. Init => NeverAbandoned
    BY DEF Init, NeverAbandoned, Pending
  <1>2. IInv(Byte) /\ IInv(Byte)' /\ NeverAbandoned /\ [Next]_vars => NeverAbandoned'
    BY AbandonStep
  <1> QED  BY <1>1, <1>2, Invariance, PTL DEF Spec

\* Three levels write to the rings: main, the USB interrupt and the UART's.  The critical
\* section of write_buf (uart.h:405) keeps every ring within its slots and draining, for
\* every number of jacks, ring and packet size and whatever the test does to the handshake.
THEOREM RingsSurvive == ASpec => []RingsSurviveTest
  <1>1. AInv => RingsSurviveTest
    BY DEF AInv, SafeInv, TypesOf, RingsSurviveTest, ATypeOK, Wire
  <1> QED  BY <1>1, AInvariance, PTL

\* As long as no byte of the test found a ring full or a stalled event waiting on its
\* jack (main.cpp:171-185), the test does not disturb the transfer from USB.
THEOREM TestIsHarmless == ASpec => []HarmlessUntilTouched
  <1>1. AInv => HarmlessUntilTouched
    <2> SUFFICES ASSUME IInv(Wire), NeverAbandoned PROVE HarmlessUntilTouched
      BY DEF AInv, HarmlessUntilTouched
    <2>1. BufferInv /\ NoReentry /\ StallIsCounted
      BY Quiet DEF IInv, SafeInv, StallInv
    <2>2. ArmedBufferIsFree /\ FastWriteIsSafe
      BY DEF IInv, OwnerInv, PlaceInv, ArmedBufferIsFree, FastWriteIsSafe, Levels
    <2>3. StalledIsAwaited
      BY DEF IInv, SafeInv, HandshakeInv, RingInv, StalledIsAwaited, Busy
    <2> QED  BY <2>1, <2>2, <2>3 DEF HarmlessUntilTouched
  <1> QED  BY <1>1, AInvariance, PTL

--------------------------------------------------------------------------------
(* Induction over the naturals.                                                 *)

Below == {pair \in Nat \X Nat : pair[1] < pair[2]}

\* Along their order, over the members of a set.
LEMMA SetInduction ==
    ASSUME NEW S, 0 \in S, \A n \in Nat : n \in S => n + 1 \in S
    PROVE  \A n \in Nat : n \in S
  <1>1. IsWellFoundedOn(Below, Nat)
    <2>1. OpToRel(<, Nat) = Below
      BY DEF OpToRel, Below
    <2> QED  BY <2>1, NatLessThanWellFounded
  <1> DEFINE T == {n \in Nat : n \notin S}
  <1> SUFFICES ASSUME T # {} PROVE FALSE
    OBVIOUS
  <1>2. T \subseteq Nat
    OBVIOUS
  <1> HIDE DEF T
  <1>3. PICK x \in T : \A y \in T : ~ (<<y, x>> \in Below)
    BY <1>1, <1>2, WFMin
  <1>4. x \in Nat /\ x \notin S /\ x # 0
    BY <1>3 DEF T
  <1>5. x - 1 \in Nat /\ x - 1 + 1 = x /\ x - 1 < x
    BY <1>4
  <1>6. x - 1 \in T
    BY <1>4, <1>5 DEF T
  <1> QED  BY <1>3, <1>4, <1>5, <1>6 DEF Below

--------------------------------------------------------------------------------
(* What a packet holds for a jack.                                              *)

\* What an event holds for a jack.
Own(e, p) == IF e.jack = p THEN Bytes(e) ELSE << >>

\* The function of BytesFrom, and one step of its definition.
FromBody(packet, p, from, x) ==
    IF x > Len(packet) THEN << >>
    ELSE IF Unsendable(packet[x]) THEN << >>
    ELSE IF packet[x].jack = p THEN Bytes(packet[x]) \o from[x + 1]
    ELSE from[x + 1]

FromFcn(packet, p) ==
    CHOOSE from : from = [x \in 1 .. Len(packet) + 1 |-> FromBody(packet, p, from, x)]

LEMMA FromDefined ==
    ASSUME NEW packet, Len(packet) \in Nat, NEW p
    PROVE  FromFcn(packet, p) =
               [x \in 1 .. Len(packet) + 1 |-> FromBody(packet, p, FromFcn(packet, p), x)]
  <1> DEFINE N == Len(packet) + 1
             D(m) == N + 1 - m .. N
             S == {m \in Nat : m <= N =>
                      \E f : f = [x \in D(m) |-> FromBody(packet, p, f, x)]}
  <1>1. ASSUME NEW f, NEW g, NEW x \in 1 .. N, \A j \in x + 1 .. N : f[j] = g[j]
        PROVE  FromBody(packet, p, f, x) = FromBody(packet, p, g, x)
    <2>1. x <= Len(packet) => f[x + 1] = g[x + 1]
      BY <1>1
    <2> QED  BY <2>1 DEF FromBody
  <1>2. 0 \in S
    <2> DEFINE g == [x \in D(0) |-> << >>]
    <2>1. D(0) = {}
      OBVIOUS
    <2>2. g = [x \in D(0) |-> FromBody(packet, p, g, x)]
      BY <2>1
    <2> QED  BY <2>2
  <1>3. ASSUME NEW m \in Nat, m \in S PROVE m + 1 \in S
    <2> SUFFICES ASSUME m + 1 <= N
                 PROVE  \E g : g = [x \in D(m + 1) |-> FromBody(packet, p, g, x)]
      OBVIOUS
    <2>1. PICK f : f = [x \in D(m) |-> FromBody(packet, p, f, x)]
      BY <1>3
    <2> DEFINE k == N - m
               g == [x \in D(m + 1) |-> IF x = k THEN FromBody(packet, p, f, k) ELSE f[x]]
    <2>2. k \in 1 .. N /\ k \notin D(m) /\ D(m + 1) = {k} \cup D(m) /\ D(m) \subseteq 1 .. N
      <3>1. k \in Nat /\ k >= 1 /\ k <= N /\ N \in Nat
        OBVIOUS
      <3>2. D(m) = k + 1 .. N /\ D(m + 1) = k .. N
        OBVIOUS
      <3> HIDE DEF N, k, D
      <3> QED  BY <3>1, <3>2
    <2>3. \A j \in D(m) : g[j] = f[j]
      BY <2>2
    <2>4. \A x \in 1 .. N : x >= k => \A j \in x + 1 .. N : j \in D(m)
      OBVIOUS
    <2>5. ASSUME NEW x \in D(m + 1) PROVE g[x] = FromBody(packet, p, g, x)
      <3>1. x \in 1 .. N /\ x >= k
        BY <2>2
      <3>2. \A j \in x + 1 .. N : f[j] = g[j]
        BY <2>3, <2>4, <3>1
      <3>3. FromBody(packet, p, f, x) = FromBody(packet, p, g, x)
        BY <1>1, <3>1, <3>2
      <3>4. g[x] = FromBody(packet, p, f, x)
        BY <2>1, <2>2, <2>5
      <3> QED  BY <3>3, <3>4
    <2>6. g = [x \in D(m + 1) |-> g[x]]
      OBVIOUS
    <2> HIDE DEF g
    <2> QED  BY <2>5, <2>6
  <1>4. N \in S
    <2>1. N \in Nat
      OBVIOUS
    <2> HIDE DEF S, N
    <2> QED  BY <1>2, <1>3, <2>1, SetInduction
  <1>5. \E f : f = [x \in 1 .. Len(packet) + 1 |-> FromBody(packet, p, f, x)]
    <2>1. D(N) = 1 .. Len(packet) + 1
      OBVIOUS
    <2> QED  BY <1>4, <2>1
  <1> QED  BY <1>5 DEF FromFcn

LEMMA FromIsFcn == ASSUME NEW packet, NEW n, NEW p
                   PROVE  BytesFrom(packet, n, p) = FromFcn(packet, p)[n]
  BY DEF BytesFrom, FromFcn, FromBody

LEMMA FromStep ==
    ASSUME NEW packet, Len(packet) \in Nat, NEW p, NEW n \in 1 .. Len(packet)
    PROVE  IF Unsendable(packet[n]) THEN BytesFrom(packet, n, p) = << >>
           ELSE IF packet[n].jack = p
           THEN BytesFrom(packet, n, p) = Bytes(packet[n]) \o BytesFrom(packet, n + 1, p)
           ELSE BytesFrom(packet, n, p) = BytesFrom(packet, n + 1, p)
  <1>1. n \in 1 .. Len(packet) + 1 /\ ~(n > Len(packet))
    OBVIOUS
  <1>2. FromFcn(packet, p)[n] = FromBody(packet, p, FromFcn(packet, p), n)
    <2> DEFINE from == FromFcn(packet, p)
    <2>1. from = [x \in 1 .. Len(packet) + 1 |-> FromBody(packet, p, from, x)]
      BY FromDefined
    <2> HIDE DEF from
    <2>2. from[n] = FromBody(packet, p, from, n)
      BY <1>1, <2>1
    <2> QED  BY <2>2 DEF from
  <1> QED  BY <1>1, <1>2, FromIsFcn DEF FromBody

LEMMA FromEnd ==
    ASSUME NEW packet, Len(packet) \in Nat, NEW p
    PROVE  BytesFrom(packet, Len(packet) + 1, p) = << >>
  <1> DEFINE n == Len(packet) + 1
             from == FromFcn(packet, p)
  <1>1. n \in 1 .. Len(packet) + 1 /\ n > Len(packet)
    OBVIOUS
  <1>2. from = [x \in 1 .. Len(packet) + 1 |-> FromBody(packet, p, from, x)]
    BY FromDefined
  <1> HIDE DEF n, from
  <1>3. from[n] = FromBody(packet, p, from, n)
    BY <1>1, <1>2
  <1>4. from[n] = << >>
    BY <1>1, <1>3 DEF FromBody
  <1> QED  BY <1>4, FromIsFcn DEF n, from

\* What an event holds for a jack is bytes, and nothing if it has none.
LEMMA OwnBytes ==
    ASSUME NEW e \in Event, NEW p \in Ports
    PROVE  /\ Own(e, p) \in Seq(Byte)
           /\ e.size = 0 => Own(e, p) = << >>
           /\ << >> \in Seq(Byte)
  <1>1. Bytes(e) \in Seq(Byte) /\ Len(Bytes(e)) = e.size
    BY EventBytes
  <1>2. << >> \in Seq(Byte)
    OBVIOUS
  <1>3. e.size = 0 => Bytes(e) = << >>
    BY <1>1, EmptySeq
  <1> QED  BY <1>1, <1>2, <1>3 DEF Own

LEMMA FromBytes ==
    ASSUME NEW packet \in Packet, NEW p \in Ports
    PROVE  \A n \in 1 .. Len(packet) + 1 : BytesFrom(packet, n, p) \in Seq(Byte)
  <1>1. Len(packet) \in Nat /\ \A n \in 1 .. Len(packet) : packet[n] \in Event
    BY PacketSeq, BufEventsAssumption
  <1> DEFINE N == Len(packet) + 1
             S == {m \in Nat : m < N => BytesFrom(packet, N - m, p) \in Seq(Byte)}
  <1>2. 0 \in S
    <2>1. BytesFrom(packet, N, p) = << >>
      BY <1>1, FromEnd
    <2>2. << >> \in Seq(Byte) /\ N - 0 = N
      BY <1>1
    <2> QED  BY <2>1, <2>2
  <1>3. ASSUME NEW m \in Nat, m \in S PROVE m + 1 \in S
    <2> DEFINE n == N - (m + 1)
    <2> SUFFICES ASSUME m + 1 < N PROVE BytesFrom(packet, n, p) \in Seq(Byte)
      OBVIOUS
    <2>1. n \in 1 .. Len(packet) /\ n + 1 = N - m
      BY <1>1
    <2>2. BytesFrom(packet, n + 1, p) \in Seq(Byte)
      BY <1>1, <1>3, <2>1
    <2> HIDE DEF n
    <2>3. packet[n] \in Event /\ Bytes(packet[n]) \in Seq(Byte)
      BY <1>1, <2>1, EventBytes
    <2>4. << >> \in Seq(Byte)
      OBVIOUS
    <2> QED  BY <1>1, <2>1, <2>2, <2>3, <2>4, FromStep, ConcatProperties
  <1>4. \A m \in Nat : m \in S
    <2> HIDE DEF S
    <2> QED  BY <1>2, <1>3, SetInduction
  <1>5. ASSUME NEW n \in 1 .. N PROVE BytesFrom(packet, n, p) \in Seq(Byte)
    <2>1. N - n \in Nat /\ N - n < N /\ N - (N - n) = n
      BY <1>1
    <2>2. N - n \in S
      BY <1>4, <2>1
    <2> QED  BY <2>1, <2>2
  <1> QED  BY <1>5

--------------------------------------------------------------------------------
(* What the buffer holds for a jack.                                            *)

LEMMA BufferedFacts ==
    ASSUME IInv(Byte)
    PROVE  /\ Len(ev) \in Nat /\ start \in Nat /\ end \in Nat /\ start <= end
           /\ start # end => end = Len(ev)
           /\ \A p \in Ports : Buffered(p) \in Seq(Byte)
           /\ \A p \in Ports : hw[p] \in Seq(Byte) /\ ring[p] \in Seq(Byte)
  <1>1. /\ ev \in Packet /\ start \in Nat /\ end \in Nat /\ start <= end
        /\ start # end => end = Len(ev)
    BY BufEventsAssumption DEF IInv, SafeInv, TypesOf, BufferInv
  <1>2. Len(ev) \in Nat
    BY <1>1, PacketSeq, BufEventsAssumption
  <1>3. got \/ Pending => Unsent \in 1 .. Len(ev) + 1
    <2>1. got \/ (Pending => start + 2 \in 1 .. Len(ev) + 1 /\ start + 1 \in 1 .. Len(ev) + 1)
      BY <1>1, <1>2 DEF Pending
    <2>2. 1 \in 1 .. Len(ev) + 1
      BY <1>2
    <2> QED  BY <2>1, <2>2 DEF Unsent
  <1>4. ASSUME NEW p \in Ports PROVE Buffered(p) \in Seq(Byte)
    <2>1. CASE got \/ Pending
      BY <1>1, <1>3, <2>1, FromBytes DEF Buffered
    <2>2. CASE ~(got \/ Pending)
      <3>1. Buffered(p) = << >>
        BY <2>2 DEF Buffered
      <3> QED  BY <3>1
    <2> QED  BY <2>1, <2>2
  <1>5. \A p \in Ports : hw[p] \in Seq(Byte) /\ ring[p] \in Seq(Byte)
    BY DEF IInv, SafeInv, TypesOf
  <1> QED  BY <1>1, <1>2, <1>4, <1>5

\* A step that neither moves in the buffer nor takes an event leaves what it holds.
Popping == \E l \in Levels : pc[l] = "pop"

LEMMA BufferKept ==
    ASSUME UNCHANGED <<ev, start, end, got>>, Popping' = Popping, NEW p
    PROVE  Buffered(p)' = Buffered(p)
  BY DEF Buffered, Pending, Unsent, Popping

\* At a step of a level, nobody else has an event taken.
LEMMA NobodyPops ==
    ASSUME IInv(Byte), NEW l \in Levels, Busy(l), pc[l] # "pop"
    PROVE  ~Popping
  <1>1. \A m \in Levels : m # l => pc[m] \in {"idle", "tail"}
    BY OtherQuiet, Quiet
  <1> QED  BY <1>1 DEF Popping

LEMMA Pops ==
    ASSUME IInv(Byte), NEW l \in Levels, pc' = [pc EXCEPT ![l] = "pop"]
    PROVE  Popping'
  BY DEF Popping, IInv, SafeInv, TypesOf

\* A level takes the event at the front: its jack owes its bytes by other means now.
LEMMA FrontTaken ==
    ASSUME IInv(Byte), NEW l \in Levels, Busy(l), pc[l] # "pop", Pending, ~Unsendable(First),
           pc' = [pc EXCEPT ![l] = "pop"], UNCHANGED <<ev, start, end, got>>, NEW p \in Ports
    PROVE  /\ First \in Event /\ Buffered(p)' \in Seq(Byte)
           /\ Buffered(p) = Own(First, p) \o Buffered(p)'
  <1>1. ~Popping /\ Popping'
    BY NobodyPops, Pops
  <1>2. ~got
    BY OtherQuiet, Quiet
  <1>3. /\ Buffered(p) = BytesFrom(ev, start + 1, p)
        /\ Buffered(p)' = BytesFrom(ev, start + 2, p)
    BY <1>1, <1>2 DEF Buffered, Unsent, Popping, Pending
  <1>4. /\ start + 1 \in 1 .. Len(ev) /\ Len(ev) \in Nat /\ start + 1 + 1 = start + 2
        /\ start + 2 \in 1 .. Len(ev) + 1
    BY BufferedFacts DEF Pending
  <1>5. ev \in Packet /\ First \in Event
    BY <1>4, PacketSeq DEF IInv, SafeInv, TypesOf, First
  <1>6. BytesFrom(ev, start + 2, p) \in Seq(Byte)
    BY <1>4, <1>5, FromBytes
  <1>7. CASE First.jack = p
    <2>1. Own(First, p) = Bytes(First)
      BY <1>7 DEF Own
    <2>2. BytesFrom(ev, start + 1, p) = Bytes(First) \o BytesFrom(ev, start + 1 + 1, p)
      BY <1>4, <1>7, FromStep DEF First
    <2> QED  BY <1>3, <1>4, <1>5, <1>6, <2>1, <2>2
  <1>8. CASE First.jack # p
    <2>1. Own(First, p) = << >>
      BY <1>8 DEF Own
    <2>2. BytesFrom(ev, start + 1, p) = BytesFrom(ev, start + 2, p)
      BY <1>4, <1>8, FromStep DEF First
    <2> QED  BY <1>3, <1>5, <1>6, <2>1, <2>2, ConcatEmptySeq
  <1> QED  BY <1>5, <1>7, <1>8

LEMMA JoinBytes ==
    ASSUME NEW s \in Seq(Byte), NEW t \in Seq(Byte), NEW u \in Seq(Byte)
    PROVE  (s \o t) \o u = s \o (t \o u)
  BY ConcatAssociative

--------------------------------------------------------------------------------
(* Each step, seen by the jacks.                                                *)

\* What jack p owes.
OwedBy(p) == hw[p] \o ring[p] \o Buffered(p)

LEMMA OwedKept ==
    ASSUME \A p \in Ports : OwedBy(p)' = OwedBy(p)
    PROVE  Owed' = Owed
  BY DEF Owed, OwedBy

\* Nothing moves.
LEMMA NothingMoved ==
    ASSUME UNCHANGED <<hw, ring>>, UNCHANGED <<ev, start, end, got>>, Popping' = Popping
    PROVE  Owed' = Owed
  <1>1. \A p \in Ports : OwedBy(p)' = OwedBy(p)
    BY BufferKept DEF OwedBy
  <1> QED  BY <1>1, OwedKept

\* The bytes of the event taken follow what the jack has.
LEMMA TakenFollows ==
    ASSUME IInv(Byte), NEW l \in Levels, Busy(l), pc[l] # "pop", Pending, ~Unsendable(First),
           pc' = [pc EXCEPT ![l] = "pop"], UNCHANGED <<ev, start, end, got>>,
           \A p \in Ports : hw'[p] \o ring'[p] = (hw[p] \o ring[p]) \o Own(First, p)
    PROVE  Owed' = Owed
  <1>1. ASSUME NEW p \in Ports PROVE OwedBy(p)' = OwedBy(p)
    <2> DEFINE h == hw[p] \o ring[p]
               e == Own(First, p)
               b == Buffered(p)'
    <2>1. First \in Event /\ b \in Seq(Byte) /\ Buffered(p) = e \o b
      BY FrontTaken
    <2>2. h \in Seq(Byte) /\ e \in Seq(Byte) /\ b \in Seq(Byte)
      <3>1. hw[p] \in Seq(Byte) /\ ring[p] \in Seq(Byte)
        BY BufferedFacts
      <3>2. h \in Seq(Byte)
        BY <3>1, ConcatProperties
      <3> QED  BY <2>1, <3>2, OwnBytes
    <2>3. OwedBy(p) = h \o (e \o b) /\ OwedBy(p)' = (h \o e) \o b
      BY <2>1 DEF OwedBy
    <2> HIDE DEF h, e, b
    <2> QED  BY <2>2, <2>3, ConcatAssociative
  <1> QED  BY <1>1, OwedKept

\* A step that only changes where a level stands, and no event is taken.
LEMMA LevelMoved ==
    ASSUME IInv(Byte), NEW l \in Levels, pc[l] # "pop", NEW place, place # "pop",
           pc' = [pc EXCEPT ![l] = place], UNCHANGED <<hw, ring>>,
           UNCHANGED <<ev, start, end, got>>
    PROVE  Owed' = Owed
  <1>1. \A m \in Levels : pc'[m] = "pop" <=> pc[m] = "pop"
    BY DEF IInv, SafeInv, TypesOf
  <1>2. Popping' = Popping
    BY <1>1 DEF Popping
  <1> QED  BY <1>2, NothingMoved

LEMMA HostPacketJacks ==
    ASSUME IInv(Byte), NEW packet \in Packet, HostPacket(packet)
    PROVE  Jacks!Accept(packet)
  <1>1. /\ armed /\ got' /\ ev' = packet /\ UNCHANGED <<hw, ring>>
        /\ ~got /\ ~Pending
    BY BufferedFacts DEF HostPacket, uartVars, IInv, OwnerInv, Pending
  <1>2. \A p \in Ports : /\ hw[p] \in Seq(Byte) /\ ring[p] \in Seq(Byte)
                         /\ hw[p] \o ring[p] \in Seq(Byte)
                         /\ Len(hw[p] \o ring[p]) = Len(hw[p]) + Len(ring[p])
    BY BufferedFacts, ConcatProperties
  <1>3. ASSUME NEW p \in Ports PROVE Owed[p] = hw[p] \o ring[p]
    <2>1. Buffered(p) = << >>
      BY <1>1 DEF Buffered
    <2>2. Owed[p] = (hw[p] \o ring[p]) \o Buffered(p)
      BY DEF Owed
    <2> QED  BY <1>2, <2>1, <2>2, ConcatEmptySeq
  <1>4. ASSUME NEW p \in Ports PROVE Len(Owed[p]) <= HwDepth + TxCap - 1
    <2>1. Len(hw[p]) \in Nat /\ Len(ring[p]) \in Nat
      BY <1>2, LenProperties
    <2>2. Len(hw[p]) <= HwDepth /\ Len(ring[p]) < TxCap
      BY DEF IInv, SafeInv, RingInv
    <2>3. Len(Owed[p]) = Len(hw[p]) + Len(ring[p])
      BY <1>2, <1>3
    <2>4. HwDepth \in Nat /\ TxCap \in Nat
      BY HwDepthAssumption, TxCapAssumption
    <2> DEFINE h == Len(hw[p])
               r == Len(ring[p])
    <2>5. h \in Nat /\ r \in Nat /\ h <= HwDepth /\ r < TxCap
      BY <2>1, <2>2
    <2> HIDE DEF h, r
    <2>6. r <= TxCap - 1
      BY <2>4, <2>5
    <2>7. h + r <= HwDepth + TxCap - 1
      BY <2>4, <2>5, <2>6
    <2> QED  BY <2>3, <2>7 DEF h, r
  <1>5. ASSUME NEW p \in Ports PROVE OwedBy(p)' = Owed[p] \o BytesOf(packet, p)
    <2>1. Buffered(p)' = BytesOf(packet, p)
      BY <1>1 DEF Buffered, Unsent, BytesOf
    <2> QED  BY <1>1, <1>3, <2>1 DEF OwedBy
  <1>6. Owed' = [p \in Ports |-> Owed[p] \o BytesOf(packet, p)]
    BY <1>5 DEF Owed, OwedBy
  <1> QED  BY <1>4, <1>6 DEF Jacks!Accept

LEMMA ShiftJacks ==
    ASSUME IInv(Byte), NEW p \in Ports, Shift(p)
    PROVE  Jacks!Transmit(p)
  <1>1. /\ hw[p] # << >> /\ hw' = [hw EXCEPT ![p] = Tail(hw[p])]
        /\ UNCHANGED <<ev, start, end, got, ring, pc>>
    BY DEF Shift, recvVars, usbVars
  <1>2. \A q \in Ports : Buffered(q)' = Buffered(q)
    BY <1>1, BufferKept DEF Popping
  <1>3. \A q \in Ports : q # p => OwedBy(q)' = OwedBy(q)
    BY <1>1, <1>2 DEF OwedBy, IInv, SafeInv, TypesOf
  <1>4. OwedBy(p) # << >> /\ OwedBy(p)' = Tail(OwedBy(p))
    <2> DEFINE h == hw[p]
               r == ring[p]
               b == Buffered(p)
    <2>1. h \in Seq(Byte) /\ r \in Seq(Byte) /\ b \in Seq(Byte) /\ h # << >>
      BY <1>1, BufferedFacts
    <2>2. OwedBy(p) = h \o r \o b /\ OwedBy(p)' = Tail(h) \o r \o b
      BY <1>1, <1>2 DEF OwedBy, IInv, SafeInv, TypesOf
    <2> HIDE DEF h, r, b
    <2>3. \A s \in Seq(Byte) : h \o s # << >> /\ Tail(h \o s) = Tail(h) \o s
      <3> SUFFICES ASSUME NEW s \in Seq(Byte)
                   PROVE  h \o s # << >> /\ Tail(h \o s) = Tail(h) \o s
        OBVIOUS
      <3>1. /\ Len(h) \in Nat \ {0} /\ Len(s) \in Nat
            /\ Tail(h) \in Seq(Byte) /\ Len(Tail(h)) = Len(h) - 1
            /\ \A x \in 1 .. Len(Tail(h)) : Tail(h)[x] = h[x + 1]
        BY <2>1, LenProperties, HeadTailProperties, EmptySeq
      <3>2. /\ h \o s \in Seq(Byte) /\ Len(h \o s) = Len(h) + Len(s)
            /\ \A x \in 1 .. Len(h) + Len(s) :
                  (h \o s)[x] = IF x <= Len(h) THEN h[x] ELSE s[x - Len(h)]
        BY <2>1, ConcatProperties
      <3>3. h \o s # << >>
        BY <3>1, <3>2
      <3>4. /\ Tail(h \o s) \in Seq(Byte) /\ Len(Tail(h \o s)) = Len(h) + Len(s) - 1
            /\ \A x \in 1 .. Len(Tail(h \o s)) : Tail(h \o s)[x] = (h \o s)[x + 1]
        BY <3>2, <3>3, HeadTailProperties
      <3>5. /\ Tail(h) \o s \in Seq(Byte) /\ Len(Tail(h) \o s) = Len(h) + Len(s) - 1
            /\ \A x \in 1 .. Len(h) + Len(s) - 1 :
                  (Tail(h) \o s)[x] = IF x <= Len(h) - 1 THEN Tail(h)[x] ELSE s[x - (Len(h) - 1)]
        BY <3>1, ConcatProperties
      <3> DEFINE left == Tail(h \o s)
                 right == Tail(h) \o s
                 n == Len(h) + Len(s) - 1
      <3>6. ASSUME NEW x \in 1 .. n PROVE left[x] = right[x]
        <4>1. left[x] = IF x + 1 <= Len(h) THEN h[x + 1] ELSE s[x + 1 - Len(h)]
          BY <3>1, <3>2, <3>4
        <4>2. right[x] = IF x <= Len(h) - 1 THEN h[x + 1] ELSE s[x - (Len(h) - 1)]
          BY <3>1, <3>5
        <4>3. x + 1 - Len(h) = x - (Len(h) - 1) /\ (x + 1 <= Len(h) <=> x <= Len(h) - 1)
          BY <3>1
        <4> QED  BY <4>1, <4>2, <4>3
      <3>7. left \in Seq(Byte) /\ right \in Seq(Byte) /\ Len(left) = n /\ Len(right) = n
        BY <3>4, <3>5
      <3> HIDE DEF left, right, n
      <3>8. left = right
        BY <3>6, <3>7, SeqEqual
      <3> QED  BY <3>3, <3>8 DEF left, right
    <2>4. /\ h \o r \in Seq(Byte) /\ r \o b \in Seq(Byte) /\ Tail(h) \in Seq(Byte)
      BY <2>1, ConcatProperties, HeadTailProperties
    <2>5. h \o r \o b = h \o (r \o b) /\ Tail(h) \o r \o b = Tail(h) \o (r \o b)
      BY <2>1, <2>4, ConcatAssociative, SMTT(30)
    <2> QED  BY <2>2, <2>3, <2>4, <2>5
  <1>5. Owed[p] = OwedBy(p) /\ Owed' = [q \in Ports |-> OwedBy(q)']
    BY DEF Owed, OwedBy
  <1>6. Owed' = [Owed EXCEPT ![p] = Tail(Owed[p])]
    <2>1. Owed = [q \in Ports |-> OwedBy(q)]
      BY DEF Owed, OwedBy
    <2> DEFINE old(q) == OwedBy(q)
               new(q) == OwedBy(q)'
    <2>2. \A q \in Ports : new(q) = IF q = p THEN Tail(old(p)) ELSE old(q)
      BY <1>3, <1>4
    <2>3. Owed = [q \in Ports |-> old(q)] /\ Owed' = [q \in Ports |-> new(q)]
      BY <1>5, <2>1
    <2> HIDE DEF old, new
    <2> QED  BY <2>2, <2>3
  <1> QED  BY <1>4, <1>5, <1>6 DEF Jacks!Transmit

LEMMA ReceivedJacks ==
    ASSUME IInv(Byte), Received
    PROVE  Owed' = Owed
  <1>1. /\ got /\ ~got' /\ start' = 0 /\ end' = Len(ev) /\ pc["LO"] = "idle" /\ pc["HI"] = "idle"
        /\ UNCHANGED <<ev, hw, ring>> /\ pc' = [pc EXCEPT !["LO"] = "loop"]
    BY DEF Received, At, Runs, Go, uartVars
  <1>2. ~Popping'
    BY <1>1 DEF Popping, Levels, IInv, SafeInv, TypesOf
  <1>3. Len(ev) \in Nat
    BY BufferedFacts
  <1>4. ASSUME NEW p \in Ports PROVE OwedBy(p)' = OwedBy(p)
    <2>1. Buffered(p) = BytesFrom(ev, 1, p)
      BY <1>1 DEF Buffered, Unsent
    <2>2. CASE Len(ev) = 0
      <3>1. BytesFrom(ev, 1, p) = << >>
        BY <1>3, <2>2, FromEnd
      <3>2. Buffered(p)' = << >>
        BY <1>1, <2>2 DEF Buffered, Pending
      <3> QED  BY <1>1, <2>1, <3>1, <3>2 DEF OwedBy
    <2>3. CASE Len(ev) # 0
      <3>1. Pending' /\ ~got' /\ Unsent' = 1
        BY <1>1, <1>2, <1>3, <2>3 DEF Pending, Unsent, Popping
      <3>2. Buffered(p)' = BytesFrom(ev, 1, p)
        BY <1>1, <3>1 DEF Buffered
      <3> QED  BY <1>1, <2>1, <3>2 DEF OwedBy
    <2> QED  BY <2>2, <2>3
  <1> QED  BY <1>4, OwedKept

LEMMA LoopNextJacks ==
    ASSUME IInv(Byte), NEW l \in Levels, LoopNext(l)
    PROVE  Owed' = Owed
  <1>1. /\ pc[l] = "loop" /\ Busy(l) /\ start # end /\ ~Unsendable(First)
        /\ pc' = [pc EXCEPT ![l] = IF First.size = 0 THEN "pop" ELSE "entry"]
        /\ UNCHANGED <<ev, start, end, got, hw, ring>>
    BY DEF LoopNext, At, Go, Busy, recvVars, usbVars, uartVars
  <1>2. CASE First.size # 0
    BY <1>1, <1>2, LevelMoved
  <1>3. CASE First.size = 0
    <2>1. pc' = [pc EXCEPT ![l] = "pop"]
      BY <1>1, <1>3
    <2>2. Pending
      BY <1>1, BufferedFacts DEF Pending
    <2>3. ASSUME NEW p \in Ports
          PROVE  hw'[p] \o ring'[p] = (hw[p] \o ring[p]) \o Own(First, p)
      <3>1. First \in Event
        BY <1>1, <2>1, <2>2, FrontTaken
      <3>2. Own(First, p) = << >>
        BY <1>3, <3>1, OwnBytes
      <3>3. hw[p] \o ring[p] \in Seq(Byte)
        BY BufferedFacts, ConcatProperties
      <3> QED  BY <1>1, <3>2, <3>3, ConcatEmptySeq
    <2> QED  BY <1>1, <2>1, <2>2, <2>3, TakenFollows
  <1> QED  BY <1>2, <1>3

LEMMA FastJacks ==
    ASSUME IInv(Byte), NEW l \in Levels, Fast(l)
    PROVE  Owed' = Owed
  <1>1. /\ pc[l] = "fast" /\ Busy(l) /\ pc' = [pc EXCEPT ![l] = "pop"]
        /\ UNCHANGED <<ev, start, end, got, ring>>
    BY DEF Fast, At, Go, Busy, recvVars, usbVars
  <1>2. /\ Cur(l) = First /\ First \in Event /\ Pending /\ First.jack \in Ports
        /\ ~Unsendable(First)
    BY <1>1, CurEvent, Quiet DEF Unsendable
  <1> DEFINE j == First.jack
  <1>3. /\ j \in Ports /\ ring[j] = << >>
        /\ hw' = [hw EXCEPT ![j] = hw[j] \o Bytes(First)]
    BY <1>1, <1>2, EventBytes DEF Fast, IInv, PlaceInv, Jack
  <1>4. ASSUME NEW p \in Ports
        PROVE  hw'[p] \o ring'[p] = (hw[p] \o ring[p]) \o Own(First, p)
    <2>1. hw[p] \in Seq(Byte) /\ ring[p] \in Seq(Byte) /\ hw[p] \o ring[p] \in Seq(Byte)
      BY BufferedFacts, ConcatProperties
    <2>2. CASE j = p
      <3>1. hw'[p] = hw[p] \o Bytes(First) /\ ring'[p] = << >> /\ ring[p] = << >>
        BY <1>1, <1>3, <2>2 DEF IInv, SafeInv, TypesOf
      <3>2. Bytes(First) \in Seq(Byte) /\ Own(First, p) = Bytes(First)
        BY <1>2, <2>2, EventBytes DEF Own
      <3>3. hw[p] \o Bytes(First) \in Seq(Byte)
        BY <2>1, <3>2, ConcatProperties
      <3>4. hw'[p] \o ring'[p] = hw[p] \o Bytes(First)
        BY <3>1, <3>3, ConcatEmptySeq
      <3>5. hw[p] \o ring[p] = hw[p]
        BY <2>1, <3>1, ConcatEmptySeq
      <3> QED  BY <3>2, <3>4, <3>5
    <2>3. CASE j # p
      <3>1. hw'[p] = hw[p] /\ ring'[p] = ring[p]
        BY <1>1, <1>3, <2>3 DEF IInv, SafeInv, TypesOf
      <3>2. Own(First, p) = << >>
        BY <2>3 DEF Own
      <3> QED  BY <2>1, <3>1, <3>2, ConcatEmptySeq
    <2> QED  BY <2>2, <2>3
  <1> HIDE DEF j
  <1> QED  BY <1>1, <1>2, <1>4, TakenFollows

LEMMA RefillMoves ==
    ASSUME NEW p \in Ports, NEW all \in Seq(Byte), Refill(p, all), RingInv,
           ring \in [Ports -> Seq(Byte)], hw \in [Ports -> Seq(Byte)]
    PROVE  hw'[p] \o ring'[p] = hw[p] \o all
  <1> DEFINE k == Taken(p, Len(all))
             front == SubSeq(all, 1, k)
             rest == SubSeq(all, k + 1, Len(all))
  <1>1. hw'[p] = hw[p] \o front /\ ring'[p] = rest
    BY DEF Refill
  <1>2. hw[p] \in Seq(Byte) /\ Len(hw[p]) \in Nat /\ Len(all) \in Nat
    BY LenProperties
  <1>3. k \in 0 .. Len(all)
    <2>1. HwDepth - Len(hw[p]) \in Nat
      BY <1>2, HwDepthAssumption DEF RingInv
    <2> QED  BY <1>2, <2>1 DEF Taken
  <1> HIDE DEF k
  <1>4. front \in Seq(Byte) /\ rest \in Seq(Byte) /\ front \o rest = all
    <2>1. \A n \in 1 .. Len(all) : all[n] \in Byte
      BY ElementOfSeq
    <2>2. /\ front \in Seq(Byte) /\ Len(front) = k
          /\ \A n \in 1 .. k : front[n] = all[n]
      <3>1. /\ front \in Seq(Byte)
            /\ Len(front) = IF 1 <= k THEN k - 1 + 1 ELSE 0
            /\ \A n \in 1 .. k - 1 + 1 : front[n] = all[1 + n - 1]
        BY <1>2, <1>3, <2>1, SubSeqProperties
      <3> HIDE DEF front
      <3>2. \A n \in 1 .. k : 1 + n - 1 = n /\ n \in 1 .. k - 1 + 1
        BY <1>3
      <3> QED  BY <1>3, <3>1, <3>2
    <2>3. /\ rest \in Seq(Byte) /\ Len(rest) = Len(all) - k
          /\ \A n \in 1 .. Len(all) - k : rest[n] = all[k + n]
      <3>1. /\ rest \in Seq(Byte)
            /\ Len(rest) = IF k + 1 <= Len(all) THEN Len(all) - (k + 1) + 1 ELSE 0
            /\ \A n \in 1 .. Len(all) - (k + 1) + 1 : rest[n] = all[k + 1 + n - 1]
        BY <1>2, <1>3, <2>1, SubSeqProperties
      <3> HIDE DEF rest
      <3>2. Len(rest) = Len(all) - k
        BY <1>2, <1>3, <3>1
      <3>3. ASSUME NEW n \in 1 .. Len(all) - k PROVE rest[n] = all[k + n]
        <4>1. n \in 1 .. Len(all) - (k + 1) + 1 /\ k + 1 + n - 1 = k + n
          BY <1>2, <1>3
        <4> QED  BY <3>1, <4>1
      <3> QED  BY <3>1, <3>2, <3>3
    <2> HIDE DEF front, rest
    <2> DEFINE both == front \o rest
    <2>4. /\ both \in Seq(Byte) /\ Len(both) = Len(all)
          /\ \A n \in 1 .. Len(all) : both[n] = IF n <= k THEN front[n] ELSE rest[n - k]
      <3> DEFINE n == Len(front)
                 m == Len(rest)
      <3>1. n + m = Len(all) /\ n = k
        BY <1>2, <1>3, <2>2, <2>3
      <3>2. /\ both \in Seq(Byte) /\ Len(both) = n + m
            /\ \A x \in 1 .. n + m : both[x] = IF x <= n THEN front[x] ELSE rest[x - n]
        BY <2>2, <2>3, ConcatProperties
      <3> HIDE DEF n, m, both
      <3> QED  BY <3>1, <3>2
    <2> HIDE DEF both
    <2>5. ASSUME NEW n \in 1 .. Len(all) PROVE both[n] = all[n]
      <3>1. CASE n <= k
        BY <1>3, <2>2, <2>4, <3>1
      <3>2. CASE n > k
        <4>1. n - k \in 1 .. Len(all) - k /\ k + (n - k) = n
          BY <1>2, <1>3, <3>2
        <4> QED  BY <1>3, <2>3, <2>4, <3>2, <4>1
      <3> QED  BY <1>3, <3>1, <3>2
    <2>6. both = all
      BY <2>4, <2>5, SeqEqual
    <2> QED  BY <2>2, <2>3, <2>6 DEF both
  <1> HIDE DEF front, rest
  <1>5. (hw[p] \o front) \o rest = hw[p] \o (front \o rest)
    <2> DEFINE h == hw[p]
    <2>1. h \in Seq(Byte)
      BY <1>2
    <2> HIDE DEF h
    <2>2. (h \o front) \o rest = h \o (front \o rest)
      BY <1>4, <2>1, JoinBytes
    <2> QED  BY <2>2 DEF h
  <1> QED  BY <1>1, <1>4, <1>5

LEMMA CritPushJacks ==
    ASSUME IInv(Byte), NEW l \in Levels, CritPush(l)
    PROVE  Owed' = Owed
  <1>1. /\ pc[l] = "crit" /\ Busy(l) /\ pc' = [pc EXCEPT ![l] = "pop"]
        /\ UNCHANGED <<ev, start, end, got>>
    BY DEF CritPush, At, Go, Busy, recvVars, usbVars
  <1>2. /\ Cur(l) = First /\ First \in Event /\ Pending /\ First.jack \in Ports
        /\ ~Unsendable(First)
    BY <1>1, CurEvent, Quiet DEF Unsendable
  <1> DEFINE j == First.jack
             all == ring[j] \o Bytes(First)
  <1>3. j \in Ports /\ Refill(j, all)
    BY <1>2, EventBytes DEF CritPush, Jack
  <1>4. ASSUME NEW p \in Ports
        PROVE  hw'[p] \o ring'[p] = (hw[p] \o ring[p]) \o Own(First, p)
    <2>1. /\ hw[p] \in Seq(Byte) /\ ring[p] \in Seq(Byte) /\ hw[p] \o ring[p] \in Seq(Byte)
          /\ Bytes(First) \in Seq(Byte)
      BY <1>2, BufferedFacts, EventBytes, ConcatProperties
    <2>2. CASE j = p
      <3>1. all \in Seq(Byte) /\ all = ring[p] \o Bytes(First)
        BY <2>1, <2>2, ConcatProperties
      <3> HIDE DEF all
      <3>2. Own(First, p) = Bytes(First)
        BY <2>2 DEF Own
      <3>3. RingInv /\ ring \in [Ports -> Seq(Byte)] /\ hw \in [Ports -> Seq(Byte)]
        BY DEF IInv, SafeInv, TypesOf
      <3>4. hw'[p] \o ring'[p] = hw[p] \o all
        BY <1>3, <2>2, <3>1, <3>3, RefillMoves
      <3>5. hw[p] \o (ring[p] \o Bytes(First)) = (hw[p] \o ring[p]) \o Bytes(First)
        <4> DEFINE h == hw[p]
                   r == ring[p]
                   e == Bytes(First)
        <4>1. h \in Seq(Byte) /\ r \in Seq(Byte) /\ e \in Seq(Byte)
          BY <2>1
        <4> HIDE DEF h, r, e
        <4>2. h \o (r \o e) = (h \o r) \o e
          BY <4>1, JoinBytes
        <4> QED  BY <4>2 DEF h, r, e
      <3> QED  BY <3>1, <3>2, <3>4, <3>5
    <2>3. CASE j # p
      <3>1. hw'[p] = hw[p] /\ ring'[p] = ring[p]
        BY <1>3, <2>3 DEF Refill, IInv, SafeInv, TypesOf
      <3>2. Own(First, p) = << >>
        BY <2>3 DEF Own
      <3> QED  BY <2>1, <3>1, <3>2, ConcatEmptySeq
    <2> QED  BY <2>2, <2>3
  <1> HIDE DEF j, all
  <1> QED  BY <1>1, <1>2, <1>4, TakenFollows

LEMMA PopJacks ==
    ASSUME IInv(Byte), NEW l \in Levels, Pop(l)
    PROVE  Owed' = Owed
  <1>1. /\ pc[l] = "pop" /\ Busy(l) /\ pc' = [pc EXCEPT ![l] = "loop"]
        /\ start' = start + 1 /\ UNCHANGED <<ev, end, got, hw, ring>>
    BY DEF Pop, At, Go, Busy, usbVars, uartVars
  <1>2. Popping /\ ~Popping' /\ ~got /\ Pending
    <2>1. Popping /\ ~Popping'
      <3>1. Popping
        BY <1>1 DEF Popping
      <3>2. ~Popping'
        <4>1. \A m \in Levels : m # l => pc[m] \in {"idle", "tail"}
          BY <1>1, OtherQuiet, Quiet
        <4>2. \A m \in Levels : pc'[m] # "pop"
          BY <1>1, <4>1 DEF IInv, SafeInv, TypesOf
        <4> QED  BY <4>2 DEF Popping
      <3> QED  BY <3>1, <3>2
    <2>2. ~got
      BY <1>1, OtherQuiet, Quiet
    <2>3. Pending
      BY <1>1 DEF IInv, PlaceInv, Pending
    <2> QED  BY <2>1, <2>2, <2>3
  <1>3. /\ Len(ev) \in Nat /\ start \in Nat /\ end = Len(ev) /\ start < end
    BY <1>2, BufferedFacts DEF Pending
  <1>4. ASSUME NEW p \in Ports PROVE OwedBy(p)' = OwedBy(p)
    <2>1. Buffered(p) = BytesFrom(ev, start + 2, p)
      BY <1>2 DEF Buffered, Unsent, Popping
    <2>2. Buffered(p)' = Buffered(p)
      <3>1. CASE start + 1 < end
        <4>1. Pending' /\ Unsent' = start + 2
          BY <1>1, <1>2, <1>3, <3>1 DEF Pending, Unsent, Popping
        <4> QED  BY <1>1, <2>1, <4>1 DEF Buffered
      <3>2. CASE start + 1 = end
        <4>1. Buffered(p)' = << >>
          BY <1>1, <1>2, <1>3, <3>2 DEF Buffered, Pending
        <4>2. start + 2 = Len(ev) + 1
          BY <1>3, <3>2
        <4> QED  BY <1>3, <2>1, <4>1, <4>2, FromEnd
      <3> QED  BY <1>3, <3>1, <3>2
    <2> QED  BY <1>1, <2>2 DEF OwedBy
  <1> QED  BY <1>4, OwedKept

LEMMA DreByteJacks ==
    ASSUME IInv(Byte), NEW p \in Ports, DreByte(p)
    PROVE  Owed' = Owed
  <1>1. /\ ring[p] # << >> /\ pc["HI"] = "idle"
        /\ hw' = [hw EXCEPT ![p] = Append(hw[p], Head(ring[p]))]
        /\ ring' = [ring EXCEPT ![p] = Tail(ring[p])]
        /\ pc' = pc \/ pc' = [pc EXCEPT !["HI"] = "loop"]
        /\ UNCHANGED <<ev, start, end, got>>
    BY DEF DreByte, At, Go, recvVars, usbVars
  <1>2. Popping' = Popping
    <2>1. \A m \in Levels : pc'[m] = "pop" <=> pc[m] = "pop"
      BY <1>1 DEF IInv, SafeInv, TypesOf
    <2> QED  BY <2>1 DEF Popping
  <1>3. ASSUME NEW q \in Ports PROVE OwedBy(q)' = OwedBy(q)
    <2>1. Buffered(q)' = Buffered(q)
      BY <1>1, <1>2, BufferKept
    <2>2. hw'[q] \o ring'[q] = hw[q] \o ring[q]
      <3>1. CASE q = p
        <4> DEFINE h == hw[p]
                   r == ring[p]
                   first == Head(r)
                   rest == Tail(r)
        <4>1. /\ h \in Seq(Byte) /\ r \in Seq(Byte) /\ r # << >>
              /\ hw'[p] = Append(h, first) /\ ring'[p] = rest
          BY <1>1, BufferedFacts DEF IInv, SafeInv, TypesOf
        <4>2. /\ first \in Byte /\ rest \in Seq(Byte)
          BY <4>1, HeadTailProperties
        <4>3. <<first>> \o rest = r
          BY <4>1, <4>2
        <4>4. Append(h, first) = h \o <<first>> /\ <<first>> \in Seq(Byte)
          BY <4>1, <4>2, AppendIsConcat
        <4> HIDE DEF h, r, first, rest
        <4>5. (h \o <<first>>) \o rest = h \o (<<first>> \o rest)
          BY <4>1, <4>2, <4>4, ConcatAssociative
        <4> QED  BY <3>1, <4>1, <4>3, <4>4, <4>5 DEF h, r
      <3>2. CASE q # p
        BY <1>1, <3>2 DEF IInv, SafeInv, TypesOf
      <3> QED  BY <3>1, <3>2
    <2> QED  BY <2>1, <2>2 DEF OwedBy
  <1> QED  BY <1>3, OwedKept

LEMMA DreOffJacks ==
    ASSUME NEW p \in Ports, DreOff(p)
    PROVE  Owed' = Owed
  BY NothingMoved DEF DreOff, recvVars, usbVars, Popping

LEMMA StepJacks ==
    ASSUME IInv(Byte), [Next]_vars
    PROVE  [Jacks!Next]_Owed
  <1>1. ASSUME NEW packet \in Packet, HostPacket(packet) PROVE [Jacks!Next]_Owed
    BY <1>1, HostPacketJacks DEF Jacks!Next
  <1>2. CASE Received
    BY <1>2, ReceivedJacks
  <1>3. ASSUME NEW l \in Levels, Process(l) PROVE Owed' = Owed
    <2>1. CASE LoopEnd(l)
      BY <2>1, LevelMoved DEF LoopEnd, At, Go, recvVars, uartVars
    <2>2. CASE Entry(l)
      BY <2>2, LevelMoved DEF Entry, At, Go, recvVars, usbVars, uartVars
    <2>3. CASE CritFull(l)
      BY <2>3, LevelMoved DEF CritFull, At, Go, recvVars, usbVars
    <2>5. CASE Refuse(l)
      BY <2>5, LevelMoved DEF Refuse, At, Go, recvVars, usbVars, uartVars
    <2>4. CASE Stalled(l)
      BY <2>4, LevelMoved DEF Stalled, At, Go, usbVars, uartVars
    <2> QED  BY <1>3, <2>1, <2>2, <2>3, <2>4, <2>5, LoopNextJacks, FastJacks, CritPushJacks, PopJacks
             DEF Process
  <1>4. ASSUME NEW p \in Ports, Shift(p) PROVE [Jacks!Next]_Owed
    BY <1>4, ShiftJacks DEF Jacks!Next
  <1>5. ASSUME NEW p \in Ports, DreByte(p) \/ DreOff(p) PROVE Owed' = Owed
    BY <1>5, DreByteJacks, DreOffJacks
  <1>6. CASE UNCHANGED vars
    BY <1>6, NothingMoved DEF vars, recvVars, usbVars, uartVars, Popping
  <1> QED  BY <1>1, <1>2, <1>3, <1>4, <1>5, <1>6 DEF Next

\* The jacks are FIFOs of bytes: no byte of a packet, up to an event that names no jack of
\* the board, is lost, doubled, reordered within its jack or sent to another one by the two levels that share the buffer and the rings
\* (main.cpp:520-610, uart.h:396-453), and a packet is accepted only while the jacks'
\* backlog fits the rings.
THEOREM JacksAreFifos == Spec => ImplementsJackFifo
  <1>1. Init => Jacks!Init
    <2> SUFFICES ASSUME Init PROVE Jacks!Init
      OBVIOUS
    <2>1. ASSUME NEW p \in Ports PROVE OwedBy(p) = << >>
      <3>1. hw[p] = << >> /\ ring[p] = << >> /\ Buffered(p) = << >>
        BY DEF Init, Buffered, Pending
      <3>2. << >> \in Seq(Byte)
        OBVIOUS
      <3>3. << >> \o << >> = << >>
        BY <3>2, ConcatEmptySeq
      <3> QED  BY <3>1, <3>3 DEF OwedBy
    <2> QED  BY <2>1 DEF Jacks!Init, Owed, OwedBy
  <1>2. IInv(Byte) /\ [Next]_vars => [Jacks!Next]_Owed
    BY StepJacks
  <1> QED  BY <1>1, <1>2, Invariance, PTL DEF Spec, ImplementsJackFifo, Jacks!Spec
================================================================================
