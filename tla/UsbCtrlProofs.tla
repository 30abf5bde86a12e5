----------------------------- MODULE UsbCtrlProofs -----------------------------
(* Proofs about UsbCtrl for every size of the endpoint, every set of reads and  *)
(* of addresses.                                                                *)
EXTENDS UsbCtrl, TLAPS

--------------------------------------------------------------------------------
(* Requests and packets.                                                        *)

LEMMA OneRequest ==
    ASSUME NEW q \in Request
    PROVE  /\ q.kind \in {"read", "coding", "address", "unknown"}
           /\ q.w \in Nat /\ q.p \in Nat /\ q.v \in Addresses \cup {0}
           /\ q.kind = "read"    => q.p # 0 /\ q.p <= q.w
           /\ q.kind = "coding"  => q.w = Coding /\ q.p = Coding
           /\ q.kind = "address" => q.w = 0 /\ q.p = 0 /\ q.v \in Addresses
           /\ q.kind = "unknown" => q.w = 1
  <1>1. \/ \E r \in Reads : q = [kind |-> "read", w |-> r.w, p |-> r.p, v |-> 0]
        \/ q = [kind |-> "coding", w |-> Coding, p |-> Coding, v |-> 0]
        \/ \E a \in Addresses : q = [kind |-> "address", w |-> 0, p |-> 0, v |-> a]
        \/ q = [kind |-> "unknown", w |-> 1, p |-> 0, v |-> 0]
    BY DEF Request
  <1>2. \A r \in Reads : r.w \in Nat /\ r.p \in Nat /\ r.p # 0 /\ r.p <= r.w
    BY ReadsAssumption
  <1> QED  BY <1>1, <1>2, SizeAssumption

LEMMA NoRequest ==
    None.kind = "unknown" /\ None.w = 0 /\ None.p = 0 /\ None.v = 0 /\ None \notin Request
  BY OneRequest DEF None

\* The address that any request carries is one, or zero.
LEMMA Carried == \A q \in Request \cup {None} : q.v \in Addresses \cup {0} /\ q.p \in Nat /\ q.w \in Nat
  BY OneRequest, NoRequest

LEMMA Taken ==
    ASSUME NEW p \in Packets
    PROVE  LET e == [p EXCEPT !.ready = FALSE] IN
           e \in Packets /\ ~e.ready /\ e.of = p.of /\ e.from = p.from /\ e.n = p.n
  BY DEF Packets

LEMMA Emptied ==
    ASSUME NEW p \in Packets
    PROVE  LET e == [p EXCEPT !.ready = FALSE, !.n = 0] IN e \in Packets /\ ~e.ready
  <1>1. 0 \in 0 .. Size
    BY SizeAssumption
  <1> QED  BY <1>1 DEF Packets

LEMMA Filled ==
    ASSUME NEW q \in Request \cup {None}, NEW f \in Nat, NEW n \in 0 .. Size
    PROVE  LET p == [ready |-> TRUE, of |-> q, from |-> f, n |-> n] IN
           p \in Packets /\ p.ready /\ p.of = q /\ p.from = f /\ p.n = n
  BY DEF Packets

LEMMA FreshPacket == NoPacket \in Packets /\ ~NoPacket.ready
  BY SizeAssumption DEF Packets, NoPacket

LEMMA DriverType ==
    ASSUME NEW d \in Drivers
    PROVE  /\ d.state \in States /\ d.req \in Request \cup {None}
           /\ d.payload_size \in Nat /\ d.nb \in Nat /\ d.prev \in Nat
           /\ d.packet \in Packets /\ d.packet.n \in 0 .. Size /\ d.packet.from \in Nat
           /\ d.packet.ready \in BOOLEAN
           /\ d.short \in BOOLEAN /\ d.callback \in BOOLEAN /\ d.out_ready \in BOOLEAN
           /\ d.stall \in BOOLEAN /\ d.tc_in \in BOOLEAN /\ d.tc_out \in BOOLEAN
           /\ d.in_unf \in BOOLEAN /\ d.out_ovf \in BOOLEAN /\ d.irq \in BOOLEAN
           /\ d.coding \in BOOLEAN /\ d.address \in Addresses \cup {0}
  BY DEF Drivers, Packets

--------------------------------------------------------------------------------
(* What the functions of the driver change.                                     *)

SameRequest(e, d) ==
    /\ e.req = d.req /\ e.payload_size = d.payload_size /\ e.callback = d.callback
    /\ e.coding = d.coding /\ e.address = d.address

SameFlags(e, d) ==
    /\ e.tc_in = d.tc_in /\ e.tc_out = d.tc_out /\ e.irq = d.irq
    /\ e.in_unf = d.in_unf /\ e.out_ovf = d.out_ovf

LEMMA CtrlInitFacts ==
    ASSUME NEW d \in Drivers
    PROVE  LET e == CtrlInit(d) IN
           /\ e \in Drivers
           /\ e.state = "SETUP" /\ ~e.irq /\ ~e.in_unf /\ ~e.out_ovf /\ ~e.packet.ready
           /\ ~e.tc_in /\ ~e.callback /\ e.payload_size = 0 /\ e.nb = 0
           /\ e.req = d.req /\ e.out_ready = d.out_ready /\ e.stall = d.stall
           /\ e.tc_out = d.tc_out /\ e.coding = d.coding /\ e.address = d.address
  <1>1. "SETUP" \in States /\ d.packet \in Packets
    BY DEF States, Drivers
  <1>2. ASSUME NEW p \in Packets
        PROVE  LET e == [d EXCEPT !.state = "SETUP", !.irq = FALSE, !.in_unf = FALSE,
                                  !.out_ovf = FALSE, !.packet = p, !.tc_in = FALSE,
                                  !.callback = FALSE, !.payload_size = 0, !.nb = 0] IN
               /\ e \in Drivers
               /\ e.state = "SETUP" /\ ~e.irq /\ ~e.in_unf /\ ~e.out_ovf /\ e.packet = p
               /\ ~e.tc_in /\ ~e.callback /\ e.payload_size = 0 /\ e.nb = 0
               /\ e.req = d.req /\ e.out_ready = d.out_ready /\ e.stall = d.stall
               /\ e.tc_out = d.tc_out /\ e.coding = d.coding /\ e.address = d.address
    BY <1>1 DEF Drivers
  <1> QED  BY <1>1, <1>2, Emptied DEF CtrlInit

LEMMA EndOfRequestFacts ==
    ASSUME NEW d \in Drivers
    PROVE  LET e == EndOfRequest(d) IN
           /\ e \in Drivers
           /\ e.address = IF d.callback THEN d.req.v ELSE d.address
           /\ e.req = d.req /\ e.out_ready = d.out_ready /\ e.stall = d.stall
           /\ e.tc_out = d.tc_out /\ e.coding = d.coding
  <1>1. d.req.v \in Addresses \cup {0} /\ d.address \in Addresses \cup {0}
    BY Carried DEF Drivers
  <1>2. ASSUME NEW a \in Addresses \cup {0}
        PROVE  LET e == [d EXCEPT !.address = a] IN
               /\ e \in Drivers /\ e.address = a
               /\ e.req = d.req /\ e.out_ready = d.out_ready /\ e.stall = d.stall
               /\ e.tc_out = d.tc_out /\ e.coding = d.coding
    BY DEF Drivers
  <1> QED  BY <1>1, <1>2 DEF EndOfRequest

\* The end of a request.
LEMMA EndFacts ==
    ASSUME NEW d \in Drivers
    PROVE  LET e == CtrlInit(EndOfRequest(d)) IN
           /\ e \in Drivers
           /\ e.state = "SETUP" /\ ~e.irq /\ ~e.in_unf /\ ~e.out_ovf /\ ~e.packet.ready
           /\ ~e.tc_in /\ ~e.callback /\ e.payload_size = 0 /\ e.nb = 0
           /\ e.req = d.req /\ e.out_ready = d.out_ready /\ e.stall = d.stall
           /\ e.tc_out = d.tc_out /\ e.coding = d.coding
           /\ e.address = IF d.callback THEN d.req.v ELSE d.address
  <1> DEFINE f == EndOfRequest(d)
  <1>1. /\ f \in Drivers
        /\ f.address = IF d.callback THEN d.req.v ELSE d.address
        /\ f.req = d.req /\ f.out_ready = d.out_ready /\ f.stall = d.stall
        /\ f.tc_out = d.tc_out /\ f.coding = d.coding
    BY EndOfRequestFacts
  <1> HIDE DEF f
  <1> QED  BY <1>1, CtrlInitFacts DEF f

LEMMA ZlpInFacts ==
    ASSUME NEW d \in Drivers
    PROVE  LET e == ZlpIn(d) IN
           /\ e \in Drivers
           /\ e.state = "WAIT_IN_ZLP"
           /\ e.packet.ready /\ e.packet.of = d.req /\ e.packet.n = 0
           /\ e.nb = d.nb /\ e.prev = d.prev /\ e.short = d.short
           /\ e.out_ready = d.out_ready /\ e.stall = d.stall
           /\ SameRequest(e, d) /\ SameFlags(e, d)
  <1>1. "WAIT_IN_ZLP" \in States /\ d.req \in Request \cup {None} /\ 0 \in 0 .. Size /\ 0 \in Nat
    BY SizeAssumption DEF States, Drivers
  <1>2. ASSUME NEW p \in Packets
        PROVE  LET e == [d EXCEPT !.state = "WAIT_IN_ZLP", !.packet = p] IN
               /\ e \in Drivers /\ e.state = "WAIT_IN_ZLP" /\ e.packet = p
               /\ e.nb = d.nb /\ e.prev = d.prev /\ e.short = d.short
               /\ e.out_ready = d.out_ready /\ e.stall = d.stall
               /\ SameRequest(e, d) /\ SameFlags(e, d)
    BY <1>1 DEF Drivers, SameRequest, SameFlags
  <1> DEFINE p == [ready |-> TRUE, of |-> d.req, from |-> 0, n |-> 0]
  <1>3. p \in Packets /\ p.ready /\ p.of = d.req /\ p.n = 0
    BY <1>1, Filled
  <1>4. ZlpIn(d) = [d EXCEPT !.state = "WAIT_IN_ZLP", !.packet = p]
    BY DEF ZlpIn
  <1> HIDE DEF p
  <1> QED  BY <1>2, <1>3, <1>4

LEMMA ZlpOutFacts ==
    ASSUME NEW d \in Drivers
    PROVE  LET e == ZlpOut(d) IN
           /\ e \in Drivers
           /\ e.state = "WAIT_OUT_ZLP" /\ e.out_ready
           /\ e.packet = d.packet /\ e.nb = d.nb /\ e.prev = d.prev /\ e.short = d.short
           /\ e.stall = d.stall
           /\ SameRequest(e, d) /\ SameFlags(e, d)
  <1>1. "WAIT_OUT_ZLP" \in States
    BY DEF States
  <1> QED  BY <1>1 DEF ZlpOut, Drivers, SameRequest, SameFlags

LEMMA StallFacts ==
    ASSUME NEW d \in Drivers
    PROVE  LET e == Stall(d) IN
           /\ e \in Drivers
           /\ e.state = "STALL_REQ" /\ e.stall
           /\ e.packet = d.packet /\ e.nb = d.nb /\ e.prev = d.prev /\ e.short = d.short
           /\ e.out_ready = d.out_ready
           /\ SameRequest(e, d) /\ SameFlags(e, d)
  <1>1. "STALL_REQ" \in States
    BY DEF States
  <1> QED  BY <1>1 DEF Stall, Drivers, SameRequest, SameFlags

LEMMA SendNextFacts ==
    ASSUME NEW d \in Drivers, d.nb <= d.payload_size
    PROVE  LET e == SendNext(d) IN
           /\ e \in Drivers
           /\ e.packet.ready /\ e.packet.of = d.req /\ e.packet.from = d.nb
           /\ e.nb = d.nb + e.packet.n /\ e.nb <= e.payload_size
           /\ e.short <=> e.packet.n < Size
           /\ e.short => e.nb = e.payload_size
           /\ d.nb = d.payload_size => e.short
           /\ e.state = d.state /\ e.prev = d.prev
           /\ e.out_ready = d.out_ready /\ e.stall = d.stall
           /\ SameRequest(e, d) /\ SameFlags(e, d)
  <1> DEFINE left == d.payload_size - d.nb
             k    == IF left < Size THEN left ELSE Size
  <1>1. /\ d.nb \in Nat /\ d.payload_size \in Nat /\ Size \in Nat \ {0}
        /\ d.req \in Request \cup {None}
    BY SizeAssumption DEF Drivers
  <1>2. /\ left \in Nat /\ k \in 0 .. Size /\ d.nb + k \in Nat
        /\ d.nb + k <= d.payload_size
        /\ left < Size <=> k < Size
        /\ left < Size => d.nb + k = d.payload_size
        /\ d.nb = d.payload_size => left < Size
    BY <1>1
  <1>3. SendNext(d) = [d EXCEPT !.short = left < Size, !.nb = d.nb + k,
                                !.packet = [ready |-> TRUE, of |-> d.req, from |-> d.nb,
                                            n |-> k]]
    BY DEF SendNext
  <1> HIDE DEF left, k
  <1> DEFINE p == [ready |-> TRUE, of |-> d.req, from |-> d.nb, n |-> k]
             s == left < Size
             m == d.nb + k
  <1>4. p \in Packets /\ p.ready /\ p.of = d.req /\ p.from = d.nb /\ p.n = k
    BY <1>1, <1>2, Filled
  <1>5. s \in BOOLEAN /\ (s <=> k < Size) /\ (s => d.nb + k = d.payload_size)
        /\ (d.nb = d.payload_size => s)
    BY <1>2
  <1>6. SendNext(d) = [d EXCEPT !.short = s, !.nb = m, !.packet = p] /\ m \in Nat /\ m = d.nb + k
    BY <1>2, <1>3
  <1> HIDE DEF p, s, m
  <1> DEFINE e == SendNext(d)
  <1>7. /\ e \in Drivers
        /\ e.short = s /\ e.nb = m /\ e.packet = p
        /\ e.state = d.state /\ e.prev = d.prev
        /\ e.out_ready = d.out_ready /\ e.stall = d.stall
        /\ SameRequest(e, d) /\ SameFlags(e, d)
    <2> DEFINE a == [d EXCEPT !.short = s]
               b == [a EXCEPT !.nb = m]
    <2>1. /\ a \in Drivers /\ a.short = s
          /\ a.state = d.state /\ a.prev = d.prev /\ a.out_ready = d.out_ready /\ a.stall = d.stall
          /\ SameRequest(a, d) /\ SameFlags(a, d)
      BY <1>5, SMTT(30) DEF Drivers, SameRequest, SameFlags
    <2> HIDE DEF a
    <2>2. /\ b \in Drivers /\ b.short = a.short /\ b.nb = m
          /\ b.state = a.state /\ b.prev = a.prev /\ b.out_ready = a.out_ready /\ b.stall = a.stall
          /\ SameRequest(b, a) /\ SameFlags(b, a)
      BY <1>6, <2>1, SMTT(30) DEF Drivers, SameRequest, SameFlags
    <2> HIDE DEF b
    <2>3. e = [b EXCEPT !.packet = p]
      BY <1>6 DEF Drivers, a, b
    <2> HIDE DEF e
    <2>4. /\ e \in Drivers /\ e.short = b.short /\ e.nb = b.nb /\ e.packet = p
          /\ e.state = b.state /\ e.prev = b.prev /\ e.out_ready = b.out_ready /\ e.stall = b.stall
          /\ SameRequest(e, b) /\ SameFlags(e, b)
      BY <1>4, <2>2, <2>3, SMTT(30) DEF Drivers, SameRequest, SameFlags
    <2>5. SameRequest(e, d) /\ SameFlags(e, d)
      BY <2>1, <2>2, <2>4 DEF SameRequest, SameFlags
    <2> QED  BY <2>1, <2>2, <2>4, <2>5
  <1> HIDE DEF e
  <1>8. e.payload_size = d.payload_size
    BY <1>7 DEF SameRequest
  <1> QED  BY <1>2, <1>4, <1>5, <1>6, <1>7, <1>8 DEF e

--------------------------------------------------------------------------------
(* What is counted of a payload, and what is put up.                            *)

\* No more is counted than there is, and nothing before a request.
WellSized(d) == d.nb <= d.payload_size /\ (d.state = "SETUP" => d.payload_size = 0)

\* At most one direction is made ready.
OneMore(e, d) == (e.out_ready => d.out_ready) \/ (e.packet.ready => d.packet.ready)

LEMMA CountedFacts ==
    ASSUME NEW d \in Drivers
    PROVE  LET e == [d EXCEPT !.prev = d.prev + d.nb] IN
           /\ e \in Drivers /\ e.prev = d.prev + d.nb
           /\ e.state = d.state /\ e.packet = d.packet /\ e.nb = d.nb /\ e.short = d.short
           /\ e.out_ready = d.out_ready /\ e.stall = d.stall
           /\ SameRequest(e, d) /\ SameFlags(e, d)
  <1> DEFINE m == d.prev + d.nb
  <1>1. m \in Nat
    BY DEF Drivers
  <1> HIDE DEF m
  <1>2. LET e == [d EXCEPT !.prev = m] IN
        /\ e \in Drivers /\ e.prev = m
        /\ e.state = d.state /\ e.packet = d.packet /\ e.nb = d.nb /\ e.short = d.short
        /\ e.out_ready = d.out_ready /\ e.stall = d.stall
        /\ SameRequest(e, d) /\ SameFlags(e, d)
    BY <1>1 DEF Drivers, SameRequest, SameFlags
  <1> QED  BY <1>2 DEF m

\* When all is sent, the handshake is waited for, or an empty packet goes first.
LEMMA AllSentFacts ==
    ASSUME NEW d \in Drivers, d.state # "WAIT_IN_ZLP", d.payload_size = d.nb
    PROVE  LET e == InSent(d) IN
           /\ e \in Drivers /\ e.nb = d.nb /\ e.prev = d.prev + d.nb
           /\ e.stall = d.stall /\ SameRequest(e, d) /\ SameFlags(e, d)
           /\ IF d.req.w = d.prev + d.nb \/ d.short
              THEN /\ e.state = "WAIT_OUT_ZLP" /\ e.out_ready /\ e.packet = d.packet
              ELSE /\ e.state = d.state /\ e.out_ready = d.out_ready
                   /\ e.packet.ready /\ e.packet.of = d.req /\ e.packet.from = d.nb
                   /\ e.packet.n = 0 /\ e.short
  <1> DEFINE c == [d EXCEPT !.prev = d.prev + d.nb]
  <1>1. InSent(d) = IF d.req.w = c.prev \/ d.short THEN ZlpOut(c) ELSE SendNext(c)
    BY DEF InSent
  <1>2. /\ c \in Drivers /\ c.prev = d.prev + d.nb
        /\ c.state = d.state /\ c.packet = d.packet /\ c.nb = d.nb /\ c.short = d.short
        /\ c.out_ready = d.out_ready /\ c.stall = d.stall
        /\ SameRequest(c, d) /\ SameFlags(c, d)
    BY CountedFacts
  <1> HIDE DEF c
  <1>3. d.nb \in Nat /\ c.nb = c.payload_size /\ c.req = d.req
    BY <1>2, DriverType DEF SameRequest
  <1>4. CASE d.req.w = c.prev \/ d.short
    <2> DEFINE e == ZlpOut(c)
    <2>1. /\ e \in Drivers
          /\ e.state = "WAIT_OUT_ZLP" /\ e.out_ready
          /\ e.packet = c.packet /\ e.nb = c.nb /\ e.prev = c.prev /\ e.stall = c.stall
          /\ SameRequest(e, c) /\ SameFlags(e, c)
      BY <1>2, ZlpOutFacts
    <2>2. InSent(d) = e
      BY <1>1, <1>4
    <2> HIDE DEF e
    <2> QED  BY <1>2, <1>4, <2>1, <2>2 DEF SameRequest, SameFlags
  <1>5. CASE ~(d.req.w = c.prev \/ d.short)
    <2> DEFINE e == SendNext(c)
    <2>1. /\ e \in Drivers
          /\ e.packet.ready /\ e.packet.of = c.req /\ e.packet.from = c.nb
          /\ e.nb = c.nb + e.packet.n /\ e.nb <= e.payload_size /\ e.short
          /\ e.state = c.state /\ e.prev = c.prev
          /\ e.out_ready = c.out_ready /\ e.stall = c.stall
          /\ SameRequest(e, c) /\ SameFlags(e, c)
      BY <1>2, <1>3, SendNextFacts
    <2>2. InSent(d) = e
      BY <1>1, <1>5
    <2> HIDE DEF e
    <2>3. e.packet.n \in Nat /\ c.nb \in Nat /\ e.payload_size = c.nb
      BY <1>2, <1>3, <2>1, DriverType DEF SameRequest
    <2>4. PICK k \in Nat : k = e.packet.n
      BY <2>3
    <2>5. k = 0
      BY <2>1, <2>3, <2>4
    <2> QED  BY <1>2, <1>3, <1>5, <2>1, <2>2, <2>4, <2>5 DEF SameRequest, SameFlags
  <1> QED  BY <1>4, <1>5

LEMMA InSentType ==
    ASSUME NEW d \in Drivers, WellSized(d)
    PROVE  LET e == InSent(d) IN e \in Drivers /\ WellSized(e) /\ OneMore(e, d)
  <1> DEFINE e == InSent(d)
  <1>0. d.nb \in Nat /\ d.payload_size \in Nat /\ d.nb <= d.payload_size
    BY DriverType DEF WellSized
  <1>1. CASE d.state = "WAIT_IN_ZLP"
    <2>1. e = CtrlInit(EndOfRequest(d))
      BY <1>1 DEF InSent
    <2> QED  BY <2>1, EndFacts DEF WellSized, OneMore
  <1>2. CASE d.state # "WAIT_IN_ZLP" /\ d.payload_size # d.nb
    <2>1. e = SendNext(d)
      BY <1>2 DEF InSent
    <2> HIDE DEF e
    <2>2. /\ e \in Drivers /\ e.nb <= e.payload_size
          /\ e.state = d.state /\ e.out_ready = d.out_ready /\ SameRequest(e, d)
      BY <1>0, <2>1, SendNextFacts
    <2> QED  BY <2>2 DEF WellSized, OneMore, SameRequest, e
  <1>3. CASE d.state # "WAIT_IN_ZLP" /\ d.payload_size = d.nb
    <2>1. /\ e \in Drivers /\ e.nb = d.nb /\ SameRequest(e, d)
          /\ \/ e.state = "WAIT_OUT_ZLP" /\ e.packet = d.packet
             \/ e.state = d.state /\ e.out_ready = d.out_ready
      BY <1>3, AllSentFacts
    <2> HIDE DEF e
    <2> QED  BY <1>0, <1>3, <2>1 DEF WellSized, OneMore, SameRequest, e
  <1> QED  BY <1>1, <1>2, <1>3

\* The payload cut down to what came.
LEMMA CutDownFacts ==
    ASSUME NEW d \in Drivers
    PROVE  LET e == [d EXCEPT !.payload_size = d.nb] IN
           /\ e \in Drivers /\ e.payload_size = d.nb
           /\ e.state = d.state /\ e.packet = d.packet /\ e.prev = d.prev /\ e.nb = d.nb
           /\ e.out_ready = d.out_ready /\ e.stall = d.stall
           /\ e.req = d.req /\ e.coding = d.coding /\ e.callback = d.callback
           /\ e.address = d.address /\ SameFlags(e, d)
  BY DEF Drivers, SameFlags

\* The endpoint made ready for the next packet.
LEMMA TakeFacts ==
    ASSUME NEW d \in Drivers
    PROVE  LET e == [d EXCEPT !.out_ready = TRUE, !.tc_out = FALSE] IN
           /\ e \in Drivers /\ e.out_ready
           /\ e.state = d.state /\ e.packet = d.packet /\ e.nb = d.nb
           /\ e.payload_size = d.payload_size
  BY DEF Drivers

LEMMA OutReceivedType ==
    ASSUME NEW d \in Drivers, WellSized(d), buf.n \in Nat
    PROVE  LET e == OutReceived(d) IN e \in Drivers /\ WellSized(e) /\ OneMore(e, d)
  <1> DEFINE e == OutReceived(d)
  <1>0. d.nb \in Nat /\ d.payload_size \in Nat /\ d.nb <= d.payload_size /\ d.coding \in BOOLEAN
    BY DriverType DEF WellSized
  <1>1. CASE d.state = "WAIT_OUT_ZLP"
    <2>1. e = CtrlInit(EndOfRequest(d))
      BY <1>1 DEF OutReceived
    <2> QED  BY <2>1, EndFacts DEF WellSized, OneMore
  <1>2. CASE d.state # "WAIT_OUT_ZLP"
    <2> DEFINE room == d.payload_size - d.nb
               n    == IF buf.n < room THEN buf.n ELSE room
               m    == d.nb + n
               w    == d.coding /\ (buf.data \/ n = 0 \/ d.req.kind # "coding")
               c    == [d EXCEPT !.nb = m, !.coding = w]
    <2>1. /\ m \in Nat /\ w \in BOOLEAN /\ m <= d.payload_size
      BY <1>0
    <2>2. e = IF n # Size \/ d.req.w <= c.prev + c.nb THEN ZlpIn([c EXCEPT !.payload_size = c.nb])
              ELSE IF c.payload_size = c.nb THEN Stall(c)
              ELSE [c EXCEPT !.out_ready = TRUE, !.tc_out = FALSE]
      BY <1>2 DEF OutReceived
    <2> HIDE DEF room, n, m, w
    <2>3. /\ c \in Drivers /\ c.nb = m /\ c.state = d.state /\ c.packet = d.packet
          /\ c.out_ready = d.out_ready /\ c.payload_size = d.payload_size
      BY <2>1 DEF Drivers
    <2> HIDE DEF c, e
    <2>4. CASE e = ZlpIn([c EXCEPT !.payload_size = c.nb])
      <3> DEFINE f == [c EXCEPT !.payload_size = c.nb]
      <3>1. /\ f \in Drivers /\ f.payload_size = m /\ f.nb = m /\ f.out_ready = d.out_ready
        BY <2>3, CutDownFacts
      <3> HIDE DEF f
      <3>2. /\ e \in Drivers /\ e.state = "WAIT_IN_ZLP" /\ e.nb = m /\ e.payload_size = m
            /\ e.out_ready = d.out_ready
        BY <2>4, <3>1, ZlpInFacts DEF f, SameRequest
      <3> QED  BY <2>1, <3>2 DEF WellSized, OneMore, e
    <2>5. CASE e = Stall(c)
      <3>1. /\ e \in Drivers /\ e.state = "STALL_REQ" /\ e.nb = m
            /\ e.payload_size = d.payload_size /\ e.out_ready = d.out_ready
        BY <2>3, <2>5, StallFacts DEF SameRequest
      <3> QED  BY <2>1, <3>1 DEF WellSized, OneMore, e
    <2>6. CASE e = [c EXCEPT !.out_ready = TRUE, !.tc_out = FALSE]
      <3>1. /\ e \in Drivers /\ e.state = d.state /\ e.nb = m
            /\ e.payload_size = d.payload_size /\ e.packet = d.packet
        BY <2>3, <2>6, TakeFacts
      <3> QED  BY <1>0, <2>1, <3>1 DEF WellSized, OneMore, e
    <2> QED  BY <2>2, <2>4, <2>5, <2>6
  <1> QED  BY <1>1, <1>2

\* The line coding takes all that a packet brings, and the write ends.
LEMMA WrittenFacts ==
    ASSUME NEW d \in Drivers, d.state = "DATA_OUT", d.nb = 0, d.payload_size = Coding,
           d.coding, buf.data, buf.n \in Nat
    PROVE  LET e == OutReceived(d) IN
           /\ e.state = "WAIT_IN_ZLP" /\ e.coding
           /\ e.packet.ready /\ e.packet.of = d.req /\ e.packet.n = 0
           /\ e.req = d.req /\ e.callback = d.callback /\ e.address = d.address
           /\ e.out_ready = d.out_ready /\ e.stall = d.stall /\ SameFlags(e, d)
  <1> DEFINE room == d.payload_size - d.nb
             n    == IF buf.n < room THEN buf.n ELSE room
             m    == d.nb + n
             w    == d.coding /\ (buf.data \/ n = 0 \/ d.req.kind # "coding")
             c    == [d EXCEPT !.nb = m, !.coding = w]
             f    == [c EXCEPT !.payload_size = c.nb]
             e    == OutReceived(d)
  <1>1. m \in Nat /\ w \in BOOLEAN /\ w /\ n # Size
    BY SizeAssumption
  <1>2. e = ZlpIn(f)
    BY <1>1 DEF OutReceived
  <1> HIDE DEF n, m, w
  <1>3. /\ c \in Drivers /\ c.nb = m /\ c.coding
        /\ c.out_ready = d.out_ready /\ c.stall = d.stall
        /\ c.req = d.req /\ c.callback = d.callback /\ c.address = d.address /\ SameFlags(c, d)
    BY <1>1 DEF Drivers, SameFlags
  <1> HIDE DEF c
  <1>4. /\ f \in Drivers /\ f.coding
        /\ f.out_ready = d.out_ready /\ f.stall = d.stall
        /\ f.req = d.req /\ f.callback = d.callback /\ f.address = d.address /\ SameFlags(f, c)
    BY <1>3, CutDownFacts
  <1> HIDE DEF f, e
  <1>5. /\ e.state = "WAIT_IN_ZLP"
        /\ e.packet.ready /\ e.packet.of = f.req /\ e.packet.n = 0
        /\ e.out_ready = f.out_ready /\ e.stall = f.stall
        /\ SameRequest(e, f) /\ SameFlags(e, f)
    BY <1>2, <1>4, ZlpInFacts
  <1> QED  BY <1>3, <1>4, <1>5 DEF SameRequest, SameFlags, e

--------------------------------------------------------------------------------
(* A SETUP packet is taken: the request before it is ended, and the new one     *)
(* begins.                                                                      *)

AtRest(d) ==
    IF d.state = "SETUP" THEN d
    ELSE CtrlInit(IF d.state \in {"WAIT_IN_ZLP", "WAIT_OUT_ZLP"} THEN EndOfRequest(d) ELSE d)

Begun(d)   == [AtRest(d) EXCEPT !.req = buf.of, !.irq = TRUE]
Started(d) == ProcessSetup(Begun(d))

LEMMA SetupCases ==
    ASSUME NEW d
    PROVE  SetupReceived(d) =
               IF buf.data THEN AtRest(d)
               ELSE IF buf.of.kind = "unknown" THEN Stall([Begun(d) EXCEPT !.payload_size = 0])
               ELSE IF buf.of.kind = "read"
               THEN InSent([Started(d) EXCEPT !.prev = 0, !.nb = 0, !.state = "DATA_IN"])
               ELSE IF buf.of.w = 0 THEN ZlpIn(Started(d))
               ELSE [Started(d) EXCEPT !.prev = 0, !.nb = 0, !.state = "DATA_OUT",
                                       !.out_ready = TRUE, !.tc_out = FALSE]
  BY DEF SetupReceived, AtRest, Begun, Started

LEMMA AtRestFacts ==
    ASSUME NEW d \in Drivers, WellSized(d)
    PROVE  LET e == AtRest(d) IN
           /\ e \in Drivers /\ e.state = "SETUP" /\ e.nb = 0 /\ e.payload_size = 0
           /\ e.out_ready = d.out_ready /\ e.stall = d.stall /\ e.coding = d.coding
           /\ e.packet.ready => d.packet.ready
           /\ e.callback => d.callback
           /\ ~d.callback => e.address = d.address
           /\ e.in_unf => d.in_unf /\ d.state = "SETUP"
           /\ e.out_ovf => d.out_ovf /\ d.state = "SETUP"
  <1> DEFINE e == AtRest(d)
  <1>1. CASE d.state = "SETUP"
    <2>1. e = d
      BY <1>1 DEF AtRest
    <2>2. d.nb \in Nat /\ d.nb = 0 /\ d.payload_size = 0
      BY <1>1, DriverType DEF WellSized
    <2> QED  BY <1>1, <2>1, <2>2
  <1>2. CASE d.state \in {"WAIT_IN_ZLP", "WAIT_OUT_ZLP"}
    <2>1. e = CtrlInit(EndOfRequest(d))
      BY <1>2 DEF AtRest
    <2> QED  BY <2>1, EndFacts
  <1>3. CASE d.state \notin {"SETUP", "WAIT_IN_ZLP", "WAIT_OUT_ZLP"}
    <2>1. e = CtrlInit(d)
      BY <1>3 DEF AtRest
    <2> QED  BY <2>1, CtrlInitFacts
  <1> QED  BY <1>1, <1>2, <1>3

LEMMA BegunFacts ==
    ASSUME NEW d \in Drivers, WellSized(d), buf.of \in Request \cup {None}
    PROVE  LET e == Begun(d) IN
           /\ e \in Drivers /\ e.state = "SETUP" /\ e.nb = 0 /\ e.payload_size = 0
           /\ e.req = buf.of /\ e.irq
           /\ e.out_ready = d.out_ready /\ e.stall = d.stall /\ e.coding = d.coding
           /\ e.packet.ready => d.packet.ready
           /\ e.callback => d.callback
           /\ ~d.callback => e.address = d.address
           /\ e.in_unf => d.in_unf /\ d.state = "SETUP"
           /\ e.out_ovf => d.out_ovf /\ d.state = "SETUP"
  <1> DEFINE r == AtRest(d)
             q == buf.of
  <1> HIDE DEF r, q
  <1>1. /\ r \in Drivers /\ r.state = "SETUP" /\ r.nb = 0 /\ r.payload_size = 0
        /\ r.out_ready = d.out_ready /\ r.stall = d.stall /\ r.coding = d.coding
        /\ r.packet.ready => d.packet.ready
        /\ r.callback => d.callback
        /\ ~d.callback => r.address = d.address
        /\ r.in_unf => d.in_unf /\ d.state = "SETUP"
        /\ r.out_ovf => d.out_ovf /\ d.state = "SETUP"
    BY AtRestFacts DEF r
  <1> DEFINE e == [r EXCEPT !.req = q, !.irq = TRUE]
  <1>2. q \in Request \cup {None}
    BY DEF q
  <1>3. /\ e \in Drivers /\ e.state = r.state /\ e.nb = r.nb /\ e.payload_size = r.payload_size
        /\ e.req = q /\ e.irq
        /\ e.out_ready = r.out_ready /\ e.stall = r.stall /\ e.coding = r.coding
        /\ e.packet = r.packet /\ e.callback = r.callback /\ e.address = r.address
        /\ e.in_unf = r.in_unf /\ e.out_ovf = r.out_ovf
    BY <1>1, <1>2 DEF Drivers
  <1>4. Begun(d) = e
    BY DEF Begun, r, q
  <1> HIDE DEF e
  <1> QED  BY <1>1, <1>3, <1>4 DEF q

LEMMA StartedFacts ==
    ASSUME NEW d \in Drivers, WellSized(d), buf.of \in Request
    PROVE  LET e == Started(d) IN
           /\ e \in Drivers /\ e.state = "SETUP" /\ e.nb = 0 /\ e.payload_size = buf.of.p
           /\ e.req = buf.of /\ e.irq
           /\ e.out_ready = d.out_ready /\ e.stall = d.stall /\ e.coding = d.coding
           /\ e.packet.ready => d.packet.ready
           /\ e.callback <=> buf.of.kind = "address"
           /\ ~d.callback => e.address = d.address
           /\ e.in_unf => d.in_unf /\ d.state = "SETUP"
           /\ e.out_ovf => d.out_ovf /\ d.state = "SETUP"
  <1> DEFINE r == Begun(d)
             z == buf.of.p
             c == buf.of.kind = "address"
  <1>0. z \in Nat /\ c \in BOOLEAN
    BY Carried
  <1> HIDE DEF r
  <1>1. /\ r \in Drivers /\ r.state = "SETUP" /\ r.nb = 0 /\ r.req = buf.of /\ r.irq
        /\ r.out_ready = d.out_ready /\ r.stall = d.stall /\ r.coding = d.coding
        /\ r.packet.ready => d.packet.ready
        /\ ~d.callback => r.address = d.address
        /\ r.in_unf => d.in_unf /\ d.state = "SETUP"
        /\ r.out_ovf => d.out_ovf /\ d.state = "SETUP"
    BY BegunFacts DEF r
  <1>2. Started(d) = [r EXCEPT !.payload_size = z, !.callback = c]
    BY <1>1 DEF Started, ProcessSetup, r
  <1> HIDE DEF z, c
  <1> DEFINE e == Started(d)
  <1>3. /\ e \in Drivers /\ e.state = r.state /\ e.nb = r.nb /\ e.payload_size = z
        /\ e.req = r.req /\ e.irq = r.irq
        /\ e.out_ready = r.out_ready /\ e.stall = r.stall /\ e.coding = r.coding
        /\ e.packet = r.packet /\ e.callback = c /\ e.address = r.address
        /\ e.in_unf = r.in_unf /\ e.out_ovf = r.out_ovf
    <2> DEFINE a == [r EXCEPT !.payload_size = z]
    <2>0. r \in Drivers
      BY <1>1
    <2>1. /\ a \in Drivers /\ a.state = r.state /\ a.nb = r.nb /\ a.payload_size = z
          /\ a.req = r.req /\ a.irq = r.irq
          /\ a.out_ready = r.out_ready /\ a.stall = r.stall /\ a.coding = r.coding
          /\ a.packet = r.packet /\ a.address = r.address
          /\ a.in_unf = r.in_unf /\ a.out_ovf = r.out_ovf
      BY <1>0, <2>0, SMTT(30) DEF Drivers
    <2>2. e = [a EXCEPT !.callback = c]
      BY <1>2
    <2> HIDE DEF a, e
    <2>3. /\ e \in Drivers /\ e.state = a.state /\ e.nb = a.nb /\ e.payload_size = a.payload_size
          /\ e.req = a.req /\ e.irq = a.irq
          /\ e.out_ready = a.out_ready /\ e.stall = a.stall /\ e.coding = a.coding
          /\ e.packet = a.packet /\ e.callback = c /\ e.address = a.address
          /\ e.in_unf = a.in_unf /\ e.out_ovf = a.out_ovf
      BY <1>0, <2>1, <2>2, SMTT(30) DEF Drivers
    <2> QED  BY <2>1, <2>3
  <1> HIDE DEF e
  <1> QED  BY <1>1, <1>3 DEF z, c, e

\* What is kept from before, whatever the request.
Begins(e, d) ==
    /\ e.req = buf.of /\ e.irq /\ e.coding = d.coding
    /\ e.callback <=> buf.of.kind = "address"
    /\ ~d.callback => e.address = d.address
    /\ e.in_unf => d.in_unf /\ d.state = "SETUP"
    /\ e.out_ovf => d.out_ovf /\ d.state = "SETUP"

LEMMA RefusedFacts ==
    ASSUME NEW d \in Drivers, WellSized(d), ~buf.data, buf.of \in Request \cup {None},
           buf.of.kind = "unknown"
    PROVE  LET e == SetupReceived(d) IN
           /\ e \in Drivers /\ WellSized(e)
           /\ e.state = "STALL_REQ" /\ e.stall
           /\ e.packet.ready => d.packet.ready
           /\ e.out_ready = d.out_ready
           /\ ~d.callback => Begins(e, d)
  <1> DEFINE b == Begun(d)
             g == [b EXCEPT !.payload_size = 0]
             e == SetupReceived(d)
  <1>1. e = Stall(g)
    BY SetupCases
  <1> HIDE DEF b
  <1>2. /\ b \in Drivers /\ b.state = "SETUP" /\ b.nb = 0 /\ b.payload_size = 0
        /\ b.req = buf.of /\ b.irq
        /\ b.out_ready = d.out_ready /\ b.stall = d.stall /\ b.coding = d.coding
        /\ b.packet.ready => d.packet.ready
        /\ b.callback => d.callback
        /\ ~d.callback => b.address = d.address
        /\ b.in_unf => d.in_unf /\ d.state = "SETUP"
        /\ b.out_ovf => d.out_ovf /\ d.state = "SETUP"
    BY BegunFacts DEF b
  <1>3. g \in Drivers /\ g.nb = 0 /\ g.payload_size = 0 /\ g.packet = b.packet
        /\ g.req = b.req /\ g.irq = b.irq /\ g.out_ready = b.out_ready /\ g.coding = b.coding
        /\ g.callback = b.callback /\ g.address = b.address
        /\ g.in_unf = b.in_unf /\ g.out_ovf = b.out_ovf
    BY <1>2 DEF Drivers
  <1> HIDE DEF g, e
  <1>4. /\ e \in Drivers /\ e.state = "STALL_REQ" /\ e.stall
        /\ e.packet = g.packet /\ e.nb = g.nb /\ e.out_ready = g.out_ready
        /\ SameRequest(e, g) /\ SameFlags(e, g)
    BY <1>1, <1>3, StallFacts
  <1>5. d.callback \in BOOLEAN /\ b.callback \in BOOLEAN
    BY <1>2, DriverType
  <1> QED  BY <1>2, <1>3, <1>4, <1>5 DEF SameRequest, SameFlags, WellSized, Begins, e

LEMMA ReadFacts ==
    ASSUME NEW d \in Drivers, WellSized(d), ~buf.data, buf.of \in Request,
           buf.of.kind = "read"
    PROVE  LET e == SetupReceived(d) IN
           /\ e \in Drivers /\ WellSized(e)
           /\ e.state = "DATA_IN" /\ e.payload_size = buf.of.p /\ e.prev = 0
           /\ e.packet.ready /\ e.packet.of = buf.of /\ e.packet.from = 0 /\ e.packet.n = e.nb
           /\ e.short <=> e.packet.n < Size
           /\ e.short => e.nb = e.payload_size
           /\ e.out_ready = d.out_ready /\ e.stall = d.stall
           /\ Begins(e, d)
  <1> DEFINE f == Started(d)
             g == [f EXCEPT !.prev = 0, !.nb = 0, !.state = "DATA_IN"]
             e == SetupReceived(d)
  <1>1. e = InSent(g)
    BY SetupCases
  <1> HIDE DEF f, e
  <1>2. /\ f \in Drivers /\ f.payload_size = buf.of.p
        /\ f.req = buf.of /\ f.irq
        /\ f.out_ready = d.out_ready /\ f.stall = d.stall /\ f.coding = d.coding
        /\ f.callback <=> buf.of.kind = "address"
        /\ ~d.callback => f.address = d.address
        /\ f.in_unf => d.in_unf /\ d.state = "SETUP"
        /\ f.out_ovf => d.out_ovf /\ d.state = "SETUP"
    BY StartedFacts DEF f
  <1>3. /\ g \in Drivers /\ g.state = "DATA_IN" /\ g.nb = 0 /\ g.prev = 0
        /\ g.payload_size = f.payload_size
        /\ g.out_ready = f.out_ready /\ g.stall = f.stall
        /\ g.req = f.req /\ g.irq = f.irq /\ g.coding = f.coding /\ g.callback = f.callback
        /\ g.address = f.address /\ g.in_unf = f.in_unf /\ g.out_ovf = f.out_ovf
    BY <1>2 DEF Drivers, States
  <1> HIDE DEF g
  <1>4. g.payload_size \in Nat /\ g.payload_size # 0
    BY <1>2, <1>3, OneRequest
  <1>5. e = SendNext(g)
    BY <1>1, <1>3, <1>4 DEF InSent
  <1>6. /\ e \in Drivers
        /\ e.packet.ready /\ e.packet.of = g.req /\ e.packet.from = g.nb
        /\ e.nb = g.nb + e.packet.n /\ e.nb <= e.payload_size
        /\ e.short <=> e.packet.n < Size
        /\ e.short => e.nb = e.payload_size
        /\ e.state = g.state /\ e.prev = g.prev
        /\ e.out_ready = g.out_ready /\ e.stall = g.stall
        /\ SameRequest(e, g) /\ SameFlags(e, g)
    BY <1>3, <1>4, <1>5, SendNextFacts
  <1>7. PICK k \in Nat : k = e.packet.n
    BY <1>6, DriverType
  <1>8. e.nb = k
    BY <1>3, <1>6, <1>7
  <1> QED  BY <1>2, <1>3, <1>6, <1>7, <1>8 DEF SameRequest, SameFlags, WellSized, Begins, e

LEMMA AddressFacts ==
    ASSUME NEW d \in Drivers, WellSized(d), ~buf.data, buf.of \in Request,
           buf.of.kind = "address"
    PROVE  LET e == SetupReceived(d) IN
           /\ e \in Drivers /\ WellSized(e)
           /\ e.state = "WAIT_IN_ZLP"
           /\ e.packet.ready /\ e.packet.of = buf.of /\ e.packet.n = 0
           /\ e.out_ready = d.out_ready /\ e.stall = d.stall
           /\ Begins(e, d)
  <1> DEFINE f == Started(d)
             e == SetupReceived(d)
  <1>1. e = ZlpIn(f) /\ buf.of.p = 0
    BY SetupCases, OneRequest
  <1> HIDE DEF f, e
  <1>2. /\ f \in Drivers /\ f.nb = 0 /\ f.payload_size = 0
        /\ f.req = buf.of /\ f.irq
        /\ f.out_ready = d.out_ready /\ f.stall = d.stall /\ f.coding = d.coding
        /\ f.callback <=> buf.of.kind = "address"
        /\ ~d.callback => f.address = d.address
        /\ f.in_unf => d.in_unf /\ d.state = "SETUP"
        /\ f.out_ovf => d.out_ovf /\ d.state = "SETUP"
    BY <1>1, StartedFacts DEF f
  <1>3. /\ e \in Drivers /\ e.state = "WAIT_IN_ZLP"
        /\ e.packet.ready /\ e.packet.of = f.req /\ e.packet.n = 0
        /\ e.nb = f.nb /\ e.out_ready = f.out_ready /\ e.stall = f.stall
        /\ SameRequest(e, f) /\ SameFlags(e, f)
    BY <1>1, <1>2, ZlpInFacts
  <1> QED  BY <1>2, <1>3 DEF SameRequest, SameFlags, WellSized, Begins, e

LEMMA CodingFacts ==
    ASSUME NEW d \in Drivers, WellSized(d), ~buf.data, buf.of \in Request,
           buf.of.kind = "coding"
    PROVE  LET e == SetupReceived(d) IN
           /\ e \in Drivers /\ WellSized(e)
           /\ e.state = "DATA_OUT" /\ e.payload_size = Coding /\ e.nb = 0
           /\ e.packet.ready => d.packet.ready
           /\ e.out_ready /\ e.stall = d.stall
           /\ Begins(e, d)
  <1> DEFINE f == Started(d)
             e == SetupReceived(d)
  <1>0. buf.of.w # 0 /\ buf.of.p = Coding
    BY OneRequest, SizeAssumption
  <1>1. e = [f EXCEPT !.prev = 0, !.nb = 0, !.state = "DATA_OUT",
                      !.out_ready = TRUE, !.tc_out = FALSE]
    BY <1>0, SetupCases
  <1> HIDE DEF f, e
  <1>2. /\ f \in Drivers /\ f.payload_size = Coding
        /\ f.req = buf.of /\ f.irq /\ f.stall = d.stall /\ f.coding = d.coding
        /\ f.packet.ready => d.packet.ready
        /\ f.callback <=> buf.of.kind = "address"
        /\ ~d.callback => f.address = d.address
        /\ f.in_unf => d.in_unf /\ d.state = "SETUP"
        /\ f.out_ovf => d.out_ovf /\ d.state = "SETUP"
    BY <1>0, StartedFacts DEF f
  <1>3. /\ e \in Drivers /\ e.state = "DATA_OUT" /\ e.nb = 0 /\ e.out_ready
        /\ e.payload_size = f.payload_size /\ e.packet = f.packet /\ e.stall = f.stall
        /\ e.req = f.req /\ e.irq = f.irq /\ e.coding = f.coding /\ e.callback = f.callback
        /\ e.address = f.address /\ e.in_unf = f.in_unf /\ e.out_ovf = f.out_ovf
    BY <1>1, <1>2 DEF Drivers, States
  <1>4. Coding \in Nat /\ 0 <= Coding
    BY SizeAssumption
  <1> QED  BY <1>2, <1>3, <1>4 DEF WellSized, Begins, e

LEMMA SetupReceivedType ==
    ASSUME NEW d \in Drivers, WellSized(d), buf.of \in Request \cup {None}
    PROVE  SetupReceived(d) \in Drivers /\ WellSized(SetupReceived(d))
  <1>1. CASE buf.data
    BY <1>1, SetupCases, AtRestFacts DEF WellSized
  <1>2. CASE ~buf.data /\ buf.of.kind = "unknown"
    BY <1>2, RefusedFacts
  <1>3. CASE ~buf.data /\ buf.of.kind # "unknown"
    <2>1. buf.of \in Request /\ buf.of.kind \in {"read", "address", "coding"}
      BY <1>3, OneRequest, NoRequest
    <2> QED  BY <1>3, <2>1, ReadFacts, AddressFacts, CodingFacts
  <1> QED  BY <1>1, <1>2, <1>3

--------------------------------------------------------------------------------
(* The type invariant.                                                          *)

TypeInv == TypeOK /\ WellSized(dev)

LEMMA StalledFacts ==
    ASSUME NEW d \in Drivers
    PROVE  LET e == [d EXCEPT !.stall = TRUE] IN
           /\ e \in Drivers /\ e.stall
           /\ e.state = d.state /\ e.packet = d.packet /\ e.nb = d.nb /\ e.prev = d.prev
           /\ e.short = d.short /\ e.out_ready = d.out_ready
           /\ SameRequest(e, d) /\ SameFlags(e, d)
  BY DEF Drivers, SameRequest, SameFlags

LEMMA ErrorType ==
    ASSUME NEW d \in Drivers, WellSized(d)
    PROVE  /\ Underflow(d) \in Drivers /\ WellSized(Underflow(d))
           /\ Overflow(d) \in Drivers /\ WellSized(Overflow(d))
  <1>1. /\ ZlpIn(d) \in Drivers /\ WellSized(ZlpIn(d))
        /\ ZlpOut(d) \in Drivers /\ WellSized(ZlpOut(d))
        /\ [d EXCEPT !.stall = TRUE] \in Drivers /\ WellSized([d EXCEPT !.stall = TRUE])
    BY ZlpInFacts, ZlpOutFacts, StalledFacts DEF WellSized, SameRequest
  <1>2. /\ Underflow(d) \in {ZlpIn(d), [d EXCEPT !.stall = TRUE], d}
        /\ Overflow(d) \in {ZlpOut(d), [d EXCEPT !.stall = TRUE], d}
    BY DEF Underflow, Overflow
  <1> QED  BY <1>1, <1>2

\* The transfers that completed, and those that are ready to.
Ready(d) == (IF d.packet.ready THEN 1 ELSE 0) + (IF d.out_ready THEN 1 ELSE 0)

LEMMA ReadyFacts ==
    ASSUME NEW e, NEW d
    PROVE  /\ Ready(d) \in 0 .. 2
           /\ OneMore(e, d) => Ready(e) <= Ready(d) + 1
           /\ e.packet = d.packet /\ e.out_ready = d.out_ready => Ready(e) = Ready(d)
  BY DEF Ready, OneMore

LEMMA TypeInit == Init => TypeInv
  <1> SUFFICES ASSUME Init PROVE TypeInv
    OBVIOUS
  <1>1. dev \in Drivers /\ dev.nb = 0 /\ dev.payload_size = 0 /\ ~dev.packet.ready /\ ~dev.out_ready
    <2>1. NoPacket \in Packets /\ ~NoPacket.ready /\ "SETUP" \in States
      BY FreshPacket DEF States
    <2> QED  BY <2>1 DEF Init, Fresh, Drivers
  <1>2. fifo = << >> /\ fifo \in Seq({"in", "out"}) /\ Len(fifo) = 0
    BY DEF Init
  <1>3. /\ {setup, unf, ovf, stale} \subseteq BOOLEAN /\ odd \subseteq {"stop", "cut", "nak"}
        /\ buf \in [of : Request \cup {None}, data : BOOLEAN, n : Nat]
    BY DEF Init
  <1>4. host \in [phase : {"idle", "data", "status"}, req : Request \cup {None},
                  got : Nat, early : BOOLEAN, address : Addresses \cup {0}]
    BY DEF Init, Quiet
  <1> QED  BY <1>1, <1>2, <1>3, <1>4 DEF TypeInv, TypeOK, WellSized

\* The types of what the driver does not change, or only takes.
EnvType ==
    /\ buf \in [of : Request \cup {None}, data : BOOLEAN, n : Nat]
    /\ host \in [phase : {"idle", "data", "status"}, req : Request \cup {None},
                 got : Nat, early : BOOLEAN, address : Addresses \cup {0}]
    /\ {setup, unf, ovf, stale} \subseteq BOOLEAN
    /\ odd \subseteq {"stop", "cut", "nak"}

LEMMA Booked ==
    ASSUME NEW d, NEW f \in Seq({"in", "out"})
    PROVE  Len(f) + (IF d.packet.ready THEN 1 ELSE 0) + (IF d.out_ready THEN 1 ELSE 0) <= 2
           <=> Len(f) + Ready(d) <= 2
  <1> DEFINE a == IF d.packet.ready THEN 1 ELSE 0
             b == IF d.out_ready THEN 1 ELSE 0
  <1>1. a \in {0, 1} /\ b \in {0, 1} /\ Ready(d) = a + b /\ Len(f) \in Nat
    BY DEF Ready
  <1> HIDE DEF a, b
  <1>2. Len(f) + a + b <= 2 <=> Len(f) + Ready(d) <= 2
    BY <1>1
  <1> QED  BY <1>2 DEF a, b

LEMMA TypeParts ==
    TypeInv <=> /\ dev \in Drivers /\ WellSized(dev)
                /\ fifo \in Seq({"in", "out"}) /\ Len(fifo) + Ready(dev) <= 2
                /\ EnvType
  <1>1. WellSized(dev) => dev.nb <= dev.payload_size
    BY DEF WellSized
  <1> QED  BY <1>1, Booked DEF TypeInv, TypeOK, EnvType

LEMMA TypePartsNext ==
    ASSUME dev' \in Drivers, WellSized(dev'), fifo' \in Seq({"in", "out"}),
           Len(fifo') + Ready(dev') <= 2, EnvType'
    PROVE  TypeInv'
  <1>1. dev'.nb <= dev'.payload_size
    BY DEF WellSized
  <1>2. Len(fifo') + (IF dev'.packet.ready THEN 1 ELSE 0) + (IF dev'.out_ready THEN 1 ELSE 0) <= 2
    BY Booked
  <1> QED  BY <1>1, <1>2 DEF TypeInv, TypeOK, EnvType

LEMMA ErrorEventType ==
    ASSUME TypeInv, UnderflowEvent \/ OverflowEvent
    PROVE  TypeInv'
  <1>1. /\ dev \in Drivers /\ WellSized(dev)
        /\ fifo \in Seq({"in", "out"}) /\ Len(fifo) + Ready(dev) <= 2
        /\ EnvType
    BY TypeParts
  <1>2. buf.of \in Request \cup {None}
    BY <1>1 DEF EnvType
  <1>3. fifo' = fifo
    BY DEF UnderflowEvent, OverflowEvent
  <1>4. \/ dev' = dev
        \/ fifo = << >> /\ dev' \in {SetupReceived(dev), Underflow(dev), Overflow(dev)}
    BY DEF UnderflowEvent, OverflowEvent, Error
  <1>5. dev' \in Drivers /\ WellSized(dev')
    BY <1>1, <1>2, <1>4, SetupReceivedType, ErrorType
  <1>6. Len(fifo') + Ready(dev') <= 2
    <2>1. CASE dev' = dev
      BY <1>1, <1>3, <2>1
    <2>2. CASE fifo = << >>
      <3>1. Len(fifo) = 0
        BY <2>2
      <3> QED  BY <1>3, <3>1, ReadyFacts
    <2> QED  BY <1>4, <2>1, <2>2
  <1>7. EnvType'
    <2>1. UNCHANGED <<buf, host, stale, odd>> /\ {setup', unf', ovf'} \subseteq BOOLEAN
      BY <1>1 DEF UnderflowEvent, OverflowEvent, Error, EnvType
    <2> QED  BY <1>1, <2>1 DEF EnvType
  <1> QED  BY <1>1, <1>3, <1>5, <1>6, <1>7, TypePartsNext

LEMMA TransferCompleteType ==
    ASSUME TypeInv, TransferComplete
    PROVE  TypeInv'
  <1>1. /\ dev \in Drivers /\ WellSized(dev)
        /\ fifo \in Seq({"in", "out"}) /\ Len(fifo) + Ready(dev) <= 2
        /\ EnvType
    BY TypeParts
  <1>2. buf.of \in Request \cup {None} /\ buf.n \in Nat
    BY <1>1 DEF EnvType
  <1>3. EnvType'
    <2>1. UNCHANGED <<unf, ovf, buf, host, stale, odd>> /\ setup' \in BOOLEAN
      BY <1>1 DEF TransferComplete, EnvType
    <2> QED  BY <1>1, <2>1 DEF EnvType
  <1>4. CASE fifo # << >> /\ fifo' = Tail(fifo)
    <2> DEFINE o == [dev EXCEPT !.tc_out = FALSE]
               i == [dev EXCEPT !.tc_in = FALSE]
    <2>1. /\ o \in Drivers /\ WellSized(o) /\ o.packet = dev.packet /\ o.out_ready = dev.out_ready
          /\ i \in Drivers /\ WellSized(i) /\ i.packet = dev.packet /\ i.out_ready = dev.out_ready
      BY <1>1 DEF Drivers, WellSized
    <2>2. dev' \in {OutReceived(o), InSent(i), dev}
      BY <1>4 DEF TransferComplete
    <2> HIDE DEF o, i
    <2>3. /\ OutReceived(o) \in Drivers /\ WellSized(OutReceived(o)) /\ OneMore(OutReceived(o), o)
          /\ InSent(i) \in Drivers /\ WellSized(InSent(i)) /\ OneMore(InSent(i), i)
      BY <1>2, <2>1, OutReceivedType, InSentType
    <2>4. dev' \in Drivers /\ WellSized(dev')
      BY <1>1, <2>2, <2>3
    <2>5. OneMore(dev', dev)
      BY <2>1, <2>2, <2>3 DEF OneMore
    <2>6. Ready(dev') <= Ready(dev) + 1
      BY <2>5, ReadyFacts
    <2>7. Tail(fifo) \in Seq({"in", "out"}) /\ Len(Tail(fifo)) = Len(fifo) - 1
      BY <1>1, <1>4
    <2>8. Ready(dev) \in Nat /\ Ready(dev') \in Nat /\ Len(fifo) \in Nat
      BY <1>1, ReadyFacts
    <2>9. Len(fifo') + Ready(dev') <= 2
      BY <1>1, <1>4, <2>6, <2>7, <2>8
    <2> QED  BY <1>3, <1>4, <2>4, <2>7, <2>9, TypePartsNext
  <1>5. CASE fifo = << >> /\ dev' = SetupReceived(dev) /\ fifo' = fifo
    <2>1. dev' \in Drivers /\ WellSized(dev')
      BY <1>1, <1>2, <1>5, SetupReceivedType
    <2>2. Len(fifo') = 0
      BY <1>5
    <2>3. Len(fifo') + Ready(dev') <= 2
      BY <2>2, ReadyFacts
    <2> QED  BY <1>1, <1>3, <1>5, <2>1, <2>3, TypePartsNext
  <1> QED  BY <1>4, <1>5 DEF TransferComplete

--------------------------------------------------------------------------------
(* What the hardware changes.                                                   *)

\* With a SETUP packet.
Hushed(d) == [d EXCEPT !.stall = FALSE, !.out_ready = FALSE, !.packet.ready = FALSE]
\* When a packet was sent, or came.
Given(d)  == [d EXCEPT !.packet.ready = FALSE, !.tc_in = TRUE]
Came(d)   == [d EXCEPT !.out_ready = FALSE, !.tc_out = TRUE]

LEMMA HushedFacts ==
    ASSUME NEW d \in Drivers
    PROVE  LET e == Hushed(d) IN
           /\ e \in Drivers
           /\ ~e.stall /\ ~e.out_ready /\ ~e.packet.ready
           /\ e.state = d.state /\ e.nb = d.nb /\ e.prev = d.prev /\ e.short = d.short
           /\ SameRequest(e, d) /\ SameFlags(e, d)
  <1> DEFINE p == [d.packet EXCEPT !.ready = FALSE]
  <1>1. p \in Packets /\ ~p.ready
    BY Taken, DriverType
  <1>2. Hushed(d) = [d EXCEPT !.stall = FALSE, !.out_ready = FALSE, !.packet = p]
    BY DEF Hushed, Drivers
  <1> HIDE DEF p
  <1> QED  BY <1>1, <1>2 DEF Drivers, SameRequest, SameFlags

LEMMA GivenFacts ==
    ASSUME NEW d \in Drivers
    PROVE  LET e == Given(d) IN
           /\ e \in Drivers
           /\ e.tc_in /\ ~e.packet.ready
           /\ e.state = d.state /\ e.nb = d.nb /\ e.prev = d.prev /\ e.short = d.short
           /\ e.out_ready = d.out_ready /\ e.stall = d.stall /\ SameRequest(e, d)
           /\ e.tc_out = d.tc_out /\ e.irq = d.irq /\ e.in_unf = d.in_unf /\ e.out_ovf = d.out_ovf
  <1> DEFINE p == [d.packet EXCEPT !.ready = FALSE]
  <1>1. p \in Packets /\ ~p.ready
    BY Taken, DriverType
  <1>2. Given(d) = [d EXCEPT !.packet = p, !.tc_in = TRUE]
    BY DEF Given, Drivers
  <1> HIDE DEF p
  <1> QED  BY <1>1, <1>2 DEF Drivers, SameRequest

LEMMA CameFacts ==
    ASSUME NEW d \in Drivers
    PROVE  LET e == Came(d) IN
           /\ e \in Drivers
           /\ e.tc_out /\ ~e.out_ready
           /\ e.state = d.state /\ e.nb = d.nb /\ e.prev = d.prev /\ e.short = d.short
           /\ e.packet = d.packet /\ e.stall = d.stall /\ SameRequest(e, d)
           /\ e.tc_in = d.tc_in /\ e.irq = d.irq /\ e.in_unf = d.in_unf /\ e.out_ovf = d.out_ovf
  BY DEF Came, Drivers, SameRequest

LEMMA FlaggedFacts ==
    ASSUME NEW d \in Drivers
    PROVE  /\ LET e == [d EXCEPT !.in_unf = TRUE] IN
              /\ e \in Drivers
              /\ e.state = d.state /\ e.nb = d.nb /\ e.prev = d.prev /\ e.short = d.short
              /\ e.packet = d.packet /\ e.out_ready = d.out_ready /\ e.stall = d.stall
              /\ SameRequest(e, d) /\ e.tc_in = d.tc_in /\ e.tc_out = d.tc_out
              /\ e.irq = d.irq /\ e.out_ovf = d.out_ovf
           /\ LET e == [d EXCEPT !.out_ovf = TRUE] IN
              /\ e \in Drivers
              /\ e.state = d.state /\ e.nb = d.nb /\ e.prev = d.prev /\ e.short = d.short
              /\ e.packet = d.packet /\ e.out_ready = d.out_ready /\ e.stall = d.stall
              /\ SameRequest(e, d) /\ e.tc_in = d.tc_in /\ e.tc_out = d.tc_out
              /\ e.irq = d.irq /\ e.in_unf = d.in_unf
  BY DEF Drivers, SameRequest

LEMMA FreshFacts ==
    ASSUME NEW s \in BOOLEAN, NEW c \in BOOLEAN
    PROVE  LET e == Fresh(s, c) IN
           /\ e \in Drivers /\ e.state = "SETUP" /\ e.nb = 0 /\ e.payload_size = 0
           /\ ~e.packet.ready /\ ~e.out_ready /\ ~e.stall /\ ~e.irq /\ ~e.callback
           /\ ~e.in_unf /\ ~e.out_ovf /\ e.coding = c /\ e.address = 0
           /\ ~e.tc_in /\ ~e.tc_out
  <1>1. NoPacket \in Packets /\ ~NoPacket.ready /\ "SETUP" \in States
    BY FreshPacket DEF States
  <1> QED  BY <1>1 DEF Fresh, Drivers

HostType == [phase : {"idle", "data", "status"}, req : Request \cup {None},
             got : Nat, early : BOOLEAN, address : Addresses \cup {0}]

LEMMA SetupType ==
    ASSUME TypeInv, NEW q \in Request, Setup(q)
    PROVE  TypeInv'
  <1>1. /\ dev \in Drivers /\ WellSized(dev)
        /\ fifo \in Seq({"in", "out"}) /\ Len(fifo) + Ready(dev) <= 2
        /\ EnvType
    BY TypeParts
  <1>2. dev' = Hushed(dev) /\ fifo' = fifo
    BY DEF Setup, Hushed
  <1>3. dev' \in Drivers /\ WellSized(dev') /\ ~dev'.packet.ready /\ ~dev'.out_ready
    BY <1>1, <1>2, HushedFacts DEF WellSized, SameRequest
  <1>4. Ready(dev') = 0 /\ Ready(dev) \in Nat /\ Len(fifo) \in Nat
    BY <1>1, <1>3, ReadyFacts DEF Ready
  <1>5. host' \in HostType
    <2>1. host \in HostType
      BY <1>1 DEF EnvType, HostType
    <2>2. host' = [host EXCEPT !.phase = IF q.kind = "address" THEN "status" ELSE "data",
                               !.req = q, !.got = 0, !.early = FALSE]
      BY DEF Setup
    <2> QED  BY <2>1, <2>2 DEF HostType
  <1>6. EnvType'
    <2>1. buf' = [of |-> q, data |-> FALSE, n |-> 8] /\ setup' = TRUE /\ odd' \subseteq odd \cup {"cut"}
          /\ UNCHANGED <<unf, ovf, stale>>
      BY DEF Setup
    <2>2. buf' \in [of : Request \cup {None}, data : BOOLEAN, n : Nat]
      BY <2>1
    <2> QED  BY <1>1, <1>5, <2>1, <2>2 DEF EnvType, HostType
  <1> QED  BY <1>1, <1>2, <1>3, <1>4, <1>6, TypePartsNext

LEMMA InType ==
    ASSUME TypeInv, In
    PROVE  TypeInv'
  <1>1. /\ dev \in Drivers /\ WellSized(dev)
        /\ fifo \in Seq({"in", "out"}) /\ Len(fifo) + Ready(dev) <= 2
        /\ EnvType
    BY TypeParts
  <1>2. host \in HostType /\ {setup, unf, ovf, stale} \subseteq BOOLEAN
    BY <1>1 DEF EnvType, HostType
  <1>3. UNCHANGED <<setup, ovf, buf, odd>>
    BY DEF In
  <1>4. CASE UNCHANGED <<dev, fifo, unf, stale>> /\ host' = Ends(host)
    <2>1. host' \in HostType
      BY <1>2, <1>4 DEF Ends, HostType
    <2>2. EnvType'
      BY <1>1, <1>3, <1>4, <2>1 DEF EnvType, HostType
    <2> QED  BY <1>1, <1>4, <2>2, TypePartsNext
  <1>5. CASE unf' = TRUE /\ dev' = [dev EXCEPT !.in_unf = TRUE] /\ UNCHANGED <<fifo, host, stale>>
    <2>1. /\ dev' \in Drivers /\ WellSized(dev')
          /\ dev'.packet = dev.packet /\ dev'.out_ready = dev.out_ready
      BY <1>1, <1>5, FlaggedFacts DEF WellSized, SameRequest
    <2>2. EnvType'
      BY <1>1, <1>3, <1>5 DEF EnvType
    <2> QED  BY <1>1, <1>5, <2>1, <2>2, ReadyFacts, TypePartsNext
  <1>6. CASE /\ dev.packet.ready
             /\ dev' = Given(dev) /\ fifo' = Append(fifo, "in") /\ stale' \in BOOLEAN
             /\ unf' = unf
             /\ \/ host' = [Ends(host) EXCEPT !.address =
                              IF host.req.kind = "address" THEN host.req.v ELSE @]
                \/ \E s \in {"status", "data"} :
                     host' = [host EXCEPT !.got = host.got + dev.packet.n, !.phase = s]
    <2>1. /\ dev' \in Drivers /\ WellSized(dev')
          /\ ~dev'.packet.ready /\ dev'.out_ready = dev.out_ready
      BY <1>1, <1>6, GivenFacts DEF WellSized, SameRequest
    <2>2. Ready(dev') + 1 = Ready(dev)
      BY <1>6, <2>1 DEF Ready
    <2>3. fifo' \in Seq({"in", "out"}) /\ Len(fifo') = Len(fifo) + 1 /\ Len(fifo) \in Nat
      BY <1>1, <1>6
    <2>4. Len(fifo') + Ready(dev') <= 2
      BY <1>1, <2>2, <2>3, ReadyFacts
    <2>5. host' \in HostType
      <3>1. CASE host' = [Ends(host) EXCEPT !.address =
                            IF host.req.kind = "address" THEN host.req.v ELSE @]
        <4>1. host.req.v \in Addresses \cup {0} /\ host.address \in Addresses \cup {0}
          BY <1>2, Carried DEF HostType
        <4> QED  BY <1>2, <3>1, <4>1 DEF Ends, HostType
      <3>2. CASE \E s \in {"status", "data"} :
                   host' = [host EXCEPT !.got = host.got + dev.packet.n, !.phase = s]
        <4> DEFINE g == host.got + dev.packet.n
        <4>1. g \in Nat
          BY <1>1, <1>2, DriverType DEF HostType
        <4> HIDE DEF g
        <4>2. PICK s \in {"status", "data"} : host' = [host EXCEPT !.got = g, !.phase = s]
          BY <3>2 DEF g
        <4> QED  BY <1>2, <4>1, <4>2 DEF HostType
      <3> QED  BY <1>6, <3>1, <3>2
    <2>6. EnvType'
      BY <1>1, <1>3, <1>6, <2>5 DEF EnvType, HostType
    <2> QED  BY <2>1, <2>3, <2>4, <2>6, TypePartsNext
  <1>7. stale' \in BOOLEAN
    BY <1>2 DEF In
  <1> QED  BY <1>4, <1>5, <1>6, <1>7 DEF In, Given

LEMMA OutType ==
    ASSUME TypeInv, Out
    PROVE  TypeInv'
  <1>1. /\ dev \in Drivers /\ WellSized(dev)
        /\ fifo \in Seq({"in", "out"}) /\ Len(fifo) + Ready(dev) <= 2
        /\ EnvType
    BY TypeParts
  <1>2. host \in HostType
    BY <1>1 DEF EnvType, HostType
  <1>3. UNCHANGED <<setup, unf, stale, odd>>
    BY DEF Out
  <1>4. host' \in HostType
    BY <1>2 DEF Out, Ends, HostType
  <1>5. CASE UNCHANGED <<dev, fifo, ovf, buf>>
    <2>1. EnvType'
      BY <1>1, <1>3, <1>4, <1>5 DEF EnvType, HostType
    <2> QED  BY <1>1, <1>5, <2>1, TypePartsNext
  <1>6. CASE ovf' = TRUE /\ dev' = [dev EXCEPT !.out_ovf = TRUE] /\ UNCHANGED <<fifo, buf>>
    <2>1. /\ dev' \in Drivers /\ WellSized(dev')
          /\ dev'.packet = dev.packet /\ dev'.out_ready = dev.out_ready
      BY <1>1, <1>6, FlaggedFacts DEF WellSized, SameRequest
    <2>2. EnvType'
      BY <1>1, <1>3, <1>4, <1>6 DEF EnvType, HostType
    <2> QED  BY <1>1, <1>6, <2>1, <2>2, ReadyFacts, TypePartsNext
  <1>7. CASE /\ dev.out_ready
             /\ dev' = Came(dev) /\ fifo' = Append(fifo, "out") /\ ovf' = ovf
             /\ buf' = [of |-> None, data |-> TRUE,
                        n |-> IF StatOut(host) THEN 0 ELSE host.req.w]
    <2>1. /\ dev' \in Drivers /\ WellSized(dev')
          /\ ~dev'.out_ready /\ dev'.packet = dev.packet
      BY <1>1, <1>7, CameFacts DEF WellSized, SameRequest
    <2>2. Ready(dev') + 1 = Ready(dev)
      BY <1>7, <2>1 DEF Ready
    <2>3. fifo' \in Seq({"in", "out"}) /\ Len(fifo') = Len(fifo) + 1 /\ Len(fifo) \in Nat
      BY <1>1, <1>7
    <2>4. Len(fifo') + Ready(dev') <= 2
      BY <1>1, <2>2, <2>3, ReadyFacts
    <2>5. host.req.w \in Nat
      BY <1>2, Carried DEF HostType
    <2>6. buf' \in [of : Request \cup {None}, data : BOOLEAN, n : Nat]
      BY <1>7, <2>5
    <2>7. EnvType'
      BY <1>1, <1>3, <1>4, <1>7, <2>6 DEF EnvType, HostType
    <2> QED  BY <2>1, <2>3, <2>4, <2>7, TypePartsNext
  <1> QED  BY <1>5, <1>6, <1>7 DEF Out, Came

LEMMA ResetType ==
    ASSUME TypeInv, Reset
    PROVE  TypeInv'
  <1>1. dev \in Drivers /\ EnvType
    BY TypeParts
  <1>2. dev.short \in BOOLEAN /\ dev.coding \in BOOLEAN
    BY <1>1, DriverType
  <1>3. dev' = Fresh(dev.short, dev.coding) /\ UNCHANGED hwVars
    BY DEF Reset
  <1>4. dev' \in Drivers /\ WellSized(dev') /\ Ready(dev') = 0
    BY <1>2, <1>3, FreshFacts DEF WellSized, Ready
  <1>5. host' \in HostType
    BY DEF Reset, Quiet, HostType
  <1>6. EnvType'
    BY <1>1, <1>5 DEF EnvType, HostType, Reset, hwVars
  <1>7. fifo' \in Seq({"in", "out"}) /\ Len(fifo') + Ready(dev') <= 2
    <2>1. Len(fifo) + Ready(dev) <= 2 /\ fifo \in Seq({"in", "out"}) /\ Len(fifo) \in Nat
      BY TypeParts
    <2>2. Ready(dev) \in 0 .. 2
      BY DEF Ready
    <2> QED  BY <1>3, <1>4, <2>1, <2>2 DEF hwVars
  <1> QED  BY <1>4, <1>6, <1>7, TypePartsNext

LEMMA NextType == TypeInv /\ [Next]_vars => TypeInv'
  <1> SUFFICES ASSUME TypeInv, [Next]_vars PROVE TypeInv'
    OBVIOUS
  <1>1. /\ dev \in Drivers /\ WellSized(dev)
        /\ fifo \in Seq({"in", "out"}) /\ Len(fifo) + Ready(dev) <= 2
        /\ EnvType
    BY TypeParts
  <1>2. CASE Isr
    BY <1>2, ErrorEventType, TransferCompleteType DEF Isr
  <1>3. CASE \E q \in Request : Setup(q)
    BY <1>3, SetupType
  <1>4. CASE In \/ Out \/ Reset
    BY <1>4, InType, OutType, ResetType
  <1>5. CASE GoOn
    <2>1. host' \in HostType
      BY <1>1, <1>5 DEF GoOn, EnvType, HostType
    <2>2. EnvType'
      BY <1>1, <1>5, <2>1 DEF GoOn, EnvType, HostType, hwVars
    <2>3. UNCHANGED <<dev, fifo>>
      BY <1>5 DEF GoOn, hwVars
    <2> QED  BY <1>1, <2>2, <2>3, TypePartsNext
  <1>6. CASE Nak
    <2>1. EnvType'
      BY <1>1, <1>6 DEF Nak, EnvType
    <2>2. UNCHANGED <<dev, fifo>>
      BY <1>6 DEF Nak
    <2> QED  BY <1>1, <2>1, <2>2, TypePartsNext
  <1>7. CASE UNCHANGED vars
    <2>1. UNCHANGED <<dev, fifo, setup, unf, ovf, buf, host, stale, odd>>
      BY <1>7 DEF vars, hwVars
    <2>2. EnvType'
      BY <1>1, <2>1 DEF EnvType
    <2> QED  BY <1>1, <2>1, <2>2, TypePartsNext
  <1> QED  BY <1>2, <1>3, <1>4, <1>5, <1>6, <1>7 DEF Next

--------------------------------------------------------------------------------
(* The inductive invariant, as long as the host ends one request before the     *)
(* next: one transfer at a time, the one that the state waits for.              *)

NoCut == "cut" \notin odd

SentOne == <<"in">>
CameOne == <<"out">>

FifoInv ==
    /\ fifo \in {<< >>, SentOne, CameOne} /\ (fifo # << >> => ~dev.stall)
    /\ fifo = SentOne /\ dev.state # "SETUP"
           => dev.tc_in /\ ~dev.packet.ready /\ dev.state \in {"DATA_IN", "WAIT_IN_ZLP"}
    /\ fifo = CameOne /\ dev.state # "SETUP"
           => dev.tc_out /\ ~dev.out_ready /\ dev.state \in {"DATA_OUT", "WAIT_OUT_ZLP"}

\* A SETUP packet that waits to be taken.
PendingInv ==
    setup =>
        /\ buf.of = host.req /\ ~buf.data /\ host.req \in Request
        /\ host.phase # "idle" /\ host.got = 0
        /\ host.req.kind # "address" /\ ~host.early => host.phase = "data"
        /\ ~dev.packet.ready /\ ~dev.out_ready /\ ~dev.stall
        /\ dev.state \notin {"DATA_IN", "DATA_OUT"}

\* The request of the host is the one that the driver works on.
HostInv ==
    /\ host.early => host.phase # "data" /\ "stop" \in odd
    /\ host.req.kind = "address" => host.phase # "data"
    /\ host.phase # "idle" => host.req \in Request
    /\ ~setup /\ dev.state # "SETUP" => dev.req = host.req /\ dev.req \in Request

\* What the endpoint's flags say is of the request.
FlagInv ==
    ~setup \/ dev.state = "SETUP" =>
        /\ dev.out_ovf => host.req.kind # "address"
        /\ dev.out_ovf /\ host.req.kind = "read" => host.phase # "data"
        /\ dev.in_unf /\ host.req.kind = "coding" => host.phase # "data"

\* A transfer that is left from before a bus reset is not taken for a new one.
SetupInv ==
    dev.state = "SETUP" =>
        /\ fifo # << >> => ~dev.tc_in /\ ~dev.tc_out
        /\ ~dev.stall /\ ~dev.packet.ready
        /\ ~setup => host.phase = "idle" /\ ~dev.in_unf /\ ~dev.out_ovf

ReadInv ==
    dev.state = "DATA_IN" =>
        /\ ~setup /\ ~dev.stall /\ host.phase # "idle" /\ dev.req.kind = "read" /\ ~dev.out_ready
        /\ dev.payload_size = dev.req.p
        /\ dev.prev = 0 \/ dev.short
        /\ dev.short => dev.nb = dev.payload_size
        /\ \/ /\ fifo = << >> /\ dev.packet.ready
              /\ dev.packet.of = dev.req
              /\ dev.packet.from = host.got
              /\ dev.packet.from + dev.packet.n = dev.nb
              /\ dev.short <=> dev.packet.n < Size
              /\ host.phase = "data" \/ host.early
           \/ /\ fifo = SentOne /\ host.got = dev.nb
              /\ host.early \/ (host.phase = "data" <=> ~dev.short /\ dev.nb < dev.req.w)

ReadEndInv ==
    dev.state = "WAIT_OUT_ZLP" =>
        /\ fifo # SentOne
        /\ ~setup => /\ dev.req.kind = "read" /\ host.phase # "data"
                     /\ ~host.early => host.got = dev.req.p
                     /\ fifo = CameOne => host.phase = "idle"
                     /\ fifo = << >> => dev.out_ready
                     /\ fifo = << >> /\ host.phase = "idle" => dev.stall

WriteInv ==
    dev.state = "DATA_OUT" =>
        /\ ~setup /\ ~dev.stall /\ dev.req.kind = "coding"
        /\ dev.payload_size = Coding /\ dev.nb = 0 /\ ~dev.packet.ready
        /\ \/ /\ fifo = << >> /\ dev.out_ready
              /\ host.phase = "data" \/ (host.phase = "status" /\ host.early)
           \/ fifo = CameOne /\ buf.data /\ host.phase = "status"

HandshakeInv ==
    dev.state = "WAIT_IN_ZLP" =>
        /\ fifo # CameOne
        /\ ~setup => /\ dev.req.kind \in {"coding", "address"} /\ host.phase # "data"
                     /\ fifo = SentOne => host.phase = "idle"
                     /\ fifo = << >> => dev.packet.ready /\ dev.packet.of = dev.req /\ dev.packet.n = 0
                     /\ fifo = << >> /\ host.phase = "idle" => dev.stall
        /\ dev.req.kind = "address" /\ ~setup => ~dev.stall

StallInv ==
    dev.state = "STALL_REQ" =>
        /\ fifo = << >> /\ ~dev.packet.ready /\ ~dev.out_ready
        /\ ~setup => dev.req.kind = "unknown" /\ dev.stall

\* The callback is that of SET_ADDRESS, which waits for its handshake.
AddressInv ==
    /\ dev.callback <=> dev.state = "WAIT_IN_ZLP" /\ dev.req.kind = "address"
    /\ dev.callback => dev.req.v \in Addresses /\ dev.req \in Request
    /\ IF dev.callback /\ fifo = SentOne THEN host.address = dev.req.v
       ELSE host.address = dev.address
    /\ setup => Answers /\ (dev.callback => fifo # << >>)

Good ==
    /\ ~stale /\ dev.coding
    /\ dev.irq <=> dev.state # "SETUP"
    /\ FifoInv /\ PendingInv /\ HostInv /\ FlagInv /\ SetupInv /\ ReadInv /\ ReadEndInv
    /\ WriteInv /\ HandshakeInv /\ StallInv /\ AddressInv

\* Nothing has been stopped, and no other endpoint has answered NAK.
KnownInv ==
    odd = {} =>
        /\ dev.stall => dev.state = "STALL_REQ"
        /\ unf /\ dev.state = "WAIT_OUT_ZLP" => setup
        /\ ovf /\ dev.out_ovf /\ dev.state = "WAIT_IN_ZLP" => setup

IInv == TypeInv /\ (NoCut => Good /\ KnownInv)

LEMMA OneTransfer == SentOne # << >> /\ CameOne # << >> /\ SentOne # CameOne
                     /\ Tail(SentOne) = << >> /\ Tail(CameOne) = << >>
                     /\ Head(SentOne) = "in" /\ Head(CameOne) = "out"
                     /\ Append(<< >>, "in") = SentOne /\ Append(<< >>, "out") = CameOne
  BY DEF SentOne, CameOne

\* The driver when a transfer is taken.
LEMMA ForgottenFacts ==
    ASSUME NEW d \in Drivers
    PROVE  /\ LET e == [d EXCEPT !.tc_in = FALSE] IN
              /\ e \in Drivers
              /\ e.state = d.state /\ e.nb = d.nb /\ e.prev = d.prev /\ e.short = d.short
              /\ e.packet = d.packet /\ e.out_ready = d.out_ready /\ e.stall = d.stall
              /\ SameRequest(e, d) /\ e.tc_out = d.tc_out
              /\ e.irq = d.irq /\ e.in_unf = d.in_unf /\ e.out_ovf = d.out_ovf
           /\ LET e == [d EXCEPT !.tc_out = FALSE] IN
              /\ e \in Drivers
              /\ e.state = d.state /\ e.nb = d.nb /\ e.prev = d.prev /\ e.short = d.short
              /\ e.packet = d.packet /\ e.out_ready = d.out_ready /\ e.stall = d.stall
              /\ SameRequest(e, d) /\ e.tc_in = d.tc_in
              /\ e.irq = d.irq /\ e.in_unf = d.in_unf /\ e.out_ovf = d.out_ovf
  BY DEF Drivers, SameRequest

\* The handshake of a request was sent, or came.
LEMMA EndStep ==
    ASSUME TypeInv, Good, KnownInv, TransferComplete,
           \/ fifo = SentOne /\ dev.state = "WAIT_IN_ZLP"
           \/ fifo = CameOne /\ dev.state = "WAIT_OUT_ZLP"
    PROVE  Good' /\ KnownInv'
  <1>1. dev \in Drivers
    BY TypeParts
  <1>2. PICK d \in Drivers :
            /\ dev' = CtrlInit(EndOfRequest(d))
            /\ d.req = dev.req /\ d.callback = dev.callback /\ d.address = dev.address
            /\ d.coding = dev.coding /\ d.out_ready = dev.out_ready /\ d.stall = dev.stall
    <2>1. CASE fifo = SentOne /\ dev.state = "WAIT_IN_ZLP"
      <3> DEFINE d == [dev EXCEPT !.tc_in = FALSE]
      <3>1. d \in Drivers /\ d.state = dev.state /\ d.out_ready = dev.out_ready
            /\ d.stall = dev.stall /\ SameRequest(d, dev)
        BY <1>1, ForgottenFacts
      <3>2. dev' = InSent(d)
        BY <2>1, OneTransfer DEF TransferComplete, Good, FifoInv
      <3> HIDE DEF d
      <3>3. dev' = CtrlInit(EndOfRequest(d))
        BY <2>1, <3>1, <3>2 DEF InSent
      <3> QED  BY <3>1, <3>3 DEF SameRequest
    <2>2. CASE fifo = CameOne /\ dev.state = "WAIT_OUT_ZLP"
      <3> DEFINE d == [dev EXCEPT !.tc_out = FALSE]
      <3>1. d \in Drivers /\ d.state = dev.state /\ d.out_ready = dev.out_ready
            /\ d.stall = dev.stall /\ SameRequest(d, dev)
        BY <1>1, ForgottenFacts
      <3>2. dev' = OutReceived(d)
        BY <2>2, OneTransfer DEF TransferComplete, Good, FifoInv
      <3> HIDE DEF d
      <3>3. dev' = CtrlInit(EndOfRequest(d))
        BY <2>2, <3>1, <3>2 DEF OutReceived
      <3> QED  BY <3>1, <3>3 DEF SameRequest
    <2> QED  BY <2>1, <2>2
  <1>3. /\ dev'.state = "SETUP" /\ ~dev'.irq /\ ~dev'.in_unf /\ ~dev'.out_ovf /\ ~dev'.packet.ready
        /\ ~dev'.callback
        /\ dev'.req = dev.req /\ dev'.out_ready = dev.out_ready /\ dev'.stall = dev.stall
        /\ dev'.coding = dev.coding
        /\ dev'.address = IF dev.callback THEN dev.req.v ELSE dev.address
    BY <1>2, EndFacts
  <1>4. fifo' = << >> /\ UNCHANGED <<setup, unf, ovf, buf, host, stale, odd>>
    BY OneTransfer DEF TransferComplete
  <1> QED
    BY <1>3, <1>4, OneTransfer
    DEF Good, KnownInv, FifoInv, PendingInv, HostInv, FlagInv, SetupInv, ReadInv, ReadEndInv,
        WriteInv, HandshakeInv, StallInv, AddressInv, Answers

\* A packet of a read was sent.
LEMMA SentStep ==
    ASSUME TypeInv, Good, KnownInv, TransferComplete, fifo = SentOne, dev.state = "DATA_IN"
    PROVE  Good' /\ KnownInv'
  <1> DEFINE d == [dev EXCEPT !.tc_in = FALSE]
  <1>1. dev \in Drivers /\ host.got \in Nat /\ dev.nb <= dev.payload_size
    BY TypeParts DEF EnvType, WellSized
  <1>2. dev' = InSent(d)
    BY OneTransfer DEF TransferComplete, Good, FifoInv
  <1>3. /\ d \in Drivers
        /\ d.state = dev.state /\ d.nb = dev.nb /\ d.prev = dev.prev /\ d.short = dev.short
        /\ d.packet = dev.packet /\ d.out_ready = dev.out_ready /\ d.stall = dev.stall
        /\ SameRequest(d, dev) /\ d.tc_out = dev.tc_out
        /\ d.irq = dev.irq /\ d.in_unf = dev.in_unf /\ d.out_ovf = dev.out_ovf
    BY <1>1, ForgottenFacts
  <1> HIDE DEF d
  <1>4. /\ fifo' = << >> /\ UNCHANGED <<setup, unf, ovf, buf, host, stale, odd>>
    BY OneTransfer DEF TransferComplete
  <1>5. ~unf /\ ~ovf
    BY DEF TransferComplete, Good
  <1>6. /\ dev.nb \in Nat /\ dev.prev \in Nat /\ dev.req.p \in Nat /\ dev.req.w \in Nat
        /\ dev.req.p <= dev.req.w /\ dev.nb <= dev.req.p
        /\ d.payload_size = dev.req.p /\ d.req = dev.req
    BY <1>1, <1>3, DriverType, OneRequest DEF Good, HostInv, ReadInv, SameRequest
  <1>7. CASE dev.payload_size # dev.nb
    <2>1. dev' = SendNext(d)
      BY <1>2, <1>3, <1>7 DEF InSent, SameRequest
    <2>2. /\ dev'.packet.ready /\ dev'.packet.of = d.req /\ dev'.packet.from = d.nb
          /\ dev'.nb = d.nb + dev'.packet.n
          /\ dev'.short <=> dev'.packet.n < Size
          /\ dev'.short => dev'.nb = dev'.payload_size
          /\ dev'.state = d.state /\ dev'.prev = d.prev
          /\ dev'.out_ready = d.out_ready /\ dev'.stall = d.stall
          /\ SameRequest(dev', d) /\ SameFlags(dev', d)
      BY <1>1, <1>3, <2>1, SendNextFacts DEF SameRequest
    <2>3. dev.nb < dev.req.w /\ ~dev.short /\ dev.prev = 0
      BY <1>6, <1>7 DEF Good, ReadInv
    <2> QED
      BY <1>3, <1>4, <1>5, <2>2, <2>3, OneTransfer
      DEF Good, KnownInv, FifoInv, PendingInv, HostInv, FlagInv, SetupInv, ReadInv, ReadEndInv,
          WriteInv, HandshakeInv, StallInv, AddressInv, Answers, SameRequest, SameFlags
  <1>8. CASE dev.payload_size = dev.nb
    <2>1. /\ dev'.nb = d.nb /\ dev'.prev = d.prev + d.nb
          /\ dev'.stall = d.stall /\ SameRequest(dev', d) /\ SameFlags(dev', d)
          /\ IF d.req.w = d.prev + d.nb \/ d.short
             THEN /\ dev'.state = "WAIT_OUT_ZLP" /\ dev'.out_ready /\ dev'.packet = d.packet
             ELSE /\ dev'.state = d.state /\ dev'.out_ready = d.out_ready
                  /\ dev'.packet.ready /\ dev'.packet.of = d.req /\ dev'.packet.from = d.nb
                  /\ dev'.packet.n = 0 /\ dev'.short
      BY <1>2, <1>3, <1>8, AllSentFacts DEF SameRequest
    <2>2. CASE dev.req.w = dev.prev + dev.nb \/ dev.short
      <3>1. host.phase # "data"
        BY <1>6, <1>8, <2>2, OneTransfer DEF Good, HostInv, ReadInv
      <3>2. dev'.state = "WAIT_OUT_ZLP" /\ dev'.out_ready /\ dev'.packet = dev.packet
        BY <1>3, <1>6, <2>1, <2>2
      <3> QED
        BY <1>3, <1>4, <1>5, <1>6, <1>8, <2>1, <3>1, <3>2, OneTransfer
        DEF Good, KnownInv, FifoInv, PendingInv, HostInv, FlagInv, SetupInv, ReadInv, ReadEndInv,
            WriteInv, HandshakeInv, StallInv, AddressInv, Answers, SameRequest, SameFlags
    <2>3. CASE ~(dev.req.w = dev.prev + dev.nb \/ dev.short)
      <3>1. host.phase = "data" \/ host.early
        BY <1>6, <2>3 DEF Good, ReadInv
      <3>2. /\ dev'.state = dev.state /\ dev'.out_ready = dev.out_ready
            /\ dev'.packet.ready /\ dev'.packet.of = dev.req /\ dev'.packet.from = dev.nb
            /\ dev'.packet.n = 0 /\ dev'.short
        BY <1>3, <1>6, <2>1, <2>3
      <3>3. dev'.packet.from + dev'.packet.n = dev'.nb /\ dev'.packet.n < Size
        BY <1>3, <1>6, <2>1, <3>2, SizeAssumption
      <3> QED
        BY <1>3, <1>4, <1>5, <1>8, <2>1, <3>1, <3>2, <3>3, OneTransfer
        DEF Good, KnownInv, FifoInv, PendingInv, HostInv, FlagInv, SetupInv, ReadInv, ReadEndInv,
            WriteInv, HandshakeInv, StallInv, AddressInv, Answers, SameRequest, SameFlags
    <2> QED  BY <2>2, <2>3
  <1> QED  BY <1>7, <1>8

\* The data of a write came.
LEMMA CameStep ==
    ASSUME TypeInv, Good, KnownInv, TransferComplete, fifo = CameOne, dev.state = "DATA_OUT"
    PROVE  Good' /\ KnownInv'
  <1> DEFINE d == [dev EXCEPT !.tc_out = FALSE]
  <1>1. dev \in Drivers /\ buf.n \in Nat
    BY TypeParts DEF EnvType
  <1>2. dev' = OutReceived(d)
    BY OneTransfer DEF TransferComplete, Good, FifoInv
  <1>3. /\ d \in Drivers
        /\ d.state = dev.state /\ d.nb = dev.nb /\ d.stall = dev.stall
        /\ d.out_ready = dev.out_ready /\ SameRequest(d, dev)
        /\ d.irq = dev.irq /\ d.in_unf = dev.in_unf /\ d.out_ovf = dev.out_ovf
    BY <1>1, ForgottenFacts
  <1> HIDE DEF d
  <1>4. /\ fifo' = << >> /\ UNCHANGED <<setup, unf, ovf, buf, host, stale, odd>>
    BY OneTransfer DEF TransferComplete
  <1>5. ~unf /\ ~ovf
    BY DEF TransferComplete, Good
  <1>6. d.state = "DATA_OUT" /\ d.nb = 0 /\ d.payload_size = Coding /\ d.coding /\ buf.data
    BY <1>3, OneTransfer DEF Good, WriteInv, SameRequest
  <1>7. /\ dev'.state = "WAIT_IN_ZLP" /\ dev'.coding
        /\ dev'.packet.ready /\ dev'.packet.of = d.req /\ dev'.packet.n = 0
        /\ dev'.req = d.req /\ dev'.callback = d.callback /\ dev'.address = d.address
        /\ dev'.out_ready = d.out_ready /\ dev'.stall = d.stall /\ SameFlags(dev', d)
    BY <1>1, <1>2, <1>3, <1>6, WrittenFacts
  <1> QED
    BY <1>3, <1>4, <1>5, <1>7, OneTransfer
    DEF Good, KnownInv, FifoInv, PendingInv, HostInv, FlagInv, SetupInv, ReadInv, ReadEndInv,
        WriteInv, HandshakeInv, StallInv, AddressInv, Answers, SameRequest, SameFlags

\* A SETUP packet is taken.
LEMMA SetupTaken ==
    ASSUME TypeInv, Good, KnownInv, fifo = << >>, setup, dev' = SetupReceived(dev),
           ~setup', UNCHANGED <<fifo, buf, host, stale, odd>>
    PROVE  Good' /\ KnownInv'
  <1>1. dev \in Drivers /\ WellSized(dev)
    BY TypeParts
  <1>2. /\ ~dev.callback /\ buf.of = host.req /\ buf.of \in Request /\ ~buf.data
        /\ ~dev.stall /\ ~dev.out_ready /\ ~dev.packet.ready
    BY DEF Good, PendingInv, AddressInv
  <1>3. Begins(dev', dev) /\ dev'.coding
    <2>1. dev.coding
      BY DEF Good
    <2>2. ASSUME buf.of.kind = "unknown" PROVE Begins(dev', dev)
      BY <1>1, <1>2, <2>2, RefusedFacts
    <2>3. ASSUME buf.of.kind = "read" PROVE Begins(dev', dev)
      BY <1>1, <1>2, <2>3, ReadFacts
    <2>4. ASSUME buf.of.kind = "address" PROVE Begins(dev', dev)
      BY <1>1, <1>2, <2>4, AddressFacts
    <2>5. ASSUME buf.of.kind = "coding" PROVE Begins(dev', dev)
      BY <1>1, <1>2, <2>5, CodingFacts
    <2>6. buf.of.kind \in {"read", "coding", "address", "unknown"}
      BY <1>2, OneRequest
    <2>7. Begins(dev', dev)
      BY <2>2, <2>3, <2>4, <2>5, <2>6
    <2> QED  BY <2>1, <2>7 DEF Begins
  <1>4. CASE buf.of.kind = "unknown"
    <2>1. /\ dev'.state = "STALL_REQ" /\ dev'.stall /\ ~dev'.packet.ready /\ ~dev'.out_ready
      BY <1>1, <1>2, <1>4, RefusedFacts
    <2> QED
      BY <1>2, <1>3, <1>4, <2>1, OneTransfer
      DEF Good, KnownInv, FifoInv, PendingInv, HostInv, FlagInv, SetupInv, ReadInv, ReadEndInv,
          WriteInv, HandshakeInv, StallInv, AddressInv, Answers, Begins
  <1>5. CASE buf.of.kind = "read"
    <2>1. /\ dev'.state = "DATA_IN" /\ dev'.payload_size = buf.of.p /\ dev'.prev = 0
          /\ dev'.packet.ready /\ dev'.packet.of = buf.of /\ dev'.packet.from = 0
          /\ dev'.packet.n = dev'.nb
          /\ dev'.short <=> dev'.packet.n < Size
          /\ dev'.short => dev'.nb = dev'.payload_size
          /\ dev' \in Drivers /\ ~dev'.out_ready /\ ~dev'.stall
      BY <1>1, <1>2, <1>5, ReadFacts
    <2>2. dev'.packet.from + dev'.packet.n = dev'.nb
      <3>1. dev'.nb \in Nat
        BY <2>1, DriverType
      <3> QED  BY <2>1, <3>1
    <2> QED
      BY <1>2, <1>3, <1>5, <2>1, <2>2, OneTransfer
      DEF Good, KnownInv, FifoInv, PendingInv, HostInv, FlagInv, SetupInv, ReadInv, ReadEndInv,
          WriteInv, HandshakeInv, StallInv, AddressInv, Answers, Begins
  <1>6. CASE buf.of.kind = "address"
    <2>1. /\ dev'.state = "WAIT_IN_ZLP"
          /\ dev'.packet.ready /\ dev'.packet.of = buf.of /\ dev'.packet.n = 0
          /\ ~dev'.out_ready /\ ~dev'.stall
      BY <1>1, <1>2, <1>6, AddressFacts
    <2>2. buf.of.v \in Addresses
      BY <1>2, <1>6, OneRequest
    <2> QED
      BY <1>2, <1>3, <1>6, <2>1, <2>2, OneTransfer
      DEF Good, KnownInv, FifoInv, PendingInv, HostInv, FlagInv, SetupInv, ReadInv, ReadEndInv,
          WriteInv, HandshakeInv, StallInv, AddressInv, Answers, Begins
  <1>7. CASE buf.of.kind = "coding"
    <2>1. /\ dev'.state = "DATA_OUT" /\ dev'.payload_size = Coding /\ dev'.nb = 0
          /\ ~dev'.packet.ready /\ dev'.out_ready /\ ~dev'.stall
      BY <1>1, <1>2, <1>7, CodingFacts
    <2>2. host.phase \in {"data", "status"}
      BY <1>2, TypeParts DEF EnvType, Good, PendingInv
    <2> QED
      BY <1>2, <1>3, <1>7, <2>1, <2>2, OneTransfer
      DEF Good, KnownInv, FifoInv, PendingInv, HostInv, FlagInv, SetupInv, ReadInv, ReadEndInv,
          WriteInv, HandshakeInv, StallInv, AddressInv, Answers, Begins
  <1> QED  BY <1>2, <1>4, <1>5, <1>6, <1>7, OneRequest

LEMMA TransferCompleteStep ==
    ASSUME TypeInv, Good, KnownInv, TransferComplete
    PROVE  Good' /\ KnownInv'
  <1>1. CASE fifo # << >>
    <2>1. \/ fifo = SentOne /\ dev.state = "WAIT_IN_ZLP"
          \/ fifo = CameOne /\ dev.state = "WAIT_OUT_ZLP"
          \/ fifo = SentOne /\ dev.state = "DATA_IN"
          \/ fifo = CameOne /\ dev.state = "DATA_OUT"
          \/ dev.state = "SETUP"
      BY <1>1 DEF Good, FifoInv
    <2>2. CASE dev.state = "SETUP"
      <3>1. dev' = dev /\ fifo' = << >> /\ UNCHANGED <<setup, unf, ovf, buf, host, stale, odd>>
        BY <1>1, <2>2, OneTransfer DEF TransferComplete, Good, FifoInv, SetupInv
      <3> QED
        BY <2>2, <3>1, OneTransfer
        DEF Good, KnownInv, FifoInv, PendingInv, HostInv, FlagInv, SetupInv, ReadInv, ReadEndInv,
            WriteInv, HandshakeInv, StallInv, AddressInv, Answers
    <2> QED  BY <2>1, <2>2, EndStep, SentStep, CameStep
  <1>2. CASE fifo = << >>
    <2>1. /\ setup /\ dev' = SetupReceived(dev) /\ ~setup'
          /\ UNCHANGED <<fifo, buf, host, stale, odd>>
      BY <1>2 DEF TransferComplete
    <2> QED  BY <1>2, <2>1, SetupTaken
  <1> QED  BY <1>1, <1>2

LEMMA UnderflowStep ==
    ASSUME TypeInv, Good, KnownInv, UnderflowEvent
    PROVE  Good' /\ KnownInv'
  <1>1. dev \in Drivers /\ setup \in BOOLEAN /\ unf /\ ~unf' /\ UNCHANGED <<fifo, ovf, buf, host, stale, odd>>
    BY TypeParts DEF UnderflowEvent, EnvType
  <1>2. CASE UNCHANGED <<dev, setup>>
    BY <1>1, <1>2
    DEF Good, KnownInv, FifoInv, PendingInv, HostInv, FlagInv, SetupInv, ReadInv, ReadEndInv,
        WriteInv, HandshakeInv, StallInv, AddressInv, Answers
  <1>3. CASE fifo = << >> /\ setup /\ dev' = SetupReceived(dev) /\ ~setup'
    BY <1>1, <1>3, SetupTaken
  <1>4. CASE /\ fifo = << >> /\ ~setup /\ dev.in_unf
             /\ dev' = Underflow(dev) /\ UNCHANGED setup
    <2>1. CASE dev.state = "DATA_OUT"
      <3>1. dev' = ZlpIn(dev)
        BY <1>4, <2>1 DEF Underflow
      <3>2. /\ dev'.state = "WAIT_IN_ZLP"
            /\ dev'.packet.ready /\ dev'.packet.of = dev.req /\ dev'.packet.n = 0
            /\ dev'.nb = dev.nb /\ dev'.prev = dev.prev /\ dev'.short = dev.short
            /\ dev'.out_ready = dev.out_ready /\ dev'.stall = dev.stall
            /\ SameRequest(dev', dev) /\ SameFlags(dev', dev)
        BY <1>1, <3>1, ZlpInFacts
      <3>3. host.phase = "status" /\ host.early /\ odd # {}
        BY <1>4, <2>1, OneTransfer DEF Good, WriteInv, FlagInv, HostInv
      <3> QED
        BY <1>1, <1>4, <2>1, <3>2, <3>3, OneTransfer
        DEF Good, KnownInv, FifoInv, PendingInv, HostInv, FlagInv, SetupInv, ReadInv, ReadEndInv,
            WriteInv, HandshakeInv, StallInv, AddressInv, Answers, SameRequest, SameFlags
    <2>2. CASE dev.state = "WAIT_OUT_ZLP"
      <3>1. dev' = [dev EXCEPT !.stall = TRUE]
        BY <1>4, <2>2 DEF Underflow
      <3>2. /\ dev'.state = dev.state /\ dev'.stall
            /\ dev'.packet = dev.packet /\ dev'.out_ready = dev.out_ready
            /\ SameRequest(dev', dev) /\ SameFlags(dev', dev)
        BY <1>1, <3>1, StalledFacts
      <3> QED
        BY <1>1, <1>4, <2>2, <3>2, OneTransfer
        DEF Good, KnownInv, FifoInv, PendingInv, HostInv, FlagInv, SetupInv, ReadInv, ReadEndInv,
            WriteInv, HandshakeInv, StallInv, AddressInv, Answers, SameRequest, SameFlags
    <2>3. CASE dev.state \notin {"DATA_OUT", "WAIT_OUT_ZLP"}
      <3>1. UNCHANGED <<dev, setup>>
        BY <1>4, <2>3 DEF Underflow
      <3> QED  BY <3>1, <1>2
    <2> QED  BY <2>1, <2>2, <2>3
  <1> QED  BY <1>1, <1>2, <1>3, <1>4 DEF UnderflowEvent, Error

LEMMA OverflowStep ==
    ASSUME TypeInv, Good, KnownInv, OverflowEvent
    PROVE  Good' /\ KnownInv'
  <1>1. /\ dev \in Drivers /\ setup \in BOOLEAN /\ ovf /\ ~ovf' /\ ~unf /\ ~unf'
        /\ UNCHANGED <<fifo, buf, host, stale, odd>>
    BY TypeParts DEF OverflowEvent, EnvType
  <1>2. CASE UNCHANGED <<dev, setup>>
    BY <1>1, <1>2
    DEF Good, KnownInv, FifoInv, PendingInv, HostInv, FlagInv, SetupInv, ReadInv, ReadEndInv,
        WriteInv, HandshakeInv, StallInv, AddressInv, Answers
  <1>3. CASE fifo = << >> /\ setup /\ dev' = SetupReceived(dev) /\ ~setup'
    BY <1>1, <1>3, SetupTaken
  <1>4. CASE /\ fifo = << >> /\ ~setup /\ dev.out_ovf
             /\ dev' = Overflow(dev) /\ UNCHANGED setup
    <2>1. CASE dev.state = "DATA_IN"
      <3>1. dev' = ZlpOut(dev)
        BY <1>4, <2>1 DEF Overflow
      <3>2. /\ dev'.state = "WAIT_OUT_ZLP" /\ dev'.out_ready
            /\ dev'.packet = dev.packet /\ dev'.stall = dev.stall
            /\ SameRequest(dev', dev) /\ SameFlags(dev', dev)
        BY <1>1, <3>1, ZlpOutFacts
      <3>3. host.phase # "data" /\ host.early
        BY <1>4, <2>1, OneTransfer DEF Good, ReadInv, FlagInv, HostInv
      <3> QED
        BY <1>1, <1>4, <2>1, <3>2, <3>3, OneTransfer
        DEF Good, KnownInv, FifoInv, PendingInv, HostInv, FlagInv, SetupInv, ReadInv, ReadEndInv,
            WriteInv, HandshakeInv, StallInv, AddressInv, Answers, SameRequest, SameFlags
    <2>2. CASE dev.state = "WAIT_IN_ZLP"
      <3>1. dev' = [dev EXCEPT !.stall = TRUE]
        BY <1>4, <2>2 DEF Overflow
      <3>2. /\ dev'.state = dev.state /\ dev'.stall
            /\ dev'.packet = dev.packet /\ dev'.out_ready = dev.out_ready
            /\ SameRequest(dev', dev) /\ SameFlags(dev', dev)
        BY <1>1, <3>1, StalledFacts
      <3>3. dev.req.kind # "address" /\ odd # {}
        BY <1>1, <1>4, <2>2 DEF Good, HostInv, FlagInv, KnownInv
      <3> QED
        BY <1>1, <1>4, <2>2, <3>2, <3>3, OneTransfer
        DEF Good, KnownInv, FifoInv, PendingInv, HostInv, FlagInv, SetupInv, ReadInv, ReadEndInv,
            WriteInv, HandshakeInv, StallInv, AddressInv, Answers, SameRequest, SameFlags
    <2>3. CASE dev.state \notin {"DATA_IN", "WAIT_IN_ZLP"}
      <3>1. UNCHANGED <<dev, setup>>
        BY <1>4, <2>3 DEF Overflow
      <3> QED  BY <3>1, <1>2
    <2> QED  BY <2>1, <2>2, <2>3
  <1> QED  BY <1>1, <1>2, <1>3, <1>4 DEF OverflowEvent, Error

\* A request begins when the host has ended the one before.
LEMMA SetupStep ==
    ASSUME TypeInv, Good, KnownInv, NEW q \in Request, Setup(q), NoCut'
    PROVE  Good' /\ KnownInv'
  <1>1. dev \in Drivers /\ host \in HostType
    BY TypeParts DEF EnvType, HostType
  <1>2. host.phase = "idle" /\ odd' = odd /\ Answers /\ ~setup
    BY DEF Setup, NoCut, Good, PendingInv
  <1>3. /\ host'.phase = (IF q.kind = "address" THEN "status" ELSE "data")
        /\ host'.req = q /\ host'.got = 0 /\ ~host'.early /\ host'.address = host.address
    BY <1>1 DEF Setup, HostType
  <1>4. /\ setup' /\ buf'.of = q /\ ~buf'.data /\ UNCHANGED <<fifo, unf, ovf, stale>>
    BY DEF Setup
  <1>5. dev' = Hushed(dev)
    BY DEF Setup, Hushed
  <1>6. /\ ~dev'.stall /\ ~dev'.out_ready /\ ~dev'.packet.ready
        /\ dev'.state = dev.state /\ SameRequest(dev', dev) /\ SameFlags(dev', dev)
    BY <1>1, <1>5, HushedFacts
  <1> QED
    BY <1>2, <1>3, <1>4, <1>6, OneTransfer
    DEF Good, KnownInv, FifoInv, PendingInv, HostInv, FlagInv, SetupInv, ReadInv, ReadEndInv,
        WriteInv, HandshakeInv, StallInv, AddressInv, Answers, SameRequest, SameFlags

\* The host gets a packet.
LEMMA InGiven ==
    ASSUME TypeInv, Good, KnownInv, In, ~dev.stall, dev.packet.ready
    PROVE  Good' /\ KnownInv'
  <1> DEFINE p == dev.packet
  <1>1. dev \in Drivers /\ host \in HostType
    BY TypeParts DEF EnvType, HostType
  <1>2. /\ dev' = Given(dev) /\ fifo' = Append(fifo, "in")
        /\ stale' = (stale \/ p.of # host.req \/ p.from # (IF p.n = 0 THEN p.from ELSE host.got))
        /\ UNCHANGED <<setup, unf, ovf, buf, odd>>
    BY DEF In, Given
  <1>3. /\ dev'.tc_in /\ ~dev'.packet.ready
        /\ dev'.state = dev.state /\ dev'.nb = dev.nb /\ dev'.prev = dev.prev
        /\ dev'.short = dev.short
        /\ dev'.out_ready = dev.out_ready /\ dev'.stall = dev.stall /\ SameRequest(dev', dev)
        /\ dev'.irq = dev.irq /\ dev'.in_unf = dev.in_unf /\ dev'.out_ovf = dev.out_ovf
    BY <1>1, <1>2, GivenFacts
  <1>4. /\ ~setup /\ fifo = << >>
        /\ \/ dev.state = "DATA_IN" /\ WaitsIn(host)
           \/ dev.state = "WAIT_IN_ZLP" /\ StatIn(host)
    <2>1. ~setup /\ host.phase # "idle" /\ dev.state \in States
      BY <1>1, DriverType DEF In, Good, PendingInv, WaitsIn, StatIn
    <2>2. dev.state \in {"DATA_IN", "WAIT_IN_ZLP"}
      BY <2>1 DEF In, WaitsIn, StatIn, Good, FifoInv, HostInv, SetupInv, ReadEndInv, WriteInv,
                  StallInv, States
    <2>3. fifo = << >>
      BY <2>2 DEF Good, FifoInv
    <2>4. CASE dev.state = "DATA_IN"
      <3>1. dev.req.kind = "read" /\ dev.req = host.req
        BY <2>1, <2>4 DEF Good, HostInv, ReadInv
      <3> QED  BY <2>1, <2>3, <2>4, <3>1 DEF In, StatIn
    <2>5. CASE dev.state = "WAIT_IN_ZLP"
      BY <2>1, <2>3, <2>5 DEF In, WaitsIn, Good, HandshakeInv
    <2> QED  BY <2>2, <2>4, <2>5
  <1>5. fifo' = SentOne
    BY <1>2, <1>4, OneTransfer
  <1>6. CASE dev.state = "DATA_IN" /\ WaitsIn(host)
    <2> DEFINE g == host.got + p.n
    <2>1. ~StatIn(host)
      BY <1>6 DEF StatIn, WaitsIn
    <2>2. host' = [host EXCEPT !.got = g,
                               !.phase = IF p.n < Size \/ g >= host.req.w THEN "status" ELSE "data"]
      BY <2>1 DEF In
    <2> HIDE DEF g
    <2>3. /\ host'.got = g /\ host'.req = host.req /\ host'.early = host.early
          /\ host'.address = host.address
          /\ host'.phase = IF p.n < Size \/ g >= host.req.w THEN "status" ELSE "data"
      BY <1>1, <2>2 DEF HostType
    <2>4. /\ p.of = dev.req /\ p.from = host.got /\ p.from + p.n = dev.nb
          /\ dev.short <=> p.n < Size
      BY <1>4, <1>6, OneTransfer DEF Good, ReadInv
    <2>5. g = dev.nb /\ dev.nb \in Nat /\ dev.req.w \in Nat /\ dev.req = host.req
      BY <1>1, <1>4, <1>6, <2>4, DriverType, Carried DEF g, Good, HostInv
    <2>6. host'.phase = "data" <=> ~dev.short /\ dev.nb < dev.req.w
      BY <2>3, <2>4, <2>5
    <2>7. host'.phase \in {"data", "status"} /\ host.phase = "data" /\ ~host.early
      BY <1>6, <2>3 DEF WaitsIn, Good, HostInv
    <2>8. ~stale'
      BY <1>2, <2>4, <2>5 DEF Good
    <2> QED
      BY <1>2, <1>3, <1>4, <1>5, <1>6, <2>3, <2>5, <2>6, <2>7, <2>8, OneTransfer
      DEF Good, KnownInv, FifoInv, PendingInv, HostInv, FlagInv, SetupInv, ReadInv, ReadEndInv,
          WriteInv, HandshakeInv, StallInv, AddressInv, Answers, SameRequest
  <1>7. CASE dev.state = "WAIT_IN_ZLP" /\ StatIn(host)
    <2> DEFINE a == IF host.req.kind = "address" THEN host.req.v ELSE host.address
    <2>1. host' = [Ends(host) EXCEPT !.address = a]
      BY <1>1, <1>7 DEF In, Ends, HostType
    <2> HIDE DEF a
    <2>2. /\ host'.phase = "idle" /\ host'.req = host.req /\ host'.got = host.got
          /\ host'.early = host.early /\ host'.address = a
      BY <1>1, <2>1 DEF Ends, HostType
    <2>3. p.of = dev.req /\ p.n = 0 /\ dev.req = host.req
      BY <1>4, <1>7 DEF Good, HandshakeInv, HostInv
    <2>4. ~stale'
      BY <1>2, <2>3 DEF Good
    <2> QED
      BY <1>2, <1>3, <1>4, <1>5, <1>7, <2>2, <2>3, <2>4, OneTransfer
      DEF Good, KnownInv, FifoInv, PendingInv, HostInv, FlagInv, SetupInv, ReadInv, ReadEndInv,
          WriteInv, HandshakeInv, StallInv, AddressInv, Answers, SameRequest, a
  <1> QED  BY <1>4, <1>6, <1>7

LEMMA InStep ==
    ASSUME TypeInv, Good, KnownInv, In
    PROVE  Good' /\ KnownInv'
  <1>1. dev \in Drivers /\ host \in HostType
    BY TypeParts DEF EnvType, HostType
  <1>2. UNCHANGED <<setup, ovf, buf, odd>> /\ host.phase # "idle"
    BY DEF In, WaitsIn, StatIn
  <1>3. CASE dev.stall
    <2>1. host' = Ends(host) /\ UNCHANGED <<dev, fifo, unf, stale>>
      BY <1>3 DEF In
    <2>2. /\ host'.phase = "idle" /\ host'.req = host.req /\ host'.got = host.got
          /\ host'.early = host.early /\ host'.address = host.address
      BY <1>1, <2>1 DEF Ends, HostType
    <2>3. ~setup /\ fifo = << >>
      BY <1>3 DEF Good, PendingInv, FifoInv
    <2> QED
      BY <1>2, <1>3, <2>1, <2>2, <2>3, OneTransfer
      DEF Good, KnownInv, FifoInv, PendingInv, HostInv, FlagInv, SetupInv, ReadInv, ReadEndInv,
          WriteInv, HandshakeInv, StallInv, AddressInv, Answers
  <1>4. CASE ~dev.stall /\ ~dev.packet.ready
    <2>1. unf' /\ dev' = [dev EXCEPT !.in_unf = TRUE] /\ UNCHANGED <<fifo, host, stale>>
      BY <1>4 DEF In
    <2>2. /\ dev'.state = dev.state /\ dev'.nb = dev.nb /\ dev'.prev = dev.prev
          /\ dev'.short = dev.short /\ dev'.packet = dev.packet
          /\ dev'.out_ready = dev.out_ready /\ dev'.stall = dev.stall
          /\ SameRequest(dev', dev) /\ dev'.tc_in = dev.tc_in /\ dev'.tc_out = dev.tc_out
          /\ dev'.irq = dev.irq /\ dev'.out_ovf = dev.out_ovf
      BY <1>1, <2>1, FlaggedFacts
    <2>3. dev.state = "WAIT_OUT_ZLP" => setup
      BY DEF In, WaitsIn, StatIn, Good, ReadEndInv, HostInv
    <2>4. host.req.kind = "coding" => host.phase # "data"
      BY DEF In, WaitsIn, StatIn
    <2> QED
      BY <1>2, <2>1, <2>2, <2>3, <2>4, OneTransfer
      DEF Good, KnownInv, FifoInv, PendingInv, HostInv, FlagInv, SetupInv, ReadInv, ReadEndInv,
          WriteInv, HandshakeInv, StallInv, AddressInv, Answers, SameRequest
  <1>5. CASE ~dev.stall /\ dev.packet.ready
    BY <1>5, InGiven
  <1> QED  BY <1>3, <1>4, <1>5

\* The host sends a packet.
LEMMA OutStep ==
    ASSUME TypeInv, Good, KnownInv, Out
    PROVE  Good' /\ KnownInv'
  <1>1. dev \in Drivers /\ host \in HostType
    BY TypeParts DEF EnvType, HostType
  <1>2. UNCHANGED <<setup, unf, stale, odd>> /\ host.phase # "idle"
    BY DEF Out, WaitsOut, StatOut
  <1>3. CASE dev.stall
    <2>1. host' = Ends(host) /\ UNCHANGED <<dev, fifo, ovf, buf>>
      BY <1>3 DEF Out
    <2>2. /\ host'.phase = "idle" /\ host'.req = host.req /\ host'.got = host.got
          /\ host'.early = host.early /\ host'.address = host.address
      BY <1>1, <2>1 DEF Ends, HostType
    <2>3. ~setup /\ fifo = << >>
      BY <1>3 DEF Good, PendingInv, FifoInv
    <2> QED
      BY <1>2, <1>3, <2>1, <2>2, <2>3, OneTransfer
      DEF Good, KnownInv, FifoInv, PendingInv, HostInv, FlagInv, SetupInv, ReadInv, ReadEndInv,
          WriteInv, HandshakeInv, StallInv, AddressInv, Answers
  <1>4. CASE ~dev.stall /\ ~dev.out_ready
    <2>1. ovf' /\ dev' = [dev EXCEPT !.out_ovf = TRUE] /\ UNCHANGED <<fifo, host, buf>>
      BY <1>4 DEF Out
    <2>2. /\ dev'.state = dev.state /\ dev'.nb = dev.nb /\ dev'.prev = dev.prev
          /\ dev'.short = dev.short /\ dev'.packet = dev.packet
          /\ dev'.out_ready = dev.out_ready /\ dev'.stall = dev.stall
          /\ SameRequest(dev', dev) /\ dev'.tc_in = dev.tc_in /\ dev'.tc_out = dev.tc_out
          /\ dev'.irq = dev.irq /\ dev'.in_unf = dev.in_unf
      BY <1>1, <2>1, FlaggedFacts
    <2>3. dev.state = "WAIT_IN_ZLP" => setup
      BY DEF Out, WaitsOut, StatOut, Good, HandshakeInv, HostInv
    <2>4. host.req.kind # "address" /\ (host.req.kind = "read" => host.phase # "data")
      <3>1. host.phase = "data" => host.req.kind # "address"
        BY DEF Good, HostInv
      <3> QED  BY <3>1 DEF Out, WaitsOut, StatOut, Writes
    <2> QED
      BY <1>2, <2>1, <2>2, <2>3, <2>4, OneTransfer
      DEF Good, KnownInv, FifoInv, PendingInv, HostInv, FlagInv, SetupInv, ReadInv, ReadEndInv,
          WriteInv, HandshakeInv, StallInv, AddressInv, Answers, SameRequest
  <1>5. CASE ~dev.stall /\ dev.out_ready
    <2>1. /\ dev' = Came(dev) /\ fifo' = Append(fifo, "out") /\ ovf' = ovf
          /\ buf'.data
          /\ host' = IF StatOut(host) THEN Ends(host) ELSE [host EXCEPT !.phase = "status"]
      BY <1>5 DEF Out, Came
    <2>2. /\ dev'.tc_out /\ ~dev'.out_ready
          /\ dev'.state = dev.state /\ dev'.nb = dev.nb /\ dev'.prev = dev.prev
          /\ dev'.short = dev.short
          /\ dev'.packet = dev.packet /\ dev'.stall = dev.stall /\ SameRequest(dev', dev)
          /\ dev'.irq = dev.irq /\ dev'.in_unf = dev.in_unf /\ dev'.out_ovf = dev.out_ovf
      BY <1>1, <2>1, CameFacts
    <2>3. /\ host'.req = host.req /\ host'.got = host.got
          /\ host'.early = host.early /\ host'.address = host.address
          /\ host'.phase = IF StatOut(host) THEN "idle" ELSE "status"
      BY <1>1, <2>1 DEF Ends, HostType
    <2>4. /\ ~setup /\ fifo = << >>
          /\ \/ dev.state = "DATA_OUT" /\ ~StatOut(host)
             \/ dev.state = "WAIT_OUT_ZLP" /\ StatOut(host)
      <3>1. ~setup /\ dev.state \in States
        BY <1>1, <1>5, DriverType DEF Good, PendingInv
      <3>2. dev.state \in {"DATA_OUT", "WAIT_OUT_ZLP"}
        BY <1>2, <1>5, <3>1 DEF Out, WaitsOut, StatOut, Writes, Good, HostInv, SetupInv, ReadInv,
                                HandshakeInv, StallInv, States
      <3>3. fifo = << >>
        BY <1>5, <3>2 DEF Good, FifoInv
      <3>4. CASE dev.state = "DATA_OUT"
        BY <3>1, <3>3, <3>4 DEF StatOut, Good, HostInv, WriteInv
      <3>5. CASE dev.state = "WAIT_OUT_ZLP"
        BY <3>1, <3>3, <3>5 DEF Out, WaitsOut, Good, ReadEndInv
      <3> QED  BY <3>2, <3>4, <3>5
    <2>5. fifo' = CameOne
      BY <2>1, <2>4, OneTransfer
    <2>6. CASE dev.state = "DATA_OUT" /\ ~StatOut(host)
      <3>1. host'.phase = "status"
        BY <2>3, <2>6
      <3> QED
        BY <1>2, <2>1, <2>2, <2>3, <2>4, <2>5, <2>6, <3>1, OneTransfer
        DEF Good, KnownInv, FifoInv, PendingInv, HostInv, FlagInv, SetupInv, ReadInv, ReadEndInv,
            WriteInv, HandshakeInv, StallInv, AddressInv, Answers, SameRequest
    <2>7. CASE dev.state = "WAIT_OUT_ZLP" /\ StatOut(host)
      <3>1. host'.phase = "idle"
        BY <2>3, <2>7
      <3>2. KnownInv'
        BY <1>2, <2>1, <2>2, <2>7 DEF KnownInv
      <3>3. Good'
        BY <1>2, <1>5, <2>2, <2>3, <2>4, <2>5, <2>7, <3>1, OneTransfer
        DEF Good, FifoInv, PendingInv, HostInv, FlagInv, SetupInv, ReadInv, ReadEndInv,
            WriteInv, HandshakeInv, StallInv, AddressInv, Answers, SameRequest
      <3> QED  BY <3>2, <3>3
    <2> QED  BY <2>4, <2>6, <2>7
  <1> QED  BY <1>3, <1>4, <1>5

\* The host stops a data phase, or the bus is reset, or another endpoint answers NAK.
LEMMA OddStep ==
    ASSUME TypeInv, Good, KnownInv, GoOn \/ Nak \/ Reset, NoCut'
    PROVE  Good' /\ KnownInv'
  <1>1. dev \in Drivers /\ host \in HostType
    BY TypeParts DEF EnvType, HostType
  <1>2. CASE GoOn
    <2>1. /\ host'.phase = "status" /\ host'.early /\ host'.req = host.req
          /\ host'.got = host.got /\ host'.address = host.address
      BY <1>1, <1>2 DEF GoOn, HostType
    <2>2. host.phase = "data" /\ "stop" \in odd' /\ UNCHANGED <<dev, fifo, setup, unf, ovf, buf, stale>>
      BY <1>2 DEF GoOn, hwVars
    <2>3. odd' # {}
      BY <2>2
    <2> QED
      BY <2>1, <2>2, <2>3, OneTransfer
      DEF Good, KnownInv, FifoInv, PendingInv, HostInv, FlagInv, SetupInv, ReadInv, ReadEndInv,
          WriteInv, HandshakeInv, StallInv, AddressInv, Answers
  <1>3. CASE Nak
    <2>1. odd' # {} /\ ("stop" \in odd => "stop" \in odd')
          /\ UNCHANGED <<dev, fifo, setup, buf, host, stale>>
      BY <1>3 DEF Nak
    <2> QED
      BY <2>1, OneTransfer
      DEF Good, KnownInv, FifoInv, PendingInv, HostInv, FlagInv, SetupInv, ReadInv, ReadEndInv,
          WriteInv, HandshakeInv, StallInv, AddressInv, Answers
  <1>4. CASE Reset
    <2>1. dev.short \in BOOLEAN /\ dev.coding \in BOOLEAN
      BY <1>1, DriverType
    <2>2. dev' = Fresh(dev.short, dev.coding) /\ fifo' = fifo /\ ~setup' /\ stale' = stale
      BY <1>4 DEF Reset, hwVars, NoCut
    <2>3. /\ dev'.state = "SETUP"
          /\ ~dev'.packet.ready /\ ~dev'.out_ready /\ ~dev'.stall /\ ~dev'.irq /\ ~dev'.callback
          /\ ~dev'.in_unf /\ ~dev'.out_ovf /\ dev'.coding = dev.coding /\ dev'.address = 0
          /\ ~dev'.tc_in /\ ~dev'.tc_out
      BY <2>1, <2>2, FreshFacts
    <2>4. host'.phase = "idle" /\ host'.req = None /\ ~host'.early /\ host'.address = 0
      BY <1>4 DEF Reset, Quiet
    <2> QED
      BY <2>2, <2>3, <2>4, NoRequest, OneTransfer
      DEF Good, KnownInv, FifoInv, PendingInv, HostInv, FlagInv, SetupInv, ReadInv, ReadEndInv,
          WriteInv, HandshakeInv, StallInv, AddressInv, Answers
  <1> QED  BY <1>2, <1>3, <1>4

--------------------------------------------------------------------------------
(* The theorems.                                                                *)

LEMMA InitIInv == Init => IInv
  <1> SUFFICES ASSUME Init PROVE IInv
    OBVIOUS
  <1>1. dev = Fresh(FALSE, TRUE) /\ host = Quiet /\ fifo = << >> /\ ~setup /\ ~stale
    BY DEF Init
  <1>2. /\ dev.state = "SETUP"
        /\ ~dev.packet.ready /\ ~dev.out_ready /\ ~dev.stall /\ ~dev.irq /\ ~dev.callback
        /\ ~dev.in_unf /\ ~dev.out_ovf /\ dev.coding /\ dev.address = 0
    BY <1>1, FreshFacts
  <1>3. host.phase = "idle" /\ host.req = None /\ ~host.early /\ host.address = 0
    BY <1>1 DEF Quiet
  <1>4. Good /\ KnownInv
    BY <1>1, <1>2, <1>3, NoRequest, OneTransfer
    DEF Good, KnownInv, FifoInv, PendingInv, HostInv, FlagInv, SetupInv, ReadInv, ReadEndInv,
        WriteInv, HandshakeInv, StallInv, AddressInv, Answers
  <1> QED  BY <1>4, TypeInit DEF IInv

LEMMA NextIInv == IInv /\ [Next]_vars => IInv'
  <1> SUFFICES ASSUME IInv, [Next]_vars PROVE IInv'
    OBVIOUS
  <1>1. TypeInv /\ TypeInv'
    BY NextType DEF IInv
  <1> SUFFICES ASSUME NoCut' PROVE Good' /\ KnownInv'
    BY <1>1 DEF IInv
  <1>2. NoCut
    <2>1. "cut" \in odd => "cut" \in odd'
      BY DEF Next, Isr, UnderflowEvent, OverflowEvent, TransferComplete, Setup, In, Out, GoOn, Nak,
             Reset, vars
    <2> QED  BY <2>1 DEF NoCut
  <1>3. Good /\ KnownInv
    BY <1>2 DEF IInv
  <1>4. CASE Isr
    BY <1>1, <1>3, <1>4, UnderflowStep, OverflowStep, TransferCompleteStep DEF Isr
  <1>5. CASE \E q \in Request : Setup(q)
    BY <1>1, <1>3, <1>5, SetupStep
  <1>6. CASE In \/ Out
    BY <1>1, <1>3, <1>6, InStep, OutStep
  <1>7. CASE GoOn \/ Nak \/ Reset
    BY <1>1, <1>3, <1>7, OddStep
  <1>8. CASE UNCHANGED vars
    <2>1. UNCHANGED <<dev, fifo, setup, unf, ovf, buf, host, stale, odd>>
      BY <1>8 DEF vars, hwVars
    <2>2. KnownInv'
      BY <1>3, <2>1 DEF KnownInv
    <2>3. Good'
      BY <1>3, <2>1
      DEF Good, FifoInv, PendingInv, HostInv, FlagInv, SetupInv, ReadInv, ReadEndInv,
          WriteInv, HandshakeInv, StallInv, AddressInv, Answers
    <2> QED  BY <2>2, <2>3
  <1> QED  BY <1>4, <1>5, <1>6, <1>7, <1>8 DEF Next

LEMMA Invariant == Spec => []IInv
  BY InitIInv, NextIInv, PTL DEF Spec

\* Whatever the host does, cut requests included, the driver counts no more of a payload
\* than there is, and no direction completes a transfer that it was not made ready for.
THEOREM TypeCorrect == Spec => []TypeOK
  <1>1. IInv => TypeOK
    BY DEF IInv, TypeInv
  <1> QED  BY <1>1, Invariant, PTL

\* A read gives its payload, in order and all of it, and the line coding is written from
\* data, as long as the host ends one request before the next.
THEOREM DataBelongs == Spec => []DataOfItsRequest
  <1>1. IInv => DataOfItsRequest
    <2> SUFFICES ASSUME IInv, NoCut, StatOut(host), ~host.early
                 PROVE  host.got = host.req.p
      BY DEF IInv, DataOfItsRequest, NoCut, Good
    <2>1. Good /\ dev \in Drivers /\ host.req.kind = "read" /\ host.phase = "status"
      BY TypeParts DEF IInv, StatOut
    <2>2. ~setup /\ dev.state # "SETUP" /\ dev.req = host.req
      BY <2>1 DEF Good, PendingInv, SetupInv, HostInv
    <2>3. dev.state \in States
      BY <2>1, DriverType
    <2>4. dev.state \in {"DATA_IN", "WAIT_OUT_ZLP"}
      BY <2>1, <2>2, <2>3 DEF Good, WriteInv, HandshakeInv, StallInv, States
    <2>5. CASE dev.state = "WAIT_OUT_ZLP"
      BY <2>1, <2>2, <2>5 DEF Good, ReadEndInv
    <2>6. CASE dev.state = "DATA_IN"
      <3>1. /\ fifo = SentOne /\ host.got = dev.nb /\ dev.payload_size = dev.req.p
            /\ ~(~dev.short /\ dev.nb < dev.req.w) /\ (dev.short => dev.nb = dev.payload_size)
        BY <2>1, <2>6 DEF Good, ReadInv
      <3>2. /\ dev.req \in Request /\ dev.nb \in Nat /\ dev.req.w \in Nat /\ dev.req.p \in Nat
            /\ dev.req.p <= dev.req.w /\ dev.nb <= dev.payload_size
        <4>1. dev.req \in Request /\ dev.req.kind = "read"
          BY <2>1, <2>2 DEF Good, HostInv
        <4> QED  BY <2>1, <4>1, DriverType, OneRequest, TypeParts DEF IInv, WellSized
      <3> QED  BY <2>2, <3>1, <3>2
    <2> QED  BY <2>4, <2>5, <2>6
  <1> QED  BY <1>1, Invariant, PTL

\* A request that the device knows is not stalled, unless a data phase was stopped, another
\* endpoint answered NAK, or a request was cut short.
THEOREM KnownServed == Spec => []KnownIsNotStalled
  <1>1. IInv => KnownIsNotStalled
    BY DEF IInv, KnownIsNotStalled, NoCut, KnownInv, Good, StallInv
  <1> QED  BY <1>1, Invariant, PTL

\* The address changes when the host has seen the handshake, and not before.
THEOREM AddressLast == Spec => []AddressAfterHandshake
  <1>1. IInv => AddressAfterHandshake
    BY OneTransfer DEF IInv, AddressAfterHandshake, NoCut, Good, AddressInv, Answers
  <1> QED  BY <1>1, Invariant, PTL
=================================================================================
