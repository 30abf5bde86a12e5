---------------------------- MODULE ConsoleInProofs ----------------------------
(* Proofs about the input of the console, MCConsoleIn.                          *)
(*                                                                              *)
(* The receive buffers (CdcRx), for every size of packet, of the array of       *)
(* main_cdc_rx_notify and of the range of numbers.  What makes them work, as    *)
(* long as the host's packets fit into the array, is that read_no_polling then  *)
(* reads a buffer to its end, so that the next packet finds the last one read   *)
(* and is taken over at once.                                                   *)
(*                                                                              *)
(* The command line (SerialCmd), for every length of a line, size of the table  *)
(* of arguments and set of characters.  The loop of parse reads the line once;  *)
(* Words says what its arguments are.  After each character the arguments found *)
(* and those of the rest of the line, from where the current one began, are     *)
(* those of the line (Reads): by induction over the line.                       *)
EXTENDS MCConsoleIn, Integers, SequenceTheorems, WellFoundedInduction, TLAPS

--------------------------------------------------------------------------------
(* Remainders.                                                                  *)

\* Quotient and remainder.
LEMMA DivMod ==
    ASSUME NEW x \in Nat, NEW n \in Nat \ {0}
    PROVE  /\ x = n * (x \div n) + (x % n) /\ x % n \in 0 .. n - 1
           /\ x \div n \in Nat
  OBVIOUS

\* The remainder is the only one.
LEMMA ModUnique ==
    ASSUME NEW n \in Nat \ {0}, NEW q \in Nat, NEW r \in 0 .. n - 1
    PROVE  (n * q + r) % n = r
  <1> DEFINE x == n * q + r
             d == x \div n
             m == x % n
  <1>1. x \in Nat
    OBVIOUS
  <1>2. x = n * d + m /\ m \in 0 .. n - 1 /\ d \in Nat
    BY <1>1, DivMod
  <1>3. n * (q - d) = m - r
    BY <1>2
  <1>4. CASE q = d
    BY <1>3, <1>4, <1>2
  <1>5. CASE q > d
    <2>1. PICK k \in Nat : q - d = 1 + k
      BY <1>2, <1>5
    <2>2. n * (q - d) >= n
      BY <2>1
    <2> QED  BY <1>2, <1>3, <2>2
  <1>6. CASE q < d
    <2>1. PICK k \in Nat : d - q = 1 + k
      BY <1>2, <1>6
    <2>2. n * (d - q) >= n
      BY <2>1
    <2>3. n * (q - d) = - (n * (d - q))
      BY <1>2
    <2> QED  BY <1>2, <1>3, <2>2, <2>3
  <1> QED  BY <1>2, <1>4, <1>5, <1>6

\* A remainder may be taken before something is added.
LEMMA ModAdd ==
    ASSUME NEW n \in Nat \ {0}, NEW x \in Nat, NEW y \in Nat
    PROVE  ((x % n) + y) % n = (x + y) % n
  <1> DEFINE q == x \div n
             r == x % n
  <1>1. x = n * q + r /\ q \in Nat /\ r \in Nat
    BY DivMod
  <1> HIDE DEF q, r
  <1> DEFINE p == (r + y) \div n
             m == (r + y) % n
  <1>2. r + y = n * p + m /\ m \in 0 .. n - 1 /\ p \in Nat
    <2> DEFINE z == r + y
    <2>1. z \in Nat
      BY <1>1
    <2> HIDE DEF z
    <2>2. z = n * (z \div n) + (z % n) /\ z % n \in 0 .. n - 1 /\ z \div n \in Nat
      BY <2>1, DivMod
    <2> QED  BY <2>2 DEF z
  <1> HIDE DEF p, m
  <1>3. x + y = n * (q + p) + m
    BY <1>1, <1>2
  <1>4. q + p \in Nat
    BY <1>1, <1>2
  <1> DEFINE k == q + p
  <1> HIDE DEF k
  <1>5. (n * k + m) % n = m
    BY <1>2, <1>4, ModUnique DEF k
  <1> QED  BY <1>3, <1>5 DEF r, m, k

LEMMA NumberFacts ==
    /\ Number \subseteq Nat /\ 0 \in Number
    /\ \A x \in Nat : x % Numbers \in Number
    /\ \A x \in Number : x % Numbers = x
  <1>1. Numbers \in Nat \ {0}
    BY NumbersAssumption
  <1>2. \A x \in Nat : x % Numbers \in Number
    BY <1>1, DivMod DEF Number
  <1>3. ASSUME NEW x \in Number PROVE x % Numbers = x
    <2>1. (Numbers * 0 + x) % Numbers = x
      BY <1>1, ModUnique DEF Number
    <2>2. Numbers * 0 + x = x
      BY <1>1 DEF Number
    <2> QED  BY <2>1, <2>2
  <1>4. Number \subseteq Nat /\ 0 \in Number
    BY <1>1 DEF Number
  <1> QED  BY <1>2, <1>3, <1>4

--------------------------------------------------------------------------------
(* The invariant.                                                               *)

Buffers == {0, 1}

\* Byte i of s, and those up to n, are numbered from k.
Run(s, k, n) == \A i \in 1 .. n : s[i] = (k + i - 1) % Numbers

\* The buffers hold no more than the host sends, and the one being read was read.
CountInv ==
    /\ \A b \in Buffers : nb[b] \in 0 .. Longest
    /\ into.n \in 0 .. Longest
    /\ pos = nb[sel]
    /\ reads <= avail

\* There is a job or a packet being processed, never both, while the interface is enabled.
JobInv ==
    /\ job # "none" => ~Notified /\ running /\ into.buf = Other(sel)
    /\ Notified => running
    /\ running => job # "none" \/ Notified

\* The host's bytes are in the packet that was received,
PacketInv ==
    /\ job = "open" => next = first
    /\ job = "done" => Run(mem[into.buf], first, into.n) /\ next = (first + into.n) % Numbers

\* or in the array; k is the number of its first byte.
ArrayInv ==
    Notified => \E k \in Number :
        /\ Run(local, k, avail)
        /\ first = (k + reads) % Numbers /\ next = (k + avail) % Numbers

IInv == TypeOK /\ CountInv /\ JobInv /\ PacketInv /\ ArrayInv /\ ~wrong

\* The packets fit into the array.
Fits == Longest <= Copy

LEMMA OtherFacts ==
    ASSUME NEW s \in Buffers
    PROVE  Other(s) \in Buffers /\ Other(s) # s /\ Other(Other(s)) = s
  BY DEF Buffers, Other

LEMMA ConstantFacts ==
    /\ Packet \in Nat \ {0} /\ Copy \in Nat \ {0} /\ Numbers \in Nat \ {0}
    /\ Longest \in Nat /\ Longest <= Packet
  BY PacketAssumption, CopyAssumption, LongestAssumption, NumbersAssumption

--------------------------------------------------------------------------------
(* Every step keeps it.                                                         *)

LEMMA InitInv == Init => IInv
  <1> SUFFICES ASSUME Init PROVE IInv
    OBVIOUS
  <1>1. 0 \in Number /\ 0 \in 0 .. Packet /\ 0 \in 0 .. Copy /\ 0 \in 0 .. Longest
    BY ConstantFacts, NumberFacts
  <1> HIDE DEF Number
  <1>2. TypeOK
    BY <1>1 DEF Init, TypeOK
  <1>3. CountInv /\ JobInv /\ PacketInv /\ ArrayInv /\ ~wrong
    BY <1>1 DEF Init, CountInv, JobInv, PacketInv, ArrayInv, Notified, Buffers
  <1> QED  BY <1>2, <1>3 DEF IInv

LEMMA HostSendsInv == ASSUME IInv, NEW n \in 0 .. Longest, HostSends(n) PROVE IInv'
  <1> DEFINE b == into.buf
             m == [i \in 1 .. Packet |-> IF i <= n THEN (next + i - 1) % Numbers ELSE mem[b][i]]
  <1> HIDE DEF Number
  <1>1. /\ job = "open" /\ job' = "done" /\ into' = [into EXCEPT !.n = n]
        /\ next' = (next + n) % Numbers
        /\ UNCHANGED <<nb, sel, pos, ongoing, running, appVars, first, wrong>>
    BY DEF HostSends
  <1>2. mem' = [mem EXCEPT ![b] = m]
    BY DEF HostSends
  <1>3. /\ b \in Buffers /\ next \in Number /\ next \in Nat /\ next = first
        /\ into \in [buf : Buffers, n : 0 .. Packet]
        /\ mem \in [Buffers -> [1 .. Packet -> Number]]
    BY <1>1, NumberFacts DEF IInv, TypeOK, PacketInv, Buffers
  <1>4. m \in [1 .. Packet -> Number]
    <2>1. ASSUME NEW i \in 1 .. Packet, i <= n PROVE (next + i - 1) % Numbers \in Number
      <3>1. next + i - 1 \in Nat
        BY <1>3, ConstantFacts
      <3> QED  BY <3>1, NumberFacts
    <2>2. \A i \in 1 .. Packet : mem[b][i] \in Number
      BY <1>3
    <2> QED  BY <2>1, <2>2
  <1>5. \A i \in 1 .. n : m[i] = (next + i - 1) % Numbers
    BY ConstantFacts
  <1> HIDE DEF m, b
  <1>6. mem'[b] = m /\ mem' \in [Buffers -> [1 .. Packet -> Number]]
    BY <1>2, <1>3, <1>4
  <1>7. /\ into'.buf = b /\ into'.n = n /\ n \in 0 .. Packet
        /\ into' \in [buf : Buffers, n : 0 .. Packet]
    BY <1>1, <1>3, ConstantFacts, SMTT(30) DEF b
  <1>8. next' \in Number
    <2>1. next + n \in Nat
      BY <1>3, ConstantFacts
    <2> QED  BY <1>1, <2>1, NumberFacts
  <1>9. TypeOK'
    BY <1>1, <1>6, <1>7, <1>8 DEF IInv, TypeOK, Buffers, appVars
  <1>10. CountInv' /\ JobInv' /\ ArrayInv' /\ ~wrong'
    BY <1>1, <1>7 DEF IInv, CountInv, JobInv, ArrayInv, Notified, appVars, b
  <1>11. PacketInv'
    BY <1>1, <1>3, <1>5, <1>6, <1>7 DEF PacketInv, Run
  <1> QED  BY <1>9, <1>10, <1>11 DEF IInv

LEMMA ReceivedInv == ASSUME Fits, IInv, Received PROVE IInv'
  <1> DEFINE o   == Other(sel)
             got == into.n
  <1> HIDE DEF Number
  <1>1. /\ job = "done" /\ got # 0 /\ job' = "none"
        /\ nb' = [nb EXCEPT ![o] = got]
        /\ UNCHANGED <<mem, running, into, next, first, wrong>>
    BY DEF Received, numVars
  <1>2. /\ nb \in [Buffers -> 0 .. Packet] /\ sel \in Buffers
        /\ o \in Buffers /\ o # sel /\ Other(o) = sel
        /\ got \in 0 .. Longest /\ got <= Copy /\ got > 0 /\ got \in Nat
        /\ mem \in [Buffers -> [1 .. Packet -> Number]]
        /\ local \in [1 .. Copy -> Number] /\ first \in Number
    BY <1>1, OtherFacts, ConstantFacts DEF IInv, TypeOK, CountInv, Buffers, Fits
  <1>3. nb'[o] = got /\ nb'[sel] = nb[sel] /\ nb' \in [Buffers -> 0 .. Packet]
    BY <1>1, <1>2, ConstantFacts
  <1>4. RxStart(nb')
    <2>1. pos >= nb[sel]
      BY <1>2 DEF IInv, CountInv
    <2> QED  BY <2>1 DEF Received
  <1> DEFINE a == [i \in 1 .. Copy |-> IF i <= got THEN mem[o][i] ELSE local[i]]
  <1>5. /\ sel' = o /\ ongoing' = TRUE /\ pos' = got /\ local' = a
        /\ size' = got /\ avail' = got /\ reads' = 0
    <2> DEFINE k == IF got < Copy THEN got ELSE Copy
    <2>1. k = got
      BY <1>2, ConstantFacts
    <2>2. /\ sel' = o /\ ongoing' = TRUE /\ pos' = k
          /\ local' = [i \in 1 .. Copy |-> IF i <= k THEN mem[o][i] ELSE local[i]]
          /\ size' = k /\ avail' = got /\ reads' = 0
      BY <1>3, <1>4 DEF RxStart
    <2> HIDE DEF k
    <2> QED  BY <2>1, <2>2
  <1>6. \A i \in 1 .. got : i \in 1 .. Copy /\ i \in 1 .. Packet /\ a[i] = mem[o][i]
    BY <1>2, ConstantFacts
  <1>7. a \in [1 .. Copy -> Number]
    <2>1. ASSUME NEW i \in 1 .. Copy, i <= got PROVE mem[o][i] \in Number
      <3>1. i \in 1 .. Packet
        BY <1>2, <2>1, ConstantFacts
      <3> QED  BY <1>2, <3>1
    <2>2. \A i \in 1 .. Copy : local[i] \in Number
      BY <1>2
    <2> QED  BY <2>1, <2>2
  <1>8. into.buf = o /\ Run(mem[o], first, got) /\ next = (first + got) % Numbers /\ running
    BY <1>1 DEF IInv, JobInv, PacketInv
  <1> HIDE DEF a, o, got
  <1>9. TypeOK'
    <2>1. /\ got \in 0 .. Packet /\ got \in 0 .. Copy /\ got \in 0 .. Longest
          /\ 0 \in 0 .. Longest
      BY <1>2, ConstantFacts
    <2> QED  BY <1>1, <1>2, <1>3, <1>5, <1>7, <2>1 DEF IInv, TypeOK, Buffers
  <1>10. CountInv'
    BY <1>1, <1>2, <1>3, <1>5 DEF IInv, CountInv, Buffers
  <1>11. JobInv' /\ PacketInv' /\ ~wrong'
    BY <1>1, <1>2, <1>5, <1>8 DEF IInv, JobInv, PacketInv, Notified
  <1>12. ArrayInv'
    <2>1. Run(a, first, got)
      BY <1>6, <1>8 DEF Run
    <2>2. (first + 0) % Numbers = first
      BY <1>2, NumberFacts
    <2> QED  BY <1>1, <1>2, <1>5, <1>8, <2>1, <2>2 DEF ArrayInv
  <1> QED  BY <1>9, <1>10, <1>11, <1>12 DEF IInv

LEMMA ReceivedEmptyInv == ASSUME IInv, ReceivedEmpty PROVE IInv'
  <1>1. /\ job = "done" /\ into.n = 0 /\ job' = "open"
        /\ UNCHANGED <<bufVars, into, appVars, numVars>>
    BY DEF ReceivedEmpty
  <1>2. next = first
    <2>1. next = (first + 0) % Numbers /\ first \in Number /\ first \in Nat
      BY <1>1, NumberFacts DEF IInv, PacketInv, TypeOK
    <2> QED  BY <2>1, NumberFacts
  <1> USE DEF bufVars, appVars, numVars
  <1> HIDE DEF Number
  <1>3. TypeOK'
    BY <1>1 DEF IInv, TypeOK
  <1>4. CountInv' /\ JobInv' /\ PacketInv' /\ ArrayInv' /\ ~wrong'
    BY <1>1, <1>2 DEF IInv, CountInv, JobInv, PacketInv, ArrayInv, Notified
  <1> QED  BY <1>3, <1>4 DEF IInv

LEMMA ProcessInv == ASSUME Fits, IInv, Process PROVE IInv'
  <1> HIDE DEF Number
  <1>1. /\ reads < avail /\ reads' = reads + 1
        /\ wrong' = (wrong \/ reads >= Copy \/ local[reads + 1] # first)
        /\ first' = (first + 1) % Numbers
        /\ UNCHANGED <<mem, nb, sel, pos, ongoing, running, local, size, avail, next>>
    BY DEF Process, Notified, bufVars
  <1>2. /\ reads \in Nat /\ avail \in Nat /\ avail <= Longest /\ avail <= Copy
        /\ first \in Number /\ first \in Nat /\ sel \in Buffers
    BY ConstantFacts, NumberFacts DEF IInv, TypeOK, Buffers, Fits
  <1>3. PICK k \in Number : /\ Run(local, k, avail)
                            /\ first = (k + reads) % Numbers /\ next = (k + avail) % Numbers
    BY <1>1 DEF IInv, ArrayInv, Notified
  <1>4. k \in Nat
    BY NumberFacts
  <1>5. ~wrong'
    <2>1. reads + 1 \in 1 .. avail /\ k + (reads + 1) - 1 = k + reads
      BY <1>1, <1>2, <1>4
    <2>2. local[reads + 1] = first
      BY <1>3, <2>1 DEF Run
    <2>3. ~(reads >= Copy)
      BY <1>1, <1>2, ConstantFacts
    <2>4. ~wrong
      BY DEF IInv
    <2> QED  BY <1>1, <2>2, <2>3, <2>4
  <1>6. first' = (k + reads') % Numbers
    <2>1. k + reads \in Nat /\ k + reads' = (k + reads) + 1 /\ 1 \in Nat
      BY <1>1, <1>2, <1>4
    <2> DEFINE x == k + reads
    <2> HIDE DEF x
    <2>2. ((x % Numbers) + 1) % Numbers = (x + 1) % Numbers
      BY <2>1, ConstantFacts, ModAdd DEF x
    <2> QED  BY <1>1, <1>3, <2>1, <2>2 DEF x
  <1>7. first' \in Number
    BY <1>1, <1>2, NumberFacts
  <1>8. job = "none" /\ running /\ pos = nb[sel]
    BY <1>1 DEF IInv, JobInv, CountInv, Notified, TypeOK
  <1>9. CASE reads' = avail
    <2>1. job' = "open" /\ into' = [buf |-> Other(sel), n |-> 0]
      BY <1>9 DEF Process
    <2>2. Other(sel) \in Buffers /\ 0 \in 0 .. Packet /\ 0 \in 0 .. Longest
      BY <1>2, OtherFacts, ConstantFacts
    <2>3. reads' \in 0 .. Longest /\ reads' <= avail
      BY <1>1, <1>2, ConstantFacts
    <2>4. TypeOK'
      BY <1>1, <1>5, <1>7, <2>1, <2>2, <2>3 DEF IInv, TypeOK, Buffers
    <2>5. CountInv'
      BY <1>1, <2>1, <2>2, <2>3 DEF IInv, CountInv
    <2>6. ~Notified'
      BY <1>1, <1>2, <1>9 DEF Notified
    <2>7. JobInv' /\ PacketInv' /\ ArrayInv'
      BY <1>1, <1>3, <1>6, <1>8, <1>9, <2>1, <2>6 DEF JobInv, PacketInv, ArrayInv
    <2> QED  BY <1>5, <2>4, <2>5, <2>7 DEF IInv
  <1>10. CASE reads' # avail
    <2>1. UNCHANGED <<job, into>>
      BY <1>10 DEF Process, jobVars
    <2>2. reads' \in 0 .. Longest /\ reads' < avail
      BY <1>1, <1>2, <1>10, ConstantFacts
    <2>3. TypeOK'
      BY <1>1, <1>5, <1>7, <2>1, <2>2 DEF IInv, TypeOK
    <2>4. CountInv'
      BY <1>1, <1>2, <2>1, <2>2 DEF IInv, CountInv
    <2>5. Notified'
      BY <1>1, <2>2 DEF Notified
    <2>6. JobInv' /\ PacketInv'
      BY <1>1, <1>8, <2>1, <2>5 DEF JobInv, PacketInv
    <2>7. ArrayInv'
      BY <1>1, <1>3, <1>6 DEF ArrayInv
    <2> QED  BY <1>5, <2>3, <2>4, <2>6, <2>7 DEF IInv
  <1> QED  BY <1>9, <1>10

LEMMA DataEnableInv == ASSUME IInv, DataEnable PROVE IInv'
  <1> HIDE DEF Number
  <1>1. /\ ~Notified /\ running' = TRUE /\ nb' = [b \in Buffers |-> 0]
        /\ pos' = 0 /\ sel' = 1 /\ ongoing' = TRUE
        /\ job' = "open" /\ into' = [buf |-> 0, n |-> 0] /\ first' = next
        /\ UNCHANGED <<mem, appVars, next, wrong>>
    BY DEF DataEnable, Buffers
  <1>2. 0 \in 0 .. Packet /\ 0 \in 0 .. Longest /\ Other(1) = 0
    BY ConstantFacts DEF Other
  <1>3. TypeOK'
    BY <1>1, <1>2 DEF IInv, TypeOK, appVars, Buffers
  <1>4. CountInv'
    BY <1>1, <1>2 DEF IInv, CountInv, appVars, Buffers
  <1>5. JobInv' /\ PacketInv' /\ ArrayInv' /\ ~wrong'
    BY <1>1, <1>2 DEF IInv, JobInv, PacketInv, ArrayInv, appVars, Notified
  <1> QED  BY <1>3, <1>4, <1>5 DEF IInv

LEMMA DataDisableInv == ASSUME IInv, DataDisable PROVE IInv'
  <1> HIDE DEF Number
  <1>1. /\ ~Notified /\ running' = FALSE /\ job' = "none"
        /\ UNCHANGED <<mem, nb, sel, pos, ongoing, into, appVars, numVars>>
    BY DEF DataDisable
  <1> USE DEF appVars, numVars
  <1>2. TypeOK'
    BY <1>1 DEF IInv, TypeOK
  <1>3. CountInv' /\ JobInv' /\ PacketInv' /\ ArrayInv' /\ ~wrong'
    BY <1>1 DEF IInv, CountInv, JobInv, PacketInv, ArrayInv, Notified
  <1> QED  BY <1>2, <1>3 DEF IInv

LEMMA StutterInv == ASSUME IInv, UNCHANGED vars PROVE IInv'
  <1> HIDE DEF Number
  <1> USE DEF vars, bufVars, jobVars, appVars, numVars
  <1>1. TypeOK'
    BY DEF IInv, TypeOK
  <1>2. CountInv' /\ JobInv' /\ PacketInv' /\ ArrayInv' /\ ~wrong'
    BY DEF IInv, CountInv, JobInv, PacketInv, ArrayInv, Notified
  <1> QED  BY <1>1, <1>2 DEF IInv

LEMMA NextInv == ASSUME Fits PROVE IInv /\ [Next]_vars => IInv'
  <1> SUFFICES ASSUME IInv, [Next]_vars PROVE IInv'
    OBVIOUS
  <1>1. ASSUME NEW n \in 0 .. Longest, HostSends(n) PROVE IInv'
    BY <1>1, HostSendsInv
  <1>2. CASE Received \/ Process
    BY <1>2, ReceivedInv, ProcessInv
  <1>3. CASE ReceivedEmpty \/ DataEnable \/ DataDisable
    BY <1>3, ReceivedEmptyInv, DataEnableInv, DataDisableInv
  <1>4. CASE UNCHANGED vars
    BY <1>4, StutterInv
  <1> QED  BY <1>1, <1>2, <1>3, <1>4 DEF Next

LEMMA Invariance == ASSUME Fits PROVE Spec => []IInv
  <1>1. IInv /\ [Next]_vars => IInv'
    BY NextInv
  <1> QED  BY <1>1, InitInv, PTL DEF Spec

\* As long as packets fit into the array of main_cdc_rx_notify, the console is never deaf:
\* the endpoint is open, or a packet is being taken (udi_cdc.c:616, 645, 656).
THEOREM NeverDeaf == ASSUME Fits PROVE Spec => []StaysOpen
  <1>1. IInv => StaysOpen
    BY DEF IInv, JobInv, StaysOpen
  <1> QED  BY <1>1, Invariance, PTL

\* As long as packets fit, every byte the host sends is processed once and in order, from a
\* buffer the host does not write (main.cpp:391, udi_cdc.c:574-657).
THEOREM TypedInOrder == ASSUME Fits PROVE Spec => []InOrder
  <1>1. IInv => InOrder
    BY DEF IInv, JobInv, InOrder
  <1> QED  BY <1>1, Invariance, PTL

(* Induction.                                                                   *)

\* The order of the naturals,
Below == {pair \in Nat \X Nat : pair[1] < pair[2]}

LEMMA BelowWellFounded == IsWellFoundedOn(Below, Nat)
  <1>1. OpToRel(<, Nat) = Below
    BY DEF OpToRel, Below
  <1> QED  BY <1>1, NatLessThanWellFounded

\* and induction along it, over the members of a set.
LEMMA SetInduction ==
    ASSUME NEW S, 0 \in S, \A n \in Nat : n \in S => n + 1 \in S
    PROVE  \A n \in Nat : n \in S
  <1> DEFINE T == {n \in Nat : n \notin S}
  <1> SUFFICES ASSUME T # {} PROVE FALSE
    OBVIOUS
  <1>1. T \subseteq Nat
    OBVIOUS
  <1> HIDE DEF T
  <1>2. PICK x \in T : \A y \in T : ~ (<<y, x>> \in Below)
    BY <1>1, BelowWellFounded, WFMin
  <1>3. x \in Nat /\ x \notin S /\ x # 0
    BY <1>2 DEF T
  <1>4. x - 1 \in Nat /\ x - 1 + 1 = x /\ x - 1 < x
    BY <1>3
  <1>5. x - 1 \notin S
    BY <1>3, <1>4
  <1>6. x - 1 \in T
    BY <1>4, <1>5 DEF T
  <1> QED  BY <1>2, <1>3, <1>4, <1>6 DEF Below

--------------------------------------------------------------------------------
(* What a line means.                                                           *)

\* The loop of parse after each character.
At(line) == CHOOSE at : at = [i \in 0 .. Len(line) |->
                IF i = 0 THEN Cmd!Begin ELSE Cmd!Look(at[i - 1], i, line[i])]

LEMMA LoopSteps ==
    ASSUME NEW line, Len(line) \in Nat
    PROVE  /\ At(line)[0] = Cmd!Begin
           /\ \A i \in 1 .. Len(line) : At(line)[i] = Cmd!Look(At(line)[i - 1], i, line[i])
           /\ Cmd!Loop(line) = At(line)[Len(line)]
  <1> DEFINE look(s, i)  == Cmd!Look(s, i, line[i])
             body(at, i) == IF i = 0 THEN Cmd!Begin ELSE look(at[i - 1], i)
             S == {n \in Nat : \E at : at = [i \in 0 .. n |-> body(at, i)]}
  <1> HIDE DEF look
  <1>1. 0 \in S
    <2> DEFINE g == [i \in 0 .. 0 |-> Cmd!Begin]
    <2>1. g = [i \in 0 .. 0 |-> body(g, i)]
      OBVIOUS
    <2> QED  BY <2>1
  <1>2. ASSUME NEW n \in Nat, n \in S PROVE n + 1 \in S
    <2>1. PICK at : at = [i \in 0 .. n |-> body(at, i)]
      BY <1>2
    <2> DEFINE g == [i \in 0 .. n + 1 |-> IF i = n + 1 THEN look(at[n], n + 1) ELSE at[i]]
    <2>2. ASSUME NEW i \in 0 .. n + 1 PROVE g[i] = body(g, i)
      <3>1. CASE i = n + 1
        <4>1. g[i - 1] = at[n] /\ i # 0
          BY <3>1
        <4>2. g[i] = look(at[n], n + 1)
          BY <3>1
        <4> QED  BY <3>1, <4>1, <4>2
      <3>2. CASE i = 0
        BY <3>2, <2>1
      <3>3. CASE i # 0 /\ i # n + 1
        <4>1. i \in 0 .. n /\ i - 1 \in 0 .. n + 1 /\ i - 1 # n + 1
          BY <3>3
        <4>2. g[i] = at[i] /\ g[i - 1] = at[i - 1]
          BY <3>3, <4>1
        <4>3. at[i] = body(at, i)
          BY <2>1, <4>1
        <4> QED  BY <3>3, <4>2, <4>3
      <3> QED  BY <3>1, <3>2, <3>3
    <2>3. g = [i \in 0 .. n + 1 |-> body(g, i)]
      <3>1. DOMAIN g = 0 .. n + 1
        OBVIOUS
      <3>2. g = [i \in 0 .. n + 1 |-> g[i]]
        OBVIOUS
      <3> HIDE DEF g, body
      <3> QED  BY <2>2, <3>2
    <2> HIDE DEF g
    <2>4. \E f : f = [i \in 0 .. n + 1 |-> body(f, i)]
      BY <2>3
    <2> QED  BY <2>4
  <1>3. Len(line) \in S
    <2> HIDE DEF S
    <2> QED  BY <1>1, <1>2, SetInduction
  <1>4. At(line) = [i \in 0 .. Len(line) |-> body(At(line), i)]
    <2>1. \E f : f = [i \in 0 .. Len(line) |-> body(f, i)]
      BY <1>3
    <2> QED  BY <2>1 DEF At, look
  <1>5. Cmd!Loop(line) = At(line)[Len(line)]
    BY DEF Cmd!Loop, At
  <1> QED  BY <1>4, <1>5 DEF look

\* Where the first of some characters is, given one that is.
LEMMA FirstIs ==
    ASSUME NEW line, Len(line) \in Nat, NEW cs, NEW i \in Nat \ {0}, NEW j \in i .. Len(line) + 1,
           j > Len(line) \/ line[j] \in cs,
           \A k \in i .. j - 1 : line[k] \notin cs
    PROVE  Cmd!First(line, i, cs) = j
  <1> DEFINE P(m) == /\ m > Len(line) \/ line[m] \in cs
                     /\ \A k \in i .. m - 1 : line[k] \notin cs
             c == CHOOSE m \in i .. Len(line) + 1 : P(m)
  <1>1. P(j)
    OBVIOUS
  <1>2. c \in i .. Len(line) + 1 /\ P(c)
    <2> HIDE DEF P
    <2> QED  BY <1>1
  <1>3. Cmd!First(line, i, cs) = c
    BY DEF Cmd!First
  <1> HIDE DEF c
  <1>4. CASE c < j
    <2>1. c \in i .. j - 1 /\ c <= Len(line)
      BY <1>2, <1>4
    <2> QED  BY <1>1, <1>2, <2>1
  <1>5. CASE j < c
    <2>1. j \in i .. c - 1 /\ j <= Len(line)
      BY <1>2, <1>5
    <2> QED  BY <1>1, <1>2, <2>1
  <1> QED  BY <1>2, <1>3, <1>4, <1>5

\* There is always a first.
LEMMA FirstExists ==
    ASSUME NEW line, Len(line) \in Nat, NEW cs, NEW i \in 1 .. Len(line) + 1
    PROVE  LET j == Cmd!First(line, i, cs)
           IN  /\ j \in i .. Len(line) + 1
               /\ j > Len(line) \/ line[j] \in cs
               /\ \A k \in i .. j - 1 : line[k] \notin cs
  <1> DEFINE T == {j \in i .. Len(line) + 1 : j > Len(line) \/ line[j] \in cs}
  <1>1. Len(line) + 1 \in T /\ T \subseteq Nat
    OBVIOUS
  <1> HIDE DEF T
  <1>2. PICK j \in T : \A m \in T : ~ (<<m, j>> \in Below)
    BY <1>1, BelowWellFounded, WFMin
  <1>3. j \in i .. Len(line) + 1 /\ (j > Len(line) \/ line[j] \in cs)
    BY <1>2 DEF T
  <1>4. ASSUME NEW k \in i .. j - 1 PROVE line[k] \notin cs
    <2>1. k \in Nat /\ j \in Nat /\ k < j /\ k \in i .. Len(line) + 1
      BY <1>3
    <2>2. k \notin T
      BY <1>2, <2>1 DEF Below
    <2> QED  BY <2>1, <2>2 DEF T
  <1>5. Cmd!First(line, i, cs) = j
    BY <1>3, <1>4, FirstIs
  <1> QED  BY <1>3, <1>4, <1>5

\* The argument that begins at i or after it: where blanks end, where quotes end, and
\* where it ends.
Blanks(line, i) == Cmd!First(line, i, Cmd!Chars \ {"blank"})
Quotes(line, i) == Cmd!First(line, Blanks(line, i), Cmd!Chars \ {"quote"})
WordEnd(line, i) ==
    LET b == Blanks(line, i)
    IN  IF b <= Len(line) /\ line[b] = "quote"
        THEN Cmd!First(line, Quotes(line, i), {"quote"}) ELSE Cmd!First(line, b, {"blank"})
NoWord(line, i) == i > Len(line) \/ Blanks(line, i) > Len(line) \/ Quotes(line, i) > Len(line)

\* The arguments of line from position i on, given those from every later one.
RestBody(line, from, i) ==
    IF NoWord(line, i) THEN << >>
    ELSE <<[start |-> Quotes(line, i), end |-> WordEnd(line, i)]>> \o from[WordEnd(line, i) + 1]

Rest(line) == CHOOSE from : from = [i \in 1 .. Len(line) + 2 |-> RestBody(line, from, i)]

LEMMA WordsAreRest == ASSUME NEW line PROVE Cmd!Words(line) = Rest(line)[1]
  BY DEF Cmd!Words, Rest, RestBody, NoWord, WordEnd, Quotes, Blanks

LEMMA WordBounds ==
    ASSUME NEW line, Len(line) \in Nat, NEW i \in 1 .. Len(line), ~NoWord(line, i)
    PROVE  /\ Blanks(line, i) \in i .. Len(line) /\ Quotes(line, i) \in i .. Len(line)
           /\ WordEnd(line, i) \in i .. Len(line) + 1
  <1>1. Blanks(line, i) \in i .. Len(line) + 1 /\ Blanks(line, i) <= Len(line)
    BY FirstExists DEF Blanks, NoWord
  <1>2. Blanks(line, i) \in 1 .. Len(line) + 1
    BY <1>1
  <1>3. Quotes(line, i) \in Blanks(line, i) .. Len(line) + 1 /\ Quotes(line, i) <= Len(line)
    BY <1>2, <1>1, FirstExists DEF Quotes, NoWord
  <1>4. Quotes(line, i) \in 1 .. Len(line) + 1
    BY <1>1, <1>3
  <1>5. /\ Cmd!First(line, Quotes(line, i), {"quote"}) \in Quotes(line, i) .. Len(line) + 1
        /\ Cmd!First(line, Blanks(line, i), {"blank"}) \in Blanks(line, i) .. Len(line) + 1
    BY <1>2, <1>4, FirstExists
  <1>6. \/ WordEnd(line, i) \in Quotes(line, i) .. Len(line) + 1
        \/ WordEnd(line, i) \in Blanks(line, i) .. Len(line) + 1
    BY <1>5 DEF WordEnd
  <1> QED  BY <1>1, <1>3, <1>6

LEMMA RestSteps ==
    ASSUME NEW line, Len(line) \in Nat
    PROVE  Rest(line) = [i \in 1 .. Len(line) + 2 |-> RestBody(line, Rest(line), i)]
  <1> DEFINE N == Len(line) + 2
             D(m) == N + 1 - m .. N
             S == {m \in Nat : m <= N =>
                      \E f : f = [i \in D(m) |-> RestBody(line, f, i)]}
  <1>1. ASSUME NEW f, NEW g, NEW i \in 1 .. N, \A j \in i + 1 .. N : f[j] = g[j]
        PROVE  RestBody(line, f, i) = RestBody(line, g, i)
    <2>1. CASE NoWord(line, i)
      BY <2>1 DEF RestBody
    <2>2. CASE ~NoWord(line, i)
      <3>1. i \in 1 .. Len(line)
        BY <2>2 DEF NoWord
      <3>2. WordEnd(line, i) + 1 \in i + 1 .. N
        BY <2>2, <3>1, WordBounds
      <3> QED  BY <1>1, <3>2 DEF RestBody
    <2> QED  BY <2>1, <2>2
  <1>2. 0 \in S
    <2> DEFINE g == [i \in D(0) |-> << >>]
    <2>1. D(0) = {}
      OBVIOUS
    <2>2. g = [i \in D(0) |-> RestBody(line, g, i)]
      BY <2>1
    <2> QED  BY <2>2
  <1>3. ASSUME NEW m \in Nat, m \in S PROVE m + 1 \in S
    <2> SUFFICES ASSUME m + 1 <= N PROVE \E g : g = [i \in D(m + 1) |-> RestBody(line, g, i)]
      OBVIOUS
    <2>1. PICK f : f = [i \in D(m) |-> RestBody(line, f, i)]
      BY <1>3
    <2> DEFINE p == N - m
               g == [i \in D(m + 1) |-> IF i = p THEN RestBody(line, f, p) ELSE f[i]]
    <2>2. p \in 1 .. N /\ p \notin D(m) /\ D(m + 1) = {p} \cup D(m) /\ D(m) \subseteq 1 .. N
      <3>1. p \in Nat /\ p >= 1 /\ p <= N /\ N \in Nat
        OBVIOUS
      <3>2. D(m) = p + 1 .. N /\ D(m + 1) = p .. N
        OBVIOUS
      <3> HIDE DEF N, p, D
      <3> QED  BY <3>1, <3>2
    <2>3. \A j \in D(m) : g[j] = f[j]
      BY <2>2
    <2>4. \A i \in 1 .. N : i >= p => \A j \in i + 1 .. N : j \in D(m)
      OBVIOUS
    <2>5. ASSUME NEW i \in D(m + 1) PROVE g[i] = RestBody(line, g, i)
      <3>1. i \in 1 .. N /\ i >= p
        BY <2>2
      <3>2. \A j \in i + 1 .. N : f[j] = g[j]
        BY <2>3, <2>4, <3>1
      <3>3. RestBody(line, f, i) = RestBody(line, g, i)
        BY <1>1, <3>1, <3>2
      <3>4. g[i] = RestBody(line, f, i)
        BY <2>1, <2>2, <2>5
      <3> QED  BY <3>3, <3>4
    <2>6. g = [i \in D(m + 1) |-> g[i]]
      OBVIOUS
    <2> HIDE DEF g
    <2> QED  BY <2>5, <2>6
  <1>4. N \in S
    <2>1. N \in Nat
      OBVIOUS
    <2> HIDE DEF S, N
    <2> QED  BY <1>2, <1>3, <2>1, SetInduction
  <1>5. \E f : f = [i \in 1 .. Len(line) + 2 |-> RestBody(line, f, i)]
    <2>1. D(N) = 1 .. Len(line) + 2
      OBVIOUS
    <2> QED  BY <1>4, <2>1
  <1> QED  BY <1>5 DEF Rest

\* One step of the definition.
LEMMA RestAt ==
    ASSUME NEW line, Len(line) \in Nat, NEW i \in 1 .. Len(line) + 2
    PROVE  Rest(line)[i] = RestBody(line, Rest(line), i)
  <1> DEFINE N == Len(line) + 2
             body(j) == RestBody(line, Rest(line), j)
  <1>1. Rest(line) = [j \in 1 .. N |-> body(j)]
    BY RestSteps
  <1> HIDE DEF body
  <1>2. Rest(line)[i] = body(i)
    BY <1>1
  <1> QED  BY <1>2 DEF body

\* An argument in quotes: they begin at b, its characters go from s to before e.
LEMMA QuotedWord ==
    ASSUME NEW line \in Seq(Cmd!Chars), NEW s \in 1 .. Len(line), NEW b \in 1 .. s - 1,
           NEW e \in s + 1 .. Len(line) + 1,
           \A k \in b .. s - 1 : line[k] = "quote",
           \A k \in s .. e - 1 : line[k] # "quote",
           e > Len(line) \/ line[e] = "quote"
    PROVE  Rest(line)[b] = <<[start |-> s, end |-> e]>> \o Rest(line)[e + 1]
  <1>1. /\ Len(line) \in Nat /\ b \in 1 .. Len(line) /\ b \in b .. s - 1 /\ s \in s .. e - 1
        /\ \A k \in 1 .. Len(line) : line[k] \in Cmd!Chars
    OBVIOUS
  <1>2. Blanks(line, b) = b
    <2>1. line[b] = "quote" /\ line[b] \in Cmd!Chars \ {"blank"}
      BY <1>1
    <2>2. b \in Nat \ {0} /\ b \in b .. Len(line) + 1 /\ \A k \in b .. b - 1 : line[k] \notin Cmd!Chars \ {"blank"}
      BY <1>1
    <2> QED  BY <1>1, <2>1, <2>2, FirstIs DEF Blanks
  <1>3. Quotes(line, b) = s
    <2>1. line[s] \in Cmd!Chars \ {"quote"} /\ s \in b .. Len(line) + 1 /\ b \in Nat \ {0}
      BY <1>1
    <2>2. \A k \in b .. s - 1 : line[k] \notin Cmd!Chars \ {"quote"}
      OBVIOUS
    <2> QED  BY <1>1, <1>2, <2>1, <2>2, FirstIs DEF Quotes
  <1>4. WordEnd(line, b) = e
    <2>1. e \in s .. Len(line) + 1 /\ s \in Nat \ {0} /\ \A k \in s .. e - 1 : line[k] \notin {"quote"}
      OBVIOUS
    <2>2. Cmd!First(line, s, {"quote"}) = e
      BY <1>1, <2>1, FirstIs
    <2>3. line[b] = "quote" /\ b <= Len(line)
      BY <1>1
    <2> QED  BY <1>2, <1>3, <2>2, <2>3 DEF WordEnd
  <1>5. ~NoWord(line, b)
    BY <1>1, <1>2, <1>3 DEF NoWord
  <1>6. b \in 1 .. Len(line) + 2
    BY <1>1
  <1> QED  BY <1>1, <1>3, <1>4, <1>5, <1>6, RestAt DEF RestBody

\* Any other argument: it begins at s with neither blank nor quote and goes to before e.
LEMMA PlainWord ==
    ASSUME NEW line \in Seq(Cmd!Chars), NEW s \in 1 .. Len(line),
           NEW e \in s + 1 .. Len(line) + 1,
           line[s] # "quote",
           \A k \in s .. e - 1 : line[k] # "blank",
           e > Len(line) \/ line[e] = "blank"
    PROVE  Rest(line)[s] = <<[start |-> s, end |-> e]>> \o Rest(line)[e + 1]
  <1>1. /\ Len(line) \in Nat /\ s \in Nat \ {0} /\ s \in s .. e - 1 /\ s \in s .. Len(line) + 1
        /\ \A k \in s .. s - 1 : FALSE
        /\ line[s] \in Cmd!Chars
    OBVIOUS
  <1>2. Blanks(line, s) = s
    <2>1. line[s] \in Cmd!Chars \ {"blank"}
      BY <1>1
    <2> QED  BY <1>1, <2>1, FirstIs DEF Blanks
  <1>3. Quotes(line, s) = s
    <2>1. line[s] \in Cmd!Chars \ {"quote"}
      BY <1>1
    <2> QED  BY <1>1, <1>2, <2>1, FirstIs DEF Quotes
  <1>4. WordEnd(line, s) = e
    <2>1. e \in s .. Len(line) + 1 /\ \A k \in s .. e - 1 : line[k] \notin {"blank"}
      OBVIOUS
    <2>2. Cmd!First(line, s, {"blank"}) = e
      BY <1>1, <2>1, FirstIs
    <2> QED  BY <1>2, <2>2 DEF WordEnd
  <1>5. ~NoWord(line, s)
    BY <1>2, <1>3 DEF NoWord
  <1>6. s \in 1 .. Len(line) + 2
    OBVIOUS
  <1> QED  BY <1>1, <1>3, <1>4, <1>5, <1>6, RestAt DEF RestBody

LEMMA NothingLeft ==
    ASSUME NEW line, Len(line) \in Nat
    PROVE  Rest(line)[Len(line) + 1] = << >> /\ Rest(line)[Len(line) + 2] = << >>
  <1>1. Len(line) + 1 \in 1 .. Len(line) + 2 /\ Len(line) + 2 \in 1 .. Len(line) + 2
    OBVIOUS
  <1>2. NoWord(line, Len(line) + 1) /\ NoWord(line, Len(line) + 2)
    BY DEF NoWord
  <1> QED  BY <1>1, <1>2, RestAt DEF RestBody

LEMMA OnlyQuotesLeft ==
    ASSUME NEW line \in Seq(Cmd!Chars), NEW b \in 1 .. Len(line),
           \A k \in b .. Len(line) : line[k] = "quote"
    PROVE  Rest(line)[b] = << >>
  <1>1. Len(line) \in Nat /\ b \in Nat \ {0} /\ b \in b .. Len(line) + 1 /\ b \in b .. Len(line)
    OBVIOUS
  <1>2. Blanks(line, b) = b
    <2>1. line[b] = "quote" /\ line[b] \in Cmd!Chars \ {"blank"} /\ \A k \in b .. b - 1 : FALSE
      BY <1>1
    <2> QED  BY <1>1, <2>1, FirstIs DEF Blanks
  <1>3. Quotes(line, b) = Len(line) + 1
    <2> DEFINE j == Len(line) + 1
    <2>1. j \in b .. Len(line) + 1 /\ j > Len(line)
      BY <1>1
    <2>2. \A k \in b .. j - 1 : line[k] \notin Cmd!Chars \ {"quote"}
      OBVIOUS
    <2> HIDE DEF j
    <2>3. Cmd!First(line, b, Cmd!Chars \ {"quote"}) = j
      BY <1>1, <2>1, <2>2, FirstIs
    <2> QED  BY <1>2, <2>3 DEF Quotes, j
  <1>4. NoWord(line, b) /\ b \in 1 .. Len(line) + 2
    BY <1>1, <1>3 DEF NoWord
  <1> QED  BY <1>1, <1>4, RestAt DEF RestBody

LEMMA BlankSkipped ==
    ASSUME NEW line \in Seq(Cmd!Chars), NEW i \in 1 .. Len(line), line[i] = "blank"
    PROVE  Rest(line)[i] = Rest(line)[i + 1]
  <1> DEFINE n == Len(line)
  <1>1. n \in Nat /\ i \in 1 .. n + 2 /\ i + 1 \in 1 .. n + 2 /\ i \in Nat \ {0} /\ i + 1 \in 1 .. n + 1
    OBVIOUS
  <1>2. Blanks(line, i) = Blanks(line, i + 1)
    <2> DEFINE j == Blanks(line, i + 1)
               cs == Cmd!Chars \ {"blank"}
    <2>1. /\ j \in i + 1 .. n + 1
          /\ j > n \/ line[j] \in cs
          /\ \A k \in i + 1 .. j - 1 : line[k] \notin cs
      BY <1>1, FirstExists DEF Blanks
    <2> HIDE DEF j
    <2>2. j \in i .. n + 1
      BY <2>1
    <2>3. \A k \in i .. j - 1 : line[k] \notin cs
      <3>1. \A k \in i .. j - 1 : k = i \/ k \in i + 1 .. j - 1
        BY <2>1
      <3> QED  BY <2>1, <3>1
    <2> HIDE DEF cs
    <2>4. Cmd!First(line, i, cs) = j
      BY <1>1, <2>1, <2>2, <2>3, FirstIs
    <2> QED  BY <2>4 DEF Blanks, cs, j
  <1>3. CASE i = n
    <2>1. Blanks(line, i + 1) \in i + 1 .. n + 1
      BY <1>1, FirstExists DEF Blanks
    <2>2. NoWord(line, i)
      BY <1>2, <1>3, <2>1 DEF NoWord
    <2>3. Rest(line)[i] = << >>
      BY <1>1, <2>2, RestAt DEF RestBody
    <2> QED  BY <1>1, <1>3, <2>3, NothingLeft
  <1>4. CASE i # n
    <2>1. i <= n /\ i + 1 <= n
      BY <1>1, <1>4
    <2>2. Quotes(line, i) = Quotes(line, i + 1) /\ WordEnd(line, i) = WordEnd(line, i + 1)
      BY <1>2 DEF Quotes, WordEnd
    <2>3. NoWord(line, i) = NoWord(line, i + 1)
      <3>1. ~(i > n) /\ ~(i + 1 > n)
        BY <2>1
      <3> QED  BY <1>2, <2>2, <3>1 DEF NoWord
    <2>4. RestBody(line, Rest(line), i) = RestBody(line, Rest(line), i + 1)
      BY <2>2, <2>3 DEF RestBody
    <2> QED  BY <1>1, <2>4, RestAt
  <1> QED  BY <1>3, <1>4

--------------------------------------------------------------------------------
(* What the loop finds.                                                         *)

Arg(line) == [start : 1 .. Len(line) + 1, end : 1 .. Len(line) + 1]

LEMMA RestType ==
    ASSUME NEW line, Len(line) \in Nat, NEW i \in 1 .. Len(line) + 2
    PROVE  Rest(line)[i] \in Seq(Arg(line))
  <1> DEFINE N == Len(line) + 2
             typed(j) == Rest(line)[j] \in Seq(Arg(line))
             S == {m \in Nat : \A j \in 1 .. N : j > N - m => typed(j)}
  <1>1. 0 \in S
    OBVIOUS
  <1>2. ASSUME NEW m \in Nat, m \in S PROVE m + 1 \in S
    <2> SUFFICES ASSUME NEW j \in 1 .. N, j > N - (m + 1) PROVE typed(j)
      OBVIOUS
    <2>1. \A k \in 1 .. N : k > j => typed(k)
      BY <1>2
    <2> HIDE DEF typed
    <2>2. CASE NoWord(line, j)
      <3>1. Rest(line)[j] = << >>
        BY <2>2, RestAt DEF RestBody
      <3> QED  BY <3>1 DEF typed
    <2>3. CASE ~NoWord(line, j)
      <3>1. j \in 1 .. Len(line)
        BY <2>3 DEF NoWord
      <3>2. Quotes(line, j) \in j .. Len(line) /\ WordEnd(line, j) \in j .. Len(line) + 1
        BY <2>3, <3>1, WordBounds
      <3> DEFINE w == [start |-> Quotes(line, j), end |-> WordEnd(line, j)]
                 k == WordEnd(line, j) + 1
      <3>3. w \in Arg(line) /\ k \in 1 .. N /\ k > j
        BY <3>1, <3>2 DEF Arg
      <3>4. Rest(line)[j] = <<w>> \o Rest(line)[k]
        BY <2>3, RestAt DEF RestBody
      <3>5. Rest(line)[k] \in Seq(Arg(line))
        BY <2>1, <3>3 DEF typed
      <3> HIDE DEF w, k
      <3> QED  BY <3>3, <3>4, <3>5 DEF typed
    <2> QED  BY <2>2, <2>3
  <1>3. N \in S
    <2>1. N \in Nat
      OBVIOUS
    <2> HIDE DEF S, N
    <2> QED  BY <1>1, <1>2, <2>1, SetInduction
  <1> QED  BY <1>3

\* What the loop has seen of the line before position i + 1: the argument being read
\* begins at b, with quotes or without.
Reading(line, s, i, b) ==
    /\ s.in_quote => /\ b < s.start /\ \A k \in b .. s.start - 1 : line[k] = "quote"
                     /\ \A k \in s.start .. i : line[k] # "quote"
    /\ ~s.in_quote => /\ b = s.start /\ (s.start <= i => line[s.start] # "quote")
                      /\ \A k \in s.start .. i : line[k] # "blank"

\* The arguments found are the first of the line's; unless the table is full the others
\* are those from b on.
Reads(line, s, i) ==
    /\ s \in [start : 1 .. i + 1, found : Seq(Arg(line)), in_quote : BOOLEAN, full : BOOLEAN]
    /\ Len(s.found) < s.start
    /\ s.full => /\ Len(s.found) = MaxArgs
                 /\ \E t \in Seq(Arg(line)) : Cmd!Words(line) = s.found \o t
    /\ ~s.full => /\ Len(s.found) < MaxArgs
                  /\ \E b \in 1 .. s.start : /\ Cmd!Words(line) = s.found \o Rest(line)[b]
                                             /\ Reading(line, s, i, b)

LEMMA ArgsFact == MaxArgs \in Nat \ {0} /\ MaxSize \in Nat \ {0}
  BY CmdAssumption DEF Cmd!ConstantsFit

LEMMA BeginReads ==
    ASSUME NEW line \in Seq(Cmd!Chars) PROVE Reads(line, Cmd!Begin, 0)
  <1>1. Cmd!Begin = [start |-> 1, found |-> << >>, in_quote |-> FALSE, full |-> FALSE]
    BY DEF Cmd!Begin
  <1>2. Cmd!Begin \in [start : 1 .. 1, found : Seq(Arg(line)), in_quote : BOOLEAN, full : BOOLEAN]
    BY <1>1
  <1>3. << >> \o Rest(line)[1] = Cmd!Words(line)
    <2>1. 1 \in 1 .. Len(line) + 2 /\ Len(line) \in Nat
      OBVIOUS
    <2>2. Rest(line)[1] \in Seq(Arg(line))
      BY <2>1, RestType
    <2> QED  BY <2>2, WordsAreRest, ConcatEmptySeq
  <1>4. Reading(line, Cmd!Begin, 0, 1)
    BY <1>1 DEF Reading
  <1>5. Len(Cmd!Begin.found) = 0 /\ Cmd!Begin.start = 1 /\ ~Cmd!Begin.full
    BY <1>1
  <1>6. 0 < MaxArgs /\ 1 \in 1 .. Cmd!Begin.start /\ 0 + 1 = 1
    BY <1>5, ArgsFact
  <1>7. Cmd!Words(line) = Cmd!Begin.found \o Rest(line)[1]
    BY <1>1, <1>3
  <1> QED  BY <1>2, <1>4, <1>5, <1>6, <1>7 DEF Reads

\* What is put last goes before the rest.
LEMMA AppendFirst ==
    ASSUME NEW S, NEW x \in S, NEW s \in Seq(S), NEW r \in Seq(S)
    PROVE  Append(s, x) \o r = s \o (<<x>> \o r)
  OBVIOUS

\* The argument from b on ends before i.
LEMMA EndedReads ==
    ASSUME NEW line \in Seq(Cmd!Chars), NEW i \in 1 .. Len(line), NEW s,
           Reads(line, s, i - 1), ~s.full, s.start < i,
           NEW b \in 1 .. s.start, Cmd!Words(line) = s.found \o Rest(line)[b],
           Rest(line)[b] = <<[start |-> s.start, end |-> i]>> \o Rest(line)[i + 1]
    PROVE  Reads(line, Cmd!Ended(s, i), i)
  <1> DEFINE w == [start |-> s.start, end |-> i]
             r == Rest(line)[i + 1]
             f == Append(s.found, w)
             t == Cmd!Ended(s, i)
  <1>1. /\ s.start \in 1 .. i /\ s.found \in Seq(Arg(line)) /\ Len(s.found) < s.start
        /\ Len(s.found) < MaxArgs /\ i + 1 \in 1 .. Len(line) + 2 /\ Len(line) \in Nat
    BY DEF Reads
  <1>2. w \in Arg(line) /\ r \in Seq(Arg(line))
    <2>1. s.start \in 1 .. Len(line) + 1 /\ i \in 1 .. Len(line) + 1
      BY <1>1
    <2>2. r \in Seq(Arg(line))
      BY <1>1, RestType
    <2> QED  BY <2>1, <2>2 DEF Arg
  <1>3. t = [start    |-> i + 1, found |-> f, in_quote |-> FALSE,
             full |-> Len(s.found) + 1 >= MaxArgs]
    BY DEF Cmd!Ended
  <1>4. Cmd!Words(line) = s.found \o (<<w>> \o r)
    OBVIOUS
  <1> SUFFICES Reads(line, t, i)
    OBVIOUS
  <1> HIDE DEF w, r, t, f
  <1>5. f \in Seq(Arg(line)) /\ Len(f) = Len(s.found) + 1 /\ f = s.found \o <<w>>
    BY <1>1, <1>2, AppendIsConcat, SMTT(30) DEF f
  <1>6. Cmd!Words(line) = f \o r
    <2>1. Append(s.found, w) \o r = s.found \o (<<w>> \o r)
      <3> DEFINE A == Arg(line)
                 g == s.found
      <3>1. w \in A /\ g \in Seq(A) /\ r \in Seq(A)
        BY <1>1, <1>2
      <3> HIDE DEF A, g
      <3>2. Append(g, w) \o r = g \o (<<w>> \o r)
        BY <3>1, AppendFirst, SMTT(30)
      <3> QED  BY <3>2 DEF g
    <2> QED  BY <1>4, <2>1 DEF f
  <1>7. t \in [start : 1 .. i + 1, found : Seq(Arg(line)), in_quote : BOOLEAN, full : BOOLEAN]
    BY <1>3, <1>5
  <1>8. Len(t.found) < t.start /\ (~t.full => Len(t.found) < MaxArgs) /\ (t.full => Len(t.found) = MaxArgs)
    <2>1. t.found = f /\ t.start = i + 1 /\ (t.full <=> Len(s.found) + 1 >= MaxArgs)
      BY <1>3
    <2>2. Len(s.found) \in Nat /\ Len(s.found) + 1 < i + 1
      BY <1>1
    <2> QED  BY <1>1, <1>5, <2>1, <2>2, ArgsFact, SMTT(30)
  <1>9. Reading(line, t, i, i + 1)
    BY <1>3 DEF Reading
  <1>10. i + 1 \in 1 .. t.start /\ t.found = f
    BY <1>3
  <1> QED  BY <1>2, <1>6, <1>7, <1>8, <1>9, <1>10 DEF Reads, r

LEMMA LookReads ==
    ASSUME NEW line \in Seq(Cmd!Chars), NEW i \in 1 .. Len(line), NEW s, Reads(line, s, i - 1)
    PROVE  Reads(line, Cmd!Look(s, i, line[i]), i)
  <1> DEFINE c == line[i]
             t == Cmd!Look(s, i, c)
  <1> SUFFICES Reads(line, t, i)
    OBVIOUS
  <1> HIDE DEF t
  <1>1. /\ s \in [start : 1 .. i, found : Seq(Arg(line)), in_quote : BOOLEAN, full : BOOLEAN]
        /\ Len(s.found) < s.start /\ Len(line) \in Nat /\ i \in Nat
    BY DEF Reads
  <1>2. CASE s.full
    <2>1. t = s
      BY <1>2 DEF Cmd!Look, t
    <2>2. s \in [start : 1 .. i + 1, found : Seq(Arg(line)), in_quote : BOOLEAN, full : BOOLEAN]
      BY <1>1
    <2> QED  BY <1>2, <2>1, <2>2 DEF Reads
  <1>3. CASE ~s.full
    <2>1. PICK b \in 1 .. s.start : /\ Cmd!Words(line) = s.found \o Rest(line)[b]
                                    /\ Reading(line, s, i - 1, b)
      BY <1>3 DEF Reads
    <2>2. Len(s.found) < MaxArgs
      BY <1>3 DEF Reads
    \* More of the quotes, or the first of them.
    <2>3. CASE c = "quote" /\ i = s.start
      <3>1. t = [s EXCEPT !.start = i + 1, !.in_quote = TRUE]
        BY <1>3, <2>3 DEF Cmd!Look, t
      <3>2. /\ t \in [start : 1 .. i + 1, found : Seq(Arg(line)), in_quote : BOOLEAN, full : BOOLEAN]
            /\ t.found = s.found /\ t.start = i + 1 /\ t.in_quote /\ t.full = s.full
        <4> DEFINE u == [s EXCEPT !.start = i + 1]
        <4>1. /\ u \in [start : 1 .. i + 1, found : Seq(Arg(line)), in_quote : BOOLEAN, full : BOOLEAN]
              /\ u.found = s.found /\ u.start = i + 1 /\ u.full = s.full
          BY <1>1
        <4>2. t = [u EXCEPT !.in_quote = TRUE]
          BY <3>1
        <4> HIDE DEF u
        <4> QED  BY <4>1, <4>2
      <3>3. b < t.start /\ b \in 1 .. t.start
        BY <2>3, <3>2
      <3>4. ASSUME NEW k \in b .. t.start - 1 PROVE line[k] = "quote"
        <4>1. k \in Nat /\ k <= i
          BY <3>2, <3>4
        <4>2. CASE k = i
          BY <2>3, <4>2
        <4>3. CASE k < i
          <5>1. s.in_quote
            BY <1>1, <2>1, <2>3, <4>3 DEF Reading
          <5>2. k \in b .. s.start - 1
            BY <2>3, <4>1, <4>3
          <5> QED  BY <2>1, <5>1, <5>2 DEF Reading
        <4> QED  BY <4>1, <4>2, <4>3
      <3>5. Reading(line, t, i, b)
        BY <3>2, <3>3, <3>4 DEF Reading
      <3>6. Len(t.found) < t.start
        BY <1>1, <2>3, <3>2
      <3> QED  BY <1>3, <2>1, <2>2, <3>2, <3>3, <3>5, <3>6 DEF Reads
    \* The quotes after an argument.
    <2>4. CASE c = "quote" /\ i # s.start /\ s.in_quote
      <3>1. t = Cmd!Ended(s, i)
        BY <1>3, <2>4 DEF Cmd!Look, t
      <3>2. s.start < i /\ s.start \in 1 .. Len(line) /\ i \in s.start + 1 .. Len(line) + 1
        BY <1>1, <2>4
      <3>3. b \in 1 .. s.start - 1
        BY <1>1, <2>1, <2>4 DEF Reading
      <3>4. /\ \A k \in b .. s.start - 1 : line[k] = "quote"
            /\ \A k \in s.start .. i - 1 : line[k] # "quote"
        BY <2>1, <2>4 DEF Reading
      <3>5. Rest(line)[b] = <<[start |-> s.start, end |-> i]>> \o Rest(line)[i + 1]
        BY <2>4, <3>2, <3>3, <3>4, QuotedWord
      <3> QED  BY <1>3, <2>1, <3>1, <3>2, <3>5, EndedReads
    \* A blank before an argument.
    <2>5. CASE c = "blank" /\ ~s.in_quote /\ i = s.start
      <3>1. t = [s EXCEPT !.start = i + 1]
        BY <1>3, <2>5 DEF Cmd!Look, t
      <3>2. /\ t \in [start : 1 .. i + 1, found : Seq(Arg(line)), in_quote : BOOLEAN, full : BOOLEAN]
            /\ t.found = s.found /\ t.start = i + 1 /\ ~t.in_quote /\ t.full = s.full
        BY <1>1, <2>5, <3>1
      <3>3. b = i
        BY <2>1, <2>5 DEF Reading
      <3>4. Rest(line)[b] = Rest(line)[i + 1]
        BY <2>5, <3>3, BlankSkipped
      <3>5. Reading(line, t, i, i + 1) /\ i + 1 \in 1 .. t.start
        BY <3>2 DEF Reading
      <3>6. Len(t.found) < t.start
        BY <1>1, <2>5, <3>2
      <3> QED  BY <1>3, <2>1, <2>2, <3>2, <3>4, <3>5, <3>6 DEF Reads
    \* The blank after an argument.
    <2>6. CASE c = "blank" /\ ~s.in_quote /\ i # s.start
      <3>1. t = Cmd!Ended(s, i)
        BY <1>3, <2>6 DEF Cmd!Look, t
      <3>2. s.start < i /\ s.start \in 1 .. Len(line) /\ i \in s.start + 1 .. Len(line) + 1
        BY <1>1, <2>6
      <3>3. /\ b = s.start /\ line[s.start] # "quote"
            /\ \A k \in s.start .. i - 1 : line[k] # "blank"
        BY <1>1, <2>1, <2>6, <3>2 DEF Reading
      <3>4. Rest(line)[b] = <<[start |-> s.start, end |-> i]>> \o Rest(line)[i + 1]
        BY <2>6, <3>2, <3>3, PlainWord
      <3> QED  BY <1>3, <2>1, <3>1, <3>2, <3>4, EndedReads
    \* One of its characters.
    <2>7. CASE /\ ~(c = "quote" /\ i = s.start) /\ ~(c = "quote" /\ i # s.start /\ s.in_quote)
               /\ ~(c = "blank" /\ ~s.in_quote)
      <3>1. t = s
        BY <1>3, <2>7 DEF Cmd!Look, t
      <3>2. s \in [start : 1 .. i + 1, found : Seq(Arg(line)), in_quote : BOOLEAN, full : BOOLEAN]
        BY <1>1
      <3>3. \A k \in s.start .. i : k = i \/ k \in s.start .. i - 1
        BY <1>1
      <3>4. CASE s.in_quote
        <4>1. c # "quote"
          BY <2>7, <3>4
        <4>2. Reading(line, s, i, b)
          BY <2>1, <3>3, <3>4, <4>1 DEF Reading
        <4> QED  BY <1>1, <1>3, <2>1, <2>2, <3>1, <3>2, <4>2 DEF Reads
      <3>5. CASE ~s.in_quote
        <4>1. c # "blank" /\ (i = s.start => c # "quote")
          BY <2>7, <3>5
        <4>2. s.start <= i - 1 \/ s.start = i
          BY <1>1
        <4>3. Reading(line, s, i, b)
          BY <2>1, <3>3, <3>5, <4>1, <4>2 DEF Reading
        <4> QED  BY <1>1, <1>3, <2>1, <2>2, <3>1, <3>2, <4>3 DEF Reads
      <3> QED  BY <1>1, <3>4, <3>5
    <2> QED  BY <2>3, <2>4, <2>5, <2>6, <2>7
  <1> QED  BY <1>2, <1>3

LEMMA LoopReads ==
    ASSUME NEW line \in Seq(Cmd!Chars) PROVE Reads(line, Cmd!Loop(line), Len(line))
  <1> DEFINE read(i) == Reads(line, At(line)[i], i)
             S == {n \in Nat : n <= Len(line) => read(n)}
  <1>1. Len(line) \in Nat
    OBVIOUS
  <1>2. 0 \in S
    <2>1. read(0)
      BY <1>1, LoopSteps, BeginReads
    <2> QED  BY <2>1
  <1>3. ASSUME NEW n \in Nat, n \in S PROVE n + 1 \in S
    <2> SUFFICES ASSUME n + 1 <= Len(line) PROVE read(n + 1)
      OBVIOUS
    <2> DEFINE i == n + 1
    <2>1. i \in 1 .. Len(line) /\ i - 1 = n /\ n <= Len(line)
      BY <1>1
    <2>2. Reads(line, At(line)[i - 1], i - 1)
      BY <1>3, <2>1
    <2> HIDE DEF i
    <2>3. Reads(line, Cmd!Look(At(line)[i - 1], i, line[i]), i)
      BY <2>1, <2>2, LookReads
    <2>4. Reads(line, At(line)[i], i)
      BY <1>1, <2>1, <2>3, LoopSteps
    <2> QED  BY <2>4 DEF i
  <1>4. read(Len(line))
    <2> HIDE DEF S
    <2>1. Len(line) \in S
      BY <1>1, <1>2, <1>3, SetInduction
    <2> QED  BY <1>1, <2>1 DEF S
  <1> QED  BY <1>1, <1>4, LoopSteps

\* A line is split into its arguments, as long as the table has room.
LEMMA FoundRight ==
    ASSUME NEW line \in Seq(Cmd!Chars)
    PROVE  /\ Cmd!Found(line) \in Seq(Arg(line)) /\ Len(Cmd!Found(line)) <= Len(line) + 1
           /\ Cmd!Loop(line).start \in 1 .. Len(line) + 1
           /\ Cmd!Fits(line) => Cmd!Found(line) = Cmd!Words(line)
           /\ ~Cmd!Fits(line) => Cmd!Found(line) = SubSeq(Cmd!Words(line), 1, MaxArgs)
  <1> DEFINE s == Cmd!Loop(line)
             n == Len(line)
             f == Cmd!Found(line)
             A == Arg(line)
             w == [start |-> s.start, end |-> n + 1]
  <1>1. Reads(line, s, n) /\ n \in Nat
    BY LoopReads
  <1>2. Cmd!Fits(line) = ~s.full
    BY DEF Cmd!Fits
  <1>3. f = IF s.full \/ s.start > n THEN s.found ELSE Append(s.found, w)
    BY DEF Cmd!Found
  <1> SUFFICES /\ f \in Seq(A) /\ Len(f) <= n + 1
               /\ s.start \in 1 .. n + 1
               /\ ~s.full => f = Cmd!Words(line)
               /\ s.full => f = SubSeq(Cmd!Words(line), 1, MaxArgs)
    BY <1>2
  <1> HIDE DEF s, n, f, A
  <1>4. /\ s.start \in 1 .. n + 1 /\ s.found \in Seq(A) /\ Len(s.found) < s.start
        /\ Len(s.found) \in Nat
    BY <1>1 DEF Reads, n, A
  <1>5. CASE s.full
    <2>1. f = s.found
      BY <1>3, <1>5
    <2>2. PICK t \in Seq(A) : Cmd!Words(line) = s.found \o t
      BY <1>1, <1>5 DEF Reads, A
    <2>3. Len(s.found) = MaxArgs
      BY <1>1, <1>5 DEF Reads
    <2>4. f = SubSeq(Cmd!Words(line), 1, MaxArgs)
      <3> DEFINE g == s.found
                 u == g \o t
                 v == SubSeq(u, 1, MaxArgs)
      <3>1. g \in Seq(A) /\ Len(g) = MaxArgs
        BY <1>4, <2>3
      <3> HIDE DEF g
      <3>2. /\ u \in Seq(A) /\ Len(u) >= MaxArgs
            /\ \A i \in 1 .. MaxArgs : u[i] = g[i] /\ u[i] \in A
        BY <3>1, ArgsFact, ConcatProperties
      <3> HIDE DEF u
      <3>3. /\ v \in Seq(A) /\ Len(v) = MaxArgs
            /\ \A i \in 1 .. MaxArgs : v[i] = u[i]
        BY <3>2, ArgsFact, SubSeqProperties
      <3> HIDE DEF v
      <3>4. v = g
        BY <3>1, <3>2, <3>3, SeqEqual
      <3> QED  BY <2>1, <2>2, <3>4 DEF v, u, g
    <2> QED  BY <1>1, <1>4, <1>5, <2>1, <2>4
  <1>6. CASE ~s.full
    <2>1. PICK b \in 1 .. s.start : /\ Cmd!Words(line) = s.found \o Rest(line)[b]
                                    /\ Reading(line, s, n, b)
      BY <1>1, <1>6 DEF Reads
    <2>2. CASE s.start > n
      <3>1. f = s.found /\ s.start = n + 1
        BY <1>1, <1>3, <1>4, <1>6, <2>2
      <3>2. Rest(line)[b] = << >>
        <4>1. CASE s.in_quote
          <5>1. b \in 1 .. Len(line) /\ \A k \in b .. Len(line) : line[k] = "quote"
            BY <1>1, <2>1, <3>1, <4>1 DEF Reading, n
          <5> QED  BY <5>1, OnlyQuotesLeft
        <4>2. CASE ~s.in_quote
          <5>1. b = Len(line) + 1
            BY <2>1, <3>1, <4>2 DEF Reading, n
          <5> QED  BY <1>1, <5>1, NothingLeft DEF n
        <4> QED  BY <4>1, <4>2
      <3>3. f = Cmd!Words(line)
        BY <1>4, <2>1, <3>1, <3>2, ConcatEmptySeq
      <3> QED  BY <1>1, <1>4, <1>6, <3>1, <3>3
    <2>3. CASE ~(s.start > n)
      <3>1. s.start \in 1 .. Len(line) /\ s.start <= n
        BY <1>1, <1>4, <2>3 DEF n
      <3>2. Rest(line)[b] = <<w>>
        <4> DEFINE e == Len(line) + 1
        <4>1. /\ e \in s.start + 1 .. Len(line) + 1 /\ e > Len(line) /\ e - 1 = Len(line)
              /\ e + 1 = Len(line) + 2 /\ e = n + 1
          BY <3>1 DEF n
        <4> HIDE DEF e
        <4>2. Rest(line)[b] = <<[start |-> s.start, end |-> e]>> \o Rest(line)[e + 1]
          <5>1. CASE s.in_quote
            <6>1. /\ b \in 1 .. s.start - 1 /\ \A k \in b .. s.start - 1 : line[k] = "quote"
                  /\ \A k \in s.start .. e - 1 : line[k] # "quote"
              BY <2>1, <3>1, <4>1, <5>1 DEF Reading, n
            <6> QED  BY <3>1, <4>1, <6>1, QuotedWord
          <5>2. CASE ~s.in_quote
            <6>1. /\ b = s.start /\ line[s.start] # "quote"
                  /\ \A k \in s.start .. e - 1 : line[k] # "blank"
              BY <2>1, <3>1, <4>1, <5>2 DEF Reading, n
            <6> QED  BY <3>1, <4>1, <6>1, PlainWord
          <5> QED  BY <5>1, <5>2
        <4>3. Rest(line)[e + 1] = << >>
          BY <1>1, <4>1, NothingLeft DEF n
        <4>4. Rest(line)[b] = <<w>> \o << >>
          BY <4>1, <4>2, <4>3
        <4>5. <<w>> \in Seq({w})
          OBVIOUS
        <4> QED  BY <4>4, <4>5, ConcatEmptySeq
      <3>3. f = Append(s.found, w) /\ w \in A
        <4>1. s.start \in 1 .. Len(line) + 1 /\ n + 1 \in 1 .. Len(line) + 1
          BY <1>1, <3>1 DEF n
        <4> QED  BY <1>3, <1>6, <2>3, <4>1 DEF Arg, A
      <3> HIDE DEF w
      <3>4. f = s.found \o <<w>> /\ f \in Seq(A) /\ Len(f) = Len(s.found) + 1
        BY <1>4, <3>3, AppendIsConcat, AppendProperties
      <3> QED  BY <1>1, <1>4, <1>6, <2>1, <3>1, <3>2, <3>4
    <2> QED  BY <2>2, <2>3
  <1> QED  BY <1>5, <1>6

--------------------------------------------------------------------------------
(* Both parts.                                                                  *)

\* The receive side keeps its type whatever the host sends.
RxType == TypeOK /\ into.n \in 0 .. Longest /\ reads <= avail

LEMMA RxInit == Init => RxType
  <1> SUFFICES ASSUME Init PROVE RxType
    OBVIOUS
  <1>1. 0 \in Number /\ 0 \in 0 .. Packet /\ 0 \in 0 .. Copy /\ 0 \in 0 .. Longest
    BY ConstantFacts, NumberFacts
  <1> HIDE DEF Number
  <1>2. TypeOK
    BY <1>1 DEF Init, TypeOK
  <1>3. into.n = 0 /\ reads <= avail
    BY DEF Init
  <1> QED  BY <1>1, <1>2, <1>3 DEF RxType

LEMMA RxHostSends == ASSUME RxType, NEW n \in 0 .. Longest, HostSends(n) PROVE RxType'
  <1> DEFINE b == into.buf
             m == [i \in 1 .. Packet |-> IF i <= n THEN (next + i - 1) % Numbers ELSE mem[b][i]]
  <1> HIDE DEF Number
  <1>1. /\ job' = "done" /\ into' = [into EXCEPT !.n = n]
        /\ next' = (next + n) % Numbers /\ mem' = [mem EXCEPT ![b] = m]
        /\ UNCHANGED <<nb, sel, pos, ongoing, running, appVars, first, wrong>>
    BY DEF HostSends
  <1>2. /\ b \in Buffers /\ next \in Number /\ next \in Nat
        /\ into \in [buf : Buffers, n : 0 .. Packet]
        /\ mem \in [Buffers -> [1 .. Packet -> Number]]
    BY NumberFacts DEF RxType, TypeOK, Buffers
  <1>3. m \in [1 .. Packet -> Number]
    <2>1. ASSUME NEW i \in 1 .. Packet, i <= n PROVE (next + i - 1) % Numbers \in Number
      <3>1. next + i - 1 \in Nat
        BY <1>2, ConstantFacts
      <3> QED  BY <3>1, NumberFacts
    <2>2. \A i \in 1 .. Packet : mem[b][i] \in Number
      BY <1>2
    <2> QED  BY <2>1, <2>2
  <1> HIDE DEF m, b
  <1>4. mem' \in [Buffers -> [1 .. Packet -> Number]]
    BY <1>1, <1>2, <1>3
  <1>5. into' \in [buf : Buffers, n : 0 .. Packet] /\ into'.n = n
    BY <1>1, <1>2, ConstantFacts
  <1>6. next' \in Number
    <2>1. next + n \in Nat
      BY <1>2, ConstantFacts
    <2> QED  BY <1>1, <2>1, NumberFacts
  <1> QED  BY <1>1, <1>4, <1>5, <1>6 DEF RxType, TypeOK, Buffers, appVars

LEMMA RxReceived == ASSUME RxType, Received PROVE RxType'
  <1> DEFINE o   == Other(sel)
             got == into.n
             k   == IF got < Copy THEN got ELSE Copy
             a   == [i \in 1 .. Copy |-> IF i <= k THEN mem[o][i] ELSE local[i]]
  <1> HIDE DEF Number
  <1>1. /\ job' = "none" /\ nb' = [nb EXCEPT ![o] = got]
        /\ UNCHANGED <<mem, running, into, next, first, wrong>>
    BY DEF Received, numVars
  <1>2. /\ nb \in [Buffers -> 0 .. Packet] /\ o \in Buffers /\ got \in 0 .. Longest
        /\ mem \in [Buffers -> [1 .. Packet -> Number]] /\ local \in [1 .. Copy -> Number]
    BY OtherFacts DEF RxType, TypeOK, Buffers
  <1>3. /\ got \in 0 .. Packet /\ k \in 0 .. Copy /\ k \in 0 .. Packet /\ 0 \in 0 .. Longest
        /\ 0 <= got
    BY <1>2, ConstantFacts
  <1>4. nb' \in [Buffers -> 0 .. Packet] /\ nb'[o] = got
    BY <1>1, <1>2, <1>3
  <1>5. a \in [1 .. Copy -> Number]
    <2>1. ASSUME NEW i \in 1 .. Copy, i <= k PROVE mem[o][i] \in Number
      <3>1. i \in 1 .. Packet
        BY <1>3, <2>1, ConstantFacts
      <3> QED  BY <1>2, <3>1
    <2>2. \A i \in 1 .. Copy : local[i] \in Number
      BY <1>2
    <2> HIDE DEF k, o
    <2> QED  BY <2>1, <2>2
  <1>6. \/ /\ sel' = o /\ ongoing' = TRUE /\ pos' = k /\ local' = a
           /\ size' = k /\ avail' = got /\ reads' = 0
        \/ ongoing' = FALSE /\ UNCHANGED <<sel, pos, appVars>>
    BY <1>4 DEF Received, RxStart
  <1> HIDE DEF o, got, k, a
  <1>7. into.n \in 0 .. Longest /\ reads <= avail
    BY DEF RxType
  <1>8. CASE ongoing' = FALSE /\ UNCHANGED <<sel, pos, appVars>>
    BY <1>1, <1>4, <1>7, <1>8 DEF RxType, TypeOK, Buffers, appVars
  <1>9. CASE /\ sel' = o /\ ongoing' = TRUE /\ pos' = k /\ local' = a
             /\ size' = k /\ avail' = got /\ reads' = 0
    BY <1>1, <1>2, <1>3, <1>4, <1>5, <1>7, <1>9 DEF RxType, TypeOK, Buffers
  <1> QED  BY <1>6, <1>8, <1>9

LEMMA RxProcess == ASSUME RxType, Process PROVE RxType'
  <1> HIDE DEF Number
  <1>1. /\ reads < avail /\ reads' = reads + 1
        /\ wrong' = (wrong \/ reads >= Copy \/ local[reads + 1] # first)
        /\ first' = (first + 1) % Numbers
        /\ \/ job' = "open" /\ into' = [buf |-> Other(sel), n |-> 0]
           \/ UNCHANGED <<job, into>>
        /\ UNCHANGED <<mem, nb, sel, pos, ongoing, running, local, size, avail, next>>
    BY DEF Process, Notified, bufVars, jobVars
  <1>2. /\ reads \in 0 .. Longest /\ avail \in 0 .. Longest /\ first \in Number
        /\ sel \in Buffers /\ into \in [buf : Buffers, n : 0 .. Packet] /\ into.n \in 0 .. Longest
    BY DEF RxType, TypeOK, Buffers
  <1>3. reads' \in 0 .. Longest /\ reads' <= avail
    BY <1>1, <1>2, ConstantFacts
  <1>4. wrong' \in BOOLEAN
    BY <1>1
  <1>5. first' \in Number
    <2>1. first + 1 \in Nat
      BY <1>2, NumberFacts
    <2> QED  BY <1>1, <2>1, NumberFacts
  <1>6. into' \in [buf : Buffers, n : 0 .. Packet] /\ into'.n \in 0 .. Longest
    <2>1. Other(sel) \in Buffers /\ 0 \in 0 .. Packet /\ 0 \in 0 .. Longest
      BY <1>2, OtherFacts, ConstantFacts
    <2> QED  BY <1>1, <1>2, <2>1
  <1>7. job' \in {"none", "open", "done"}
    BY <1>1 DEF RxType, TypeOK
  <1> QED  BY <1>1, <1>3, <1>4, <1>5, <1>6, <1>7 DEF RxType, TypeOK, Buffers

LEMMA RxNext == RxType /\ [Next]_vars => RxType'
  <1> SUFFICES ASSUME RxType, [Next]_vars PROVE RxType'
    OBVIOUS
  <1>1. ASSUME NEW n \in 0 .. Longest, HostSends(n) PROVE RxType'
    BY <1>1, RxHostSends
  <1>2. CASE Received \/ Process
    BY <1>2, RxReceived, RxProcess
  <1> HIDE DEF Number
  <1> USE DEF vars, bufVars, jobVars, appVars, numVars, RxType, TypeOK
  <1>3. CASE ReceivedEmpty
    BY <1>3 DEF ReceivedEmpty
  <1>4. CASE DataEnable
    <2>1. 0 \in 0 .. Packet /\ 0 \in 0 .. Longest
      BY ConstantFacts
    <2>2. Other(1) = 0
      BY DEF Other
    <2> QED  BY <1>4, <2>1 DEF DataEnable
  <1>5. CASE DataDisable
    BY <1>5 DEF DataDisable
  <1>6. CASE UNCHANGED vars
    BY <1>6
  <1> QED  BY <1>1, <1>2, <1>3, <1>4, <1>5, <1>6 DEF Next

\* A line that was ended is parsed: its arguments and its command are those of the line.
CmdInv ==
    /\ Cmd!TypeOK
    /\ ready => /\ arg = Cmd!Found(buf)
                /\ Cmd!Fits(buf) => arg_size = Len(arg)
                /\ command = IF arg = << >> \/ ~Cmd!Fits(buf) THEN "unknown"
                             ELSE Cmd!Lookup(buf, arg[1])

LEMMA CmdInit == Cmd!Init => CmdInv
  <1> SUFFICES ASSUME Cmd!Init PROVE CmdInv
    OBVIOUS
  <1>1. 0 <= MaxSize /\ 0 \in 0 .. MaxSize + 1 /\ Len(buf) = 0 /\ buf = << >> /\ arg = << >>
    BY ArgsFact DEF Cmd!Init
  <1>2. buf \in Seq(Cmd!Chars) /\ arg \in Seq([start : 1 .. MaxSize + 1, end : 1 .. MaxSize + 1])
    BY <1>1
  <1> QED  BY <1>1, <1>2 DEF Cmd!Init, CmdInv, Cmd!TypeOK

Line == Seq(Cmd!Chars)
Spans == [start : 1 .. MaxSize + 1, end : 1 .. MaxSize + 1]

LEMMA EndOfLineInv == ASSUME CmdInv, Cmd!EndOfLine PROVE CmdInv'
  <1> DEFINE f == Cmd!Found(buf)
             s == Cmd!Loop(buf)
             c == IF f = << >> \/ s.full THEN "unknown" ELSE Cmd!Lookup(buf, f[1])
  <1>1. /\ arg' = f /\ arg_size' \in {Len(f)} \cup (IF s.full THEN {s.start} ELSE {})
        /\ command' = c /\ ready' = TRUE /\ buf' = buf
    BY DEF Cmd!EndOfLine, Cmd!parse
  <1>2. Cmd!Fits(buf) = ~s.full
    BY DEF Cmd!Fits
  <1>3. buf \in Line /\ Len(buf) \in Nat /\ Len(buf) <= MaxSize
    BY DEF CmdInv, Cmd!TypeOK, Line
  <1>4. f \in Seq(Arg(buf)) /\ Len(f) <= Len(buf) + 1 /\ s.start \in 1 .. Len(buf) + 1
    BY <1>3, FoundRight DEF Line
  <1>5. c \in Commands \cup {"unknown"}
    BY DEF Cmd!Lookup
  <1> HIDE DEF f, s, c
  <1>6. f \in Seq(Spans)
    <2>1. Arg(buf) \subseteq Spans
      BY <1>3, ArgsFact DEF Arg, Spans
    <2> QED  BY <1>4, <2>1, SeqMonotonic
  <1>7. arg_size' \in 0 .. MaxSize + 1
    <2>1. Len(f) \in 0 .. MaxSize + 1 /\ s.start \in 0 .. MaxSize + 1
      BY <1>3, <1>4, ArgsFact
    <2> QED  BY <1>1, <2>1
  <1>8. Cmd!TypeOK'
    BY <1>1, <1>3, <1>5, <1>6, <1>7 DEF Cmd!TypeOK, Line, Spans
  <1>9. Cmd!Fits(buf) => arg_size' = Len(f)
    BY <1>1, <1>2
  <1>10. c = IF f = << >> \/ ~Cmd!Fits(buf) THEN "unknown" ELSE Cmd!Lookup(buf, f[1])
    BY <1>2 DEF c
  <1> QED  BY <1>1, <1>8, <1>9, <1>10 DEF CmdInv, f

LEMMA TypeInv == ASSUME CmdInv, NEW b \in Cmd!Chars, Cmd!Type(b) PROVE CmdInv'
  <1>1. /\ ~ready /\ UNCHANGED <<arg, arg_size, command, ready>>
        /\ buf' = IF b = "DEL" /\ buf # << >> THEN SubSeq(buf, 1, Len(buf) - 1)
                  ELSE IF Len(buf) >= MaxSize THEN buf ELSE Append(buf, b)
    BY DEF Cmd!Type
  <1>2. buf \in Line /\ Len(buf) \in Nat /\ Len(buf) <= MaxSize
    BY DEF CmdInv, Cmd!TypeOK, Line
  <1>3. buf' \in Line /\ Len(buf') <= MaxSize
    <2>1. CASE b = "DEL" /\ buf # << >>
      <3> DEFINE n == Len(buf) - 1
                 v == SubSeq(buf, 1, n)
      <3>1. Len(buf) # 0 /\ n \in Int /\ n < Len(buf) /\ n >= 0
        BY <1>2, <2>1 DEF Line
      <3>2. \A i \in 1 .. n : buf[i] \in Cmd!Chars
        BY <1>2 DEF Line
      <3> HIDE DEF n
      <3>3. v \in Line /\ Len(v) = IF 1 <= n THEN n - 1 + 1 ELSE 0
        BY <3>1, <3>2, SubSeqProperties DEF Line
      <3>4. buf' = v
        BY <1>1, <2>1 DEF n
      <3> HIDE DEF v
      <3>5. Len(v) <= MaxSize
        BY <1>2, <3>1, <3>3, ArgsFact
      <3> QED  BY <3>3, <3>4, <3>5
    <2>2. CASE ~(b = "DEL" /\ buf # << >>) /\ Len(buf) >= MaxSize
      BY <1>1, <1>2, <2>2
    <2>3. CASE ~(b = "DEL" /\ buf # << >>) /\ ~(Len(buf) >= MaxSize)
      <3>1. buf' = Append(buf, b)
        BY <1>1, <2>3
      <3>2. Append(buf, b) \in Line /\ Len(Append(buf, b)) = Len(buf) + 1
        BY <1>2, AppendProperties DEF Line
      <3> QED  BY <1>2, <2>3, <3>1, <3>2, ArgsFact
    <2> QED  BY <2>1, <2>2, <2>3
  <1> QED  BY <1>1, <1>3 DEF CmdInv, Cmd!TypeOK, Line

LEMMA CmdNext == CmdInv /\ [Cmd!Next]_cmdVars => CmdInv'
  <1> SUFFICES ASSUME CmdInv, [Cmd!Next]_cmdVars PROVE CmdInv'
    OBVIOUS
  <1>1. CASE Cmd!EndOfLine
    BY <1>1, EndOfLineInv
  <1>2. CASE Cmd!Reset
    <2>1. /\ ready' = FALSE /\ buf' = << >> /\ command' = "unknown"
          /\ UNCHANGED <<arg, arg_size>>
      BY <1>2 DEF Cmd!Reset
    <2>2. buf' \in Seq(Cmd!Chars) /\ Len(buf') = 0 /\ 0 <= MaxSize
      BY <2>1, ArgsFact
    <2> QED  BY <2>1, <2>2 DEF CmdInv, Cmd!TypeOK
  <1>3. ASSUME NEW b \in Cmd!Chars, Cmd!Type(b) PROVE CmdInv'
    BY <1>3, TypeInv
  <1>4. CASE UNCHANGED cmdVars
    BY <1>4 DEF cmdVars, CmdInv, Cmd!TypeOK
  <1> QED  BY <1>1, <1>2, <1>3, <1>4 DEF Cmd!Next

LEMMA PartsInvariance == PartsSpec => [](RxType /\ CmdInv)
  <1>1. PartsInit => RxType /\ CmdInv
    BY RxInit, CmdInit DEF PartsInit
  <1>2. RxType /\ CmdInv /\ [PartsNext]_<<part, vars, cmdVars>> => (RxType /\ CmdInv)'
    <2>1. [PartsNext]_<<part, vars, cmdVars>> => [Next]_vars /\ [Cmd!Next]_cmdVars
      BY DEF PartsNext
    <2> QED  BY <2>1, RxNext, CmdNext
  <1> QED  BY <1>1, <1>2, PTL DEF PartsSpec

\* Every variable of both parts keeps its type: whatever the host sends, the indices of the
\* buffers stay within them (udi_cdc.c:574-657), a line, its arguments and arg_size_ within
\* their arrays (serial_cmd.h:60-100).
THEOREM PartsTypeCorrect == PartsSpec => []PartsTypeOK
  <1>1. RxType /\ CmdInv => PartsTypeOK
    BY DEF RxType, CmdInv, PartsTypeOK
  <1> QED  BY <1>1, PartsInvariance, PTL

\* The one pass of parse finds the arguments of every line, or of as many as its table
\* holds, and the command of a line that fits (serial_cmd.h:201-273).
THEOREM LinesParsed == PartsSpec => []ParsedRight
  <1>1. ASSUME CmdInv PROVE ParsedRight
    <2>1. buf \in Seq(Cmd!Chars)
      BY <1>1 DEF CmdInv, Cmd!TypeOK
    <2> QED  BY <1>1, <2>1, FoundRight DEF CmdInv, ParsedRight, Cmd!ParsedRight
  <1> QED  BY <1>1, PartsInvariance, PTL
================================================================================
