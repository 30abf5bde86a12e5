------------------------------ MODULE CdcTxProofs ------------------------------
(* Proofs about CdcTx for every size of buffer and every range of numbers.      *)
(*                                                                              *)
(* The two buffers are in order because they are switched in two cases only:    *)
(* when the other one is empty, or when a transfer of it is started.  So what   *)
(* the order rests on is that a buffer is empty unless it is on its way or      *)
(* waits to be sent.                                                            *)
EXTENDS CdcTx, Integers, TLAPS

--------------------------------------------------------------------------------
(* Remainders.                                                                  *)

\* Quotient and remainder.
LEMMA DivMod ==
    ASSUME NEW x \in Nat, NEW n \in Nat \ {0}
    PROVE  /\ x = n * (x \div n) + (x % n) /\ x % n \in 0 .. n - 1
           /\ x \div n \in Nat
  OBVIOUS

\* The remainder is the only one.
LEMMA ModUnique ==
    ASSUME NEW n \in Nat \ {0}, NEW q \in Nat, NEW r \in 0 .. n - 1
    PROVE  (n * q + r) % n = r
  <1> DEFINE x == n * q + r
             d == x \div n
             m == x % n
  <1>1. x \in Nat
    OBVIOUS
  <1>2. x = n * d + m /\ m \in 0 .. n - 1 /\ d \in Nat
    BY <1>1, DivMod
  <1>3. n * (q - d) = m - r
    BY <1>2
  <1>4. CASE q = d
    BY <1>3, <1>4, <1>2
  <1>5. CASE q > d
    <2>1. PICK k \in Nat : q - d = 1 + k
      BY <1>2, <1>5
    <2>2. n * (q - d) >= n
      BY <2>1
    <2> QED  BY <1>2, <1>3, <2>2
  <1>6. CASE q < d
    <2>1. PICK k \in Nat : d - q = 1 + k
      BY <1>2, <1>6
    <2>2. n * (d - q) >= n
      BY <2>1
    <2>3. n * (q - d) = - (n * (d - q))
      BY <1>2
    <2> QED  BY <1>2, <1>3, <2>2, <2>3
  <1> QED  BY <1>2, <1>4, <1>5, <1>6

\* A remainder may be taken before something is added.
LEMMA ModAdd ==
    ASSUME NEW n \in Nat \ {0}, NEW x \in Nat, NEW y \in Nat
    PROVE  ((x % n) + y) % n = (x + y) % n
  <1> DEFINE q == x \div n
             r == x % n
  <1>1. x = n * q + r /\ q \in Nat /\ r \in Nat
    BY DivMod
  <1> HIDE DEF q, r
  <1> DEFINE p == (r + y) \div n
             m == (r + y) % n
  <1>2. r + y = n * p + m /\ m \in 0 .. n - 1 /\ p \in Nat
    <2> DEFINE z == r + y
    <2>1. z \in Nat
      BY <1>1
    <2> HIDE DEF z
    <2>2. z = n * (z \div n) + (z % n) /\ z % n \in 0 .. n - 1 /\ z \div n \in Nat
      BY <2>1, DivMod
    <2> QED  BY <2>2 DEF z
  <1> HIDE DEF p, m
  <1>3. x + y = n * (q + p) + m
    BY <1>1, <1>2
  <1>4. q + p \in Nat
    BY <1>1, <1>2
  <1> DEFINE k == q + p
  <1> HIDE DEF k
  <1>5. (n * k + m) % n = m
    BY <1>2, <1>4, ModUnique DEF k
  <1> QED  BY <1>3, <1>5 DEF r, m, k

--------------------------------------------------------------------------------
(* Numbered bytes.                                                              *)

\* The bytes of s are numbered from k.
Run(s, k) == \A i \in DOMAIN s : s[i] = (k + i - 1) % Numbers

\* Those of u are numbered from f, those of v go on, and n comes after them.
Order(u, v, f, n) ==
    /\ Run(u, f) /\ Run(v, f + Len(u))
    /\ n = (f + Len(u) + Len(v)) % Numbers

LEMMA NumberFacts ==
    /\ Number \subseteq Nat /\ 0 \in Number
    /\ \A x \in Nat : x % Numbers \in Number
    /\ \A x \in Number : x % Numbers = x
  <1>1. Numbers \in Nat \ {0}
    BY NumbersAssumption
  <1>2. \A x \in Nat : x % Numbers \in Number
    BY <1>1, DivMod DEF Number
  <1>3. ASSUME NEW x \in Number PROVE x % Numbers = x
    <2>1. (Numbers * 0 + x) % Numbers = x
      BY <1>1, ModUnique DEF Number
    <2>2. Numbers * 0 + x = x
      BY <1>1 DEF Number
    <2> QED  BY <2>1, <2>2
  <1>4. Number \subseteq Nat /\ 0 \in Number
    BY <1>1 DEF Number
  <1> QED  BY <1>2, <1>3, <1>4

\* What a concatenation holds.
LEMMA CatFacts ==
    ASSUME NEW u \in Seq(Number), NEW v \in Seq(Number)
    PROVE  /\ u \o v \in Seq(Number)
           /\ Len(u \o v) = Len(u) + Len(v) /\ DOMAIN (u \o v) = 1 .. Len(u) + Len(v)
           /\ Len(u) \in Nat /\ Len(v) \in Nat
           /\ DOMAIN u = 1 .. Len(u) /\ DOMAIN v = 1 .. Len(v)
           /\ \A i \in 1 .. Len(u) + Len(v) :
                  (u \o v)[i] = IF i <= Len(u) THEN u[i] ELSE v[i - Len(u)]
  <1> HIDE DEF Number
  <1> QED  OBVIOUS

\* That is what InOrder says of the two buffers together.
LEMMA OrderIs ==
    ASSUME NEW u \in Seq(Number), NEW v \in Seq(Number), NEW f \in Number, NEW n,
           Order(u, v, f, n)
    PROVE  /\ \A i \in DOMAIN (u \o v) : (u \o v)[i] = (f + i - 1) % Numbers
           /\ n = (f + Len(u \o v)) % Numbers
  <1> DEFINE w == u \o v
  <1> HIDE DEF Number
  <1>1. /\ Len(w) = Len(u) + Len(v) /\ DOMAIN w = 1 .. Len(w)
        /\ Len(u) \in Nat /\ Len(v) \in Nat
        /\ \A i \in 1 .. Len(w) : w[i] = IF i <= Len(u) THEN u[i] ELSE v[i - Len(u)]
        /\ DOMAIN u = 1 .. Len(u) /\ DOMAIN v = 1 .. Len(v)
    BY CatFacts
  <1>2. f \in Nat
    BY NumberFacts
  <1> HIDE DEF w
  <1>3. ASSUME NEW i \in DOMAIN w PROVE w[i] = (f + i - 1) % Numbers
    <2>1. CASE i <= Len(u)
      BY <1>1, <2>1 DEF Order, Run
    <2>2. CASE ~(i <= Len(u))
      <3>1. i - Len(u) \in DOMAIN v /\ w[i] = v[i - Len(u)]
        BY <1>1, <2>2
      <3>2. v[i - Len(u)] = (f + Len(u) + (i - Len(u)) - 1) % Numbers
        BY <3>1 DEF Order, Run
      <3>3. f + Len(u) + (i - Len(u)) - 1 = f + i - 1
        BY <1>1, <1>2
      <3> QED  BY <3>1, <3>2, <3>3
    <2> QED  BY <2>1, <2>2
  <1>4. n = (f + Len(w)) % Numbers
    <2>1. f + Len(u) + Len(v) = f + Len(w)
      BY <1>1, <1>2
    <2> QED  BY <2>1 DEF Order
  <1> QED  BY <1>3, <1>4 DEF w

\* An empty buffer may be the first or the second.
LEMMA OrderSwap ==
    ASSUME NEW v \in Seq(Number), NEW f \in Number, NEW n, Order(<< >>, v, f, n)
    PROVE  Order(v, << >>, f, n)
  <1> HIDE DEF Number
  <1>1. Len(<< >>) = 0 /\ DOMAIN << >> = {} /\ Len(v) \in Nat /\ f \in Nat
    BY NumberFacts
  <1>2. f + 0 = f /\ f + 0 + Len(v) = f + Len(v) + 0
    BY <1>1
  <1> QED  BY <1>1, <1>2 DEF Order, Run

\* Nothing waits.
LEMMA OrderEmpty == ASSUME NEW f \in Number PROVE Order(<< >>, << >>, f, f)
  <1>1. Len(<< >>) = 0 /\ DOMAIN << >> = {} /\ f \in Nat /\ f % Numbers = f
    BY NumberFacts
  <1>2. f + 0 + 0 = f
    BY <1>1
  <1> QED  BY <1>1, <1>2 DEF Order, Run

\* The first buffer was delivered.
LEMMA OrderDrop ==
    ASSUME NEW u \in Seq(Number), NEW v \in Seq(Number), NEW f \in Number, NEW n,
           Order(u, v, f, n)
    PROVE  Order(<< >>, v, (f + Len(u)) % Numbers, n)
  <1> HIDE DEF Number
  <1> DEFINE x == f + Len(u)
             g == x % Numbers
  <1>1. /\ x \in Nat /\ Len(v) \in Nat /\ Len(<< >>) = 0 /\ DOMAIN << >> = {}
        /\ DOMAIN v = 1 .. Len(v) /\ Numbers \in Nat \ {0}
    <2>1. f \in Nat /\ Len(u) \in Nat /\ Len(v) \in Nat /\ DOMAIN v = 1 .. Len(v)
      BY NumberFacts, CatFacts
    <2> QED  BY <2>1, NumbersAssumption
  <1>2. g \in Nat
    BY <1>1, NumberFacts
  <1>3. Run(v, x) /\ n = (x + Len(v)) % Numbers
    BY DEF Order
  <1> HIDE DEF x
  <1>4. \A y \in Nat : (g + y) % Numbers = (x + y) % Numbers
    BY <1>1, ModAdd
  <1> HIDE DEF g
  <1>5. ASSUME NEW i \in DOMAIN v PROVE v[i] = (g + 0 + i - 1) % Numbers
    <2>1. i - 1 \in Nat /\ x + (i - 1) = x + i - 1 /\ g + 0 + i - 1 = g + (i - 1)
      BY <1>1, <1>2
    <2>2. v[i] = (x + i - 1) % Numbers
      BY <1>3 DEF Run
    <2> QED  BY <1>4, <2>1, <2>2
  <1>6. n = (g + 0 + Len(v)) % Numbers
    <2>1. g + 0 + Len(v) = g + Len(v)
      BY <1>1, <1>2
    <2> QED  BY <1>1, <1>3, <1>4, <2>1
  <1>7. Order(<< >>, v, g, n)
    BY <1>1, <1>5, <1>6 DEF Order, Run
  <1> QED  BY <1>7 DEF g, x

\* Bytes are printed.
LEMMA OrderPut ==
    ASSUME NEW u \in Seq(Number), NEW v \in Seq(Number), NEW f \in Number, NEW n, NEW k \in Nat,
           Order(u, v, f, n)
    PROVE  /\ v \o [i \in 1 .. k |-> (n + i - 1) % Numbers] \in Seq(Number)
           /\ (n + k) % Numbers \in Number
           /\ Order(u, v \o [i \in 1 .. k |-> (n + i - 1) % Numbers], f, (n + k) % Numbers)
  <1> HIDE DEF Number
  <1> DEFINE x == f + Len(u) + Len(v)
             a == [i \in 1 .. k |-> (n + i - 1) % Numbers]
             w == v \o a
  <1>0. f \in Nat /\ Len(u) \in Nat /\ Len(v) \in Nat /\ DOMAIN v = 1 .. Len(v)
    BY NumberFacts, CatFacts
  <1>1. /\ x \in Nat /\ f + Len(u) \in Nat /\ Len(v) \in Nat
        /\ DOMAIN v = 1 .. Len(v) /\ Numbers \in Nat \ {0}
    BY <1>0, NumbersAssumption
  <1>2. n = x % Numbers /\ n \in Nat /\ (n + k) % Numbers \in Number
    <2>1. n = x % Numbers
      BY DEF Order
    <2> HIDE DEF x
    <2>2. n \in Nat
      BY <1>1, <2>1, NumberFacts
    <2>3. n + k \in Nat
      BY <2>2
    <2> QED  BY <2>1, <2>2, <2>3, NumberFacts
  <1>3. \A y \in Nat : (n + y) % Numbers = (x + y) % Numbers
    <2> HIDE DEF x
    <2> QED  BY <1>1, <1>2, ModAdd
  <1>4. a \in Seq(Number) /\ Len(a) = k /\ \A i \in 1 .. k : a[i] = (n + i - 1) % Numbers
    <2>1. \A i \in 1 .. k : (n + i - 1) % Numbers \in Number
      BY <1>2, NumberFacts
    <2>2. a \in [1 .. k -> Number]
      BY <2>1
    <2> QED  BY <2>2
  <1> HIDE DEF a
  <1>5. /\ w \in Seq(Number) /\ Len(w) = Len(v) + k /\ DOMAIN w = 1 .. Len(v) + k
        /\ \A i \in 1 .. Len(v) + k : w[i] = IF i <= Len(v) THEN v[i] ELSE a[i - Len(v)]
    BY <1>4, CatFacts
  <1> HIDE DEF w
  <1>6. ASSUME NEW i \in DOMAIN w PROVE w[i] = (f + Len(u) + i - 1) % Numbers
    <2>1. CASE i <= Len(v)
      BY <1>1, <1>5, <2>1 DEF Order, Run
    <2>2. CASE ~(i <= Len(v))
      <3>1. i - Len(v) \in 1 .. k /\ w[i] = a[i - Len(v)]
        BY <1>1, <1>5, <2>2
      <3>2. w[i] = (n + (i - Len(v)) - 1) % Numbers
        BY <1>4, <3>1
      <3>3. /\ i - Len(v) - 1 \in Nat
            /\ n + (i - Len(v)) - 1 = n + (i - Len(v) - 1)
            /\ x + (i - Len(v) - 1) = f + Len(u) + i - 1
        <4>1. i \in 1 .. Len(v) + k /\ i \in Int /\ n \in Int
          BY <1>2, <1>5
        <4>2. i - Len(v) - 1 \in Nat /\ n + (i - Len(v)) - 1 = n + (i - Len(v) - 1)
          BY <1>2, <3>1, <4>1
        <4>3. x + (i - Len(v) - 1) = f + Len(u) + i - 1
          BY <1>0, <1>2, <4>1
        <4> QED  BY <4>2, <4>3
      <3> QED  BY <1>3, <3>2, <3>3
    <2> QED  BY <2>1, <2>2
  <1>7. (n + k) % Numbers = (f + Len(u) + Len(w)) % Numbers
    <2>1. x + k = f + Len(u) + Len(w)
      BY <1>1, <1>5
    <2> QED  BY <1>3, <2>1
  <1>8. Order(u, w, f, (n + k) % Numbers)
    BY <1>6, <1>7 DEF Order, Run
  <1> QED  BY <1>2, <1>5, <1>8 DEF w, a

--------------------------------------------------------------------------------
(* The invariant.                                                               *)

Buffers == {0, 1}

\* The buffer that is not being filled is empty, unless it is on its way or waits.
OtherEmpty == ~ongoing /\ ~both => buf[Other(sel)] = << >>

InOrderInv == Order(buf[Other(sel)], buf[sel], first, next)

IInv == TypeOK /\ OtherEmpty /\ InFlightIsKept /\ InOrderInv

LEMMA OtherFacts ==
    ASSUME NEW s \in Buffers
    PROVE  Other(s) \in Buffers /\ Other(s) # s /\ Other(Other(s)) = s
  BY DEF Buffers, Other

\* Switching to the other buffer keeps the order.
LEMMA GetFreeFacts ==
    ASSUME IInv, GetFree
    PROVE  /\ sel' \in Buffers /\ both' \in BOOLEAN
           /\ ~ongoing /\ ~both' => buf[Other(sel')] = << >>
           /\ trans # "none" => sel' = sel
           /\ Order(buf[Other(sel')], buf[sel'], first, next)
  <1> USE DEF Buffers
  <1>1. /\ sel \in Buffers /\ both \in BOOLEAN /\ ongoing \in BOOLEAN
        /\ buf \in [Buffers -> Seq(Number)] /\ first \in Number
    BY DEF IInv, TypeOK
  <1>2. Order(buf[Other(sel)], buf[sel], first, next)
    BY DEF IInv, InOrderInv
  <1>3. CASE Moves
    <2>1. both' = TRUE /\ sel' = Other(sel) /\ ~ongoing /\ ~both
      BY <1>3 DEF GetFree, Moves
    <2>2. buf[Other(sel)] = << >> /\ trans = "none"
      BY <2>1 DEF IInv, OtherEmpty, InFlightIsKept
    <2>3. sel' \in Buffers /\ Other(sel') = sel
      BY <1>1, <2>1, OtherFacts
    <2>4. buf[sel] \in Seq(Number) /\ Order(<< >>, buf[sel], first, next)
      BY <1>1, <1>2, <2>2
    <2>5. Order(buf[sel], << >>, first, next)
      BY <1>1, <2>4, OrderSwap
    <2> QED  BY <2>1, <2>2, <2>3, <2>5
  <1>4. CASE ~Moves
    <2>1. both' = both /\ sel' = sel
      BY <1>1, <1>4 DEF GetFree
    <2> QED  BY <1>1, <1>2, <2>1 DEF IInv, OtherEmpty
  <1> QED  BY <1>3, <1>4

\* Bytes are put behind those that wait.
LEMMA PutFacts ==
    ASSUME buf \in [Buffers -> Seq(Number)], first \in Number,
           NEW s \in Buffers, NEW k \in Nat, Put(s, k),
           Order(buf[Other(s)], buf[s], first, next)
    PROVE  /\ buf' \in [Buffers -> Seq(Number)] /\ next' \in Number
           /\ buf'[Other(s)] = buf[Other(s)]
           /\ Order(buf'[Other(s)], buf'[s], first, next')
  <1> DEFINE u == buf[Other(s)]
             v == buf[s]
             w == v \o [i \in 1 .. k |-> (next + i - 1) % Numbers]
  <1> HIDE DEF Number
  <1>1. u \in Seq(Number) /\ v \in Seq(Number)
    BY OtherFacts
  <1>2. /\ w \in Seq(Number) /\ (next + k) % Numbers \in Number
        /\ Order(u, w, first, (next + k) % Numbers)
    <2> HIDE DEF u, v
    <2>1. Order(u, v, first, next)
      BY DEF u, v
    <2> QED  BY <1>1, <2>1, OrderPut
  <1>3. buf' = [buf EXCEPT ![s] = w] /\ next' = (next + k) % Numbers
    BY DEF Put
  <1> HIDE DEF w
  <1>4. buf'[s] = w /\ buf'[Other(s)] = u /\ buf' \in [Buffers -> Seq(Number)]
    BY <1>2, <1>3, OtherFacts
  <1> QED  BY <1>2, <1>3, <1>4

--------------------------------------------------------------------------------
(* Every step keeps it.                                                         *)

LEMMA TypeFacts ==
    ASSUME IInv
    PROVE  /\ buf \in [Buffers -> Seq(Number)] /\ sel \in Buffers
           /\ both \in BOOLEAN /\ ongoing \in BOOLEAN /\ sofWait \in BOOLEAN
           /\ zlp \in 0 .. ZlpAfter - 1 /\ trans \in {"none", "data", "done"}
           /\ job \in [buf : Buffers, size : Nat]
           /\ first \in Number /\ next \in Number
           /\ Order(buf[Other(sel)], buf[sel], first, next)
  BY DEF IInv, TypeOK, InOrderInv, Buffers

LEMMA PutcInv == ASSUME IInv, NEW l \in Levels, Putc(l) PROVE IInv'
  BY DEF Putc, IInv, TypeOK, OtherEmpty, InFlightIsKept, InOrderInv, bufVars, trVars

LEMMA CheckInv == ASSUME IInv, NEW l \in Levels, Check(l) PROVE IInv'
  <1>1. /\ GetFree /\ UNCHANGED <<buf, ongoing, sofWait, zlp, trans, job, running, next, first>>
        /\ pc' \in [Levels -> {"idle", "check", "write"}]
    BY DEF Check, trVars, IInv, TypeOK
  <1>2. /\ sel' \in Buffers /\ both' \in BOOLEAN
        /\ ~ongoing /\ ~both' => buf[Other(sel')] = << >>
        /\ trans # "none" => sel' = sel
        /\ Order(buf[Other(sel')], buf[sel'], first, next)
    BY <1>1, GetFreeFacts
  <1>3. TypeOK'
    BY <1>1, <1>2 DEF IInv, TypeOK, Buffers
  <1>4. OtherEmpty' /\ InFlightIsKept' /\ InOrderInv'
    BY <1>1, <1>2 DEF IInv, OtherEmpty, InFlightIsKept, InOrderInv
  <1> QED  BY <1>3, <1>4 DEF IInv

\* A level prints k bytes to the buffer it finds.
LEMMA PrintInv ==
    ASSUME IInv, NEW k \in Nat, sel' \in Buffers, both' \in BOOLEAN,
           ~ongoing /\ ~both' => buf[Other(sel')] = << >>,
           trans # "none" => sel' = sel,
           Order(buf[Other(sel')], buf[sel'], first, next),
           Put(sel', k), UNCHANGED <<trVars, running, first>>,
           pc' \in [Levels -> {"idle", "check", "write"}]
    PROVE  IInv'
  <1> DEFINE s == sel'
  <1>1. buf \in [Buffers -> Seq(Number)] /\ first \in Number
    BY TypeFacts
  <1>2. /\ buf' \in [Buffers -> Seq(Number)] /\ next' \in Number
        /\ buf'[Other(s)] = buf[Other(s)]
        /\ Order(buf'[Other(s)], buf'[s], first, next')
    <2> HIDE DEF s
    <2>1. s \in Buffers /\ Put(s, k) /\ Order(buf[Other(s)], buf[s], first, next)
      BY DEF s
    <2> QED  BY <1>1, <2>1, PutFacts
  <1>3. UNCHANGED <<ongoing, sofWait, zlp, trans, job, running, first>>
    BY DEF trVars
  <1>4. TypeOK'
    BY <1>2, <1>3 DEF IInv, TypeOK, Buffers
  <1>5. OtherEmpty' /\ InOrderInv'
    BY <1>2, <1>3 DEF OtherEmpty, InOrderInv
  <1>6. InFlightIsKept'
    BY <1>2, <1>3 DEF IInv, InFlightIsKept
  <1> QED  BY <1>4, <1>5, <1>6 DEF IInv

LEMMA WriteInv == ASSUME IInv, NEW l \in Levels, Write(l) PROVE IInv'
  <1>1. /\ Put(sel, 1) /\ UNCHANGED <<sel, both, trVars, running, first>>
        /\ pc' \in [Levels -> {"idle", "check", "write"}]
    BY DEF Write, IInv, TypeOK
  <1>2. /\ sel' \in Buffers /\ both' \in BOOLEAN
        /\ ~ongoing /\ ~both' => buf[Other(sel')] = << >>
        /\ Order(buf[Other(sel')], buf[sel'], first, next) /\ Put(sel', 1)
    BY <1>1, TypeFacts DEF IInv, OtherEmpty
  <1> QED  BY <1>1, <1>2, PrintInv

LEMMA MonInv ==
    ASSUME IInv, Bounded, NEW n \in 1 .. Size, NEW m \in 1 .. n + 1, Mon(n, m)
    PROVE  IInv'
  <1>1. GetFree /\ UNCHANGED <<trVars, running, first>>
    BY DEF Mon
  <1>2. /\ sel' \in Buffers /\ both' \in BOOLEAN
        /\ ~ongoing /\ ~both' => buf[Other(sel')] = << >>
        /\ trans # "none" => sel' = sel
        /\ Order(buf[Other(sel')], buf[sel'], first, next)
    BY <1>1, GetFreeFacts
  <1>3. pc' \in [Levels -> {"idle", "check", "write"}]
    BY DEF Mon, IInv, TypeOK
  <1> DEFINE free   == Size - Len(buf[sel'])
             prints == IF free >= n THEN m ELSE IF free >= 1 THEN 1 ELSE 0
             k      == IF prints <= free THEN prints ELSE free
  <1>4. free \in Nat
    <2>1. buf[sel'] \in Seq(Number) /\ Len(buf[sel']) <= Size
      BY <1>2, TypeFacts DEF Bounded, Buffers
    <2> HIDE DEF Number
    <2>2. Len(buf[sel']) \in Nat
      BY <2>1
    <2> QED  BY <2>1, <2>2, SizeAssumption
  <1>5. Put(sel', k)
    BY DEF Mon
  <1> HIDE DEF free
  <1>6. k \in Nat
    BY <1>4, SizeAssumption
  <1> HIDE DEF k
  <1> QED  BY <1>1, <1>2, <1>3, <1>5, <1>6, PrintInv

\* What udi_cdc_tx_send leaves, whoever called it: the buffer it sends is the older one,
\* and stays as it is.
LEMMA SendInv ==
    ASSUME IInv, NEW s \in Buffers, NEW bt \in BOOLEAN, NEW busy \in BOOLEAN, NEW wait \in BOOLEAN,
           buf' \in [Buffers -> Seq(Number)], first' \in Number,
           TxSend(buf', s, bt, busy, wait), both' = bt,
           ~busy /\ ~bt => buf'[Other(s)] = << >>,
           busy /\ trans # "none" => job.buf = Other(s) /\ job.size = Len(buf'[job.buf]),
           Order(buf'[Other(s)], buf'[s], first', next),
           running' \in BOOLEAN, UNCHANGED <<pc, next>>
    PROVE  IInv'
  <1>0. PICK b \in [Buffers -> Seq(Number)], f \in Number : b = buf' /\ f = first'
    OBVIOUS
  <1>1. /\ zlp \in 0 .. ZlpAfter - 1 /\ job \in [buf : Buffers, size : Nat]
        /\ trans \in {"none", "data", "done"}
    BY TypeFacts
  <1>2. /\ zlp' \in 0 .. ZlpAfter - 1 /\ job' \in [buf : Buffers, size : Nat]
        /\ trans' \in {"none", "data", "done"}
        /\ sel' \in Buffers /\ ongoing' \in BOOLEAN /\ sofWait' \in BOOLEAN
        /\ ~ongoing' /\ ~bt => b[Other(sel')] = << >>
        /\ trans' # "none" => ongoing' /\ job'.buf = Other(sel') /\ job'.size = Len(b[job'.buf])
        /\ Order(b[Other(sel')], b[sel'], f, next)
    <2>0. /\ ~busy /\ ~bt => b[Other(s)] = << >>
          /\ busy /\ trans # "none" => job.buf = Other(s) /\ job.size = Len(b[job.buf])
          /\ Order(b[Other(s)], b[s], f, next)
      BY <1>0
    <2> DEFINE quiet == b[s] = << >> /\ zlp + 1 < ZlpAfter
               sends == ~busy /\ ~wait /\ ~quiet
               t     == IF bt THEN Other(s) ELSE s
    <2> HIDE DEF Number
    <2>1. /\ zlp' = IF sends THEN 0 ELSE IF busy \/ wait THEN zlp ELSE zlp + 1
          /\ sel' = IF sends THEN Other(t) ELSE s
          /\ ongoing' = (busy \/ sends)
          /\ sofWait' = IF sends THEN Len(b[t]) # Size ELSE wait
          /\ job' = IF sends THEN [buf |-> t, size |-> Len(b[t])] ELSE job
          /\ trans' = IF sends THEN "data" ELSE IF busy THEN trans ELSE "none"
      BY <1>0 DEF TxSend
    <2>2. /\ t \in Buffers /\ Other(t) \in Buffers /\ Other(Other(t)) = t
          /\ Other(s) \in Buffers /\ Other(Other(s)) = s
      BY OtherFacts
    <2>3. b[t] \in Seq(Number) /\ Len(b[t]) \in Nat
      BY <2>2
    <2>4. CASE sends
      <3>1. /\ zlp' = 0 /\ sel' = Other(t) /\ ongoing' = TRUE
            /\ sofWait' = (Len(b[t]) # Size)
            /\ job' = [buf |-> t, size |-> Len(b[t])] /\ trans' = "data" /\ ~busy
        BY <2>1, <2>4
      <3>2. Order(b[Other(sel')], b[sel'], f, next)
        <4>1. CASE bt
          <5>1. sel' = s
            BY <2>2, <3>1, <4>1
          <5> QED  BY <2>0, <5>1
        <4>2. CASE ~bt
          <5>1. sel' = Other(s) /\ Other(sel') = s /\ b[Other(s)] = << >>
            BY <2>0, <2>2, <3>1, <4>2
          <5>2. b[s] \in Seq(Number) /\ Order(<< >>, b[s], f, next)
            BY <2>0, <5>1
          <5>3. Order(b[s], << >>, f, next)
            BY <5>2, OrderSwap
          <5> QED  BY <5>1, <5>3
        <4> QED  BY <4>1, <4>2
      <3>3. job'.buf = t /\ job'.size = Len(b[t]) /\ job' \in [buf : Buffers, size : Nat]
        BY <2>2, <2>3, <3>1
      <3>4. 0 \in 0 .. ZlpAfter - 1
        BY ZlpAfterAssumption
      <3>5. sofWait' \in BOOLEAN
        BY <3>1
      <3> HIDE DEF t
      <3> QED  BY <2>2, <3>1, <3>2, <3>3, <3>4, <3>5
    <2>5. CASE ~sends
      <3>1. /\ sel' = s /\ ongoing' = busy /\ sofWait' = wait /\ job' = job
            /\ trans' = IF busy THEN trans ELSE "none"
        BY <2>1, <2>5
      <3>2. zlp' \in 0 .. ZlpAfter - 1
        BY <1>1, <2>1, <2>5, ZlpAfterAssumption
      <3> QED  BY <1>1, <2>0, <3>1, <3>2
    <2> QED  BY <2>4, <2>5
  <1>3. TypeOK'
    BY <1>0, <1>2 DEF IInv, TypeOK, Buffers
  <1>4. OtherEmpty' /\ InFlightIsKept' /\ InOrderInv'
    BY <1>0, <1>2 DEF OtherEmpty, InFlightIsKept, InOrderInv
  <1> QED  BY <1>3, <1>4 DEF IInv

LEMMA SofInv == ASSUME IInv, Sof PROVE IInv'
  <1>1. TxSend(buf, sel, both, ongoing, FALSE) /\ UNCHANGED <<buf, both, running, pc, next, first>>
    BY DEF Sof
  <1>2. /\ buf' \in [Buffers -> Seq(Number)] /\ first' \in Number /\ running' \in BOOLEAN
        /\ sel \in Buffers /\ both \in BOOLEAN /\ ongoing \in BOOLEAN
        /\ Order(buf'[Other(sel)], buf'[sel], first', next)
    BY <1>1, TypeFacts DEF IInv, TypeOK
  <1>3. /\ ~ongoing /\ ~both => buf'[Other(sel)] = << >>
        /\ ongoing /\ trans # "none" => job.buf = Other(sel) /\ job.size = Len(buf'[job.buf])
    BY <1>1 DEF IInv, OtherEmpty, InFlightIsKept
  <1>4. TxSend(buf', sel, both, ongoing, FALSE)
    BY <1>1
  <1> QED  BY <1>1, <1>2, <1>3, <1>4, SendInv

LEMMA HostTakesInv == ASSUME IInv, HostTakes PROVE IInv'
  BY DEF HostTakes, IInv, TypeOK, OtherEmpty, InFlightIsKept, InOrderInv, bufVars

LEMMA DataSentInv == ASSUME IInv, DataSent PROVE IInv'
  <1> DEFINE u == buf[Other(sel)]
             v == buf[sel]
             rest == [buf EXCEPT ![Other(sel)] = << >>]
  <1> HIDE DEF Number
  <1>1. /\ trans = "done" /\ buf' = rest /\ TxSend(rest, sel, FALSE, FALSE, sofWait)
        /\ both' = FALSE /\ first' = (first + job.size) % Numbers
        /\ UNCHANGED <<running, pc, next>>
    BY DEF DataSent
  <1>2. /\ buf \in [Buffers -> Seq(Number)] /\ sel \in Buffers /\ sofWait \in BOOLEAN
        /\ first \in Number /\ Order(u, v, first, next)
    BY TypeFacts
  <1>3. job.size = Len(u)
    BY <1>1 DEF IInv, InFlightIsKept
  <1>4. /\ rest[Other(sel)] = << >> /\ rest[sel] = v
        /\ rest \in [Buffers -> Seq(Number)] /\ u \in Seq(Number) /\ v \in Seq(Number)
    BY <1>2, OtherFacts
  <1>5. Order(<< >>, v, first', next)
    <2> HIDE DEF u, v
    <2>1. Order(<< >>, v, (first + Len(u)) % Numbers, next)
      BY <1>2, <1>4, OrderDrop
    <2> QED  BY <1>1, <1>3, <2>1
  <1>6. first' \in Number
    <2>1. first + Len(u) \in Nat
      BY <1>2, <1>4, NumberFacts
    <2> QED  BY <1>1, <1>3, <2>1, NumberFacts
  <1>7. running' \in BOOLEAN
    BY <1>1 DEF IInv, TypeOK
  <1> HIDE DEF rest, u, v
  <1>8. /\ buf'[Other(sel)] = << >> /\ Order(buf'[Other(sel)], buf'[sel], first', next)
        /\ buf' \in [Buffers -> Seq(Number)] /\ TxSend(buf', sel, FALSE, FALSE, sofWait)
    BY <1>1, <1>4, <1>5
  <1> QED  BY <1>1, <1>2, <1>6, <1>7, <1>8, SendInv

LEMMA DataDisableInv == ASSUME IInv, DataDisable PROVE IInv'
  BY DEF DataDisable, IInv, TypeOK, OtherEmpty, InFlightIsKept, InOrderInv, bufVars

LEMMA DataEnableInv == ASSUME IInv, DataEnable PROVE IInv'
  <1> HIDE DEF Number
  <1>1. /\ running' = TRUE /\ buf' = [b \in Buffers |-> << >>] /\ both' = FALSE
        /\ TxSend(buf', 0, FALSE, FALSE, FALSE) /\ first' = next /\ UNCHANGED <<pc, next>>
    BY DEF DataEnable, Buffers
  <1>2. 0 \in Buffers /\ Other(0) \in Buffers
    BY OtherFacts DEF Buffers
  <1>3. << >> \in Seq(Number)
    OBVIOUS
  <1>4. buf'[Other(0)] = << >> /\ buf'[0] = << >> /\ buf' \in [Buffers -> Seq(Number)]
    BY <1>1, <1>2, <1>3
  <1>5. first' \in Number /\ Order(<< >>, << >>, first', next)
    BY <1>1, TypeFacts, OrderEmpty
  <1> QED  BY <1>1, <1>2, <1>4, <1>5, SendInv

LEMMA InitInv == Init => IInv
  <1> SUFFICES ASSUME Init PROVE IInv
    OBVIOUS
  <1>1. /\ << >> \in Seq(Number) /\ 0 \in 0 .. ZlpAfter - 1 /\ 0 \in Number
        /\ Order(<< >>, << >>, 0, 0)
    BY NumberFacts, OrderEmpty, ZlpAfterAssumption
  <1> HIDE DEF Number
  <1>2. TypeOK
    BY <1>1 DEF Init, TypeOK
  <1>3. buf[0] = << >> /\ buf[1] = << >> /\ sel = 0 /\ Other(sel) = 1
    BY DEF Init, Other
  <1>4. OtherEmpty /\ InFlightIsKept
    BY <1>3 DEF Init, OtherEmpty, InFlightIsKept
  <1>5. InOrderInv
    BY <1>1, <1>3 DEF Init, InOrderInv
  <1> QED  BY <1>2, <1>4, <1>5 DEF IInv

LEMMA NextInv == IInv /\ [Next]_vars => IInv'
  <1> SUFFICES ASSUME IInv, [Next]_vars PROVE IInv'
    OBVIOUS
  <1>1. ASSUME NEW l \in Levels, Putc(l) \/ Check(l) \/ Write(l) PROVE IInv'
    BY <1>1, PutcInv, CheckInv, WriteInv
  <1>2. ASSUME Bounded, NEW n \in 1 .. Size, NEW m \in 1 .. n + 1, Mon(n, m) PROVE IInv'
    BY <1>2, MonInv
  <1>3. CASE Sof \/ HostTakes \/ DataSent \/ DataDisable \/ DataEnable
    BY <1>3, SofInv, HostTakesInv, DataSentInv, DataDisableInv, DataEnableInv
  <1>4. CASE UNCHANGED vars
    BY <1>4 DEF vars, bufVars, trVars, IInv, TypeOK, OtherEmpty, InFlightIsKept, InOrderInv
  <1> QED  BY <1>1, <1>2, <1>3, <1>4 DEF Next

LEMMA Invariance == Spec => []IInv
  BY InitInv, NextInv, PTL DEF Spec

\* The state keeps its types, whatever the size of the buffers (udi_cdc.c).
THEOREM TypeCorrect == Spec => []TypeOK
  <1>1. IInv => TypeOK
    BY DEF IInv
  <1> QED  BY <1>1, Invariance, PTL

\* The buffer a transfer was given is not touched until the host has it, whichever level
\* prints meanwhile (udi_cdc.c:764).
THEOREM FlightIsSafe == Spec => []InFlightIsKept
  <1>1. IInv => InFlightIsKept
    BY DEF IInv
  <1> QED  BY <1>1, Invariance, PTL

\* The console delivers what was printed, in order, whatever the size of the buffers
\* (udi_cdc.c:682, 728-738, 1018-1023).
THEOREM PrintedInOrder == Spec => []InOrder
  <1>1. ASSUME IInv PROVE InOrder
    <2> DEFINE u == buf[Other(sel)]
               v == buf[sel]
    <2> HIDE DEF Number
    <2>1. u \in Seq(Number) /\ v \in Seq(Number) /\ first \in Number /\ Order(u, v, first, next)
      BY <1>1, TypeFacts, OtherFacts
    <2>2. Waiting(buf, sel) = u \o v
      BY DEF Waiting
    <2> HIDE DEF u, v
    <2>3. /\ \A i \in DOMAIN (u \o v) : (u \o v)[i] = (first + i - 1) % Numbers
          /\ next = (first + Len(u \o v)) % Numbers
      BY <2>1, OrderIs
    <2> QED  BY <2>2, <2>3 DEF InOrder
  <1> QED  BY <1>1, Invariance, PTL
================================================================================
