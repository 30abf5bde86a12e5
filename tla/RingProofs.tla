------------------------------- MODULE RingProofs ------------------------------
(* Proofs about Ring for every number of slots.                                 *)
EXTENDS Ring, SequenceTheorems, TLAPS

\* What % MAX does to the sums of indices the ring computes.
LEMMA Wrap ==
    ASSUME NEW x \in Nat, x < 2 * MAX
    PROVE  x % MAX = IF x < MAX THEN x ELSE x - MAX
  BY MaxAssumption, SMT

\* The distance size() computes from begin to end, without the modulus (ring.h:29).
LEMMA Distance ==
    ASSUME NEW b \in Index, NEW e \in Index
    PROVE  (e + MAX - b) % MAX = IF b <= e THEN e - b ELSE e + MAX - b
  <1> DEFINE x == e + MAX - b
  <1>1. b \in Nat /\ e \in Nat /\ b < MAX /\ e < MAX
    BY MaxAssumption DEF Index
  <1>2. x \in Nat /\ x < 2 * MAX
    BY <1>1, MaxAssumption
  <1>3. x % MAX = IF x < MAX THEN x ELSE x - MAX
    BY <1>2, Wrap
  <1> QED  BY <1>1, <1>3, MaxAssumption

\* Moving an index one slot on keeps it a slot.
LEMMA NextIndex ==
    ASSUME NEW i \in Index
    PROVE  /\ (i + 1) % MAX = IF i = MAX - 1 THEN 0 ELSE i + 1
           /\ (i + 1) % MAX \in Index
  <1> DEFINE x == i + 1
  <1>1. i \in Nat /\ i < MAX /\ x \in Nat /\ x < 2 * MAX
    BY MaxAssumption DEF Index
  <1>2. x % MAX = IF x < MAX THEN x ELSE x - MAX
    BY <1>1, Wrap
  <1> QED  BY <1>1, <1>2, MaxAssumption DEF Index

\* And so does moving it one slot back, as back() does.
LEMMA PreviousIndex ==
    ASSUME NEW i \in Index
    PROVE  /\ (MAX + i - 1) % MAX = IF i = 0 THEN MAX - 1 ELSE i - 1
           /\ (MAX + i - 1) % MAX \in Index
  <1> DEFINE x == MAX + i - 1
  <1>1. i \in Nat /\ i < MAX /\ x \in Nat /\ x < 2 * MAX
    BY MaxAssumption DEF Index
  <1>2. x % MAX = IF x < MAX THEN x ELSE x - MAX
    BY <1>1, Wrap
  <1> QED  BY <1>1, <1>2, MaxAssumption DEF Index

LEMMA SizeRange ==
    ASSUME begin \in Index, end \in Index
    PROVE  /\ size \in 0 .. MAX - 1
           /\ size = IF begin <= end THEN end - begin ELSE end + MAX - begin
  BY Distance, MaxAssumption DEF size, Index

\* A push into a ring with a free slot makes the ring one longer.
LEMMA PushSize ==
    ASSUME begin \in Index, end \in Index, size < MAX - 1,
           begin' = begin, end' = (end + 1) % MAX
    PROVE  size' = size + 1
  <1>1. end' \in Index /\ end' = IF end = MAX - 1 THEN 0 ELSE end + 1
    BY NextIndex
  <1>2. size' = IF begin <= end' THEN end' - begin ELSE end' + MAX - begin
    BY <1>1, Distance DEF size
  <1>3. size = IF begin <= end THEN end - begin ELSE end + MAX - begin
    BY SizeRange
  <1> QED  BY <1>1, <1>2, <1>3, MaxAssumption DEF Index

\* A pop from a ring that is not empty makes it one shorter.
LEMMA PopSize ==
    ASSUME begin \in Index, end \in Index, begin # end,
           end' = end, begin' = (begin + 1) % MAX
    PROVE  size > 0 /\ size' = size - 1
  <1>1. begin' \in Index /\ begin' = IF begin = MAX - 1 THEN 0 ELSE begin + 1
    BY NextIndex
  <1>2. size' = IF begin' <= end THEN end - begin' ELSE end + MAX - begin'
    BY <1>1, Distance DEF size
  <1>3. size = IF begin <= end THEN end - begin ELSE end + MAX - begin
    BY SizeRange
  <1> QED  BY <1>1, <1>2, <1>3, MaxAssumption DEF Index

\* full() is true exactly when MAX - 1 elements are stored.
LEMMA FullSize ==
    ASSUME begin \in Index, end \in Index
    PROVE  full <=> size = MAX - 1
  <1>1. (end + 1) % MAX = IF end = MAX - 1 THEN 0 ELSE end + 1
    BY NextIndex
  <1> QED  BY <1>1, SizeRange, MaxAssumption DEF Index, full

--------------------------------------------------------------------------------
(* Type correctness and the room write_buf reserved.                            *)

RInv == TypeOK /\ ReservedRoom

LEMMA RInvInit == Init => RInv
  <1> SUFFICES ASSUME Init PROVE RInv
    OBVIOUS
  <1>1. begin \in Index /\ end \in Index
    BY MaxAssumption DEF Init, Index
  <1>2. size = 0
    BY <1>1, SizeRange, MaxAssumption DEF Init
  <1> QED  BY <1>1, <1>2, MaxAssumption DEF Init, RInv, TypeOK, ReservedRoom

LEMMA RInvNext == RInv /\ [Next]_vars => RInv'
  <1> SUFFICES ASSUME RInv, [Next]_vars PROVE RInv'
    OBVIOUS
  <1> USE DEF RInv
  <1>0. begin \in Index /\ end \in Index /\ size \in 0 .. MAX - 1
    BY SizeRange DEF TypeOK
  <1>1. CASE \E s \in 0 .. MAX - 1 : Reserve(s)
    <2> PICK s \in 0 .. MAX - 1 : Reserve(s)
      BY <1>1
    <2>1. size' = size
      BY DEF Reserve, size
    <2> QED  BY <2>1, <1>0, MaxAssumption DEF Reserve, TypeOK, ReservedRoom, avail
  <1>2. ASSUME NEW v \in T, PushReserved(v)
        PROVE  RInv'
    <2>1. size < MAX - 1
      BY <1>2, <1>0, MaxAssumption DEF PushReserved, TypeOK, ReservedRoom
    <2>2. size' = size + 1
      BY <1>2, <1>0, <2>1, PushSize DEF PushReserved, push_back
    <2>3. end' \in Index
      BY <1>2, <1>0, NextIndex DEF PushReserved, push_back
    <2>4. TypeOK'
      BY <1>2, <2>3, MaxAssumption DEF PushReserved, push_back, TypeOK
    <2> QED  BY <1>2, <1>0, <2>2, <2>4, MaxAssumption
             DEF PushReserved, TypeOK, ReservedRoom
  <1>3. ASSUME NEW v \in T, OnRx(v)
        PROVE  RInv'
    <2>1. size < MAX - 1
      BY <1>3, <1>0, FullSize, MaxAssumption DEF OnRx
    <2>2. size' = size + 1
      BY <1>3, <1>0, <2>1, PushSize DEF OnRx, push_back
    <2>3. end' \in Index
      BY <1>3, <1>0, NextIndex DEF OnRx, push_back
    <2>4. TypeOK'
      BY <1>3, <2>3, MaxAssumption DEF OnRx, push_back, TypeOK
    <2> QED  BY <1>3, <1>0, <2>1, <2>2, <2>4, MaxAssumption DEF OnRx, ReservedRoom
  <1>4. ASSUME NEW v \in T, back(v)
        PROVE  RInv'
    <2>1. size' = size
      BY <1>4 DEF back, size
    <2> QED  BY <1>4, <2>1 DEF back, TypeOK, ReservedRoom
  <1>5. CASE pop_front
    <2>1. size' = size - 1
      BY <1>5, <1>0, PopSize DEF pop_front, empty
    <2>2. begin' \in Index
      BY <1>5, <1>0, NextIndex DEF pop_front
    <2> QED  BY <1>5, <1>0, <2>1, <2>2, MaxAssumption DEF pop_front, TypeOK, ReservedRoom
  <1>6. CASE reset
    <2>1. begin' \in Index /\ end' \in Index
      BY <1>6, MaxAssumption DEF reset, Index
    <2>2. size' = 0
      BY <1>6, <2>1, Distance, MaxAssumption DEF reset, size
    <2> QED  BY <1>6, <2>1, <2>2, MaxAssumption DEF reset, TypeOK, ReservedRoom
  <1>7. CASE UNCHANGED vars
    BY <1>7 DEF vars, TypeOK, ReservedRoom, size
  <1> QED  BY <1>1, <1>2, <1>3, <1>4, <1>5, <1>6, <1>7 DEF Next

\* The indices and the data keep their ranges (ring.h:56-58).
THEOREM TypeCorrect == Spec => []TypeOK
  <1> QED  BY RInvInit, RInvNext, PTL DEF Spec, RInv

\* The room checked once is there for every byte pushed (uart.h:407, 419-424).
THEOREM RoomKept == Spec => []ReservedRoom
  <1> QED  BY RInvInit, RInvNext, PTL DEF Spec, RInv

--------------------------------------------------------------------------------
(* The ring implements the bounded FIFO.                                        *)

\* Slots read from any index on form a sequence.
LEMMA SlotsSeq ==
    ASSUME NEW d \in [Index -> T], NEW b \in Index, NEW n \in 0 .. MAX - 1
    PROVE  /\ [i \in 1 .. n |-> d[(b + i - 1) % MAX]] \in Seq(T)
           /\ Len([i \in 1 .. n |-> d[(b + i - 1) % MAX]]) = n
  <1> DEFINE s == [i \in 1 .. n |-> d[(b + i - 1) % MAX]]
  <1>1. n \in Nat
    BY MaxAssumption
  <1>2. ASSUME NEW i \in 1 .. n
        PROVE  d[(b + i - 1) % MAX] \in T
    <2> DEFINE x == b + i - 1
    <2>1. x \in Nat /\ x < 2 * MAX
      BY MaxAssumption DEF Index
    <2>2. x % MAX = IF x < MAX THEN x ELSE x - MAX
      BY <2>1, Wrap
    <2>3. x % MAX \in Index
      BY <2>1, <2>2, MaxAssumption DEF Index
    <2> QED  BY <2>3
  <1>3. s \in [1 .. n -> T]
    BY <1>2
  <1> QED  BY <1>1, <1>3

LEMMA ContentsSeq ==
    ASSUME TypeOK
    PROVE  /\ Contents \in Seq(T)
           /\ Len(Contents) = size
  BY SlotsSeq, SizeRange DEF TypeOK, Contents

\* The slot read for element i of the contents.
LEMMA Slot ==
    ASSUME NEW b \in Index, NEW i \in 1 .. MAX
    PROVE  (b + i - 1) % MAX = IF b + i - 1 < MAX THEN b + i - 1 ELSE b + i - 1 - MAX
  <1> DEFINE x == b + i - 1
  <1>1. x \in Nat /\ x < 2 * MAX
    BY MaxAssumption DEF Index
  <1>2. x % MAX = IF x < MAX THEN x ELSE x - MAX
    BY <1>1, Wrap
  <1> QED  BY <1>1, <1>2, MaxAssumption DEF Index

\* A push into a free slot appends: the slots in use keep their values.
LEMMA PushAppends ==
    ASSUME TypeOK, TypeOK', NEW v \in T, push_back(v), size < MAX - 1
    PROVE  Contents' = Append(Contents, v)
  <1>0. data' \in [Index -> T] /\ begin \in Index /\ size + 1 \in 0 .. MAX - 1
    BY SizeRange, MaxAssumption DEF TypeOK
  <1>1. size' = size + 1 /\ size \in 0 .. MAX - 1
    BY PushSize, SizeRange DEF TypeOK, push_back
  <1>2. Len(Contents) = size /\ Contents \in Seq(T)
    BY ContentsSeq
  <1>3. Contents' = [i \in 1 .. size + 1 |-> data'[(begin + i - 1) % MAX]]
    BY <1>1 DEF Contents, push_back
  <1>4. ASSUME NEW i \in 1 .. size
        PROVE  data'[(begin + i - 1) % MAX] = data[(begin + i - 1) % MAX]
    <2>1. (begin + i - 1) % MAX \in Index /\ (begin + i - 1) % MAX # end
      BY <1>1, Slot, SizeRange, MaxAssumption DEF TypeOK, Index
    <2> QED  BY <2>1 DEF TypeOK, push_back
  <1>5. data'[(begin + (size + 1) - 1) % MAX] = v
    <2>1. (begin + (size + 1) - 1) % MAX = end
      BY <1>1, Slot, SizeRange, MaxAssumption DEF TypeOK, Index
    <2> QED  BY <2>1 DEF TypeOK, push_back
  <1>6. /\ Contents' \in Seq(T)
        /\ Append(Contents, v) \in Seq(T)
        /\ Len(Contents') = size + 1
        /\ Len(Append(Contents, v)) = size + 1
    BY <1>1, <1>2, <1>3, <1>0, SlotsSeq, AppendProperties
  <1>7. ASSUME NEW i \in 1 .. size + 1
        PROVE  Contents'[i] = Append(Contents, v)[i]
    <2>1. CASE i <= size
      BY <1>1, <1>2, <1>3, <1>4, <2>1, AppendProperties DEF Contents
    <2>2. CASE i = size + 1
      <3>1. Contents'[size + 1] = v
        BY <1>1, <1>3, <1>5
      <3>2. Append(Contents, v)[size + 1] = v
        BY <1>2, AppendProperties
      <3> QED  BY <3>1, <3>2, <2>2
    <2>3. i <= size \/ i = size + 1
      BY <1>1
    <2> QED  BY <2>1, <2>2, <2>3
  <1> QED  BY <1>6, <1>7, SeqEqual

\* A pop takes the first element away.
LEMMA PopTail ==
    ASSUME TypeOK, TypeOK', pop_front
    PROVE  Contents # << >> /\ Contents' = Tail(Contents)
  <1>0. data \in [Index -> T] /\ begin' \in Index
    BY DEF TypeOK
  <1>1. size > 0 /\ size' = size - 1 /\ size \in 0 .. MAX - 1
    BY PopSize, SizeRange DEF TypeOK, pop_front, empty
  <1>2. Len(Contents) = size /\ Contents \in Seq(T)
    BY ContentsSeq
  <1>3. Contents' = [i \in 1 .. size - 1 |-> data[(begin' + i - 1) % MAX]]
    BY <1>1 DEF Contents, pop_front
  <1>4. ASSUME NEW i \in 1 .. size - 1
        PROVE  data[(begin' + i - 1) % MAX] = Contents[i + 1]
    <2>1. begin' = IF begin = MAX - 1 THEN 0 ELSE begin + 1
      BY NextIndex DEF TypeOK, pop_front
    <2>2. i \in 1 .. MAX /\ i + 1 \in 1 .. MAX /\ i + 1 \in 1 .. size
      BY <1>1, MaxAssumption
    <2>3. (begin' + i - 1) % MAX
            = IF begin' + i - 1 < MAX THEN begin' + i - 1 ELSE begin' + i - 1 - MAX
      BY <2>2, Slot DEF TypeOK
    <2>4. (begin + (i + 1) - 1) % MAX
            = IF begin + (i + 1) - 1 < MAX THEN begin + (i + 1) - 1
                                           ELSE begin + (i + 1) - 1 - MAX
      BY <2>2, Slot DEF TypeOK
    <2>5. (begin' + i - 1) % MAX = (begin + (i + 1) - 1) % MAX
      BY <1>1, <2>1, <2>3, <2>4, MaxAssumption DEF TypeOK, Index
    <2> QED  BY <2>2, <2>5 DEF Contents
  <1>5. /\ Contents # << >>
        /\ Contents' \in Seq(T)
        /\ Tail(Contents) \in Seq(T)
        /\ Len(Contents') = size - 1
        /\ Len(Tail(Contents)) = size - 1
        /\ \A i \in 1 .. size - 1 : Tail(Contents)[i] = Contents[i + 1]
    BY <1>1, <1>2, <1>3, <1>0, SlotsSeq, HeadTailProperties
  <1>6. \A i \in 1 .. size - 1 : Contents'[i] = Tail(Contents)[i]
    BY <1>3, <1>4, <1>5
  <1> QED  BY <1>5, <1>6, SeqEqual

\* Amending the newest element, or a slot not in use.
LEMMA BackAmends ==
    ASSUME TypeOK, TypeOK', NEW v \in T, back(v)
    PROVE  \/ Contents # << >> /\ Contents' = [Contents EXCEPT ![Len(Contents)] = v]
           \/ Contents' = Contents
  <1> DEFINE last == (MAX + end - 1) % MAX
  <1>1. size \in 0 .. MAX - 1 /\ size' = size
    BY SizeRange DEF TypeOK, back, size
  <1>2. last = (IF end = 0 THEN MAX - 1 ELSE end - 1) /\ last \in Index
    BY PreviousIndex DEF TypeOK
  <1>3. Len(Contents) = size /\ Contents \in Seq(T)
    BY ContentsSeq
  <1>4. Contents' = [i \in 1 .. size |-> data'[(begin + i - 1) % MAX]]
    BY <1>1 DEF Contents, back
  <1>5. ASSUME NEW i \in 1 .. size
        PROVE  data'[(begin + i - 1) % MAX] = IF i = size THEN v ELSE Contents[i]
    <2>1. /\ (begin + i - 1) % MAX \in Index
          /\ (begin + i - 1) % MAX = last <=> i = size
      <3>1. begin \in Index /\ end \in Index /\ i \in 1 .. MAX /\ MAX \in Nat
        BY <1>1, MaxAssumption DEF TypeOK
      <3>2. (begin + i - 1) % MAX = IF begin + i - 1 < MAX THEN begin + i - 1
                                    ELSE begin + i - 1 - MAX
        BY <3>1, Slot
      <3>3. size = IF begin <= end THEN end - begin ELSE end + MAX - begin
        BY <3>1, SizeRange
      <3> DEFINE j == (begin + i - 1) % MAX
      <3>4. j = IF begin + i - 1 < MAX THEN begin + i - 1 ELSE begin + i - 1 - MAX
        BY <3>2
      <3> HIDE DEF j, last
      <3>5. j \in Index /\ (j = last <=> i = size)
        BY <1>1, <1>2, <3>1, <3>3, <3>4 DEF Index
      <3> QED  BY <3>5 DEF j
    <2>2. data' = [data EXCEPT ![last] = v] /\ data \in [Index -> T]
      BY DEF TypeOK, back
    <2>3. Contents[i] = data[(begin + i - 1) % MAX]
      BY DEF Contents
    <2> HIDE DEF last
    <2> QED  BY <2>1, <2>2, <2>3
  <1>6. CASE size = 0
    <2>1. Contents' = Contents
      BY <1>4, <1>6 DEF Contents
    <2> QED  BY <2>1
  <1>7. CASE size > 0
    <2>1. /\ Contents # << >>
          /\ Contents' \in Seq(T) /\ Len(Contents') = size
      BY <1>1, <1>3, <1>4, <1>7, SlotsSeq DEF TypeOK
    <2>2. /\ [Contents EXCEPT ![size] = v] \in Seq(T)
          /\ Len([Contents EXCEPT ![size] = v]) = size
          /\ \A j \in 1 .. size :
                [Contents EXCEPT ![size] = v][j] = IF j = size THEN v ELSE Contents[j]
      BY <1>1, <1>3, <1>7, ExceptSeq
    <2>3. \A j \in 1 .. size : Contents'[j] = [Contents EXCEPT ![size] = v][j]
      BY <1>4, <1>5, <2>2
    <2>4. Contents' = [Contents EXCEPT ![size] = v]
      BY <2>1, <2>2, <2>3, SeqEqual
    <2> QED  BY <1>3, <2>1, <2>4
  <1> QED  BY <1>1, <1>6, <1>7

\* Every step of the ring is a step of the FIFO or leaves its contents alone.
LEMMA StepImplements ==
    ASSUME RInv, RInv', [Next]_vars
    PROVE  [Fifo!Next \/ (reset /\ Fifo!Clear)]_Contents
  <1> USE DEF RInv
  <1>0. begin \in Index /\ end \in Index /\ size \in 0 .. MAX - 1 /\ Len(Contents) = size
    BY SizeRange, ContentsSeq DEF TypeOK
  <1>1. CASE \E s \in 0 .. MAX - 1 : Reserve(s)
    BY <1>1 DEF Reserve, Contents, size
  <1>2. ASSUME NEW v \in T, PushReserved(v) \/ OnRx(v)
        PROVE  Fifo!Put(v)
    <2>1. size < MAX - 1
      BY <1>2, <1>0, FullSize, MaxAssumption DEF PushReserved, OnRx, ReservedRoom, TypeOK
    <2>2. push_back(v)
      BY <1>2 DEF PushReserved, OnRx
    <2>3. Contents' = Append(Contents, v)
      BY <2>1, <2>2, PushAppends
    <2> QED  BY <1>0, <2>1, <2>3 DEF Fifo!Put
  <1>3. ASSUME NEW v \in T, back(v)
        PROVE  Fifo!Amend(v) \/ UNCHANGED Contents
    BY <1>3, BackAmends DEF Fifo!Amend
  <1>4. CASE pop_front
    BY <1>4, PopTail DEF Fifo!Get, Fifo!Next
  <1>5. CASE reset
    <2>1. begin' \in Index /\ end' \in Index /\ begin' = end'
      BY <1>5, MaxAssumption DEF reset, Index
    <2>2. size' = 0
      BY <1>5, <2>1, Distance, MaxAssumption DEF reset, size, Index
    <2>3. Contents' \in Seq(T) /\ Len(Contents') = 0
      BY <2>1, <2>2, SlotsSeq, MaxAssumption DEF TypeOK, Contents
    <2>4. Contents' = << >>
      BY <2>3, EmptySeq
    <2> QED  BY <1>5, <2>4 DEF Fifo!Clear
  <1>6. CASE UNCHANGED vars
    BY <1>6 DEF vars, Contents, size
  <1> QED  BY <1>1, <1>2, <1>3, <1>4, <1>5, <1>6 DEF Next, Fifo!Next

LEMMA InitImplements == Init => Fifo!Init
  <1> SUFFICES ASSUME Init PROVE Contents = << >>
    BY DEF Fifo!Init
  <1>1. RInv
    BY RInvInit
  <1>2. size = 0
    BY SizeRange, MaxAssumption, <1>1 DEF Init, RInv, TypeOK
  <1>3. Contents \in Seq(T) /\ Len(Contents) = 0
    BY <1>1, <1>2, ContentsSeq DEF RInv
  <1> QED  BY <1>3, EmptySeq

\* The two wrapping indices implement a FIFO of MAX - 1 elements, for every MAX:
\* no push overwrites an element that was not popped (ring.h:27-54, uart.h:407-430).
THEOREM RingIsFifo == Spec => ImplementsFifo
  <1>1. RInv /\ RInv' /\ [Next]_vars => [Fifo!Next \/ (reset /\ Fifo!Clear)]_Contents
    BY StepImplements
  <1> QED  BY <1>1, InitImplements, RInvInit, RInvNext, PTL
           DEF Spec, ImplementsFifo
================================================================================
