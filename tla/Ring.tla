--------------------------------- MODULE Ring ----------------------------------
(* ring<MAX, T> of ring.h, with its callers in uart.h: a circular array whose   *)
(* begin and end indices wrap at MAX.  begin = end means empty, so one slot is  *)
(* never used.  push_back itself checks nothing: whether it may overwrite the   *)
(* oldest element is decided by its callers, write_buf, which compares the free *)
(* space with the whole message once and then pushes byte after byte, and       *)
(* on_rx, which asks full() for every byte.                                     *)
EXTENDS Naturals, Sequences

CONSTANTS T,      \* the values stored
          MAX     \* the number of slots (64 in the firmware)

ASSUME MaxAssumption == MAX \in Nat /\ MAX > 1

VARIABLES begin, end, data,
          left    \* bytes write_buf has still to push inside its critical section

vars == <<begin, end, data, left>>

Index == 0 .. MAX - 1

TypeOK ==
    /\ begin \in Index
    /\ end \in Index
    /\ data \in [Index -> T]
    /\ left \in 0 .. MAX - 1

empty == begin = end

\* Mutant of full: the index does not wrap.
fullNoWrap == begin = end + 1

full == begin = (end + 1) % MAX

size == (end + MAX - begin) % MAX

\* tx_ring_avail: the unused slot is counted, hence the strict comparison in Reserve.
avail == MAX - size

Init ==
    /\ begin = 0
    /\ end = 0
    /\ data \in [Index -> T]       \* the array is not initialised
    /\ left = 0

push_back(v) ==
    /\ data' = [data EXCEPT ![end] = v]
    /\ end' = (end + 1) % MAX
    /\ UNCHANGED begin

\* Mutant of Reserve: the slot that must stay unused is given away.
ReserveInclusive(s) ==
    /\ left = 0
    /\ avail >= s
    /\ left' = s
    /\ UNCHANGED <<begin, end, data>>

\* write_buf enters its critical section with s bytes and finds room for all of them.
Reserve(s) ==
    /\ left = 0
    /\ avail > s
    /\ left' = s
    /\ UNCHANGED <<begin, end, data>>

\* The next byte of that message: no test, the room was checked by Reserve.
PushReserved(v) ==
    /\ left > 0
    /\ push_back(v)
    /\ left' = left - 1

\* on_rx of a receiving ring: a byte is dropped when the ring is full.
OnRx(v) ==
    /\ left = 0
    /\ ~full
    /\ push_back(v)
    /\ UNCHANGED left

\* pop_front, by ring_read, on_dre_int or the end of write_buf: all test empty first.
pop_front ==
    /\ left = 0
    /\ ~empty
    /\ begin' = (begin + 1) % MAX
    /\ UNCHANGED <<end, data, left>>

\* back(v) overwrites the slot before end, whether or not it is in use.
back(v) ==
    /\ left = 0
    /\ data' = [data EXCEPT ![(MAX + end - 1) % MAX] = v]
    /\ UNCHANGED <<begin, end, left>>

reset ==
    /\ left = 0
    /\ begin' = 0
    /\ end' = 0
    /\ UNCHANGED <<data, left>>

Next ==
    \/ \E s \in 0 .. MAX - 1 : Reserve(s)
    \/ \E v \in T : PushReserved(v) \/ OnRx(v) \/ back(v)
    \/ pop_front
    \/ reset

Spec == Init /\ [][Next]_vars

--------------------------------------------------------------------------------

\* What the slots hold, oldest first.
Contents == [i \in 1 .. size |-> data[(begin + i - 1) % MAX]]

Fifo == INSTANCE BoundedFifo WITH Elem <- T, Room <- MAX - 1, q <- Contents

\* The two wrapping indices implement a FIFO of MAX - 1 elements: no push made
\* by write_buf (ring.h:40 checks nothing) ever overwrites an element that was not
\* popped, nothing is lost or reordered at the wrap, empty is never taken for full,
\* and only reset() empties the ring at once.
ImplementsFifo ==
    Fifo!Init /\ [][Fifo!Next \/ (reset /\ Fifo!Clear)]_Contents

\* While write_buf pushes, the room it checked once is still there for every byte left.
ReservedRoom == size + left < MAX
================================================================================
