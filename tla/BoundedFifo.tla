------------------------------ MODULE BoundedFifo ------------------------------
(* What a byte queue of the firmware promises: a sequence of at most Room       *)
(* elements, taken from the front in the order they were put at the back.       *)
EXTENDS Naturals, Sequences

CONSTANTS Elem,   \* what is queued
          Room    \* how many elements fit

VARIABLE q

TypeOK == q \in Seq(Elem) /\ Len(q) <= Room

Init == q = << >>

Put(e) == Len(q) < Room /\ q' = Append(q, e)

Get == q # << >> /\ q' = Tail(q)

\* The most recent element is replaced.
Amend(e) == q # << >> /\ q' = [q EXCEPT ![Len(q)] = e]

\* Not part of Next: only a reset may do this.
Clear == q' = << >>

Next ==
    \/ \E e \in Elem : Put(e) \/ Amend(e)
    \/ Get

Spec == Init /\ [][Next]_q
================================================================================
