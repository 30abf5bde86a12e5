------------------------------- MODULE EventPipe -------------------------------
(* What the router promises about the events its jacks receive: the USB host    *)
(* fetches them in order, in batches; an event is dropped only while at least   *)
(* Cap of them wait.  Events are numbered by the source, modulo Numbers.        *)
EXTENDS Naturals, Sequences

CONSTANTS Cap,        \* the largest batch
          Numbers

VARIABLES q,          \* received and not fetched yet
          next        \* the number of the next event

Init == q = << >> /\ next = 0

Receive ==
    /\ next' = (next + 1) % Numbers
    /\ \/ q' = Append(q, next)
       \/ Len(q) >= Cap /\ q' = q

Fetch(n) ==
    /\ n <= Len(q)
    /\ q' = SubSeq(q, n + 1, Len(q))
    /\ UNCHANGED next

Next == Receive \/ \E n \in 1 .. Cap : Fetch(n)

Spec == Init /\ [][Next]_<<q, next>>
================================================================================
