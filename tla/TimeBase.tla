-------------------------------- MODULE TimeBase -------------------------------
(* The clock of timer.cpp: an interrupt that adds a fixed fraction of a         *)
(* millisecond, and millis(), which reads a word of several digits that the     *)
(* interrupt may be about to write.                                             *)
EXTENDS Integers

CONSTANTS F_CPU,      \* kilohertz (24000)
          Base        \* values of a digit; a word has two

ASSUME F_CPUAssumption == F_CPU \in Nat \ {0}
ASSUME BaseAssumption == Base \in Nat \ {0, 1}

Words == Base * Base

\* clk2usec and its uses: the microseconds from one interrupt to the next, rounded down.
Clocks       == 64 * 256
tc_int2usec  == (Clocks * 1000) \div F_CPU
MILLIS_INC   == tc_int2usec \div 1000
FRACT_INC    == (tc_int2usec % 1000) \div 8
FRACT_MAX    == 1000 \div 8

VARIABLES
    tc_millis, tc_millis_fract,
    pending,    \* the timer's interrupt flag
    cli,        \* millis() has switched the interrupts off
    pc, r,      \* millis(): the next step and what was read
    n           \* history: interrupts served, for as long as they are told apart

vars == <<tc_millis, tc_millis_fract, pending, cli, pc, r, n>>

TypeOK ==
    /\ tc_millis \in 0 .. Words - 1
    /\ tc_millis_fract \in 0 .. FRACT_MAX - 1
    /\ {pending, cli} \subseteq BOOLEAN
    /\ pc \in {"idle", "low", "high", "done"}
    /\ r \in 0 .. Words - 1
    /\ n \in 0 .. Words * FRACT_MAX - 1

Init ==
    /\ tc_millis = 0 /\ tc_millis_fract = 0
    /\ pending = FALSE /\ cli = FALSE
    /\ pc = "idle" /\ r = 0
    /\ n = 0

\* The timer underflows.  It did so last 0.7 ms ago, so that this has been served.
Underflow ==
    /\ ~pending
    /\ pending' = TRUE
    /\ UNCHANGED <<tc_millis, tc_millis_fract, cli, pc, r, n>>

\* The fraction has reached a millisecond.
Full(f) == f >= FRACT_MAX

\* What is left of the fraction after a millisecond is taken from it.
Carry(f) == f - FRACT_MAX

\* ISR(TCD2_LUNF_vect).
Interrupt ==
    /\ pending /\ ~cli
    /\ pending' = FALSE
    /\ LET f == tc_millis_fract + FRACT_INC
       IN  IF Full(f)
           THEN /\ tc_millis_fract' = Carry(f)
                /\ tc_millis' = (tc_millis + MILLIS_INC + 1) % Words
           ELSE /\ tc_millis_fract' = f
                /\ tc_millis' = (tc_millis + MILLIS_INC) % Words
    /\ n' = (n + 1) % (Words * FRACT_MAX)
    /\ UNCHANGED <<cli, pc, r>>

\* Mutant of Lock: crit_sec does nothing.
LockNothing == cli' = FALSE

\* crit_sec.
Lock == cli' = TRUE

\* millis(), a digit at a time.
Millis ==
    /\ \/ pc = "idle" /\ Lock /\ pc' = "low" /\ r' = 0
       \/ pc = "low"  /\ r' = tc_millis % Base /\ pc' = "high" /\ cli' = cli
       \/ pc = "high" /\ r' = r + (tc_millis \div Base) * Base /\ pc' = "done" /\ cli' = cli
       \/ pc = "done" /\ cli' = FALSE /\ pc' = "idle" /\ r' = r
    /\ UNCHANGED <<tc_millis, tc_millis_fract, pending, n>>

Next == Underflow \/ Interrupt \/ Millis

Spec == Init /\ [][Next]_vars

--------------------------------------------------------------------------------

\* No part of a millisecond is lost or counted twice, over the clock's wrapping and for as
\* long as it runs (timer.cpp:102-113).
NoTimeLost ==
    (tc_millis * FRACT_MAX + tc_millis_fract - n * (MILLIS_INC * FRACT_MAX + FRACT_INC))
        % (Words * FRACT_MAX) = 0

\* millis() returns a time that the clock shows as it returns (timer.cpp:130-137), though
\* the interrupt may come at any step of it.
ReadIsTime == pc = "done" => r = tc_millis
================================================================================
