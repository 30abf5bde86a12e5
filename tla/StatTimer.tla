------------------------------- MODULE StatTimer -------------------------------
(* The periodic statistics of the console: the timer that the main loop polls   *)
(* and the commands and keys by which the USB interrupt starts and stops it     *)
(* (main.cpp), on a clock that wraps (artl/timer.h).                            *)
(*                                                                              *)
(* The time, the timer and the period are 32-bit words on an 8-bit processor,   *)
(* and nothing protects the last two: the main loop reads and writes them a     *)
(* digit at a time, here two digits, and the interrupt may come between.        *)
EXTENDS Naturals

CONSTANTS Base,       \* values of a digit
          PerSecond,  \* milliseconds in a second (1000)
          Seconds,    \* the numbers the user types after P
          Lag,        \* bound: milliseconds between two passes of the main loop
          Cap         \* bound of the history variable since

Words == Base * Base        \* 2^32
Word  == 0 .. Words - 1

\* What an instance has to assume of them: a word holds twice the time of a pass, and the
\* user asks for no period that a timer cannot wait for (artl/timer.h:15-17).
ConstantsFit ==
    /\ Base \in Nat \ {0, 1} /\ PerSecond \in Nat /\ Seconds \subseteq Nat
    /\ Lag \in Nat /\ Cap \in Nat
    /\ Lag <= Cap /\ Lag <= (Words - 1) \div 2
    /\ \A d \in Seconds \ {0} :
           /\ d * PerSecond \in 1 .. Words \div 2
           /\ d * PerSecond + 2 * Lag < Words
           /\ d * PerSecond + 2 * Lag <= Cap

VARIABLES
    now,        \* millis()
    tc_flag,    \* the clock interrupt came
    at,         \* at_ of stat_timer, zero when it is not active
    period,     \* stat_period
    mon,        \* midi::mon_enabled
    dtr,        \* cdc_dtr
    last_dtr,   \* main: the last it saw of it
    pc,         \* main: the next step
    t,          \* main: the time of this pass
    r,          \* main: a word being read or written
    late,       \* history: milliseconds since the last pass
    since,      \* history: milliseconds since the timer was set, up to Cap
    met         \* history: a command came while main was at the timer

timerVars == <<at, period, met>>
mainVars  == <<last_dtr, pc, t, r>>
vars      == <<now, tc_flag, timerVars, mon, dtr, mainVars, late, since>>

TypeOK ==
    /\ now \in Word /\ tc_flag \in BOOLEAN
    /\ at \in Word /\ period \in Word
    /\ mon \in BOOLEAN /\ dtr \in BOOLEAN /\ last_dtr \in BOOLEAN
    /\ pc \in {"sleep", "test", "test2", "clear", "period", "period2", "store", "store2",
               "print", "dtr", "stop", "cancel", "cancel2", "zero", "zero2"}
    /\ t \in Word /\ r \in Word
    /\ late \in 0 .. Lag /\ since \in 0 .. Cap
    /\ met \in BOOLEAN

Init ==
    /\ now = 0 /\ tc_flag = FALSE
    /\ at = 0 /\ period = 0 /\ mon = FALSE
    /\ dtr = FALSE /\ last_dtr = FALSE
    /\ pc = "sleep" /\ t = 0 /\ r = 0
    /\ late = 0 /\ since = 0 /\ met = FALSE

--------------------------------------------------------------------------------
(* Words.                                                                       *)

\* One word with the low, or the high, digit of another.
Low(w, x)  == (w \div Base) * Base + (x % Base)
High(w, x) == (x \div Base) * Base + (w % Base)

Plus(a, b)  == (a + b) % Words
Minus(a, b) == (Words + a - b) % Words

\* max_delay: half of what an unsigned long holds.
max_delay == (Words - 1) \div 2

\* Mutant of Due: the timer fires only in the millisecond it is set to.
DueExactly(a) == a # 0 /\ Minus(t, a) = 0

\* The test of update: the timer is set, and for a time not after t.
Due(a) == a # 0 /\ Minus(t, a) < max_delay

--------------------------------------------------------------------------------
(* The clock, and the console's interrupt.                                      *)

\* A millisecond passes; the main loop comes round in time.
Tick ==
    /\ late < Lag
    /\ now' = Plus(now, 1)
    /\ tc_flag' = TRUE
    /\ late' = late + 1
    /\ since' = IF since < Cap THEN since + 1 ELSE Cap
    /\ UNCHANGED <<timerVars, mon, dtr, mainVars>>

\* The main loop is where a command does not disturb it.
Away == pc \in {"sleep", "print", "dtr"}

\* P with a number: the period is a product that may overflow.
PeriodCommand(d) ==
    /\ ~mon /\ period = 0
    /\ d # 0
    /\ period' = (d * PerSecond) % Words
    /\ at' = Plus(now, period')
    /\ since' = 0
    /\ met' = ~Away
    /\ UNCHANGED <<now, tc_flag, mon, dtr, mainVars, late>>

\* M.
MonCommand ==
    /\ ~mon /\ period = 0
    /\ mon' = TRUE
    /\ UNCHANGED <<now, tc_flag, timerVars, dtr, mainVars, late, since>>

\* Mutant of Stop: the period is reset, the timer is left.
StopKeepsTimer ==
    /\ mon \/ period # 0
    /\ mon' = FALSE
    /\ period' = 0
    /\ met' = ~Away
    /\ UNCHANGED <<now, tc_flag, at, dtr, mainVars, late, since>>

\* Enter, while something is being displayed.
Stop ==
    /\ mon \/ period # 0
    /\ mon' = FALSE
    /\ at' = 0
    /\ period' = 0
    /\ met' = ~Away
    /\ UNCHANGED <<now, tc_flag, dtr, mainVars, late, since>>

\* main_cdc_set_dtr.
SetDtr ==
    /\ dtr' = ~dtr
    /\ UNCHANGED <<now, tc_flag, timerVars, mon, mainVars, late, since>>

--------------------------------------------------------------------------------
(* The main loop.                                                               *)

\* Any interrupt ends the sleep; the timers are looked at if the clock's has come.
Wake ==
    /\ pc = "sleep"
    /\ IF tc_flag THEN t' = now /\ pc' = "test" ELSE t' = t /\ pc' = "dtr"
    /\ tc_flag' = FALSE
    /\ late' = 0
    /\ r' = 0
    /\ UNCHANGED <<now, timerVars, mon, dtr, last_dtr, since>>

\* update reads at_.
Test  == pc = "test" /\ r' = Low(0, at) /\ pc' = "test2"
Test2 ==
    /\ pc = "test2"
    /\ r' = High(r, at)
    /\ pc' = IF Due(r') THEN "clear" ELSE "dtr"

\* schedule(t + stat_period): the period is read, the sum written.
Period  == pc = "period" /\ r' = Low(0, period) /\ pc' = "period2"
Period2 == pc = "period2" /\ r' = Plus(t, High(r, period)) /\ pc' = "store"

Reads ==
    /\ Test \/ Test2 \/ Period \/ Period2
    /\ UNCHANGED <<now, tc_flag, timerVars, mon, dtr, last_dtr, t, late, since>>

\* update resets at_ when the timer fires; schedule writes it again.
Clear  == pc = "clear" /\ at' = 0 /\ pc' = "period" /\ since' = since
Store  == pc = "store" /\ at' = Low(at, r) /\ pc' = "store2" /\ since' = since
Store2 == pc = "store2" /\ at' = High(at, r) /\ pc' = "print" /\ since' = Minus(now, t)

Writes ==
    /\ Clear \/ Store \/ Store2
    /\ UNCHANGED <<now, tc_flag, period, met, mon, dtr, last_dtr, t, r, late>>

\* stat_print(true).
Show ==
    /\ pc = "print"
    /\ pc' = "dtr"
    /\ UNCHANGED <<now, tc_flag, timerVars, mon, dtr, last_dtr, t, r, late, since>>

\* The terminal opened (the greeting is left out) or closed.
Dtr ==
    /\ pc = "dtr"
    /\ last_dtr' = dtr
    /\ pc' = IF dtr = last_dtr \/ dtr THEN "sleep" ELSE "stop"
    /\ UNCHANGED <<now, tc_flag, timerVars, mon, dtr, t, r, late, since>>

\* Closed: the monitor, the timer and the period are reset, one after the other.
Close ==
    /\ \/ pc = "stop" /\ pc' = "cancel" /\ mon' = FALSE /\ UNCHANGED <<at, period>>
       \/ pc = "cancel"  /\ pc' = "cancel2" /\ at' = Low(at, 0) /\ UNCHANGED <<mon, period>>
       \/ pc = "cancel2" /\ pc' = "zero" /\ at' = High(at, 0) /\ UNCHANGED <<mon, period>>
       \/ pc = "zero"  /\ pc' = "zero2" /\ period' = Low(period, 0) /\ UNCHANGED <<mon, at>>
       \/ pc = "zero2" /\ pc' = "sleep" /\ period' = High(period, 0) /\ UNCHANGED <<mon, at>>
    /\ met' = (met /\ pc # "cancel")
    /\ UNCHANGED <<now, tc_flag, dtr, last_dtr, t, r, late, since>>

Main == Wake \/ Reads \/ Writes \/ Show \/ Dtr \/ Close

Next ==
    \/ Tick
    \/ Stop \/ MonCommand \/ SetDtr
    \/ \E d \in Seconds : PeriodCommand(d)
    \/ Main

Spec == Init /\ [][Next]_vars

--------------------------------------------------------------------------------
(* Properties.                                                                  *)

\* What was stopped has stopped: when no period is set, no timer is left to fire
\* (main.cpp:394-396, 201-202), unless a command came while the main loop was at the timer
\* (main.cpp:165-166).
StoppedIsStopped == ~met /\ pc = "sleep" /\ period = 0 => at = 0

\* Unless a command came so, statistics are not printed before their period has passed
\* since the command or since the time before (main.cpp:165-166, 358-360), and a timer
\* that is set has not waited longer than its period and two passes, so that the wrapping
\* of the clock hides neither (artl/timer.h:24).
KeepsPeriod ==
    /\ ~met /\ pc = "clear" => since >= period
    /\ ~met /\ Away /\ at # 0 => since <= period + 2 * Lag
================================================================================
