-------------------------------- MODULE RstMenu --------------------------------
(* The button and its menu: a press that is debounced by polling (button.h), a  *)
(* LED that blinks while it is held and counts (rst_blink.h), and on release    *)
(* the entry with that number (main.cpp), on a clock that wraps.                *)
EXTENDS Naturals

CONSTANTS Words,      \* values of unsigned long
          Bounce,     \* milliseconds a change has to last (5)
          Every,      \* milliseconds between two blinks (600)
          Lag,        \* bound: milliseconds between two passes of the main loop
          Cap         \* bound of the history variable held

\* What an instance has to assume of them: neither a blink nor a pass takes longer than a
\* timer can wait (artl/timer.h:15-17).
ConstantsFit ==
    /\ Words \in Nat \ {0} /\ Lag \in Nat \ {0} /\ Cap \in Nat
    /\ Bounce \in Nat \ {0} /\ Every \in Nat \ {0}
    /\ Every <= Words \div 2 /\ Lag <= (Words - 1) \div 2

Word == 0 .. Words - 1

VARIABLES
    now,            \* millis()
    pressed,        \* the pin, which may bounce
    down, down_debounced, bounce, since,    \* the button; since is state_change_time_
    at,             \* at_ of the timer rst_blink, zero when it is not active
    count,          \* rst_blink_count
    led, test,  \* led_test, and that active_test_timer is active
    state,          \* "runs", or the processor is about to be "reset"
    late,           \* history: milliseconds since the last pass
    held            \* history: milliseconds since the press was noticed, up to Cap

btnVars  == <<down, down_debounced, bounce, since>>
modeVars == <<led, test>>
vars     == <<now, pressed, btnVars, at, count, modeVars, state, late, held>>

TypeOK ==
    /\ now \in Word /\ since \in Word /\ at \in Word
    /\ {pressed, down, down_debounced, bounce, led, test} \subseteq BOOLEAN
    /\ count \in 0 .. 5
    /\ state \in {"runs", "reset"}
    /\ late \in 0 .. Lag /\ held \in 0 .. Cap

Init ==
    /\ now = 0 /\ pressed \in BOOLEAN
    /\ down = FALSE /\ down_debounced = FALSE /\ bounce = FALSE /\ since = 0
    /\ at = 0 /\ count = 0
    /\ led = FALSE /\ test = FALSE
    /\ state = "runs"
    /\ late = 0 /\ held = 0

--------------------------------------------------------------------------------

Plus(a, b)  == (a + b) % Words
Minus(a, b) == (Words + a - b) % Words
max_delay   == (Words - 1) \div 2

\* The pin changes, as a press or as a bounce.
Pin ==
    /\ pressed' = ~pressed
    /\ UNCHANGED <<now, btnVars, at, count, modeVars, state, late, held>>

\* A millisecond passes; the main loop comes round in time.
Tick ==
    /\ state = "runs" /\ late < Lag
    /\ now' = Plus(now, 1)
    /\ late' = late + 1
    /\ held' = IF held < Cap THEN held + 1 ELSE Cap
    /\ UNCHANGED <<pressed, btnVars, at, count, modeVars, state>>

\* When the pin changed, the time of the last change starts anew.
Changed == pressed # down
Change  == IF Changed THEN now ELSE since

\* button::update finds that a change has lasted.
Lasted == (bounce \/ Changed) /\ Minus(now, Change) >= Bounce

\* button::update returns true: what lasted is not what was reported last.
Reports == Lasted /\ pressed # down_debounced

\* button::update.
Button ==
    /\ down' = pressed
    /\ bounce' = ((bounce \/ Changed) /\ ~Lasted)
    /\ since' = IF Lasted THEN now ELSE Change
    /\ down_debounced' = IF Lasted THEN pressed ELSE down_debounced

\* rst_blink_start.
rst_blink_start ==
    /\ at' = Plus(now, Every)
    /\ count' = 0
    /\ held' = 0
    /\ UNCHANGED <<modeVars, state>>

\* The entries of the menu: the second starts or stops USB (UsbLifecycle), the third and the
\* fourth are tests, and one blink or none is a reset.
Entry ==
    CASE count = 2 -> led' = FALSE /\ test' = FALSE /\ state' = state
      [] count = 3 -> led' = TRUE  /\ test' = FALSE /\ state' = state
      [] count = 4 -> led' = FALSE /\ test' = TRUE  /\ state' = state
      [] OTHER     -> state' = "reset" /\ UNCHANGED modeVars

\* Mutant of rst_blink_stop: the timer is left.
rst_blink_stop_keeps == at' = at

\* rst_blink_stop.
rst_blink_stop == at' = 0

\* rst_blink is due.
Due == at # 0 /\ Minus(now, at) < max_delay

\* rst_blink_update: the timer is set again from now on; the fifth blink is a reset.
rst_blink_update ==
    /\ at' = IF Due THEN Plus(now, Every) ELSE at
    /\ count' = IF Due THEN count + 1 ELSE count
    /\ state' = IF count' >= 5 THEN "reset" ELSE state

\* A pass of the main loop.
Pass ==
    /\ state = "runs" /\ late > 0
    /\ late' = 0
    /\ Button
    /\ \/ Reports /\ pressed /\ rst_blink_start
       \/ /\ Reports /\ ~pressed
          /\ Entry /\ rst_blink_stop
          /\ UNCHANGED <<count, held>>
       \/ /\ ~Reports
          /\ rst_blink_update
          /\ UNCHANGED <<modeVars, held>>
    /\ UNCHANGED <<now, pressed>>

\* reset_do_soft_reset, or the watchdog.
Reset ==
    /\ state = "reset"
    /\ now' = 0 /\ since' = 0 /\ at' = 0 /\ count' = 0 /\ late' = 0 /\ held' = 0
    /\ down' = FALSE /\ down_debounced' = FALSE /\ bounce' = FALSE
    /\ led' = FALSE /\ test' = FALSE
    /\ state' = "runs"
    /\ UNCHANGED pressed

Next == Pin \/ Tick \/ Pass \/ Reset

Spec == Init /\ [][Next]_vars

--------------------------------------------------------------------------------
(* Properties.                                                                  *)

\* The menu is open only while the button is held, and the number that release will choose
\* is the time it was held in units of Every, over the clock's wrapping and however the
\* contact bounces (rst_blink.h:26-33, artl/timer.h:24): a blink comes neither early nor
\* more than a pass late.
CountIsTime ==
    at # 0 => /\ down_debounced
              /\ held < Cap => /\ held >= count * Every
                               /\ held < (count + 1) * (Every + Lag)
================================================================================
