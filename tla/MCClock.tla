-------------------------------- MODULE MCClock --------------------------------
(* The clock (TimeBase) and the two users of it in the main loop that wait for  *)
(* a time: the periodic statistics (StatTimer) and the button's menu (RstMenu). *)
(* Each has its timer and reads the clock once in a pass, so that they do not   *)
(* disturb one another: one of them runs while the others rest, part says which.*)
EXTENDS TimeBase

CONSTANTS PerSecond, Seconds, Lag, Bounce, Every, Cap

VARIABLES part,
          now, tc_flag, at, period, mon, dtr, last_dtr, statpc, t, statr, late, since, met,
          clock, pressed, down, down_debounced, bounce, changed, due, count, led, test,
          state, behind, held

statVars == <<now, tc_flag, at, period, mon, dtr, last_dtr, statpc, t, statr, late, since, met>>
menuVars == <<clock, pressed, down, down_debounced, bounce, changed, due, count, led, test,
              state, behind, held>>

Stat == INSTANCE StatTimer WITH pc <- statpc, r <- statr

Menu == INSTANCE RstMenu WITH now <- clock, since <- changed, at <- due, late <- behind

ASSUME StatAssumption == Stat!ConstantsFit
ASSUME MenuAssumption == Menu!ConstantsFit

PartsInit ==
    /\ part \in {"clock", "stat", "menu"}
    /\ Init /\ Stat!Init /\ Menu!Init

PartsNext ==
    \/ part = "clock" /\ Next /\ UNCHANGED <<part, statVars, menuVars>>
    \/ part = "stat" /\ Stat!Next /\ UNCHANGED <<part, vars, menuVars>>
    \/ part = "menu" /\ Menu!Next /\ UNCHANGED <<part, vars, statVars>>

PartsSpec == PartsInit /\ [][PartsNext]_<<part, vars, statVars, menuVars>>

\* Every variable of the three parts has its type.
PartsTypeOK == TypeOK /\ Stat!TypeOK /\ Menu!TypeOK

\* What was stopped has stopped (main.cpp:394-396).
StoppedIsStopped == Stat!StoppedIsStopped

\* Statistics keep their period (main.cpp:165-166, 358-360).
KeepsPeriod == Stat!KeepsPeriod

\* The number of blinks is the time the button was held (rst_blink.h:26-33).
CountIsTime == Menu!CountIsTime
================================================================================
