----------------------------- MODULE MCMidiParser ------------------------------
(* Two data bytes, and windows long enough for two running messages after the   *)
(* first and for the second chunk of a system exclusive to be complete.         *)
EXTENDS MidiParser

CONSTANTS d1, d2

MCData == {d1, d2}
================================================================================
