-------------------------------- MODULE MCRing ---------------------------------
(* Instance of Ring for TLC: four slots, two distinguishable bytes.             *)
EXTENDS Ring

CONSTANTS a, b

TwoBytes == {a, b}
================================================================================
