-------------------------------- MODULE MCUsbOut -------------------------------
(* Instances of UsbOut for TLC.                                                 *)
EXTENDS UsbOutJacks

CONSTANTS p1, p2, none, a, b

AllEvents == Event

\* Every length at one jack, the longer messages only at the others.
FewerEvents == {e \in Event : e.jack = p1 \/ e.size > 1}
================================================================================
