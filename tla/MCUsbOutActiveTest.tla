-------------------------- MODULE MCUsbOutActiveTest ---------------------------
(* Instance of UsbOutActiveTest for TLC.                                        *)
EXTENDS UsbOutActiveTest

CONSTANT a

AllEvents == Event
================================================================================
