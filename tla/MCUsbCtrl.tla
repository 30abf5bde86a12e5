------------------------------- MODULE MCUsbCtrl -------------------------------
(* Model checking of UsbCtrl.                                                    *)
EXTENDS UsbCtrl

\* Reads of exactly and of more than what there is, in two packets, both full, the second
\* followed by an empty one.
MCReads == {[w |-> 4, p |-> 4], [w |-> 5, p |-> 4]}
================================================================================
