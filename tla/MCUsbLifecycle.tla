----------------------------- MODULE MCUsbLifecycle ----------------------------
(* Model checking of UsbLifecycle.                                              *)
EXTENDS UsbLifecycle
================================================================================
