-------------------------------- MODULE MCUsbIn --------------------------------
(* Instance of UsbIn for TLC.                                                   *)
EXTENDS UsbInLifecycle
================================================================================
