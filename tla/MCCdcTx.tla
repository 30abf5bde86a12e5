-------------------------------- MODULE MCCdcTx ---------------------------------
(* Model checking of CdcTx with different levels printing.                       *)
EXTENDS CdcTx
================================================================================
