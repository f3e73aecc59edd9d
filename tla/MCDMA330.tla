------------------------------- MODULE MCDMA330 -------------------------------
(* Instances of DMA330 for TLC: the constants are given in the cfg files.   *)
EXTENDS DMA330
=============================================================================
