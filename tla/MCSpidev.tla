------------------------------- MODULE MCSpidev -------------------------------
(* Instances of Spidev for TLC: the constants are given in the cfg files.   *)
EXTENDS Spidev
=============================================================================
