---------------------------- MODULE MCDMA330Core ----------------------------
(* The core alone: any layer above that keeps to its rules.                 *)
EXTENDS DMA330Core, TLC

Symmetry == Permutations(Descs)
=============================================================================
