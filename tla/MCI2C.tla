--------------------------------- MODULE MCI2C ---------------------------------
(* An instance of I2C for TLC.                                              *)
EXTENDS I2C

Message(rd, ten, nakok, len) == [rd |-> rd, ten |-> ten, nakok |-> nakok, len |-> len]

\* A register read (its number is written first), a write that ignores NAKs,
\* a read under a ten bit address, and nothing at all.
MCTransfers ==
  { <<Message(FALSE, FALSE, FALSE, 1), Message(TRUE, FALSE, FALSE, 2)>>,
    <<Message(FALSE, FALSE, TRUE, 2)>>,
    <<Message(TRUE, TRUE, FALSE, 1)>>,
    <<>> }
=============================================================================
