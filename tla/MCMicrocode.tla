------------------------------ MODULE MCMicrocode ------------------------------
(* An instance of Microcode for TLC, with counters of up to three and short jumps, *)
(* so that every kind of loop is met by requests of a few dozen bursts.         *)
EXTENDS Microcode

Copy(bytes, align)     == [type |-> "memtomem", bytes |-> bytes, align |-> align]
Receive(bytes, width)  == [type |-> "devtomem", bytes |-> bytes, align |-> width]
Transmit(bytes, width) == [type |-> "memtodev", bytes |-> bytes, align |-> width]

\* One burst; a counter at its limit, and one more; both at their limits, and
\* one less; both and a rest; a body that is unrolled as often as is needed, as a
\* jump allows, and more often; too long a program; narrow beats in bursts of
\* several, and a length that allows one only; no multiple of the width.
MCCalls ==
  { Copy(4 * n, 4) : n \in {1, 3, 4, 8, 9, 10, 55} } \cup
  { Copy(8, 1), Copy(15, 1), Copy(10, 2), Copy(7, 4) } \cup
  { Receive(n, 1) : n \in {2, 28, 37} } \cup { Transmit(12, 2), Transmit(5, 2) }
================================================================================
