-------------------------------- MODULE I2CBus --------------------------------
(***************************************************************************)
(* An I2C adapter as the drivers of I2C devices rely on it, through        *)
(* i2c_transfer: the bytes of a transfer are carried out one after the     *)
(* other; an attempt that stops on the way is followed by another one from *)
(* the first byte, a limited number of times; the transfer succeeds only   *)
(* with its last byte.  A transfer that fails may have carried out the     *)
(* first of its bytes.                                                     *)
(*                                                                         *)
(* I2C implements this (BusSpec); RTC is built on it.                      *)
(***************************************************************************)
EXTENDS Naturals

CONSTANTS
  Lengths,    \* numbers of bytes of the transfers asked for
  Attempts    \* most attempts at a transfer

VARIABLES
  busy,       \* a transfer is under way
  length,     \* its bytes
  attempt,
  carried,    \* the bytes carried out in this attempt
  outcome     \* of the last transfer

vars == <<busy, length, attempt, carried, outcome>>

Init ==
  /\ ~busy /\ length = 0 /\ attempt = 1
  /\ carried = {} /\ outcome = "none"

Ask(n) ==
  /\ ~busy
  /\ busy' = TRUE /\ length' = n /\ attempt' = 1
  /\ carried' = {} /\ outcome' = "none"

Carry ==
  /\ busy
  /\ \E k \in 1 .. length : carried = 1 .. k - 1 /\ carried' = 1 .. k
  /\ UNCHANGED <<busy, length, attempt, outcome>>

TryAgain ==
  /\ busy /\ attempt < Attempts
  /\ attempt' = attempt + 1 /\ carried' = {}
  /\ UNCHANGED <<busy, length, outcome>>

Succeed ==
  /\ busy /\ carried = 1 .. length
  /\ busy' = FALSE /\ outcome' = "num"
  /\ UNCHANGED <<length, attempt, carried>>

Fail ==
  /\ busy /\ attempt = Attempts
  /\ busy' = FALSE /\ outcome' = "EREMOTEIO" /\ carried' = {}
  /\ UNCHANGED <<length, attempt>>

GoOn == Carry \/ TryAgain \/ Succeed \/ Fail

Next == GoOn \/ \E n \in Lengths : Ask(n)

Spec == Init /\ [][Next]_vars

=============================================================================
