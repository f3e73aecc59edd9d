---------------------------------- MODULE I2C ----------------------------------
(***************************************************************************)
(* i2c-socle.c: one thread carries out transfers, a byte at a time.  It    *)
(* writes a command to the controller and sleeps until the interrupt       *)
(* handler has set the flag of the answer; the flag is cleared after the   *)
(* wait, never before the next command.  A transfer that fails is tried    *)
(* again from its beginning.                                               *)
(*                                                                         *)
(* A transfer is the sequence of its bytes.  Left out are the values of    *)
(* data bytes, the acknowledge bit the master gives for a byte it reads,   *)
(* and the clock divisor.  The i2c core admits one transfer at a time.     *)
(***************************************************************************)
EXTENDS Integers, Sequences, SequencesExt

CONSTANTS
  Transfers,  \* sequences of messages that clients ask for
  Retries,    \* adap.retries
  NONE,
  Env         \* the hazards, among those below, that the environment exhibits

(***************************************************************************)
(*   late     a byte is finished after the driver has stopped waiting      *)
(*   signal   a signal is pending for the thread that waits, as it is when *)
(*            the system is suspended                                      *)
(*   arbit    arbitration is lost while nobody waits, in a STOP condition  *)
(*   ignore   a message with I2C_M_IGNORE_NAK meets more than a NAK: a     *)
(*            timeout, or lost arbitration                                 *)
(***************************************************************************)
Hazards == {"late", "signal", "arbit", "ignore"}

\* struct i2c_msg: a read, a ten bit address, I2C_M_IGNORE_NAK, its length
Messages == [rd : BOOLEAN, ten : BOOLEAN, nakok : BOOLEAN, len : Nat]

ASSUME I2CAssumption ==
  /\ Transfers \subseteq Seq(Messages)
  /\ Retries \in Nat \ {0}
  /\ NONE \notin (1 .. Retries) \X (Nat \ {0})
  /\ Env \subseteq Hazards

-----------------------------------------------------------------------------
(* The bytes of a transfer: "start" is an address sent after a START        *)
(* condition, "tx" a byte sent and "rx" a byte received.                    *)

Address(m) ==
  IF m.ten THEN <<"start", "tx">> \o (IF m.rd THEN <<"start">> ELSE <<>>)
           ELSE <<"start">>

Data(m) == [k \in 1 .. m.len |-> IF m.rd THEN "rx" ELSE "tx"]

Bytes(m) ==
  LET kinds == Address(m) \o Data(m)
  IN  [k \in DOMAIN kinds |-> [kind |-> kinds[k], nakok |-> m.nakok]]

Program(ms) == FlattenSeq([i \in DOMAIN ms |-> Bytes(ms[i])])

VARIABLES
  \* the transfer
  program,      \* its bytes
  try,          \* the loop counter of socle_i2c_transfer, from 1
  step,         \* the byte the thread is at
  pc,
  ok,           \* the attempt has gone to its end
  result,       \* of the last transfer
  \* struct socle_i2c_host: a flag that is set names the byte it was set for
  recvAck, ackPeriod, arbitLose,
  \* the controller
  wire,         \* commands it has to carry out
  isr,          \* register ISR, likewise
  nak,          \* in register LSR: the last byte sent was not acknowledged
  busy,         \* in register LSR: after a START condition
  stopping,     \* a STOP condition is to be generated
  \* history of the attempt
  acked, naked  \* the bytes carried out, with their answer

flags      == <<recvAck, ackPeriod, arbitLose>>
threadVars == <<program, try, step, pc, ok, result>>
lineVars   == <<wire, isr, nak, busy, stopping>>
history    == <<acked, naked>>
vars       == <<threadVars, flags, lineVars, history>>

Ids     == (1 .. Retries) \X (Nat \ {0})
Current == <<try, step>>
Byte    == program[step]

NoInterrupt == [arbit |-> FALSE, recv |-> NONE, ack |-> NONE]

TypeOK ==
  /\ program \in Seq([kind : {"start", "tx", "rx"}, nakok : BOOLEAN])
  /\ try \in 1 .. Retries
  /\ step \in 1 .. Len(program) + 1
  /\ pc \in {"idle", "check", "issue", "wait", "stop", "sleep"}
  /\ ok \in BOOLEAN
  /\ result \in {"none", "num", "EREMOTEIO"}
  /\ {recvAck, ackPeriod} \subseteq Ids \cup {NONE}
  /\ arbitLose \in BOOLEAN
  /\ wire \in Seq([id : Ids, kind : {"start", "tx", "rx"}, nakok : BOOLEAN])
  /\ isr \in [arbit : BOOLEAN, recv : Ids \cup {NONE}, ack : Ids \cup {NONE}]
  /\ nak \in BOOLEAN /\ busy \in BOOLEAN /\ stopping \in BOOLEAN
  /\ acked \subseteq Ids /\ naked \subseteq Ids

\* socle_i2c_probe is over and nothing has been asked for.
Init ==
  /\ program = <<>> /\ try = 1 /\ step = 1
  /\ pc = "idle" /\ ok = FALSE /\ result = "none"
  /\ recvAck = NONE /\ ackPeriod = NONE /\ arbitLose = FALSE
  /\ wire = <<>> /\ isr = NoInterrupt
  /\ nak = FALSE /\ busy = FALSE /\ stopping = FALSE
  /\ acked = {} /\ naked = {}

-----------------------------------------------------------------------------
(* The thread                                                               *)

\* The i2c core calls socle_i2c_transfer.
Transfer(ms) ==
  /\ pc = "idle"
  /\ program' = Program(ms)
  /\ try' = 1 /\ step' = 1 /\ pc' = "check" /\ result' = "none"
  /\ acked' = {} /\ naked' = {}
  /\ UNCHANGED <<ok, flags, lineVars>>

\* socle_i2c_do_transfer begins, unless somebody holds the bus; with no message
\* at all it does not look.
Check ==
  /\ pc = "check"
  /\ ok' = FALSE
  /\ step' = 1
  /\ pc' = IF busy /\ program # <<>> THEN "stop" ELSE "issue"
  /\ UNCHANGED <<program, try, result, flags, lineVars, history>>

\* The next byte goes to the controller, with socle_i2c_start or
\* socle_i2c_resume; after the last one the attempt is over.
Issue ==
  /\ pc = "issue"
  /\ \/ /\ step > Len(program)
        /\ ok' = TRUE /\ pc' = "stop"
        /\ UNCHANGED <<wire, busy, stopping>>
     \/ /\ step <= Len(program)
        /\ wire' = Append(wire, [id |-> Current, kind |-> Byte.kind, nakok |-> Byte.nakok])
        /\ busy' = (busy \/ Byte.kind = "start")
        /\ stopping' = FALSE
        /\ pc' = "wait"
        /\ UNCHANGED ok
  /\ UNCHANGED <<program, try, step, result, flags, isr, nak, history>>

\* The flag socle_i2c_master_check_ack or socle_i2c_master_read_byte waits for.
Flag == IF Byte.kind = "rx" THEN ackPeriod ELSE recvAck

\* Mutant of FlagCleared: the flag of the answer stays set.
FlagKept == UNCHANGED <<recvAck, ackPeriod>>

\* At the end of either function.
FlagCleared ==
  IF Byte.kind = "rx" THEN ackPeriod' = NONE /\ UNCHANGED recvAck
                      ELSE recvAck' = NONE /\ UNCHANGED ackPeriod

GoOn   == pc' = "issue" /\ step' = step + 1
GiveUp == pc' = "stop" /\ UNCHANGED step

\* Mutant of Nacked: a NAK is taken for an ACK.
NackedNever == FALSE

\* No answer: socle_i2c_read_bytes gives up, and so do socle_i2c_do_address and
\* socle_i2c_send_bytes without I2C_M_IGNORE_NAK.
NoByte == IF Byte.nakok /\ Byte.kind # "rx" THEN GoOn ELSE GiveUp

Nacked == Byte.kind # "rx" /\ nak /\ ~Byte.nakok

\* The wait is over for the answer, or for a signal: -ERESTARTSYS is not zero,
\* so that it passes for an answer.
Answered ==
  /\ pc = "wait" /\ ~arbitLose
  /\ Flag # NONE \/ "signal" \in Env
  /\ FlagCleared
  /\ IF Nacked THEN GiveUp ELSE GoOn
  /\ UNCHANGED <<program, try, ok, result, arbitLose, lineVars, history>>

\* Arbitration was lost.
Lost ==
  /\ pc = "wait" /\ arbitLose
  /\ arbitLose' = FALSE
  /\ FlagCleared
  /\ NoByte
  /\ UNCHANGED <<program, try, ok, result, lineVars, history>>

\* Mutant of TimedOut: a wait without a limit.
TimedOutNever == FALSE

\* The wait has timed out.
TimedOut ==
  /\ pc = "wait" /\ ~arbitLose /\ Flag = NONE
  /\ "late" \in Env \/ (wire = <<>> /\ isr = NoInterrupt)
  /\ FlagCleared
  /\ NoByte
  /\ UNCHANGED <<program, try, ok, result, arbitLose, lineVars, history>>

\* The attempt ends.
Stop ==
  /\ pc = "stop"
  /\ stopping' = TRUE   \* socle_i2c_stop
  /\ IF ok THEN pc' = "idle" /\ result' = "num"
           ELSE pc' = "sleep" /\ UNCHANGED result
  /\ UNCHANGED <<program, try, step, ok, flags, wire, isr, nak, busy, history>>

LastTry == try = Retries

\* After a millisecond the next attempt, if there is one left.
Sleep ==
  /\ pc = "sleep"
  /\ IF LastTry
     THEN pc' = "idle" /\ result' = "EREMOTEIO" /\ UNCHANGED try
     ELSE pc' = "check" /\ try' = try + 1 /\ UNCHANGED result
  /\ acked' = {} /\ naked' = {}
  /\ UNCHANGED <<program, step, ok, flags, lineVars>>

Thread == Check \/ Issue \/ Answered \/ Lost \/ TimedOut \/ Stop \/ Sleep

-----------------------------------------------------------------------------
(* The interrupt handler                                                    *)

Isr ==
  /\ isr # NoInterrupt
  /\ arbitLose' = (arbitLose \/ isr.arbit)
  /\ ackPeriod' = IF isr.ack # NONE THEN isr.ack ELSE ackPeriod
  /\ recvAck' = IF isr.recv # NONE THEN isr.recv ELSE recvAck
  /\ isr' = NoInterrupt
  /\ UNCHANGED <<threadVars, wire, nak, busy, stopping, history>>

-----------------------------------------------------------------------------
(* The controller and the bus                                               *)

\* A byte is finished and answered.
HwByte ==
  /\ wire # <<>>
  /\ wire' = Tail(wire)
  /\ LET b == Head(wire) IN
     IF b.kind = "rx"
     THEN /\ isr' = [isr EXCEPT !.ack = b.id]
          /\ acked' = acked \cup {b.id}
          /\ UNCHANGED <<nak, naked>>
     ELSE /\ isr' = [isr EXCEPT !.recv = b.id]
          /\ nak' \in BOOLEAN
          /\ acked' = IF nak' THEN acked ELSE acked \cup {b.id}
          /\ naked' = IF nak' THEN naked \cup {b.id} ELSE naked
  /\ UNCHANGED <<threadVars, flags, busy, stopping>>

\* Arbitration is lost in a byte (with "arbit", in a STOP condition as well),
\* or the byte is never finished.
HwLose ==
  /\ wire # <<>> \/ ("arbit" \in Env /\ stopping)
  /\ "ignore" \in Env \/ \A i \in DOMAIN wire : ~wire[i].nakok
  /\ wire' = <<>>
  /\ isr' \in {isr, [isr EXCEPT !.arbit = TRUE]}
  /\ UNCHANGED <<threadVars, flags, nak, busy, stopping, history>>

\* A STOP condition, of this master or of another one.
HwStop ==
  /\ wire = <<>> /\ stopping
  /\ busy' = FALSE /\ stopping' = FALSE
  /\ UNCHANGED <<threadVars, flags, wire, isr, nak, history>>

\* socle_i2c_bus_resume sets up the controller anew.
BusResume ==
  /\ pc = "idle"
  /\ wire' = <<>>
  /\ busy' = FALSE /\ stopping' = FALSE
  /\ UNCHANGED <<threadVars, flags, isr, nak, history>>

Hardware == HwByte \/ HwLose \/ HwStop

Next ==
  \/ \E ms \in Transfers : Transfer(ms)
  \/ Thread \/ Isr \/ Hardware \/ BusResume

Spec == Init /\ [][Next]_vars

\* The thread runs, interrupts are delivered, and the controller finishes or
\* loses what it was told to do.
FairSpec == Spec /\ WF_vars(Thread) /\ WF_vars(Isr) /\ WF_vars(HwByte \/ HwLose) /\ WF_vars(HwStop)

-----------------------------------------------------------------------------
(* Properties                                                               *)

\* The thread goes on to the next byte only after the answer to the last.
AnswersAwaited == [][Answered => Flag = Current]_vars

\* No answer is on its way, and no flag set, but for the byte the thread waits
\* for: nothing is left over for a later wait to mistake.
NothingLeftOver ==
  \A a \in {recvAck, ackPeriod, isr.recv, isr.ack} \ {NONE} : pc = "wait" /\ a = Current

\* A command is written only when the controller has done with the one before.
OneOnWire ==
  /\ Len(wire) <= 1
  /\ wire # <<>> => pc = "wait" /\ wire[1].id = Current

\* The controller and the thread are in step: no answer is left over, and
\* no command is on the wire beside that of the byte the thread waits for.
\* Neither retries nor timeouts shift an answer to another byte.
InStep == NothingLeftOver /\ OneOnWire

\* Byte k of the present attempt was carried out: answered, and acknowledged
\* unless its message ignores that.
Done(k) ==
  \/ <<try, k>> \in acked
  \/ <<try, k>> \in naked /\ program[k].nakok

\* A transfer that reports success was carried out to its last byte, and every
\* byte sent was acknowledged unless its message ignores that.
SuccessMeansDone == result = "num" => \A k \in DOMAIN program : Done(k)

\* The driver is an I2C adapter as its clients rely on it: bytes are carried
\* out in their order, an attempt begins with the first, no more attempts are
\* made than allowed, and success is reported only with the last byte.
Bus == INSTANCE I2CBus WITH
  Lengths  <- {Len(Program(ms)) : ms \in Transfers},
  Attempts <- Retries,
  busy     <- pc # "idle",
  length   <- Len(program),
  attempt  <- try,
  carried  <- {k \in DOMAIN program : Done(k)},
  outcome  <- result
BusSpec == Bus!Spec

\* Whatever answers, faults and timeouts there are, every transfer ends.
TransferEnds == pc # "idle" ~> pc = "idle"

=============================================================================
