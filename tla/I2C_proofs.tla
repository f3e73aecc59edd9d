------------------------------ MODULE I2C_proofs ------------------------------
(***************************************************************************)
(* The I2C driver for transfers of any length and any number of attempts:  *)
(* types under every hazard; without hazards, that controller and thread   *)
(* are in step, that a wait ends with the answer to its own byte, and that *)
(* a transfer which reports success was carried out.                       *)
(***************************************************************************)
EXTENDS I2C, WellFoundedInduction, TLAPS

Byte_   == [kind : {"start", "tx", "rx"}, nakok : BOOLEAN]
Command == [id : Ids, kind : {"start", "tx", "rx"}, nakok : BOOLEAN]

-----------------------------------------------------------------------------
\* The bytes of a transfer.  FlattenSeq is a recursive function on the numbers of
\* messages, and what it yields is proved by the smallest counterexample.

\* A set of naturals that is not empty has a least element.
LEMMA LeastNat ==
  ASSUME NEW S, S \subseteq Nat, S # {}
  PROVE  \E m \in S : \A k \in S : m <= k
<1> DEFINE Q == {ss \in Nat \X Nat : ss[1] < ss[2]}
<1>1. IsWellFoundedOn(Q, Nat)
  BY NatLessThanWellFounded DEF OpToRel
<1>2. PICK m \in S : \A k \in S : ~(<<k, m>> \in Q)
  <2> HIDE DEF Q
  <2> QED BY <1>1, WFMin
<1>3. \A k \in S : m <= k
  <2> SUFFICES ASSUME NEW k \in S, ~(m <= k) PROVE FALSE
    OBVIOUS
  <2> DEFINE p == <<k, m>>
  <2>1. p \in Nat \X Nat /\ p[1] = k /\ p[2] = m
    OBVIOUS
  <2>2. k < m
    OBVIOUS
  <2>3. p[1] < p[2]
    BY <2>1, <2>2
  <2> HIDE DEF p
  <2>4. p \in Q
    BY <2>1, <2>3
  <2> QED
    BY <2>4, <1>2 DEF p
<1> QED
  BY <1>3

\* What the recursion of FlattenSeq says of the first m sequences of s.
Unfold(s, f, i) == IF i = 1 THEN s[i] ELSE f[i - 1] \o s[i]
Flattening(s, m, g) == g = [i \in 1 .. m |-> Unfold(s, g, i)]

\* The recursion has a function: there is one for no sequences, and one for m
\* gives one for m + 1.
LEMMA FlatteningExists ==
  ASSUME NEW s, NEW m \in Nat
  PROVE  \E g : Flattening(s, m, g)
<1> DEFINE S == {k \in Nat : ~\E g : Flattening(s, k, g)}
<1> SUFFICES ASSUME S # {} PROVE FALSE
  OBVIOUS
<1>1. PICK k \in S : \A d \in S : k <= d
  <2>1. S \subseteq Nat
    OBVIOUS
  <2> HIDE DEF S
  <2> QED BY <2>1, LeastNat
<1>2. k \in Nat /\ ~\E g : Flattening(s, k, g)
  OBVIOUS
<1>3. CASE k = 0
  <2> DEFINE g == [i \in 1 .. 0 |-> s[i]]
  <2>1. g = [i \in 1 .. 0 |-> Unfold(s, g, i)]
    OBVIOUS
  <2> QED
    BY <1>2, <1>3, <2>1 DEF Flattening
<1>4. CASE k # 0
  <2>1. PICK f : Flattening(s, k - 1, f)
    <3>1. k - 1 \in Nat /\ k - 1 \notin S
      BY <1>1, <1>2, <1>4
    <3> QED BY <3>1
  <2> DEFINE g == [i \in 1 .. k |-> IF i = k THEN Unfold(s, f, k) ELSE f[i]]
  <2>2. \A i \in 1 .. k : g[i] = Unfold(s, g, i)
    <3> SUFFICES ASSUME NEW i \in 1 .. k PROVE g[i] = Unfold(s, g, i)
      OBVIOUS
    <3>1. g[i] = Unfold(s, f, i)
      <4>1. CASE i = k
        BY <4>1
      <4>2. CASE i # k
        <5>1. i \in 1 .. k - 1 /\ g[i] = f[i]
          BY <4>2, <1>2
        <5> QED BY <2>1, <5>1 DEF Flattening
      <4> QED BY <4>1, <4>2
    <3>2. i # 1 => f[i - 1] = g[i - 1]
      BY <1>2
    <3> HIDE DEF g
    <3> QED BY <3>1, <3>2 DEF Unfold
  <2>3. g = [i \in 1 .. k |-> Unfold(s, g, i)]
    <3>1. g = [i \in 1 .. k |-> g[i]]
      OBVIOUS
    <3> HIDE DEF g
    <3> QED BY <2>2, <3>1
  <2> HIDE DEF g
  <2> QED
    BY <1>2, <2>3 DEF Flattening
<1> QED
  BY <1>3, <1>4

\* One sequence after another is a sequence of what they are sequences of.
LEMMA FlattenedType ==
  ASSUME NEW R, NEW s \in Seq(Seq(R))
  PROVE  FlattenSeq(s) \in Seq(R)
<1> DEFINE n == Len(s)
           flatten == CHOOSE g : Flattening(s, n, g)
<1>1. n \in Nat /\ \A i \in 1 .. n : s[i] \in Seq(R)
  OBVIOUS
<1>2. Flattening(s, n, flatten)
  <2>1. \E g : Flattening(s, n, g)
    BY <1>1, FlatteningExists
  <2> HIDE DEF n
  <2> QED BY <2>1
<1>3. FlattenSeq(s) = IF n = 0 THEN s ELSE flatten[n]
  BY DEF FlattenSeq, Flattening, Unfold
<1> HIDE DEF flatten, n
<1>4. \A i \in 1 .. n : flatten[i] = Unfold(s, flatten, i)
  BY <1>2 DEF Flattening
<1>5. \A i \in 1 .. n : flatten[i] \in Seq(R)
  <2> DEFINE S == {i \in 1 .. n : flatten[i] \notin Seq(R)}
  <2> SUFFICES ASSUME S # {} PROVE FALSE
    OBVIOUS
  <2>1. PICK k \in S : \A d \in S : k <= d
    <3>1. S \subseteq Nat
      BY <1>1
    <3> HIDE DEF S
    <3> QED BY <3>1, LeastNat
  <2>2. k \in 1 .. n /\ flatten[k] \notin Seq(R)
    OBVIOUS
  <2>3. s[k] \in Seq(R) /\ flatten[k] = Unfold(s, flatten, k)
    BY <1>1, <1>4, <2>2
  <2>4. k # 1
    BY <2>2, <2>3 DEF Unfold
  <2>5. k - 1 \in 1 .. n /\ k - 1 \notin S
    BY <1>1, <2>1, <2>2, <2>4
  <2>6. flatten[k - 1] \in Seq(R)
    BY <2>5
  <2>7. flatten[k] = flatten[k - 1] \o s[k]
    BY <2>3, <2>4 DEF Unfold
  <2> HIDE DEF S
  <2> QED
    BY <2>2, <2>3, <2>6, <2>7
<1>6. CASE n = 0
  BY <1>3, <1>6 DEF n
<1>7. CASE n # 0
  BY <1>1, <1>3, <1>5, <1>7
<1> QED
  BY <1>6, <1>7

\* The bytes of a message.
LEMMA BytesType ==
  ASSUME NEW m \in Messages
  PROVE  Bytes(m) \in Seq(Byte_)
<1> DEFINE kinds == Address(m) \o Data(m)
           Kinds == {"start", "tx", "rx"}
<1>1. m.rd \in BOOLEAN /\ m.ten \in BOOLEAN /\ m.nakok \in BOOLEAN /\ m.len \in Nat
  BY DEF Messages
<1>2. Address(m) \in Seq(Kinds)
  <2>1. <<"start">> \in Seq(Kinds) /\ <<"start", "tx">> \in Seq(Kinds) /\ << >> \in Seq(Kinds)
    OBVIOUS
  <2> HIDE DEF Kinds
  <2> QED BY <2>1 DEF Address
<1>3. Data(m) \in Seq(Kinds)
  BY <1>1 DEF Data
<1>4. kinds \in Seq(Kinds)
  <2> HIDE DEF Kinds
  <2> QED BY <1>2, <1>3
<1>5. Bytes(m) = [k \in DOMAIN kinds |-> [kind |-> kinds[k], nakok |-> m.nakok]]
  BY DEF Bytes
<1> HIDE DEF kinds
<1>6. Len(kinds) \in Nat /\ DOMAIN kinds = 1 .. Len(kinds)
      /\ \A k \in 1 .. Len(kinds) : kinds[k] \in Kinds
  <2> HIDE DEF Kinds
  <2> QED BY <1>4
<1>7. \A k \in 1 .. Len(kinds) : [kind |-> kinds[k], nakok |-> m.nakok] \in Byte_
  BY <1>1, <1>6 DEF Byte_
<1> QED
  BY <1>5, <1>6, <1>7

\* The program of a transfer is the bytes of its messages, whatever they are.
LEMMA ProgramType ==
  ASSUME NEW ms \in Transfers
  PROVE  Program(ms) \in Seq(Byte_)
<1> DEFINE s == [i \in DOMAIN ms |-> Bytes(ms[i])]
<1>1. ms \in Seq(Messages)
  BY I2CAssumption
<1>2. Len(ms) \in Nat /\ DOMAIN ms = 1 .. Len(ms) /\ \A i \in 1 .. Len(ms) : ms[i] \in Messages
  BY <1>1
<1>3. \A i \in 1 .. Len(ms) : Bytes(ms[i]) \in Seq(Byte_)
  BY <1>2, BytesType
<1>4. s \in Seq(Seq(Byte_))
  <2>1. s = [i \in 1 .. Len(ms) |-> Bytes(ms[i])]
    BY <1>2
  <2> HIDE DEF s
  <2> QED BY <1>2, <1>3, <2>1
<1>5. Program(ms) = FlattenSeq(s)
  BY DEF Program
<1> HIDE DEF s
<1> QED
  BY <1>4, <1>5, FlattenedType

-----------------------------------------------------------------------------
\* The thread waits for a byte of the program only.
WaitsForByte == pc = "wait" => step <= Len(program)

TypeInv == TypeOK /\ WaitsForByte

\* The initial state has its types.
LEMMA InitTypeInv == Init => TypeInv
<1> SUFFICES ASSUME Init PROVE TypeInv
  OBVIOUS
<1>1. Retries \in Nat /\ 1 \in 1 .. Retries
  BY I2CAssumption
<1>2. program \in Seq(Byte_) /\ Len(program) = 0 /\ step \in 1 .. Len(program) + 1
  BY DEF Init, Byte_
<1>3. wire \in Seq(Command)
  BY DEF Init
<1>4. isr \in [arbit : BOOLEAN, recv : Ids \cup {NONE}, ack : Ids \cup {NONE}]
  BY DEF Init, NoInterrupt
<1> QED
  BY <1>1, <1>2, <1>3, <1>4 DEF Init, TypeInv, TypeOK, WaitsForByte, Byte_, Command

\* Every step keeps the types.
LEMMA NextTypeInv == TypeInv /\ [Next]_vars => TypeInv'
<1> SUFFICES ASSUME TypeInv, [Next]_vars PROVE TypeInv'
  OBVIOUS
<1> USE DEF TypeInv, TypeOK, WaitsForByte
<1>0. Retries \in Nat /\ 1 \in 1 .. Retries
  BY I2CAssumption
<1>1. ASSUME NEW ms \in Transfers, Transfer(ms) PROVE TypeInv'
  <2>1. program' \in Seq(Byte_)
    BY <1>1, ProgramType DEF Transfer
  <2>2. step' \in 1 .. Len(program') + 1
    BY <1>1, <2>1 DEF Transfer
  <2>3. try' \in 1 .. Retries /\ pc' = "check" /\ result' = "none"
        /\ acked' = {} /\ naked' = {}
    BY <1>0, <1>1 DEF Transfer
  <2>4. UNCHANGED <<ok, flags, lineVars>>
    BY <1>1 DEF Transfer
  <2>5. WaitsForByte'
    BY <2>3
  <2>6. /\ ok' = ok /\ recvAck' = recvAck /\ ackPeriod' = ackPeriod
        /\ arbitLose' = arbitLose /\ wire' = wire /\ isr' = isr
        /\ nak' = nak /\ busy' = busy /\ stopping' = stopping
    BY <2>4 DEF flags, lineVars
  <2> QED
    BY <2>1, <2>2, <2>3, <2>5, <2>6 DEF Byte_
<1>2. CASE Check
  <2>1. step' \in 1 .. Len(program) + 1 /\ pc' \in {"stop", "issue"} /\ ok' = FALSE
    BY <1>2 DEF Check
  <2> QED
    BY <1>2, <2>1 DEF Check, flags, lineVars, history
<1>3. CASE Issue
  <2>1. CASE step > Len(program) /\ UNCHANGED wire
    BY <1>3, <2>1 DEF Issue, flags, history
  <2>2. CASE /\ step <= Len(program)
             /\ wire' = Append(wire, [id |-> Current, kind |-> Byte.kind,
                                      nakok |-> Byte.nakok])
    <3>1. Byte \in Byte_
      <4>1. program \in Seq(Byte_) /\ step \in 1 .. Len(program)
        BY <2>2 DEF Byte_
      <4> QED
        BY <4>1 DEF Byte
    <3>2. Current \in Ids
      BY DEF Current, Ids
    <3>3. wire' \in Seq(Command)
      BY <2>2, <3>1, <3>2 DEF Byte_, Command
    <3>4. busy' \in BOOLEAN /\ stopping' \in BOOLEAN /\ ok' \in BOOLEAN
          /\ pc' \in {"stop", "wait"}
      BY <1>3 DEF Issue
    <3> QED
      BY <1>3, <2>2, <3>3, <3>4 DEF Issue, Command, flags, history
  <2> QED
    BY <1>3, <2>1, <2>2 DEF Issue
<1>4. ASSUME pc = "wait", GoOn \/ GiveUp
      PROVE /\ step' \in 1 .. Len(program) + 1
            /\ pc' \in {"issue", "stop"}
  BY <1>4 DEF GoOn, GiveUp
<1>5. ASSUME FlagCleared PROVE {recvAck', ackPeriod'} \subseteq Ids \cup {NONE}
  BY <1>5 DEF FlagCleared
<1>6. CASE Answered
  <2>1. pc = "wait" /\ (GoOn \/ GiveUp) /\ FlagCleared
    BY <1>6 DEF Answered
  <2> QED
    BY <1>4, <1>5, <1>6, <2>1 DEF Answered, lineVars, history
<1>7. CASE Lost
  <2>1. pc = "wait" /\ (GoOn \/ GiveUp) /\ FlagCleared
    BY <1>7 DEF Lost, NoByte
  <2> QED
    BY <1>4, <1>5, <1>7, <2>1 DEF Lost, lineVars, history
<1>8. CASE TimedOut
  <2>1. pc = "wait" /\ (GoOn \/ GiveUp) /\ FlagCleared
    BY <1>8 DEF TimedOut, NoByte
  <2> QED
    BY <1>4, <1>5, <1>8, <2>1 DEF TimedOut, lineVars, history
<1>9. CASE Stop
  BY <1>9 DEF Stop, flags, history
<1>10. CASE Sleep
  <2>1. try' \in 1 .. Retries
    BY <1>0, <1>10 DEF Sleep, LastTry
  <2> QED
    BY <1>10, <2>1 DEF Sleep, flags, lineVars
<1>11. CASE Isr
  <2>1. isr' \in [arbit : BOOLEAN, recv : Ids \cup {NONE}, ack : Ids \cup {NONE}]
    BY <1>11 DEF Isr, NoInterrupt
  <2>2. /\ arbitLose' \in BOOLEAN
        /\ {recvAck', ackPeriod'} \subseteq Ids \cup {NONE}
    BY <1>11 DEF Isr
  <2> QED
    BY <1>11, <2>1, <2>2 DEF Isr, threadVars, history
<1>12. CASE HwByte
  <2>1. wire' \in Seq(Command) /\ Head(wire).id \in Ids
    <3>1. wire \in Seq(Command) /\ wire # <<>> /\ wire' = Tail(wire)
      BY <1>12 DEF HwByte, Command
    <3>2. Head(wire) \in Command
      BY <3>1
    <3> QED
      BY <3>1, <3>2 DEF Command
  <2>2. isr' \in [arbit : BOOLEAN, recv : Ids \cup {NONE}, ack : Ids \cup {NONE}]
    BY <1>12, <2>1 DEF HwByte
  <2>3. nak' \in BOOLEAN /\ acked' \subseteq Ids /\ naked' \subseteq Ids
    BY <1>12, <2>1 DEF HwByte
  <2> QED
    BY <1>12, <2>1, <2>2, <2>3 DEF HwByte, Command, threadVars, flags
<1>13. CASE HwLose
  <2>1. wire' \in Seq(Command)
    BY <1>13 DEF HwLose
  <2>2. isr' \in [arbit : BOOLEAN, recv : Ids \cup {NONE}, ack : Ids \cup {NONE}]
    BY <1>13 DEF HwLose
  <2> QED
    BY <1>13, <2>1, <2>2 DEF HwLose, Command, threadVars, flags, history
<1>14. CASE HwStop
  BY <1>14 DEF HwStop, threadVars, flags, history
<1>15. CASE BusResume
  <2>1. wire' \in Seq(Command)
    BY <1>15 DEF BusResume
  <2> QED
    BY <1>15, <2>1 DEF BusResume, Command, threadVars, flags, history
<1>16. CASE UNCHANGED vars
  BY <1>16 DEF vars, threadVars, flags, lineVars, history
<1> QED
  BY <1>1, <1>2, <1>3, <1>6, <1>7, <1>8, <1>9, <1>10, <1>11, <1>12, <1>13,
     <1>14, <1>15, <1>16 DEF Next, Thread, Hardware

\* Whatever the environment does, every variable of the driver keeps its type:
\* socle_i2c_do_transfer never leaves its messages.
THEOREM I2CTypeCorrect == Spec => []TypeOK
<1>1. TypeInv => TypeOK
  BY DEF TypeInv
<1> QED
  BY InitTypeInv, NextTypeInv, <1>1, PTL DEF Spec

-----------------------------------------------------------------------------
(* Without hazards                                                          *)

NoFlag == recvAck = NONE /\ ackPeriod = NONE /\ ~arbitLose

Sent == [id |-> Current, kind |-> Byte.kind, nakok |-> Byte.nakok]

\* The byte the thread waits for is in one place: on the wire, in the register
\* of the interrupt, in a flag, or it was lost.
WireFirst ==
  wire # <<>> => pc = "wait" /\ wire = <<Sent>> /\ isr = NoInterrupt /\ NoFlag

Interrupts ==
  isr # NoInterrupt =>
    /\ pc = "wait" /\ NoFlag
    /\ \/ isr = [arbit |-> TRUE, recv |-> NONE, ack |-> NONE] /\ ~Byte.nakok
       \/ isr = [arbit |-> FALSE, recv |-> Current, ack |-> NONE] /\ Byte.kind # "rx"
       \/ isr = [arbit |-> FALSE, recv |-> NONE, ack |-> Current] /\ Byte.kind = "rx"

FlagsLast ==
  /\ recvAck # NONE =>
       pc = "wait" /\ recvAck = Current /\ Byte.kind # "rx" /\ ackPeriod = NONE /\ ~arbitLose
  /\ ackPeriod # NONE =>
       pc = "wait" /\ ackPeriod = Current /\ Byte.kind = "rx" /\ recvAck = NONE /\ ~arbitLose
  /\ arbitLose => pc = "wait" /\ ~Byte.nakok

\* Nothing comes any more only for a byte that must not be skipped.
LostNotSkipped ==
  pc = "wait" /\ wire = <<>> /\ isr = NoInterrupt /\ NoFlag => ~Byte.nakok

\* The answer that is on its way is the one the bus gave.
AnswerKept ==
  /\ isr.ack # NONE \/ ackPeriod # NONE => Current \in acked
  /\ isr.recv # NONE \/ recvAck # NONE =>
       IF nak THEN Current \in naked ELSE Current \in acked

\* The bytes before the present one were carried out, and at the end all.
Progress ==
  /\ pc \in {"issue", "wait"} => ~ok /\ \A k \in 1 .. step - 1 : Done(k)
  /\ pc = "stop" /\ ok => \A k \in DOMAIN program : Done(k)
  /\ pc = "sleep" => ~ok
  /\ result = "num" => pc = "idle" /\ \A k \in DOMAIN program : Done(k)

LineInv ==
  WireFirst /\ Interrupts /\ FlagsLast /\ LostNotSkipped /\ AnswerKept /\ Progress

\* The thread is at a byte that has a place in its program.
LEMMA AtByte ==
  ASSUME TypeInv
  PROVE  /\ step \in Nat \ {0} /\ Len(program) \in Nat
         /\ DOMAIN program = 1 .. Len(program)
         /\ Current # NONE /\ Current \in Ids
<1>1. program \in Seq(Byte_) /\ step \in 1 .. Len(program) + 1 /\ try \in 1 .. Retries
  BY DEF TypeInv, TypeOK, Byte_
<1>2. step \in Nat \ {0} /\ Len(program) \in Nat /\ DOMAIN program = 1 .. Len(program)
  BY <1>1
<1>3. Current \in Ids
  BY <1>1, <1>2 DEF Current, Ids
<1> QED
  BY <1>2, <1>3, I2CAssumption DEF Ids

\* While the thread does not wait, nothing is under way.
LEMMA Quiet ==
  ASSUME LineInv, pc # "wait"
  PROVE  wire = <<>> /\ isr = NoInterrupt /\ NoFlag
BY DEF LineInv, WireFirst, Interrupts, FlagsLast, NoFlag

\* A step between two bytes or two attempts leaves it at that.
LEMMA StaysQuiet ==
  ASSUME wire' = <<>>, isr' = NoInterrupt, NoFlag', pc' # "wait"
  PROVE  (WireFirst /\ Interrupts /\ FlagsLast /\ LostNotSkipped /\ AnswerKept)'
<1>1. recvAck' = NONE /\ ackPeriod' = NONE /\ ~arbitLose'
  BY DEF NoFlag
<1>2. isr'.ack = NONE /\ isr'.recv = NONE
  BY DEF NoInterrupt
<1> QED
  BY <1>1, <1>2 DEF WireFirst, Interrupts, FlagsLast, LostNotSkipped, AnswerKept

\* The wait for a byte is over when its answer is there, and not before.
LEMMA AnswerIsCurrent ==
  ASSUME Env = {}, LineInv, Answered
  PROVE  /\ Flag = Current /\ Flag # NONE
         /\ wire = <<>> /\ isr = NoInterrupt /\ ~arbitLose
         /\ Byte.kind = "rx" => recvAck = NONE
         /\ Byte.kind # "rx" => ackPeriod = NONE
<1>1. Flag # NONE /\ pc = "wait" /\ ~arbitLose
  BY DEF Answered
<1> QED
  BY <1>1 DEF Flag, LineInv, FlagsLast, WireFirst, Interrupts, NoFlag
\* What was carried out stays so within an attempt.
LEMMA DoneKept ==
  ASSUME UNCHANGED <<program, try>>, acked \subseteq acked', naked \subseteq naked',
         NEW k, Done(k)
  PROVE  Done(k)'
BY DEF Done

\* The steps of the thread before, between and after the bytes.
LEMMA BetweenBytes ==
  ASSUME TypeInv, LineInv,
         \/ \E ms \in Transfers : Transfer(ms)
         \/ Check \/ Stop \/ Sleep \/ (Issue /\ pc' # "wait")
  PROVE  LineInv'
<1>1. pc # "wait" /\ pc' # "wait" /\ UNCHANGED <<wire, isr, flags>>
  BY DEF Transfer, Check, Stop, Sleep, Issue, lineVars
<1>2. wire' = <<>> /\ isr' = NoInterrupt /\ NoFlag'
  BY <1>1, Quiet DEF NoFlag, flags
<1>3. Progress'
  <2> USE DEF LineInv, Progress
  <2>1. ASSUME NEW ms \in Transfers, Transfer(ms) PROVE Progress'
    BY <2>1 DEF Transfer
  <2>2. CASE Check
    BY <2>2 DEF Check
  <2>3. CASE Issue /\ pc' # "wait"
    <3>1. step > Len(program) /\ pc' = "stop" /\ ok' = TRUE
          /\ UNCHANGED <<program, try, result, acked, naked>>
      BY <2>3 DEF Issue, history
    <3>2. \A k \in DOMAIN program : k \in 1 .. step - 1
      BY <3>1, AtByte
    <3>3. \A k \in DOMAIN program : Done(k)
      BY <2>3, <3>2 DEF Issue
    <3>4. \A k \in DOMAIN program' : Done(k)'
      BY <3>1, <3>3, DoneKept
    <3>5. result' # "num"
      BY <2>3, <3>1 DEF Issue
    <3> QED
      BY <3>1, <3>4, <3>5
  <2>4. CASE Stop
    <3>1. UNCHANGED <<program, try, acked, naked, ok>> /\ pc = "stop"
      BY <2>4 DEF Stop, history
    <3>2. CASE ok
      <4>1. \A k \in DOMAIN program' : Done(k)'
        BY <3>1, <3>2, DoneKept
      <4> QED
        BY <2>4, <3>2, <4>1 DEF Stop
    <3>3. CASE ~ok
      BY <2>4, <3>1, <3>3 DEF Stop
    <3> QED
      BY <3>2, <3>3
  <2>5. CASE Sleep
    BY <2>5 DEF Sleep
  <2> QED
    BY <2>1, <2>2, <2>3, <2>4, <2>5
<1> QED
  BY <1>1, <1>2, <1>3, StaysQuiet DEF LineInv

\* A byte is given to the controller.
LEMMA ByteSent ==
  ASSUME TypeInv, LineInv, Issue, pc' = "wait"
  PROVE  LineInv'
<1>1. /\ pc = "issue" /\ wire = <<>> /\ isr = NoInterrupt /\ NoFlag
  BY Quiet DEF Issue
<1>2. /\ wire' = <<Sent>> /\ UNCHANGED <<program, try, step, result, flags, isr, ok, acked, naked>>
  BY <1>1 DEF Issue, Sent, history
<1>3. isr' = NoInterrupt /\ NoFlag' /\ wire' = <<Sent'>> /\ wire' # <<>>
  BY <1>1, <1>2 DEF NoFlag, flags, Sent, Current, Byte
<1>4. recvAck' = NONE /\ ackPeriod' = NONE /\ ~arbitLose'
      /\ isr'.ack = NONE /\ isr'.recv = NONE
  BY <1>3 DEF NoFlag, NoInterrupt
<1>5. (WireFirst /\ Interrupts /\ FlagsLast /\ LostNotSkipped /\ AnswerKept)'
  BY <1>3, <1>4 DEF WireFirst, Interrupts, FlagsLast, LostNotSkipped, AnswerKept
<1>6. ~ok /\ result # "num" /\ \A k \in 1 .. step - 1 : Done(k)
  BY <1>1 DEF LineInv, Progress
<1>7. \A k \in 1 .. step' - 1 : Done(k)'
  BY <1>2, <1>6, DoneKept
<1>8. Progress'
  BY <1>2, <1>6, <1>7 DEF Progress
<1> QED
  BY <1>5, <1>8 DEF LineInv

\* The wait ends and the thread goes on, if the byte was carried out, or gives up.
LEMMA WaitOver ==
  ASSUME TypeInv, LineInv, pc = "wait",
         wire' = <<>>, isr' = NoInterrupt, NoFlag',
         UNCHANGED <<program, try, ok, result, acked, naked>>,
         GiveUp \/ (GoOn /\ Done(step))
  PROVE  LineInv'
<1>1. pc' \in {"issue", "stop"}
  BY DEF GiveUp, GoOn
<1>2. ~ok /\ result # "num" /\ \A k \in 1 .. step - 1 : Done(k)
  BY DEF LineInv, Progress
<1>3. ASSUME GiveUp PROVE Progress'
  BY <1>2, <1>3 DEF GiveUp, Progress
<1>4. ASSUME GoOn, Done(step) PROVE Progress'
  <2>1. \A k \in 1 .. step' - 1 : Done(k)
    <3>1. step \in Nat \ {0} /\ step' = step + 1
      BY <1>4, AtByte DEF GoOn
    <3>2. \A k \in 1 .. step' - 1 : k \in 1 .. step - 1 \/ k = step
      BY <3>1
    <3> QED
      BY <1>2, <1>4, <3>2
  <2>2. \A k \in 1 .. step' - 1 : Done(k)'
    BY <2>1, DoneKept
  <2> QED
    BY <1>2, <1>4, <2>2 DEF GoOn, Progress
<1>5. Progress'
  BY <1>3, <1>4
<1> QED
  BY <1>1, <1>5, StaysQuiet DEF LineInv
\* The wait ends with an answer, with lost arbitration, or in time.
LEMMA WaitEnds ==
  ASSUME Env = {}, TypeInv, LineInv, Answered \/ Lost \/ TimedOut
  PROVE  LineInv'
<1>1. pc = "wait" /\ UNCHANGED <<program, try, ok, result, acked, naked>>
  BY DEF Answered, Lost, TimedOut, history
<1>2. CASE Answered
  <2>1. wire' = <<>> /\ isr' = NoInterrupt /\ NoFlag'
    BY <1>2, AnswerIsCurrent DEF Answered, FlagCleared, NoFlag, lineVars
  <2>2. CASE Nacked
    BY <1>1, <1>2, <2>1, <2>2, WaitOver DEF Answered
  <2>3. CASE ~Nacked
    <3>1. Done(step)
      <4>1. CASE Byte.kind = "rx"
        BY <1>2, <4>1, AnswerIsCurrent DEF LineInv, AnswerKept, Flag, Done, Current
      <4>2. CASE Byte.kind # "rx"
        BY <1>2, <2>3, <4>2, AnswerIsCurrent
           DEF LineInv, AnswerKept, Flag, Done, Current, Nacked, Byte
      <4> QED
        BY <4>1, <4>2
    <3> QED
      BY <1>1, <1>2, <2>1, <2>3, <3>1, WaitOver DEF Answered
  <2> QED
    BY <2>2, <2>3
<1>3. ASSUME Lost \/ TimedOut
      PROVE  /\ recvAck = NONE /\ ackPeriod = NONE /\ wire = <<>>
             /\ isr = NoInterrupt /\ ~Byte.nakok
  <2>1. CASE Lost
    BY <2>1 DEF Lost, LineInv, WireFirst, Interrupts, FlagsLast, NoFlag
  <2>2. CASE TimedOut
    <3>1. wire = <<>> /\ isr = NoInterrupt /\ ~arbitLose /\ Flag = NONE
      BY <2>2 DEF TimedOut
    <3>2. recvAck = NONE /\ ackPeriod = NONE
      BY <3>1 DEF Flag, LineInv, FlagsLast
    <3> QED
      BY <1>1, <3>1, <3>2 DEF LineInv, LostNotSkipped, NoFlag
  <2> QED
    BY <1>3, <2>1, <2>2
<1>4. ASSUME Lost \/ TimedOut PROVE LineInv'
  <2>1. wire' = <<>> /\ isr' = NoInterrupt /\ NoFlag'
    <3>1. FlagCleared /\ ~arbitLose' /\ UNCHANGED <<wire, isr>>
      BY <1>4 DEF Lost, TimedOut, lineVars
    <3> QED
      BY <1>3, <1>4, <3>1 DEF FlagCleared, NoFlag
  <2>2. GiveUp
    BY <1>3, <1>4 DEF Lost, TimedOut, NoByte
  <2> QED
    BY <1>1, <2>1, <2>2, WaitOver
<1> QED
  BY <1>2, <1>4

\* The interrupt handler.
LEMMA IsrStep ==
  ASSUME TypeInv, LineInv, Isr
  PROVE  LineInv'
<1>0. Current # NONE
  BY AtByte
<1>1. /\ pc = "wait" /\ wire = <<>> /\ NoFlag
      /\ UNCHANGED <<program, try, step, pc, ok, result, wire, nak, acked, naked>>
      /\ isr' = NoInterrupt
  BY DEF Isr, LineInv, Interrupts, WireFirst, threadVars, history
<1>2. isr'.ack = NONE /\ isr'.recv = NONE
  BY <1>1 DEF NoInterrupt
<1>3. Progress'
  BY <1>1 DEF LineInv, Progress, Done
<1>4. CASE isr = [arbit |-> TRUE, recv |-> NONE, ack |-> NONE] /\ ~Byte.nakok
  BY <1>1, <1>2, <1>3, <1>4
     DEF Isr, LineInv, WireFirst, Interrupts, FlagsLast, LostNotSkipped, AnswerKept, NoFlag,
         Byte, Current
<1>5. UNCHANGED <<Current, Byte>>
  BY <1>1 DEF Current, Byte
<1>6. CASE isr = [arbit |-> FALSE, recv |-> Current, ack |-> NONE] /\ Byte.kind # "rx"
  <2>1. recvAck' = Current /\ ackPeriod' = NONE /\ ~arbitLose'
    BY <1>0, <1>1, <1>6 DEF Isr, NoFlag
  <2>2. IF nak THEN Current \in naked ELSE Current \in acked
    BY <1>0, <1>6 DEF LineInv, AnswerKept
  <2> QED
    BY <1>0, <1>1, <1>2, <1>3, <1>5, <1>6, <2>1, <2>2
       DEF LineInv, WireFirst, Interrupts, FlagsLast, LostNotSkipped, AnswerKept, NoFlag
<1>7. CASE isr = [arbit |-> FALSE, recv |-> NONE, ack |-> Current] /\ Byte.kind = "rx"
  <2>1. ackPeriod' = Current /\ recvAck' = NONE /\ ~arbitLose'
    BY <1>0, <1>1, <1>7 DEF Isr, NoFlag
  <2>2. Current \in acked
    BY <1>0, <1>7 DEF LineInv, AnswerKept
  <2> QED
    BY <1>0, <1>1, <1>2, <1>3, <1>5, <1>7, <2>1, <2>2
       DEF LineInv, WireFirst, Interrupts, FlagsLast, LostNotSkipped, AnswerKept, NoFlag
<1> QED
  BY <1>4, <1>6, <1>7 DEF Isr, LineInv, Interrupts
\* The byte is answered: the interrupt is for it, and its answer is kept.
LEMMA ByteAnswered ==
  ASSUME TypeInv, LineInv, HwByte
  PROVE  LineInv'
<1>1. /\ pc = "wait" /\ wire = <<Sent>> /\ isr = NoInterrupt /\ NoFlag
      /\ UNCHANGED <<program, try, step, pc, ok, result, recvAck, ackPeriod, arbitLose>>
  BY DEF HwByte, LineInv, WireFirst, threadVars, flags
<1>2. wire' = <<>> /\ Head(wire) = Sent
  BY <1>1 DEF HwByte
<1>3. Current # NONE /\ UNCHANGED <<Current, Byte>>
  BY <1>1, AtByte DEF Current, Byte
<1>4. acked \subseteq acked' /\ naked \subseteq naked'
  BY DEF HwByte
<1>5. Progress'
  <2>1. \A k : Done(k) => Done(k)'
    BY <1>1, <1>4, DoneKept
  <2> QED
    BY <1>1, <2>1 DEF LineInv, Progress
<1>6. CASE Byte.kind = "rx"
  <2>1. /\ isr' = [arbit |-> FALSE, recv |-> NONE, ack |-> Current]
        /\ Current \in acked'
    BY <1>1, <1>2, <1>6 DEF HwByte, Sent, NoInterrupt
  <2> QED
    BY <1>1, <1>2, <1>3, <1>5, <1>6, <2>1
       DEF LineInv, WireFirst, Interrupts, FlagsLast, LostNotSkipped, AnswerKept, NoFlag, NoInterrupt
<1>7. CASE Byte.kind # "rx"
  <2>1. /\ isr' = [arbit |-> FALSE, recv |-> Current, ack |-> NONE]
        /\ IF nak' THEN Current \in naked' ELSE Current \in acked'
    BY <1>1, <1>2, <1>7 DEF HwByte, Sent, NoInterrupt
  <2> QED
    BY <1>1, <1>2, <1>3, <1>5, <1>7, <2>1
       DEF LineInv, WireFirst, Interrupts, FlagsLast, LostNotSkipped, AnswerKept, NoFlag, NoInterrupt
<1> QED
  BY <1>6, <1>7

\* The byte is lost, with an interrupt or without one.
LEMMA ByteLost ==
  ASSUME Env = {}, LineInv, HwLose
  PROVE  LineInv'
<1>1. wire # <<>> /\ \A i \in DOMAIN wire : ~wire[i].nakok
  BY DEF HwLose
<1>2. /\ pc = "wait" /\ wire = <<Sent>> /\ isr = NoInterrupt /\ NoFlag
      /\ UNCHANGED <<program, try, step, pc, ok, result, recvAck, ackPeriod, arbitLose, acked, naked>>
  BY <1>1 DEF HwLose, LineInv, WireFirst, threadVars, flags, history
<1>3. ~Byte.nakok
  BY <1>1, <1>2 DEF Sent
<1>4. /\ wire' = <<>> /\ UNCHANGED <<Current, Byte>>
      /\ isr' \in {NoInterrupt, [arbit |-> TRUE, recv |-> NONE, ack |-> NONE]}
  BY <1>2 DEF HwLose, NoInterrupt, Current, Byte
<1>5. Progress'
  BY <1>2 DEF LineInv, Progress, Done
<1> QED
  BY <1>2, <1>3, <1>4, <1>5
     DEF LineInv, WireFirst, Interrupts, FlagsLast, LostNotSkipped, AnswerKept, NoFlag, NoInterrupt

\* Nothing the driver looks at changes.
LEMMA OtherSteps ==
  ASSUME LineInv, HwStop \/ BusResume \/ UNCHANGED vars
  PROVE  LineInv'
<1>1. UNCHANGED <<program, try, step, pc, ok, result, recvAck, ackPeriod, arbitLose,
                  wire, isr, nak, acked, naked>>
  BY Quiet DEF HwStop, BusResume, vars, threadVars, flags, lineVars, history
<1>2. UNCHANGED <<Current, Byte, Sent, NoFlag>>
  BY <1>1 DEF Current, Byte, Sent, NoFlag
<1> QED
  BY <1>1, <1>2 DEF LineInv, WireFirst, Interrupts, FlagsLast, LostNotSkipped, AnswerKept, Progress, Done

-----------------------------------------------------------------------------
(* What holds without hazards                                               *)

LEMMA InitLineInv == Init => LineInv
BY DEF Init, LineInv, WireFirst, Interrupts, FlagsLast, LostNotSkipped, AnswerKept, Progress,
       NoInterrupt

LEMMA NextLineInv ==
  ASSUME Env = {}, TypeInv, LineInv, [Next]_vars
  PROVE  LineInv'
<1>1. Issue => pc' = "wait" \/ pc' # "wait"
  OBVIOUS
<1> QED
  BY <1>1, BetweenBytes, ByteSent, WaitEnds, IsrStep, ByteAnswered, ByteLost, OtherSteps
     DEF Next, Thread, Hardware

\* Without hazards the controller and the thread are in step in every state:
\* the flags of socle_i2c_isr are set for the byte that is waited for, through
\* all retries, in transfers of any length.
THEOREM InStepAlways ==
  ASSUME Env = {}
  PROVE  Spec => []InStep
<1>1. TypeInv /\ LineInv => InStep
  <2> SUFFICES ASSUME TypeInv, LineInv PROVE InStep
    OBVIOUS
  <2>1. NothingLeftOver
    <3> SUFFICES ASSUME NEW a \in {recvAck, ackPeriod, isr.recv, isr.ack}, a # NONE
                 PROVE  pc = "wait" /\ a = Current
      BY DEF NothingLeftOver
    <3>1. CASE a \in {recvAck, ackPeriod}
      BY <3>1 DEF LineInv, FlagsLast
    <3>2. CASE a \in {isr.recv, isr.ack}
      <4>1. NoInterrupt.recv = NONE /\ NoInterrupt.ack = NONE
        BY DEF NoInterrupt
      <4>2. isr # NoInterrupt
        BY <3>2, <4>1
      <4>3. /\ pc = "wait"
            /\ isr.recv \in {NONE, Current} /\ isr.ack \in {NONE, Current}
        BY <4>2 DEF LineInv, Interrupts
      <4> QED
        BY <3>2, <4>3
    <3> QED
      BY <3>1, <3>2
  <2>2. OneOnWire
    <3>1. CASE wire = <<>>
      BY <3>1 DEF OneOnWire
    <3>2. CASE wire # <<>>
      <4>1. pc = "wait" /\ wire = <<Sent>>
        BY <3>2 DEF LineInv, WireFirst
      <4>2. Len(wire) = 1 /\ wire[1] = Sent
        BY <4>1
      <4>3. Sent.id = Current
        BY DEF Sent
      <4> QED
        BY <4>1, <4>2, <4>3 DEF OneOnWire
    <3> QED
      BY <3>1, <3>2
  <2> QED
    BY <2>1, <2>2 DEF InStep
<1>2. LineInv /\ TypeInv /\ [Next]_vars => LineInv'
  BY NextLineInv
<1> QED
  BY InitTypeInv, NextTypeInv, InitLineInv, <1>1, <1>2, PTL DEF Spec
\* A transfer whose result is num was carried out to its last byte, whatever
\* attempts failed before: socle_i2c_transfer reports no half-done transfer.
THEOREM SuccessMeansDoneAlways ==
  ASSUME Env = {}
  PROVE  Spec => []SuccessMeansDone
<1>1. LineInv => SuccessMeansDone
  BY DEF LineInv, Progress, Done, SuccessMeansDone
<1>2. LineInv /\ TypeInv /\ [Next]_vars => LineInv'
  BY NextLineInv
<1> QED
  BY InitTypeInv, NextTypeInv, InitLineInv, <1>1, <1>2, PTL DEF Spec

\* No wait of socle_i2c_master_read_byte or socle_i2c_master_check_ack ends in
\* success before its own byte was answered.
THEOREM AnswersAwaitedAlways ==
  ASSUME Env = {}
  PROVE  Spec => AnswersAwaited
<1>1. LineInv => [Answered => Flag = Current]_vars
  BY AnswerIsCurrent
<1>2. LineInv /\ TypeInv /\ [Next]_vars => LineInv'
  BY NextLineInv
<1> QED
  BY InitTypeInv, NextTypeInv, InitLineInv, <1>1, <1>2, PTL DEF Spec, AnswersAwaited

-----------------------------------------------------------------------------
(* The abstract bus                                                         *)

Carried == {k \in DOMAIN program : Done(k)}

\* No byte is carried out before its turn.
NothingAhead ==
  /\ pc = "check" => acked = {} /\ naked = {}
  /\ pc = "issue" => \A k \in DOMAIN program : Done(k) => k < step
  /\ pc = "wait" => /\ \A k \in DOMAIN program : Done(k) => k <= step
                    /\ wire # <<>> => ~Done(step)

\* A step that leaves program, attempt and answers alone leaves Carried alone.
LEMMA CarriedKept ==
  ASSUME UNCHANGED <<program, try, acked, naked>>
  PROVE  Carried' = Carried /\ \A k : Done(k)' <=> Done(k)
BY DEF Carried, Done

\* Without an answer no byte counts as carried out.
LEMMA NoneCarried ==
  ASSUME acked = {}, naked = {}
  PROVE  Carried = {} /\ \A k : ~Done(k)
BY DEF Carried, Done

LEMMA InitNothingAhead == Init => NothingAhead
BY DEF Init, NothingAhead

\* The controller carries out the byte it was given, or gets a NAK for it.
LEMMA ByteCarried ==
  ASSUME TypeInv, LineInv, NothingAhead, HwByte
  PROVE  /\ pc = "wait" /\ UNCHANGED <<program, try, step, pc, result>> /\ wire' = <<>>
         /\ step \in 1 .. Len(program)
         /\ Carried = 1 .. step - 1
         /\ Carried' \in {1 .. step - 1, 1 .. step}
         /\ \A k \in DOMAIN program : Done(k)' => k <= step
<1>1. /\ pc = "wait" /\ wire = <<Sent>> /\ wire # <<>>
      /\ UNCHANGED <<program, try, step, pc, result>>
  BY DEF HwByte, LineInv, WireFirst, threadVars
<1>2. wire' = <<>> /\ Head(wire).id = Current
  BY <1>1 DEF HwByte, Sent
<1>3. step \in 1 .. Len(program) /\ DOMAIN program = 1 .. Len(program) /\ Len(program) \in Nat
  BY <1>1, AtByte DEF TypeInv, WaitsForByte
<1>4. \A k \in 1 .. step - 1 : Done(k)
  BY <1>1 DEF LineInv, Progress
<1>5. \A k \in DOMAIN program : Done(k) => k < step
  BY <1>1, <1>3 DEF NothingAhead
<1>6. \A k \in DOMAIN program : Done(k) <=> k \in 1 .. step - 1
  BY <1>3, <1>4, <1>5
<1>7. acked' \in {acked, acked \cup {Current}} /\ naked' \in {naked, naked \cup {Current}}
  BY <1>2 DEF HwByte
<1>8. \A k \in DOMAIN program : k # step => (Done(k)' <=> Done(k))
  <2> TAKE k \in DOMAIN program
  <2> HAVE k # step
  <2>1. <<try, k>> # Current
    BY DEF Current
  <2>2. (<<try, k>> \in acked' <=> <<try, k>> \in acked)
        /\ (<<try, k>> \in naked' <=> <<try, k>> \in naked)
    BY <1>7, <2>1
  <2> QED
    BY <1>1, <2>2 DEF Done
<1>9. Carried = 1 .. step - 1
  BY <1>3, <1>6 DEF Carried
<1>10. \A k \in DOMAIN program : Done(k)' <=> k \in 1 .. step - 1 \/ (k = step /\ Done(step)')
  BY <1>1, <1>3, <1>6, <1>8
<1>11. Carried' = {k \in 1 .. Len(program) : Done(k)'}
  BY <1>1, <1>3 DEF Carried
<1>12. CASE Done(step)'
  <2>1. Carried' = 1 .. step
    BY <1>3, <1>10, <1>11, <1>12
  <2> QED
    BY <1>1, <1>2, <1>3, <1>9, <1>10, <2>1
<1>13. CASE ~Done(step)'
  <2>1. Carried' = 1 .. step - 1
    BY <1>3, <1>10, <1>11, <1>13
  <2> QED
    BY <1>1, <1>2, <1>3, <1>9, <1>10, <2>1
<1> QED
  BY <1>12, <1>13

LEMMA NextNothingAhead ==
  ASSUME TypeInv, LineInv, NothingAhead, [Next]_vars
  PROVE  NothingAhead'
<1>1. CASE HwByte
  BY <1>1, ByteCarried DEF NothingAhead
<1>2. ASSUME NEW ms \in Transfers, Transfer(ms) PROVE NothingAhead'
  BY <1>2 DEF Transfer, NothingAhead
<1>3. CASE Sleep
  BY <1>3 DEF Sleep, NothingAhead
<1>4. ASSUME UNCHANGED <<program, try, acked, naked>>,
             \/ pc' \in {"idle", "stop", "sleep"}
             \/ UNCHANGED <<pc, step>> /\ wire' \in {wire, <<>>}
      PROVE  NothingAhead'
  BY <1>4, CarriedKept DEF NothingAhead
<1>5. CASE Check
  <2>1. UNCHANGED <<program, try, acked, naked>> /\ pc' # "wait" /\ pc' # "check"
    BY <1>5 DEF Check, history
  <2>2. \A k : ~Done(k)'
    BY <1>5, <2>1, NoneCarried, CarriedKept DEF Check, NothingAhead
  <2> QED
    BY <2>1, <2>2 DEF NothingAhead
<1>6. CASE Issue
  <2>1. UNCHANGED <<program, try, step, acked, naked>> /\ pc = "issue" /\ pc' \in {"stop", "wait"}
    BY <1>6 DEF Issue, history
  <2>2. \A k \in DOMAIN program : Done(k)' => k < step
    BY <2>1, CarriedKept DEF NothingAhead
  <2>3. CASE pc' = "stop"
    BY <1>4, <2>1, <2>3
  <2>4. CASE pc' = "wait"
    <3>1. step \in DOMAIN program
      BY <1>6, <2>4, AtByte DEF Issue
    <3>2. ~Done(step)'
      BY <2>1, <2>2, <3>1, AtByte
    <3> QED
      BY <2>1, <2>2, <2>4, <3>2, AtByte DEF NothingAhead
  <2> QED
    BY <2>1, <2>3, <2>4
<1>7. CASE Answered \/ Lost \/ TimedOut
  <2>1. UNCHANGED <<program, try, acked, naked>> /\ pc = "wait" /\ (GoOn \/ GiveUp)
    BY <1>7 DEF Answered, Lost, TimedOut, NoByte, history
  <2>2. CASE GiveUp
    BY <1>4, <2>1, <2>2 DEF GiveUp
  <2>3. CASE GoOn
    <3>1. \A k \in DOMAIN program : Done(k)' => k <= step
      BY <2>1, CarriedKept DEF NothingAhead
    <3>2. \A k \in DOMAIN program : k <= step => k < step + 1
      BY AtByte
    <3> QED
      BY <2>1, <2>3, <3>1, <3>2 DEF GoOn, NothingAhead
  <2> QED
    BY <2>1, <2>2, <2>3
<1>8. CASE Stop
  BY <1>4, <1>8 DEF Stop, history
<1>9. CASE Isr \/ HwLose \/ HwStop \/ BusResume \/ UNCHANGED vars
  <2>1. UNCHANGED <<program, try, acked, naked, pc, step>> /\ wire' \in {wire, <<>>}
    BY <1>9 DEF Isr, HwLose, HwStop, BusResume, vars, threadVars, lineVars, history
  <2> QED
    BY <1>4, <2>1
<1> QED
  BY <1>1, <1>2, <1>3, <1>5, <1>6, <1>7, <1>8, <1>9 DEF Next, Thread, Hardware

BusInv == TypeInv /\ LineInv /\ NothingAhead

\* Every step of the driver and its controller is one of the abstract bus, or
\* leaves it alone.
LEMMA StepIsBusStep ==
  ASSUME Env = {}, BusInv, [Next]_vars
  PROVE  [Bus!Next]_(Bus!vars)
<1> USE DEF BusInv
<1> DEFINE taken == pc # "idle"
<1>1. ASSUME UNCHANGED <<program, try, acked, naked, result>>, taken' = taken
      PROVE  UNCHANGED Bus!vars
  BY <1>1, CarriedKept DEF Bus!vars, Carried
<1>2. ASSUME NEW ms \in Transfers, Transfer(ms) PROVE Bus!Next
  <2>1. Bus!Ask(Len(Program(ms)))
    BY <1>2 DEF Transfer, Bus!Ask, Done
  <2> QED
    BY <2>1 DEF Bus!Next
<1>3. CASE HwByte
  <2>1. /\ taken /\ taken' /\ UNCHANGED <<program, try, result>>
        /\ step \in 1 .. Len(program)
        /\ Carried = 1 .. step - 1 /\ Carried' \in {Carried, 1 .. step}
    BY <1>3, ByteCarried
  <2>2. CASE Carried' = Carried
    BY <2>1, <2>2 DEF Bus!vars, Carried
  <2>3. CASE Carried' = 1 .. step
    <3>1. Bus!Carry
      BY <2>1, <2>3 DEF Bus!Carry, Carried
    <3> QED
      BY <3>1 DEF Bus!Next, Bus!GoOn
  <2> QED
    BY <2>1, <2>2, <2>3
<1>4. CASE Sleep
  <2>1. /\ pc = "sleep" /\ UNCHANGED program /\ Carried' = {}
        /\ try \in 1 .. Retries /\ Retries \in Nat
    BY <1>4, I2CAssumption DEF Sleep, Carried, Done, TypeInv, TypeOK
  <2>2. CASE LastTry
    <3>1. Bus!Fail
      BY <1>4, <2>1, <2>2 DEF Sleep, LastTry, Bus!Fail, Carried
    <3> QED
      BY <3>1 DEF Bus!Next, Bus!GoOn
  <2>3. CASE ~LastTry
    <3>1. Bus!TryAgain
      BY <1>4, <2>1, <2>3 DEF Sleep, LastTry, Bus!TryAgain, Carried
    <3> QED
      BY <3>1 DEF Bus!Next, Bus!GoOn
  <2> QED
    BY <2>2, <2>3
<1>5. CASE Stop
  <2>1. UNCHANGED <<program, try, acked, naked>> /\ pc = "stop"
    BY <1>5 DEF Stop, history
  <2>2. CASE ok
    <3>1. \A k \in DOMAIN program : Done(k)
      BY <2>1, <2>2 DEF LineInv, Progress
    <3>2. Carried = 1 .. Len(program) /\ Carried' = Carried
      BY <2>1, <3>1, AtByte, CarriedKept DEF Carried
    <3>3. Bus!Succeed
      BY <1>5, <2>1, <2>2, <3>2 DEF Stop, Bus!Succeed, Carried
    <3> QED
      BY <3>3 DEF Bus!Next, Bus!GoOn
  <2>3. CASE ~ok
    BY <1>1, <1>5, <2>1, <2>3 DEF Stop
  <2> QED
    BY <2>2, <2>3
<1>6. CASE Check \/ Issue
  BY <1>1, <1>6 DEF Check, Issue, history
<1>7. CASE Answered \/ Lost \/ TimedOut
  BY <1>1, <1>7 DEF Answered, Lost, TimedOut, NoByte, GoOn, GiveUp, history
<1>8. CASE Isr \/ HwLose \/ HwStop \/ BusResume \/ UNCHANGED vars
  BY <1>1, <1>8 DEF Isr, HwLose, HwStop, BusResume, vars, threadVars, history
<1> QED
  BY <1>2, <1>3, <1>4, <1>5, <1>6, <1>7, <1>8 DEF Next, Thread, Hardware

\* Without hazards i2c-socle.c implements the abstract bus, for transfers of any
\* length and any number of attempts: bytes in order, attempts from the first
\* byte, success with the last.
THEOREM ImplementsBus ==
  ASSUME Env = {}
  PROVE  Spec => BusSpec
<1>1. Init => Bus!Init
  BY DEF Init, Bus!Init
<1>2. BusInv /\ [Next]_vars => BusInv'
  BY NextTypeInv, NextLineInv, NextNothingAhead DEF BusInv
<1>3. BusInv /\ [Next]_vars => [Bus!Next]_(Bus!vars)
  BY StepIsBusStep
<1>4. Init => BusInv
  BY InitTypeInv, InitLineInv, InitNothingAhead DEF BusInv
<1> QED
  BY <1>1, <1>2, <1>3, <1>4, PTL DEF Spec, BusSpec, Bus!Spec
=============================================================================
