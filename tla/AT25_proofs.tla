------------------------------ MODULE AT25_proofs ------------------------------
(***************************************************************************)
(* What spi-socle.c sends and receives, for messages, FIFOs and a trigger  *)
(* level of any size: words arrive in their places and in order, and a     *)
(* transfer that returns is complete.                                      *)
(*                                                                         *)
(* And above it, a read of the EEPROM returns what is stored in it, and a  *)
(* write stores what it says, where it was asked to and nowhere else:      *)
(* at25.c, the SPI core, spi-socle.c, the controller and the chip          *)
(* together, for a chip and pages of any size and any number of processes. *)
(***************************************************************************)
EXTENDS AT25, SequenceTheorems, TLAPS

USE DEF threadVars, hostVars, ctrlVars, wireVars, spiVars, Xfers, T

-----------------------------------------------------------------------------
(* What the proofs are about                                                *)

\* The steps of SpiNext, with any message whatever: a driver of a device that
\* composes its own takes them too.
SpiStep ==
  \/ \E m : IsMessage(m) /\ Submit(m)
  \/ SetupXfer \/ Load \/ Fill \/ Start \/ Woken \/ Return \/ Finalize
  \/ IsrEnter \/ IsrDrain \/ IsrDrained \/ IsrFill \/ IsrExit
  \/ HwSend \/ HwStop
  \/ \E w \in Words : HwReceive(w)

LEMMA NextIsStep == SpiNext => SpiStep
  BY SpiAssumption DEF SpiNext, SpiStep

-----------------------------------------------------------------------------
(* The inductive invariant                                                  *)

TypeInv == SpiTypeOK /\ IsMessage(msg)

\* Bits are set within a transfer only.  While that of the receiver is not,
\* there is nothing to receive or to drain; the flag and the handler that has
\* read it stand for the last word.
Receiver ==
  /\ ~ovr
  /\ spiPc \notin {"fill", "start", "wait"} => xferStat = {}
  /\ run => spiPc \in {"wait", "poll"}
  /\ "RX" \notin xferStat => rxFifo = <<>> /\ rxcr = 0 /\ ~rxcif /\ isr.at # "drain"
  /\ spiPc = "fill" => rxFifo = <<>> /\ ~rxcif
  /\ rxcif => rxcr = 0
  /\ isr.at = "drain" /\ isr.done => rxcr = 0 /\ ~rxcif

\* No buffer is written ahead of its transfer; that of the current one and the
\* FIFO hold what the chip has answered, and the rest is to come.
Answered ==
  /\ \A i \in DOMAIN Xfers :
       i > cur \/ (i = cur /\ spiPc \in {"setup", "load"}) => bufs[i] = <<>>
  /\ InTransfer => bufs[cur] \o rxFifo = answers /\ Len(answers) + rxcr = T.rx

ReceiveInv == TypeInv /\ Receiver /\ Answered

\* What the chip sees before a transfer: all that is due, or nothing.
Between ==
  /\ spiPc = "setup" => (csChange <=> FirstOfFrame) /\ (cur > 1 => frame = due)
  /\ spiPc = "load"  => frame = (IF FirstOfFrame THEN <<>> ELSE due)
  /\ InTransfer      => csChange = T.cs

\* The transmitter is interrupted, and its handler on its way, only while words
\* are still to be written; the controller stops when none is left to be sent.
Transmitter ==
  /\ spiPc \in {"wait", "poll"} /\ ~run => txcr = 0
  /\ ~InTransfer => txcr = 0
  /\ isr.tx \/ "TX" \in ier => "TX" \in xferStat /\ spiPc \in {"start", "wait"}
  /\ "TX" \in xferStat <=> InTransfer /\ txCnt < Len(T.tx)
  /\ InTransfer => txCnt <= Len(T.tx)
  /\ spiPc = "fill" => txCnt = 0 /\ (T.tx # <<>> => txFifo = <<>>)

\* What is still to be written to the FIFO.
Rest == SubSeq(T.tx, txCnt + 1, Len(T.tx))

\* What has been sent, is in the FIFO and is still to be written is what is due.
Sent ==
  InTransfer =>
    IF T.tx = <<>> THEN txcr = 0 /\ frame = due
    ELSE /\ txcr = Len(txFifo) + Len(T.tx) - txCnt
         /\ (frame \o txFifo) \o Rest = due

IInv == ReceiveInv /\ Between /\ Transmitter /\ Sent

-----------------------------------------------------------------------------
(* Types                                                                    *)

\* What a transfer is.
LEMMA TransferType ==
  ASSUME TypeInv
  PROVE  /\ Xfers \in Seq(Transfers) /\ cur \in 1 .. Len(Xfers)
         /\ T.tx \in Seq(Words) /\ T.rx \in Nat /\ T.cs \in BOOLEAN
         /\ Len(T.tx) \in Nat
         /\ T.tx # <<>> => Len(T.tx) > 0
<1>1. Xfers \in Seq(Transfers) /\ cur \in 1 .. Len(Xfers)
  BY LenProperties DEF TypeInv, SpiTypeOK, IsMessage
<1>2. T \in Transfers
  BY <1>1, ElementOfSeq
<1>3. T.tx \in Seq(Words) /\ T.rx \in Nat /\ T.cs \in BOOLEAN
  BY <1>2 DEF Transfers
<1>4. Len(T.tx) \in Nat /\ (T.tx # <<>> => Len(T.tx) > 0)
  <2> DEFINE s == T.tx
  <2>1. s \in Seq(Words)
    BY <1>3
  <2> HIDE DEF s
  <2>2. Len(s) \in Nat /\ (s # <<>> => Len(s) > 0)
    BY <2>1, EmptySeq, LenProperties
  <2> QED
    BY <2>2 DEF s
<1> QED
  BY <1>1, <1>3, <1>4

LEMMA Depths == Trigger \in Nat \ {0} /\ Depth \in Nat /\ Depth > 0
  BY SpiAssumption

\* The first words of a transfer are as many as there is room for.
LEMMA FirstWordsType ==
  ASSUME TypeInv
  PROVE  /\ FirstWords \in Seq(Words)
         /\ Len(FirstWords) <= Len(T.tx)
         /\ Len(txFifo) + Len(FirstWords) <= Depth
         /\ FirstWords = SubSeq(T.tx, 1, Len(FirstWords))
<1> DEFINE room == Depth - Len(txFifo)
           n    == IF Len(T.tx) < room THEN Len(T.tx) ELSE room
<1>1. room \in Nat
  BY Depths, LenProperties DEF TypeInv, SpiTypeOK
<1>2. n \in 0 .. Len(T.tx) /\ n <= room
  BY <1>1, TransferType
<1>3. \A i \in 1 .. n : T.tx[i] \in Words
  BY <1>2, TransferType, ElementOfSeq
<1>4. FirstWords = SubSeq(T.tx, 1, n)
  BY DEF FirstWords
<1>5. FirstWords \in Seq(Words) /\ Len(FirstWords) = n
  <2> HIDE DEF n
  <2> QED
    BY <1>2, <1>3, <1>4, SubSeqProperties
<1> QED
  BY <1>1, <1>2, <1>4, <1>5, Depths, LenProperties DEF TypeInv, SpiTypeOK

-----------------------------------------------------------------------------
(* Sequences                                                                *)

\* An element that moves from the head of one sequence to the end of another
\* leaves what they are together.
LEMMA MovesOver ==
  ASSUME NEW S, NEW s \in Seq(S), NEW t \in Seq(S), t # <<>>
  PROVE  Append(s, Head(t)) \o Tail(t) = s \o t
<1>1. Head(t) \in S /\ Tail(t) \in Seq(S) /\ <<Head(t)>> \in Seq(S)
  BY HeadTailProperties
<1>2. Append(s, Head(t)) = s \o <<Head(t)>>
  BY <1>1, AppendIsConcat
<1>3. <<Head(t)>> \o Tail(t) = t
  BY SMTT(30), HeadTailProperties, LenProperties
<1> QED
  BY <1>1, <1>2, <1>3, ConcatAssociative

\* An element behind the second is one behind both.
LEMMA GrowsBehind ==
  ASSUME NEW S, NEW s \in Seq(S), NEW t \in Seq(S), NEW e \in S
  PROVE  s \o Append(t, e) = Append(s \o t, e)
<1>1. <<e>> \in Seq(S) /\ s \o t \in Seq(S)
  BY ConcatProperties
<1>2. Append(t, e) = t \o <<e>> /\ Append(s \o t, e) = (s \o t) \o <<e>>
  BY <1>1, AppendIsConcat
<1> QED
  BY <1>1, <1>2, ConcatAssociative

\* What comes first is a prefix.
LEMMA FirstIsPrefix ==
  ASSUME NEW S, NEW s \in Seq(S), NEW t \in Seq(S)
  PROVE  IsPrefix(s, s \o t)
<1>1. Len(s) \in Nat /\ Len(s) <= Len(s \o t)
  BY ConcatProperties, LenProperties
<1>2. SubSeq(s, 1, Len(s)) = SubSeq(s \o t, 1, Len(s))
  <2>1. CASE Len(s) = 0
    BY <2>1, SubSeqEmpty
  <2>2. CASE Len(s) # 0
    BY <1>1, <2>2, SubSeqOfConcat1
  <2> QED
    BY <2>1, <2>2
<1> QED
  BY <1>1, <1>2 DEF IsPrefix

\* The rest of a sequence begins with its next element.
LEMMA RestBegins ==
  ASSUME NEW S, NEW s \in Seq(S), NEW f \in Seq(S), NEW n \in 0 .. Len(s) - 1
  PROVE  Append(f, s[n + 1]) \o SubSeq(s, n + 2, Len(s)) = f \o SubSeq(s, n + 1, Len(s))
<1>1. n + 1 \in 1 .. Len(s) /\ Len(s) \in n + 1 .. Len(s) /\ s[n + 1] \in S
  BY LenProperties, ElementOfSeq
<1>2. SubSeq(s, n + 1, Len(s)) = <<s[n + 1]>> \o SubSeq(s, n + 2, Len(s))
  BY <1>1, SubSeqRecursiveFirst
<1>3. SubSeq(s, n + 2, Len(s)) \in Seq(S) /\ <<s[n + 1]>> \in Seq(S)
  BY <1>1, SubSeqProperties, ElementOfSeq, LenProperties
<1>4. Append(f, s[n + 1]) = f \o <<s[n + 1]>>
  BY <1>1, AppendIsConcat
<1>5. (f \o <<s[n + 1]>>) \o SubSeq(s, n + 2, Len(s)) = f \o (<<s[n + 1]>> \o SubSeq(s, n + 2, Len(s)))
  <2> DEFINE one == <<s[n + 1]>>
             rest == SubSeq(s, n + 2, Len(s))
  <2>1. one \in Seq(S) /\ rest \in Seq(S)
    BY <1>3
  <2> HIDE DEF one, rest
  <2>2. (f \o one) \o rest = f \o (one \o rest)
    BY <2>1, ConcatAssociative
  <2> QED
    BY <2>2 DEF one, rest
<1> QED
  BY <1>2, <1>4, <1>5

\* And it is a sequence.
LEMMA RestType ==
  ASSUME NEW S, NEW s \in Seq(S), NEW n \in 0 .. Len(s)
  PROVE  SubSeq(s, n + 1, Len(s)) \in Seq(S)
<1>1. Len(s) \in Nat /\ \A i \in n + 1 .. Len(s) : s[i] \in S
  BY LenProperties, ElementOfSeq
<1> QED
  BY <1>1, SubSeqProperties

-----------------------------------------------------------------------------
(* Steps and types                                                          *)

\* A sequence of words is one of any words.
LEMMA MoreWords == \A s \in Seq(Words) : s \in Seq(AnyWord)
  BY SeqMonotonic DEF AnyWord

\* Types of messages, FIFOs and buffers, and all others.
DataOK ==
  /\ IsMessage(msg) /\ cur \in DOMAIN Xfers
  /\ bufs \in Seq(Seq(Words)) /\ Len(bufs) = Len(Xfers)
  /\ txFifo \in Seq(AnyWord) /\ Len(txFifo) <= Depth
  /\ rxFifo \in Seq(Words) /\ Len(rxFifo) <= Depth
  /\ frame \in Seq(AnyWord) /\ due \in Seq(Words) /\ answers \in Seq(Words)

ControlOK ==
  /\ spiPc \in {"idle", "setup", "load", "fill", "start", "wait", "poll", "done"}
  /\ csChange \in BOOLEAN /\ status \in {"0", "EINVAL"}
  /\ actual \in Nat /\ txCnt \in Nat /\ txcr \in Nat /\ rxcr \in Nat
  /\ xferStat \subseteq {"TX", "RX"} /\ ier \subseteq {"TX", "RX"}
  /\ isr \in [at : {"idle", "drain", "tx"}, done : BOOLEAN, tx : BOOLEAN]
  /\ run \in BOOLEAN /\ rxcif \in BOOLEAN /\ ovr \in BOOLEAN /\ cs \in BOOLEAN

LEMMA TypeParts == TypeInv <=> DataOK /\ ControlOK
  BY DEF TypeInv, SpiTypeOK, DataOK, ControlOK

\* Steps that leave the data alone.
LEMMA DataStay ==
  ASSUME DataOK, UNCHANGED <<msg, cur, bufs, txFifo, rxFifo, frame, due, answers>>
  PROVE  DataOK'
  BY DEF DataOK

LEMMA DataNext == TypeInv /\ [SpiStep]_spiVars => DataOK'
<1> SUFFICES ASSUME TypeInv, DataOK, ControlOK, [SpiStep]_spiVars PROVE DataOK'
  BY TypeParts
<1>f. /\ txFifo \in Seq(AnyWord) /\ Len(txFifo) \in Nat /\ Len(txFifo) <= Depth
      /\ rxFifo \in Seq(Words) /\ Len(rxFifo) \in Nat /\ Len(rxFifo) <= Depth
      /\ frame \in Seq(AnyWord) /\ due \in Seq(Words) /\ answers \in Seq(Words)
      /\ bufs \in Seq(Seq(Words)) /\ cur \in 1 .. Len(bufs)
  BY TransferType, LenProperties DEF DataOK
<1>e. /\ <<>> \in Seq(Words) /\ <<>> \in Seq(AnyWord) /\ Len(<<>>) <= Depth
  BY Depths, EmptySeq
<1>1. ASSUME NEW m, IsMessage(m), Submit(m) PROVE DataOK'
  <2> DEFINE n == Len(m.transfers)
  <2>1. m.transfers \in Seq(Transfers) /\ n \in Nat /\ DOMAIN m.transfers = 1 .. n
    BY <1>1, LenProperties DEF IsMessage
  <2>2. n > 0
    BY <1>1, <2>1, EmptySeq DEF IsMessage
  <2>3. /\ msg' = m /\ cur' = 1 /\ bufs' = [i \in 1 .. n |-> <<>>]
        /\ UNCHANGED <<txFifo, rxFifo, frame, due, answers>>
    BY <1>1, <2>1 DEF Submit
  <2>4. bufs' \in Seq(Seq(Words)) /\ Len(bufs') = n
    <3>1. bufs' \in [1 .. n -> Seq(Words)]
      BY <1>e, <2>3
    <3> QED
      BY <2>1, <3>1
  <2>5. 1 \in DOMAIN m.transfers
    BY <2>1, <2>2
  <2> QED
    BY <1>1, <1>f, <2>3, <2>4, <2>5 DEF DataOK
<1>2. CASE SetupXfer
  <2>1. UNCHANGED <<msg, cur, bufs, due, answers>>
    BY <1>2 DEF SetupXfer
  <2>2. /\ txFifo' = txFifo \/ txFifo' = <<>>
        /\ rxFifo' = rxFifo \/ rxFifo' = <<>>
        /\ frame' = frame \/ frame' = <<>>
    BY <1>2 DEF SetupXfer
  <2>3. /\ txFifo' \in Seq(AnyWord) /\ Len(txFifo') <= Depth
        /\ rxFifo' \in Seq(Words) /\ Len(rxFifo') <= Depth
        /\ frame' \in Seq(AnyWord)
    BY <1>f, <1>e, <2>2
  <2> QED
    BY <2>1, <2>3 DEF DataOK
<1>3. CASE Load
  <2>1. UNCHANGED <<msg, cur, bufs, rxFifo, frame>> /\ answers' = <<>>
    BY <1>3 DEF Load
  <2>2. txFifo' \in Seq(AnyWord) /\ Len(txFifo') <= Depth
    <3>1. DUMMY \in AnyWord
      BY DEF AnyWord
    <3>2. Append(txFifo, DUMMY) \in Seq(AnyWord) /\ Len(Append(txFifo, DUMMY)) = Len(txFifo) + 1
      BY <1>f, <3>1, AppendProperties
    <3> QED
      BY <1>3, <1>f, <1>e, <3>2, Depths DEF Load, Loaded
  <2>3. due' \in Seq(Words)
    <3>1. due \o T.tx \in Seq(Words) /\ <<>> \o T.tx \in Seq(Words)
      BY <1>f, <1>e, TransferType, ConcatProperties
    <3> QED
      BY <1>3, <3>1 DEF Load
  <2> QED
    BY <1>e, <2>1, <2>2, <2>3 DEF DataOK
<1>4. CASE Fill
  <2>1. UNCHANGED <<msg, cur, bufs, rxFifo, frame, due, answers>>
    BY <1>4 DEF Fill
  <2>2. FirstWords \in Seq(AnyWord) /\ Len(FirstWords) \in Nat
    BY FirstWordsType, MoreWords, LenProperties
  <2>3. txFifo \o FirstWords \in Seq(AnyWord) /\ Len(txFifo \o FirstWords) <= Depth
    <3>1. /\ txFifo \o FirstWords \in Seq(AnyWord)
          /\ Len(txFifo \o FirstWords) = Len(txFifo) + Len(FirstWords)
      BY <1>f, <2>2, ConcatProperties
    <3> QED
      BY <3>1, FirstWordsType
  <2>4. txFifo' = txFifo \/ txFifo' = txFifo \o FirstWords
    BY <1>4 DEF Fill
  <2> QED
    BY <1>f, <2>1, <2>3, <2>4 DEF DataOK
<1>5. CASE Start \/ Woken \/ Finalize
  BY <1>5, DataStay DEF Start, Woken, Finalize
<1>6. CASE Return
  <2>1. UNCHANGED <<msg, bufs, txFifo, rxFifo, frame, due, answers>>
    BY <1>6 DEF Return
  <2>2. cur' \in DOMAIN Xfers
    <3>1. DOMAIN Xfers = 1 .. Len(Xfers) /\ cur \in 1 .. Len(Xfers) /\ Len(Xfers) \in Nat
      BY TransferType, LenProperties
    <3>2. cur' = cur \/ (cur # Len(Xfers) /\ cur' = cur + 1)
      BY <1>6 DEF Return
    <3> QED
      BY <3>1, <3>2
  <2> QED
    BY <2>1, <2>2 DEF DataOK
<1>7. CASE IsrEnter \/ IsrDrained \/ IsrExit \/ HwStop \/ UNCHANGED spiVars
  BY <1>7, DataStay DEF IsrEnter, IsrDrained, IsrExit, HwStop
<1>8. CASE IsrDrain
  <2>1. UNCHANGED <<msg, cur, txFifo, frame, due, answers>>
    BY <1>8 DEF IsrDrain
  <2>2. /\ Head(rxFifo) \in Words /\ Tail(rxFifo) \in Seq(Words)
        /\ Len(Tail(rxFifo)) = Len(rxFifo) - 1
    BY <1>8, <1>f, HeadTailProperties DEF IsrDrain
  <2>3. Append(bufs[cur], Head(rxFifo)) \in Seq(Words)
    BY <1>f, <2>2, ElementOfSeq, AppendProperties
  <2>4. bufs' \in Seq(Seq(Words)) /\ Len(bufs') = Len(bufs)
    BY <1>8, <1>f, <2>3, ExceptSeq DEF IsrDrain
  <2>5. rxFifo' \in Seq(Words) /\ Len(rxFifo') <= Depth
    <3>1. rxFifo' = Tail(rxFifo)
      BY <1>8 DEF IsrDrain
    <3>2. Len(rxFifo) \in Nat /\ Len(rxFifo) <= Depth /\ Len(rxFifo') = Len(rxFifo) - 1
      BY <1>f, <2>2, <3>1
    <3>3. Len(rxFifo') <= Depth
      BY <3>2, Depths
    <3> QED
      BY <2>2, <3>1, <3>3
  <2> QED
    BY <2>1, <2>4, <2>5 DEF DataOK
<1>9. CASE IsrFill
  <2>1. UNCHANGED <<msg, cur, bufs, rxFifo, frame, due, answers>> /\ Len(txFifo) < Depth
        /\ txFifo' = Append(txFifo, NextWord)
    BY <1>9 DEF IsrFill
  <2>2. NextWord \in AnyWord
    <3>1. ASSUME txCnt < Len(T.tx) PROVE T.tx[txCnt + 1] \in Words
      <4>1. txCnt + 1 \in 1 .. Len(T.tx) /\ T.tx \in Seq(Words)
        BY <3>1, TransferType DEF ControlOK
      <4> QED
        BY <4>1, ElementOfSeq
    <3> QED
      BY <3>1 DEF NextWord, AnyWord
  <2>3. Append(txFifo, NextWord) \in Seq(AnyWord) /\ Len(Append(txFifo, NextWord)) = Len(txFifo) + 1
    BY <1>f, <2>2, AppendProperties
  <2>4. Len(txFifo') <= Depth
    BY <1>f, <2>1, <2>3, Depths
  <2> QED
    BY <2>1, <2>3, <2>4 DEF DataOK
<1>10. CASE HwSend
  <2>1. UNCHANGED <<msg, cur, bufs, rxFifo, due, answers>> /\ txFifo # <<>>
        /\ txFifo' = Tail(txFifo) /\ frame' = Append(frame, Head(txFifo))
    BY <1>10 DEF HwSend
  <2>2. /\ Head(txFifo) \in AnyWord /\ Tail(txFifo) \in Seq(AnyWord)
        /\ Len(Tail(txFifo)) = Len(txFifo) - 1
    BY <1>f, <2>1, HeadTailProperties
  <2>3. frame' \in Seq(AnyWord)
    BY <1>f, <2>1, <2>2, AppendProperties
  <2>4. Len(txFifo) \in Nat /\ Len(txFifo) <= Depth /\ Len(txFifo') = Len(txFifo) - 1
    BY <1>f, <2>1, <2>2
  <2>5. Len(txFifo') <= Depth
    BY <2>4, Depths
  <2> QED
    BY <2>1, <2>2, <2>3, <2>5 DEF DataOK
<1>11. ASSUME NEW w \in Words, HwReceive(w) PROVE DataOK'
  <2>1. UNCHANGED <<msg, cur, bufs, txFifo, frame, due>> /\ answers' = Append(answers, w)
        /\ rxFifo' = (IF Len(rxFifo) < Depth THEN Append(rxFifo, w) ELSE rxFifo)
    BY <1>11 DEF HwReceive
  <2>2. /\ Append(answers, w) \in Seq(Words) /\ Append(rxFifo, w) \in Seq(Words)
        /\ Len(Append(rxFifo, w)) = Len(rxFifo) + 1
    BY <1>f, AppendProperties
  <2>3. rxFifo' \in Seq(Words) /\ Len(rxFifo') <= Depth
    BY <1>f, <2>1, <2>2, Depths
  <2> QED
    BY <2>1, <2>2, <2>3 DEF DataOK
<1> QED
  BY <1>1, <1>2, <1>3, <1>4, <1>5, <1>6, <1>7, <1>8, <1>9, <1>10, <1>11 DEF SpiStep

LEMMA ControlNext == TypeInv /\ [SpiStep]_spiVars => ControlOK'
<1> SUFFICES ASSUME TypeInv, ControlOK, [SpiStep]_spiVars PROVE ControlOK'
  BY TypeParts
<1> USE DEF ControlOK
<1>t. Len(T.tx) \in Nat /\ T.rx \in Nat /\ T.cs \in BOOLEAN
  BY TransferType
<1>0. CASE \E m : IsMessage(m) /\ Submit(m)
  BY <1>0 DEF Submit
<1>1. CASE Start \/ Woken \/ Finalize
  <2>1. /\ spiPc' \in {"wait", "poll", "idle"} /\ run' \in BOOLEAN /\ cs' \in BOOLEAN
        /\ UNCHANGED <<csChange, status, actual, hostVars, isr, txcr, rxcr, ier, rxcif, ovr>>
    BY <1>1 DEF Start, Woken, Finalize
  <2> QED
    BY <2>1
<1>2. CASE SetupXfer
  <2>1. /\ spiPc' \in {"load", "done"} /\ status' \in {"0", "EINVAL"} /\ ier' \subseteq {"TX", "RX"}
        /\ ovr' \in BOOLEAN /\ cs' \in BOOLEAN
        /\ UNCHANGED <<csChange, actual, hostVars, isr, txcr, rxcr, run, rxcif>>
    BY <1>2 DEF SetupXfer
  <2> QED
    BY <2>1
<1>3. CASE Load
  BY <1>3, <1>t DEF Load
<1>4. CASE Fill
  <2>1. Len(FirstWords) \in Nat
    BY FirstWordsType, LenProperties
  <2> QED
    BY <1>4, <2>1 DEF Fill, MoreToSend
<1>5. CASE Return
  <2>1. Len(bufs[cur]) \in Nat
    BY TransferType, ElementOfSeq, LenProperties DEF TypeInv, SpiTypeOK
  <2>2. Count \in Nat
    BY <2>1 DEF Count
  <2> QED
    BY <1>5, <2>2 DEF Return
<1>6. CASE IsrEnter
  <2>1. TxFlag \in BOOLEAN
    BY DEF TxFlag
  <2>2. isr' = isr \/ isr' = [at |-> IF rxcif \/ RxFlag THEN "drain" ELSE "tx", done |-> rxcif,
                              tx |-> TxFlag]
    BY <1>6 DEF IsrEnter
  <2>3. isr' \in [at : {"idle", "drain", "tx"}, done : BOOLEAN, tx : BOOLEAN]
    BY <2>1, <2>2
  <2>4. xferStat' \subseteq {"TX", "RX"} /\ rxcif' = FALSE
        /\ UNCHANGED <<threadVars, txCnt, txcr, rxcr, run, ier, ovr, cs>>
    BY <1>6 DEF IsrEnter
  <2> QED
    BY <2>3, <2>4
<1>7. CASE IsrDrain \/ IsrDrained \/ IsrExit \/ IsrFill
  <2>1. NoIsr \in [at : {"idle", "drain", "tx"}, done : BOOLEAN, tx : BOOLEAN]
    BY DEF NoIsr
  <2>2. isr' \in [at : {"idle", "drain", "tx"}, done : BOOLEAN, tx : BOOLEAN]
    BY <1>7, <2>1 DEF IsrDrain, IsrDrained, IsrExit, IsrFill
  <2>3. /\ xferStat' \subseteq xferStat /\ ier' \subseteq ier /\ txCnt' \in Nat
        /\ UNCHANGED <<threadVars, txcr, rxcr, run, rxcif, ovr, cs>>
    BY <1>7 DEF IsrDrain, IsrDrained, IsrExit, IsrFill, Received
  <2> QED
    BY <2>2, <2>3
<1>8. CASE HwStop \/ UNCHANGED spiVars
  <2>1. run' \in BOOLEAN /\ UNCHANGED <<threadVars, hostVars, isr, txcr, rxcr, ier, rxcif, ovr, cs>>
    BY <1>8 DEF HwStop
  <2> QED
    BY <2>1
<1>9. CASE HwSend
  BY <1>9 DEF HwSend
<1>10. ASSUME NEW w \in Words, HwReceive(w) PROVE ControlOK'
  BY <1>10 DEF HwReceive
<1> QED
  BY <1>0, <1>1, <1>2, <1>3, <1>4, <1>5, <1>6, <1>7, <1>8, <1>9, <1>10 DEF SpiStep

\* The variables keep their types.
LEMMA TypeNext == TypeInv /\ [SpiStep]_spiVars => TypeInv'
<1>1. DataOK' /\ ControlOK' => TypeInv'
  BY DEF TypeInv, SpiTypeOK, DataOK, ControlOK
<1> QED
  BY <1>1, DataNext, ControlNext

-----------------------------------------------------------------------------
(* Receiving                                                                *)

\* The interrupt is raised within a transfer only, with words to be drained for
\* the receiver.
LEMMA RaisedFor ==
  ASSUME TypeInv, Receiver, IsrEnter
  PROVE  /\ ~ovr /\ xferStat' = xferStat /\ rxcif' = FALSE
         /\ isr' = [at |-> IF rxcif \/ RxFlag THEN "drain" ELSE "tx",
                    done |-> rxcif, tx |-> TxFlag]
         /\ rxcif \/ RxFlag => "RX" \in xferStat /\ spiPc \in {"start", "wait"}
<1>1. RxFlag => rxFifo # <<>>
  BY Depths, EmptySeq DEF RxFlag
<1> QED
  BY <1>1 DEF Receiver, IsrEnter

\* The receiver, unless it is overrun.
LEMMA ReceiverNext ==
  ASSUME "overrun" \notin Env
  PROVE  TypeInv /\ Receiver /\ [SpiStep]_spiVars => Receiver'
<1> SUFFICES ASSUME TypeInv, Receiver, [SpiStep]_spiVars PROVE Receiver'
  OBVIOUS
<1> USE DEF Receiver
<1>1. CASE \E m : IsMessage(m) /\ Submit(m)
  BY <1>1 DEF Submit
<1>2. CASE SetupXfer
  BY <1>2 DEF SetupXfer
<1>3. CASE Load
  BY <1>3 DEF Load
<1>4. CASE Fill
  BY <1>4 DEF Fill
<1>5. CASE Start
  BY <1>5 DEF Start
<1>6. CASE Woken
  BY <1>6 DEF Woken
<1>7. CASE Return \/ Finalize
  BY <1>7 DEF Return, Finalize
<1>8. CASE IsrEnter
  <2>1. UNCHANGED <<threadVars, rxFifo, rxcr, run, ovr>>
    BY <1>8, RaisedFor DEF IsrEnter
  <2>2. isr'.at = "drain" => "RX" \in xferStat /\ (isr'.done <=> rxcif)
    <3>1. isr' = [at |-> IF rxcif \/ RxFlag THEN "drain" ELSE "tx", done |-> rxcif, tx |-> TxFlag]
      BY <1>8, RaisedFor
    <3>2. isr'.done = rxcif /\ isr'.at = IF rxcif \/ RxFlag THEN "drain" ELSE "tx"
      BY <3>1
    <3> QED
      BY <1>8, <3>2, RaisedFor
  <2> QED
    BY <1>8, <2>1, <2>2, RaisedFor
<1>9. CASE IsrDrain
  BY <1>9 DEF IsrDrain
<1>10. CASE IsrDrained
  BY <1>10 DEF IsrDrained, Received, TypeInv, SpiTypeOK
<1>11. CASE IsrFill
  BY <1>11 DEF IsrFill, NoIsr
<1>12. CASE IsrExit
  BY <1>12 DEF IsrExit, NoIsr
<1>13. CASE HwSend \/ HwStop
  BY <1>13 DEF HwSend, HwStop
<1>14. ASSUME NEW w \in Words, HwReceive(w) PROVE Receiver'
  <2>1. Len(rxFifo) # Depth
    BY <1>14, LenProperties, Depths DEF HwReceive, TypeInv, SpiTypeOK
  <2>2. "RX" \in xferStat /\ spiPc # "fill"
    BY <1>14 DEF HwReceive, TypeInv, SpiTypeOK
  <2> QED
    BY <1>14, <2>1, <2>2 DEF HwReceive, TypeInv, SpiTypeOK
<1>15. CASE UNCHANGED spiVars
  BY <1>15
<1> QED
  BY <1>1, <1>2, <1>3, <1>4, <1>5, <1>6, <1>7, <1>8, <1>9, <1>10, <1>11, <1>12, <1>13, <1>14, <1>15
  DEF SpiStep

\* Steps of the transmitter and of the clock change nothing that is received.
LEMMA NotReceived ==
  ASSUME UNCHANGED <<msg, cur, bufs, rxFifo, rxcr, answers>>, Answered,
         InTransfer' => InTransfer, spiPc' \in {"setup", "load"} => spiPc \in {"setup", "load"}
  PROVE  Answered'
  BY DEF Answered

\* What the chip answers comes to its place.
LEMMA AnsweredNext ==
  ASSUME "overrun" \notin Env
  PROVE  ReceiveInv /\ [SpiStep]_spiVars => Answered'
<1> SUFFICES ASSUME TypeInv, Receiver, Answered, [SpiStep]_spiVars PROVE Answered'
  BY DEF ReceiveInv
<1>t. /\ Xfers \in Seq(Transfers) /\ cur \in 1 .. Len(Xfers) /\ DOMAIN Xfers = 1 .. Len(Xfers)
      /\ bufs \in Seq(Seq(Words)) /\ DOMAIN bufs = DOMAIN Xfers
      /\ bufs[cur] \in Seq(Words) /\ rxFifo \in Seq(Words) /\ answers \in Seq(Words)
      /\ T.rx \in Nat /\ rxcr \in Nat
  BY TransferType, LenProperties, ElementOfSeq DEF TypeInv, SpiTypeOK
<1>1. ASSUME NEW m, IsMessage(m), Submit(m) PROVE Answered'
  BY <1>1 DEF Submit, Answered, InTransfer
<1>2. CASE SetupXfer
  BY <1>2 DEF SetupXfer, Answered, InTransfer
<1>3. CASE Load
  <2>1. rxFifo = <<>> /\ rxcr = 0 /\ bufs[cur] = <<>>
    BY <1>3, <1>t DEF Load, Receiver, Answered
  <2>2. answers' = <<>> /\ rxcr' = T.rx /\ UNCHANGED <<msg, cur, bufs, rxFifo>>
    <3>1. rxcr' = (IF T.rx > 0 THEN T.rx ELSE rxcr)
      BY <1>3 DEF Load
    <3>2. T.rx \in Nat /\ rxcr = 0
      BY <1>t, <2>1
    <3>3. rxcr' = T.rx
      BY <3>1, <3>2
    <3> QED
      BY <1>3, <3>3 DEF Load
  <2>3. bufs[cur] \o rxFifo = <<>>
    BY <2>1, EmptySeq, ConcatEmptySeq
  <2>4. Len(<<>>) + T.rx = T.rx
    BY <1>t, EmptySeq
  <2> QED
    BY <1>3, <2>2, <2>3, <2>4 DEF Load, Answered, InTransfer
<1>4. CASE Fill \/ Start \/ Woken \/ Finalize
  BY <1>4, NotReceived DEF Fill, Start, Woken, Finalize, InTransfer
<1>5. CASE Return
  <2>1. UNCHANGED <<msg, bufs, rxFifo, rxcr, answers>> /\ spiPc' \in {"done", "setup"}
    BY <1>5 DEF Return
  <2>2. (cur' = cur /\ spiPc' = "done") \/ (cur' = cur + 1 /\ spiPc' = "setup")
    BY <1>5 DEF Return
  <2>3. \A i \in DOMAIN Xfers : i > cur => bufs[i] = <<>>
    BY DEF Answered
  <2>4. \A i \in DOMAIN Xfers : i > cur' \/ (i = cur' /\ cur' = cur + 1) => bufs[i] = <<>>
    BY <1>t, <2>2, <2>3
  <2> QED
    BY <2>1, <2>2, <2>4 DEF Answered, InTransfer
<1>6. CASE IsrEnter \/ IsrDrained \/ IsrFill \/ IsrExit \/ HwSend \/ HwStop \/ UNCHANGED spiVars
  BY <1>6, NotReceived DEF IsrEnter, IsrDrained, IsrFill, IsrExit, HwSend, HwStop, InTransfer
<1>7. CASE IsrDrain
  <2>1. spiPc \in {"fill", "start", "wait"} /\ rxFifo # <<>>
    BY <1>7 DEF IsrDrain, Receiver
  <2>2. bufs'[cur] = Append(bufs[cur], Head(rxFifo)) /\ \A i \in DOMAIN Xfers : i # cur => bufs'[i] = bufs[i]
    BY <1>7, <1>t DEF IsrDrain
  <2>3. Append(bufs[cur], Head(rxFifo)) \o Tail(rxFifo) = bufs[cur] \o rxFifo
    BY <1>t, <2>1, MovesOver
  <2>4. UNCHANGED <<spiPc, msg, cur, rxcr, answers>> /\ rxFifo' = Tail(rxFifo)
    BY <1>7 DEF IsrDrain
  <2>5. bufs'[cur] \o rxFifo' = answers /\ Len(answers) + rxcr = T.rx
    BY <2>1, <2>2, <2>3, <2>4 DEF Answered, InTransfer
  <2>6. \A i \in DOMAIN Xfers : i > cur => bufs'[i] = <<>>
    <3>1. \A i \in DOMAIN Xfers : i > cur => bufs[i] = <<>>
      BY DEF Answered
    <3>2. \A i \in DOMAIN Xfers : i > cur => i # cur
      BY <1>t
    <3> QED
      BY <2>2, <3>1, <3>2
  <2> QED
    BY <2>1, <2>4, <2>5, <2>6 DEF Answered
<1>8. ASSUME NEW w \in Words, HwReceive(w) PROVE Answered'
  <2>1. InTransfer /\ Len(rxFifo) < Depth
    BY <1>8 DEF HwReceive, Receiver, InTransfer
  <2>2. bufs[cur] \o Append(rxFifo, w) = Append(answers, w)
    <3>1. bufs[cur] \o rxFifo = answers
      BY <2>1 DEF Answered
    <3>2. bufs[cur] \o Append(rxFifo, w) = Append(bufs[cur] \o rxFifo, w)
      <4>1. \A s, t \in Seq(Words) : s \o Append(t, w) = Append(s \o t, w)
        BY GrowsBehind
      <4> QED
        BY <1>t, <4>1
    <3> QED
      BY <3>1, <3>2
  <2>3. Len(Append(answers, w)) + (rxcr - 1) = T.rx
    BY <1>t, <2>1, AppendProperties, LenProperties DEF Answered
  <2> QED
    BY <1>8, <2>1, <2>2, <2>3 DEF HwReceive, Answered, InTransfer
<1> QED
  BY <1>1, <1>2, <1>3, <1>4, <1>5, <1>6, <1>7, <1>8 DEF SpiStep

-----------------------------------------------------------------------------
(* Sending                                                                  *)

\* When words are to be sent and are not all written yet.
LEMMA StillToSend ==
  ASSUME IInv
  PROVE  /\ "TX" \in xferStat => /\ InTransfer /\ T.tx # <<>> /\ XLen(T) = Len(T.tx)
                                 /\ txCnt \in 0 .. Len(T.tx) - 1
         /\ InTransfer => txCnt \in 0 .. Len(T.tx)
<1>1. TypeInv /\ Transmitter /\ txCnt \in Nat
  BY DEF IInv, ReceiveInv, TypeInv, SpiTypeOK
<1> QED
  BY <1>1, TransferType, EmptySeq DEF Transmitter, XLen

\* A transfer whose controller has stopped has sent all that is due.
LEMMA StoppedHasSent ==
  ASSUME IInv, spiPc = "poll", ~run
  PROVE  frame = due /\ txCnt = Len(T.tx)
<1>1. /\ TypeInv /\ txCnt \in Nat /\ InTransfer /\ txcr = 0 /\ xferStat = {}
      /\ frame \in Seq(AnyWord) /\ txFifo \in Seq(AnyWord) /\ Len(txFifo) \in Nat
  BY LenProperties
  DEF IInv, ReceiveInv, TypeInv, SpiTypeOK, Transmitter, Receiver, InTransfer
<1>2. txCnt = Len(T.tx)
  BY <1>1, TransferType DEF IInv, Transmitter
<1>3. CASE T.tx = <<>>
  BY <1>1, <1>2, <1>3 DEF IInv, Sent
<1>4. CASE T.tx # <<>>
  <2>1. Len(txFifo) = 0 /\ (frame \o txFifo) \o Rest = due
    BY <1>1, <1>2, <1>4, TransferType DEF IInv, Sent
  <2>2. txFifo = <<>> /\ Rest = <<>>
    BY <1>1, <1>2, <2>1, TransferType, EmptySeq, SubSeqEmpty DEF Rest
  <2> QED
    BY <1>1, <1>2, <2>1, <2>2, ConcatEmptySeq
<1> QED
  BY <1>3, <1>4

\* Whether the chip is selected anew is what the last transfer has said.
LEMMA BetweenNext == IInv /\ [SpiStep]_spiVars => Between'
<1> SUFFICES ASSUME IInv, [SpiStep]_spiVars PROVE Between'
  OBVIOUS
<1>t. TypeInv /\ Receiver /\ Between /\ cur \in Nat /\ cur > 0
  BY TransferType DEF IInv, ReceiveInv
<1>1. ASSUME NEW m, IsMessage(m), Submit(m) PROVE Between'
  BY <1>1 DEF Submit, Between, FirstOfFrame, InTransfer
<1>2. CASE SetupXfer
  BY <1>2, <1>t DEF SetupXfer, Between, FirstOfFrame, InTransfer
<1>3. CASE Load
  BY <1>3 DEF Load, Between, InTransfer
<1>4. CASE Fill \/ Start \/ Woken \/ Finalize
  BY <1>4, <1>t DEF Fill, Start, Woken, Finalize, Between, InTransfer
<1>5. CASE Return
  <2>1. spiPc = "poll" /\ frame = due /\ csChange = T.cs
    BY <1>5, <1>t, StoppedHasSent DEF Return, Between, InTransfer
  <2>2. spiPc' = "done" \/ (spiPc' = "setup" /\ cur' = cur + 1)
    BY <1>5 DEF Return
  <2>3. UNCHANGED <<msg, csChange, frame, due>>
    BY <1>5 DEF Return
  <2> QED
    BY <1>t, <2>1, <2>2, <2>3 DEF Between, FirstOfFrame, InTransfer
<1>6. CASE IsrEnter \/ IsrDrain \/ IsrDrained \/ IsrFill \/ IsrExit \/ HwStop \/ UNCHANGED spiVars
  BY <1>6, <1>t
  DEF IsrEnter, IsrDrain, IsrDrained, IsrFill, IsrExit, HwStop, Between, FirstOfFrame, InTransfer
<1>7. CASE HwSend \/ \E w \in Words : HwReceive(w)
  BY <1>7, <1>t DEF HwSend, HwReceive, Receiver, Between, FirstOfFrame, InTransfer
<1> QED
  BY <1>1, <1>2, <1>3, <1>4, <1>5, <1>6, <1>7 DEF SpiStep

\* The transmitter and its interrupt.
LEMMA TransmitterNext == ASSUME Env = {} PROVE IInv /\ [SpiStep]_spiVars => Transmitter'
<1> SUFFICES ASSUME IInv, [SpiStep]_spiVars PROVE Transmitter'
  OBVIOUS
<1>t. /\ TypeInv /\ Receiver /\ Transmitter /\ txCnt \in Nat /\ txcr \in Nat
      /\ Len(T.tx) \in Nat /\ (T.tx # <<>> <=> Len(T.tx) > 0)
  <2>1. TypeInv /\ ControlOK
    BY TypeParts DEF IInv, ReceiveInv
  <2>2. Len(T.tx) \in Nat /\ (T.tx # <<>> <=> Len(T.tx) > 0)
    BY <2>1, TransferType, EmptySeq
  <2> QED
    BY <2>1, <2>2 DEF IInv, ReceiveInv, ControlOK
<1>1. CASE \E m : IsMessage(m) /\ Submit(m)
  BY <1>1, <1>t DEF Submit, Receiver, Transmitter, InTransfer
<1>2. CASE SetupXfer
  BY <1>2, <1>t DEF SetupXfer, Receiver, Transmitter, InTransfer
<1>3. CASE Load
  <2>1. xferStat = {} /\ ~isr.tx /\ "TX" \notin ier
    BY <1>3, <1>t DEF Load, Receiver, Transmitter
  <2>2. "TX" \in xferStat' <=> T.tx # <<>>
    BY <1>3 DEF Load
  <2>3. spiPc' = "fill" /\ txCnt' = 0 /\ UNCHANGED <<msg, cur, isr, ier>>
    BY <1>3 DEF Load
  <2>4. T.tx # <<>> => txFifo' = <<>>
    BY <1>3 DEF Load, Loaded
  <2> QED
    BY <1>t, <2>1, <2>2, <2>3, <2>4 DEF Transmitter, InTransfer
<1>4. CASE Fill
  <2>1. Len(FirstWords) \in Nat /\ Len(FirstWords) <= Len(T.tx)
    BY <1>t, FirstWordsType, LenProperties
  <2>2. spiPc = "fill" /\ spiPc' = "start" /\ UNCHANGED <<msg, cur, isr>>
    BY <1>4 DEF Fill
  <2>3. ~isr.tx /\ "TX" \notin ier /\ txCnt = 0
    BY <1>t, <2>2 DEF Transmitter
  <2>4. CASE "TX" \in xferStat
    BY <1>4, <1>t, <2>1, <2>2, <2>3, <2>4 DEF Fill, MoreToSend, Transmitter, InTransfer
  <2>5. CASE "TX" \notin xferStat
    BY <1>4, <1>t, <2>2, <2>3, <2>5 DEF Fill, Transmitter, InTransfer
  <2> QED
    BY <2>4, <2>5
<1>5. CASE Start \/ Woken
  BY <1>5, <1>t DEF Start, Woken, Receiver, Transmitter, InTransfer
<1>6. CASE Return \/ Finalize
  BY <1>6, <1>t, StoppedHasSent DEF Return, Finalize, Receiver, Transmitter, InTransfer
<1>7. CASE IsrEnter
  <2>1. isr'.tx = TxFlag /\ UNCHANGED <<threadVars, xferStat, txCnt, txFifo, txcr, run, ier>>
    <3>1. /\ xferStat' = xferStat
          /\ isr' = [at |-> IF rxcif \/ RxFlag THEN "drain" ELSE "tx", done |-> rxcif, tx |-> TxFlag]
      BY <1>7, <1>t, RaisedFor
    <3>2. UNCHANGED <<threadVars, txCnt, txFifo, txcr, run, ier>>
      BY <1>7 DEF IsrEnter
    <3> QED
      BY <3>1, <3>2
  <2>2. "TX" \in ier \/ rxcif \/ RxFlag
    BY <1>7 DEF IsrEnter, IrqLine
  <2>3. spiPc \in {"start", "wait"} /\ InTransfer
    BY <1>7, <1>t, <2>2, RaisedFor DEF Transmitter, InTransfer
  <2>4. ASSUME TxFlag PROVE "TX" \in xferStat
    <3>1. Len(txFifo) < txcr /\ Len(txFifo) \in Nat
      BY <1>t, <2>4, LenProperties DEF TxFlag, TypeInv, SpiTypeOK
    <3>2. T.tx # <<>> /\ txcr = Len(txFifo) + Len(T.tx) - txCnt
      BY <1>t, <2>3, <3>1 DEF IInv, Sent
    <3> QED
      BY <1>t, <2>3, <3>1, <3>2 DEF Transmitter
  <2> QED
    BY <1>t, <2>1, <2>3, <2>4 DEF Transmitter, InTransfer
<1>8. CASE IsrDrain
  BY <1>8, <1>t DEF IsrDrain, Transmitter, InTransfer
<1>9. CASE IsrDrained
  <2>1. /\ UNCHANGED <<threadVars, txCnt, ctrlVars>> /\ isr'.tx = isr.tx
        /\ "TX" \in xferStat' <=> "TX" \in xferStat
    BY <1>9, <1>t DEF IsrDrained, Received, TypeInv, SpiTypeOK
  <2> QED
    BY <1>t, <2>1 DEF Transmitter, InTransfer
<1>10. CASE IsrFill
  <2>1. "TX" \in xferStat /\ spiPc \in {"start", "wait"}
    BY <1>10, <1>t DEF IsrFill, Transmitter
  <2>2. XLen(T) = Len(T.tx) /\ txCnt \in 0 .. Len(T.tx) - 1 /\ InTransfer
    BY <2>1, StillToSend
  <2>3. CASE txCnt + 1 = XLen(T)
    BY <1>10, <1>t, <2>1, <2>2, <2>3 DEF IsrFill, NoIsr, Transmitter, InTransfer
  <2>4. CASE txCnt + 1 # XLen(T)
    BY <1>10, <1>t, <2>1, <2>2, <2>4 DEF IsrFill, Transmitter, InTransfer
  <2> QED
    BY <2>3, <2>4
<1>11. CASE IsrExit
  BY <1>11, <1>t DEF IsrExit, NoIsr, Transmitter, InTransfer
<1>12. CASE HwSend \/ \E w \in Words : HwReceive(w)
  BY <1>12, <1>t DEF HwSend, HwReceive, Receiver, Transmitter, InTransfer
<1>13. CASE HwStop \/ UNCHANGED spiVars
  BY <1>13, <1>t DEF HwStop, Receiver, Transmitter, InTransfer
<1> QED
  BY <1>1, <1>2, <1>3, <1>4, <1>5, <1>6, <1>7, <1>8, <1>9, <1>10, <1>11, <1>12, <1>13 DEF SpiStep

\* Steps of the receiver and the clock, and those between transfers.
LEMMA NotSent ==
  ASSUME UNCHANGED <<msg, cur, txCnt, txFifo, txcr, frame, due>>, Sent, InTransfer' => InTransfer
  PROVE  Sent'
  BY DEF Sent, Rest

\* Words keep their order on the way to the chip, and none is added.
LEMMA SentNext == ASSUME Env = {} PROVE IInv /\ [SpiStep]_spiVars => Sent'
<1> SUFFICES ASSUME IInv, [SpiStep]_spiVars PROVE Sent'
  OBVIOUS
<1>t. /\ TypeInv /\ Receiver /\ Transmitter /\ Between /\ Sent /\ txCnt \in Nat /\ txcr \in Nat
      /\ T.tx \in Seq(Words) /\ Len(T.tx) \in Nat /\ (T.tx # <<>> <=> Len(T.tx) > 0)
      /\ frame \in Seq(AnyWord) /\ txFifo \in Seq(AnyWord) /\ due \in Seq(Words)
      /\ T.tx \in Seq(AnyWord) /\ frame \o txFifo \in Seq(AnyWord) /\ Len(txFifo) \in Nat
  <2>1. TypeInv /\ ControlOK /\ DataOK
    BY TypeParts DEF IInv, ReceiveInv
  <2>2. T.tx \in Seq(Words) /\ Len(T.tx) \in Nat /\ (T.tx # <<>> <=> Len(T.tx) > 0)
    BY <2>1, TransferType, EmptySeq
  <2>3. T.tx \in Seq(AnyWord)
    BY <2>2, MoreWords
  <2>4. /\ frame \in Seq(AnyWord) /\ txFifo \in Seq(AnyWord) /\ due \in Seq(Words)
        /\ Len(txFifo) \in Nat /\ txCnt \in Nat /\ txcr \in Nat
    BY <2>1, LenProperties DEF DataOK, ControlOK
  <2>5. frame \o txFifo \in Seq(AnyWord)
    BY <2>4, ConcatProperties
  <2> QED
    BY <2>1, <2>2, <2>3, <2>4, <2>5 DEF IInv, ReceiveInv
<1>n. txCnt \in Nat /\ txcr \in Nat /\ Len(T.tx) \in Nat /\ Len(txFifo) \in Nat
  BY <1>t
<1>s. ASSUME T'.tx # <<>>, txcr' = Len(txFifo') + Len(T'.tx) - txCnt',
             (frame' \o txFifo') \o Rest' = due'
      PROVE  Sent'
  BY <1>s DEF Sent
<1>1. CASE \E m : IsMessage(m) /\ Submit(m)
  BY <1>1 DEF Submit, Sent, InTransfer
<1>2. CASE SetupXfer
  BY <1>2 DEF SetupXfer, Sent, InTransfer
<1>3. CASE Load
  <2>1. due' = frame \o T.tx /\ txCnt' = 0 /\ UNCHANGED <<msg, cur, frame>>
    BY <1>3, <1>t DEF Load, Between
  <2>2. CASE T.tx = <<>>
    <3>1. txcr = 0 /\ txcr' = txcr
      BY <1>3, <1>t, <2>2 DEF Load, Transmitter, InTransfer
    <3>2. due' = frame
      BY <1>t, <2>1, <2>2, ConcatEmptySeq
    <3> QED
      BY <2>1, <2>2, <3>1, <3>2 DEF Sent
  <2>3. CASE T.tx # <<>>
    <3>1. txFifo' = <<>> /\ txcr' = Len(T.tx)
      BY <1>3, <2>3 DEF Load, Loaded
    <3>2. Rest' = T.tx
      BY <1>t, <2>1, SubSeqFull DEF Rest
    <3>3. (frame \o txFifo') \o Rest' = due'
      BY <1>t, <2>1, <3>1, <3>2, ConcatEmptySeq
    <3>4. Len(txFifo') = 0
      BY <3>1, EmptySeq
    <3>5. T'.tx = T.tx /\ frame' = frame
      BY <2>1
    <3>6. txcr' = Len(txFifo') + Len(T'.tx) - txCnt'
      BY <1>n, <2>1, <3>1, <3>4, <3>5
    <3> QED
      BY <1>s, <2>3, <3>3, <3>5, <3>6
  <2> QED
    BY <2>2, <2>3
<1>4. CASE Fill
  <2>1. spiPc = "fill" /\ InTransfer /\ UNCHANGED <<msg, cur, txcr, frame, due>>
    BY <1>4 DEF Fill, InTransfer
  <2>2. CASE "TX" \notin xferStat
    BY <1>4, <2>1, <2>2, NotSent, <1>t DEF Fill
  <2>3. CASE "TX" \in xferStat
    <3>1. T.tx # <<>> /\ txFifo = <<>> /\ txCnt = 0
      BY <1>t, <2>1, <2>3 DEF Transmitter
    <3>2. txFifo' = <<>> \o FirstWords /\ txCnt' = Len(FirstWords)
      BY <1>4, <2>3, <3>1 DEF Fill
    <3>3. FirstWords \in Seq(Words) /\ Len(FirstWords) \in 0 .. Len(T.tx)
      BY <1>t, FirstWordsType, LenProperties
    <3>4. txFifo' = FirstWords
      BY <3>2, <3>3, ConcatEmptySeq
    <3>5. txcr = Len(T.tx) /\ due = frame \o T.tx
      <4>1. txcr = Len(<<>>) + Len(T.tx) - 0 /\ (frame \o <<>>) \o Rest = due
        BY <1>t, <2>1, <3>1 DEF Sent
      <4>2. Rest = T.tx
        BY <1>t, <3>1, SubSeqFull DEF Rest
      <4> QED
        BY <1>t, <4>1, <4>2, EmptySeq, ConcatEmptySeq
    <3>6. FirstWords \o SubSeq(T.tx, Len(FirstWords) + 1, Len(T.tx)) = T.tx
      <4>1. FirstWords = SubSeq(T.tx, 1, Len(FirstWords))
        BY <1>t, FirstWordsType
      <4>2. 1 \in 1 .. Len(T.tx) + 1 /\ Len(FirstWords) \in 1 - 1 .. Len(T.tx)
            /\ Len(T.tx) \in Len(FirstWords) .. Len(T.tx)
        BY <1>t, <3>3
      <4>3. SubSeq(T.tx, 1, Len(FirstWords)) \o SubSeq(T.tx, Len(FirstWords) + 1, Len(T.tx))
              = SubSeq(T.tx, 1, Len(T.tx))
        BY <1>t, <4>2, ConcatAdjacentSubSeq
      <4> QED
        BY <1>t, <4>1, <4>3, SubSeqFull
    <3>7. (frame \o FirstWords) \o SubSeq(T.tx, Len(FirstWords) + 1, Len(T.tx)) = due
      <4>1. /\ SubSeq(T.tx, Len(FirstWords) + 1, Len(T.tx)) \in Seq(AnyWord)
            /\ FirstWords \in Seq(AnyWord)
        BY <1>t, <3>3, RestType, MoreWords
      <4>2. \A a, b, c \in Seq(AnyWord) : (a \o b) \o c = a \o (b \o c)
        BY ConcatAssociative
      <4> QED
        <5>1. frame \in Seq(AnyWord)
          BY <1>t
        <5>2. (frame \o FirstWords) \o SubSeq(T.tx, Len(FirstWords) + 1, Len(T.tx))
                = frame \o (FirstWords \o SubSeq(T.tx, Len(FirstWords) + 1, Len(T.tx)))
          BY <4>1, <4>2, <5>1
        <5> QED
          BY <3>5, <3>6, <5>2
    <3>8. T'.tx = T.tx /\ frame' = frame /\ txcr' = txcr /\ due' = due
      BY <2>1
    <3>9. Rest' = SubSeq(T.tx, Len(FirstWords) + 1, Len(T.tx))
      BY <3>2, <3>8 DEF Rest
    <3>10. txcr' = Len(txFifo') + Len(T'.tx) - txCnt'
      BY <1>n, <3>2, <3>3, <3>4, <3>5, <3>8
    <3>11. (frame' \o txFifo') \o Rest' = due'
      BY <3>4, <3>7, <3>8, <3>9
    <3> QED
      BY <1>s, <3>1, <3>8, <3>10, <3>11
  <2> QED
    BY <2>2, <2>3
<1>5. CASE Start \/ Woken \/ Return \/ Finalize
  <2>1. UNCHANGED <<msg, txCnt, txFifo, txcr, frame, due>>
    BY <1>5 DEF Start, Woken, Return, Finalize
  <2>2. InTransfer' => InTransfer /\ cur' = cur
    BY <1>5 DEF Start, Woken, Return, Finalize, InTransfer
  <2> QED
    BY <1>t, <2>1, <2>2 DEF Sent, Rest
<1>6. CASE IsrEnter \/ IsrDrain \/ IsrDrained \/ IsrExit \/ HwStop \/ UNCHANGED spiVars
  <2>1. UNCHANGED <<msg, cur, spiPc, txCnt, txFifo, txcr, frame, due>>
    BY <1>6 DEF IsrEnter, IsrDrain, IsrDrained, IsrExit, HwStop
  <2> QED
    BY <1>t, <2>1, NotSent DEF InTransfer
<1>7. CASE IsrFill
  <2>1. UNCHANGED <<threadVars, txcr, frame, due>> /\ txFifo' = Append(txFifo, NextWord)
        /\ txCnt' = txCnt + 1
    BY <1>7 DEF IsrFill
  <2>2. InTransfer /\ T.tx # <<>> /\ txCnt \in 0 .. Len(T.tx) - 1
    BY <1>7, <1>t, StillToSend DEF IsrFill, Transmitter
  <2>3. NextWord = T.tx[txCnt + 1] /\ NextWord \in AnyWord
    <3>1. txCnt + 1 \in 1 .. Len(T.tx)
      BY <1>t, <2>2
    <3> QED
      BY <1>t, <2>2, <3>1, ElementOfSeq DEF NextWord
  <2>4. Append(frame \o txFifo, NextWord) \o Rest' = (frame \o txFifo) \o Rest
    <3>1. Rest' = SubSeq(T.tx, txCnt + 2, Len(T.tx))
      BY <1>t, <2>1 DEF Rest
    <3>2. \A f \in Seq(AnyWord) :
            Append(f, T.tx[txCnt + 1]) \o SubSeq(T.tx, txCnt + 2, Len(T.tx))
              = f \o SubSeq(T.tx, txCnt + 1, Len(T.tx))
      BY <1>t, <2>2, RestBegins
    <3> QED
      BY <1>t, <2>3, <3>1, <3>2 DEF Rest
  <2>5. frame \o Append(txFifo, NextWord) = Append(frame \o txFifo, NextWord)
    <3>1. \A e \in AnyWord : \A a, b \in Seq(AnyWord) : a \o Append(b, e) = Append(a \o b, e)
      BY GrowsBehind
    <3> QED
      BY <1>t, <2>3, <3>1
  <2>6. Len(txFifo') = Len(txFifo) + 1
    BY <1>t, <2>1, <2>3, AppendProperties
  <2>7. txcr = Len(txFifo) + Len(T.tx) - txCnt /\ (frame \o txFifo) \o Rest = due
    BY <1>t, <2>2 DEF Sent
  <2>8. txcr' = Len(txFifo') + Len(T.tx) - txCnt'
    <3>1. txcr' = txcr /\ txCnt' = txCnt + 1 /\ txcr = Len(txFifo) + Len(T.tx) - txCnt
      BY <2>1, <2>7
    <3>2. \A j, k, l \in Nat : j + k - l = (j + 1) + k - (l + 1)
      OBVIOUS
    <3>3. Len(txFifo) + Len(T.tx) - txCnt = (Len(txFifo) + 1) + Len(T.tx) - (txCnt + 1)
      BY <1>n, <3>2
    <3> QED
      BY <2>6, <3>1, <3>3
  <2>9. (frame' \o txFifo') \o Rest' = due'
    BY <2>1, <2>4, <2>5, <2>7
  <2> QED
    BY <2>1, <2>2, <2>8, <2>9 DEF Sent
<1>8. CASE HwSend
  <2>1. /\ UNCHANGED <<threadVars, txCnt, due>> /\ txFifo # <<>> /\ txcr > 0
        /\ txFifo' = Tail(txFifo) /\ txcr' = txcr - 1 /\ frame' = Append(frame, Head(txFifo))
    BY <1>8 DEF HwSend
  <2>2. InTransfer
    BY <1>t, <2>1 DEF Transmitter
  <2>3. T.tx # <<>> /\ txcr = Len(txFifo) + Len(T.tx) - txCnt /\ (frame \o txFifo) \o Rest = due
    BY <1>t, <2>1, <2>2 DEF Sent
  <2>4. frame' \o txFifo' = frame \o txFifo
    BY <1>t, <2>1, MovesOver
  <2>5. Len(txFifo') = Len(txFifo) - 1
    BY <1>t, <2>1, HeadTailProperties
  <2>6. Rest' = Rest
    BY <2>1 DEF Rest
  <2> QED
    <3>1. T'.tx = T.tx /\ txcr' = txcr - 1 /\ txCnt' = txCnt /\ due' = due
      BY <2>1
    <3>2. txcr = Len(txFifo) + Len(T.tx) - txCnt
      BY <2>3
    <3>3. txcr' = Len(txFifo') + Len(T'.tx) - txCnt'
      BY <1>n, <2>5, <3>1, <3>2
    <3> QED
      BY <1>s, <2>3, <2>4, <2>6, <3>1, <3>3
<1>9. ASSUME NEW w \in Words, HwReceive(w) PROVE Sent'
  BY <1>9, <1>t, NotSent DEF HwReceive, InTransfer
<1> QED
  BY <1>1, <1>2, <1>3, <1>4, <1>5, <1>6, <1>7, <1>8, <1>9 DEF SpiStep

-----------------------------------------------------------------------------
(* Theorems                                                                 *)

\* The invariant holds before the first message.
LEMMA IInvInit == SpiInit => IInv
<1> SUFFICES ASSUME SpiInit PROVE IInv
  OBVIOUS
<1> USE DEF SpiInit
<1>1. IsMessage(msg) /\ Len(Xfers) = 1 /\ DOMAIN Xfers = {1}
  <2>1. [tx |-> <<>>, rx |-> 0, cs |-> FALSE] \in Transfers
    BY EmptySeq DEF Transfers
  <2> QED
    BY <2>1 DEF IsMessage, NoMessage
<1>2. TypeInv
  <2>1. <<>> \in Seq(Words) /\ <<>> \in Seq(AnyWord) /\ Len(<<>>) = 0
    BY EmptySeq
  <2>2. bufs \in Seq(Seq(Words)) /\ Len(bufs) = 1
    BY <2>1
  <2> QED
    <3>1. cur \in DOMAIN Xfers /\ Len(bufs) = Len(Xfers)
      BY <1>1, <2>2
    <3>2. isr \in [at : {"idle", "drain", "tx"}, done : BOOLEAN, tx : BOOLEAN]
      BY DEF NoIsr
    <3>3. txFifo \in Seq(AnyWord) /\ Len(txFifo) <= Depth /\ rxFifo \in Seq(Words) /\ Len(rxFifo) <= Depth
      BY <2>1, Depths
    <3>4. frame \in Seq(AnyWord) /\ due \in Seq(Words) /\ answers \in Seq(Words)
      BY <2>1
    <3>5. SpiTypeOK
      BY <2>2, <3>1, <3>2, <3>3, <3>4 DEF SpiTypeOK
    <3> QED
      BY <1>1, <3>5 DEF TypeInv
<1>3. Receiver
  BY DEF Receiver, NoIsr
<1>4. Answered
  BY <1>1 DEF Answered, InTransfer
<1>5. Between /\ Transmitter /\ Sent
  BY DEF Between, Transmitter, Sent, InTransfer, NoIsr
<1> QED
  BY <1>2, <1>3, <1>4, <1>5 DEF IInv, ReceiveInv

\* The part of the invariant about receiving.
LEMMA ReceiveAlways == ASSUME "overrun" \notin Env PROVE SpiSpec => []ReceiveInv
<1>1. SpiInit => ReceiveInv
  BY IInvInit DEF IInv
<1>2. ReceiveInv /\ [SpiNext]_spiVars => ReceiveInv'
  BY NextIsStep, TypeNext, ReceiverNext, AnsweredNext DEF ReceiveInv
<1> QED
  BY <1>1, <1>2, PTL DEF SpiSpec

\* All of it is kept by a step.
LEMMA IInvNext == ASSUME Env = {} PROVE IInv /\ [SpiStep]_spiVars => IInv'
<1>1. "overrun" \notin Env
  OBVIOUS
<1> QED
  BY <1>1, TypeNext, ReceiverNext, AnsweredNext, BetweenNext, TransmitterNext, SentNext
  DEF IInv, ReceiveInv

\* And holds of every state.
LEMMA IInvAlways == ASSUME Env = {} PROVE SpiSpec => []IInv
<1>1. IInv /\ [SpiNext]_spiVars => IInv'
  BY NextIsStep, IInvNext
<1> QED
  BY <1>1, IInvInit, PTL DEF SpiSpec

\* The variables of the driver and the controller keep their types, whatever
\* the environment does; in particular no FIFO holds more than its depth.
THEOREM TypeCorrect == SpiSpec => []SpiTypeOK
<1>1. SpiInit => TypeInv
  BY IInvInit DEF IInv, ReceiveInv
<1>2. TypeInv => SpiTypeOK
  BY DEF TypeInv
<1>3. TypeInv /\ [SpiNext]_spiVars => TypeInv'
  BY NextIsStep, TypeNext
<1> QED
  BY <1>1, <1>2, <1>3, PTL DEF SpiSpec

\* A word the chip answers reaches the rx_buf of its transfer, once and in
\* order, if the receive FIFO is not overrun.
THEOREM ReceivedInOrderAlways == ASSUME "overrun" \notin Env PROVE SpiSpec => []ReceivedInOrder
<1>1. ReceiveInv => ReceivedInOrder
  BY DEF ReceiveInv, Answered, ReceivedInOrder
<1> QED
  BY <1>1, ReceiveAlways, PTL

\* What a selected chip sees are the words of the message, in order and none
\* besides.
THEOREM SentInOrderAlways == ASSUME Env = {} PROVE SpiSpec => []SentInOrder
<1>1. ASSUME IInv, InTransfer PROVE IsPrefix(frame, due)
  <2>1. /\ frame \in Seq(AnyWord) /\ txFifo \in Seq(AnyWord) /\ Rest \in Seq(AnyWord)
    <3>1. TypeInv /\ txCnt \in 0 .. Len(T.tx) /\ T.tx \in Seq(Words)
      BY <1>1, StillToSend, TransferType DEF IInv, ReceiveInv
    <3> QED
      BY <3>1, RestType, MoreWords DEF Rest, TypeInv, SpiTypeOK
  <2>2. CASE T.tx = <<>>
    <3>1. due = frame \o <<>>
      BY <1>1, <2>1, <2>2, ConcatEmptySeq DEF IInv, Sent
    <3> QED
      BY <2>1, <3>1, FirstIsPrefix, EmptySeq
  <2>3. CASE T.tx # <<>>
    <3>1. due = (frame \o txFifo) \o Rest
      BY <1>1, <2>3 DEF IInv, Sent
    <3>2. due = frame \o (txFifo \o Rest)
      BY <2>1, <3>1, ConcatAssociative
    <3>3. txFifo \o Rest \in Seq(AnyWord)
      BY <2>1, ConcatProperties
    <3> QED
      BY <2>1, <3>2, <3>3, FirstIsPrefix
  <2> QED
    BY <2>2, <2>3
<1>2. IInv => SentInOrder
  BY <1>1 DEF SentInOrder
<1> QED
  BY <1>2, IInvAlways, PTL

\* When socle_spi_txrx_bufs returns, the transfer is complete in either
\* direction and the interrupt handler has left its buffers.
THEOREM CompleteOnReturnAlways == ASSUME Env = {} PROVE SpiSpec => []CompleteOnReturn
<1>1. ASSUME IInv, spiPc = "poll", ~run
      PROVE  /\ frame = due /\ Len(bufs[cur]) = T.rx /\ txCnt = Len(T.tx)
             /\ isr.at # "drain" /\ ~isr.tx
  <2>1. frame = due /\ txCnt = Len(T.tx)
    BY <1>1, StoppedHasSent
  <2>2. xferStat = {} /\ rxFifo = <<>> /\ rxcr = 0 /\ isr.at # "drain"
    BY <1>1 DEF IInv, ReceiveInv, Receiver
  <2>3. ~isr.tx
    BY <1>1, <2>2 DEF IInv, Transmitter
  <2>4. /\ TypeInv /\ bufs[cur] \in Seq(Words) /\ T.rx \in Nat /\ answers \in Seq(Words)
        /\ Len(answers) \in Nat
    <3>1. TypeInv
      BY <1>1 DEF IInv, ReceiveInv
    <3> QED
      BY <3>1, TransferType, ElementOfSeq, LenProperties DEF TypeInv, SpiTypeOK
  <2>5. bufs[cur] \o <<>> = answers /\ Len(answers) + 0 = T.rx
    BY <1>1, <2>2 DEF IInv, ReceiveInv, Answered, InTransfer
  <2>6. bufs[cur] = answers
    BY <2>4, <2>5, ConcatEmptySeq
  <2> QED
    BY <2>1, <2>2, <2>3, <2>4, <2>5, <2>6
<1>2. IInv => CompleteOnReturn
  BY <1>1 DEF CompleteOnReturn
<1> QED
  BY <1>2, IInvAlways, PTL

USE DEF procVars, chipVars, vars

-----------------------------------------------------------------------------
(* The EEPROM driver: the inductive invariant                               *)

\* What messages of at25.c are like: one or two transfers, the first sends and
\* the second receives; the chip stays selected between them, not behind them.
Simple(m) ==
  /\ IsMessage(m)
  /\ Len(m.transfers) \in {1, 2}
  /\ \A i \in 1 .. Len(m.transfers) : m.transfers[i].cs = FALSE
  /\ m.transfers[1].rx = 0
  /\ Len(m.transfers) = 2 => m.transfers[2].tx = <<>>

Command   == Xfers[1].tx
Answering == cur = 2 /\ spiPc \notin {"setup", "load"}
Finished  == spiPc \in {"done", "idle"} /\ status = "0"

\* How far a message is.  The chip is selected from its first transfer to its
\* end, and is sent the command; what it answers is in the second buffer in the
\* end.  A message with unsupported settings never selects it.
MessageInv ==
  /\ Simple(msg)
  /\ status # "0" => status = "EINVAL" /\ ~msg.supported /\ spiPc \in {"done", "idle"}
  /\ (status = "0" /\ spiPc # "setup") \/ cur = 2 => msg.supported
  /\ cs <=> \/ spiPc = "load" \/ InTransfer
            \/ spiPc = "done" /\ status = "0"
            \/ spiPc = "setup" /\ cur = 2
  /\ InTransfer \/ (spiPc \in {"setup", "load"} /\ cur = 2) => due = Command
  /\ spiPc = "done" /\ status = "0" => ~csChange /\ frame = Command
  /\ Finished => /\ cur = Len(Xfers)
                 /\ cur = 2 => bufs[2] = answers /\ Len(answers) = T.rx

\* The mutex, and what it keeps from others: the bus and a busy chip.
Locked ==
  /\ \A p \in Procs : at[p] \in {"read", "wren", "write", "rdsr"} <=> lock = p
  /\ \A p \in Procs : lock # p => op[p] = NoOp
  /\ lock = NONE => spiPc = "idle" /\ ~chipBusy

\* The read or write under way, and what of it is in the chip.
Op == op[lock]

PagesStored == \A a \in Op.off - Op.written .. Op.off - 1 : mem[a] = Asked(Op, a)
PageStored  == \A a \in Op.off .. Op.off + Segment(Op) - 1 : mem[a] = Asked(Op, a)

Requested ==
  /\ Op.count > 0 /\ Op.off + Op.count <= Size /\ Op.written <= Op.off
  /\ Op.kind = (IF at[lock] = "read" THEN "read" ELSE "write")
  /\ Op.kind = "write" => Op.written + Op.count <= Len(Op.data)

Reading ==
  at[lock] = "read" =>
    /\ msg = ReadMessage(Op) /\ ~chipBusy
    /\ Answering => \A i \in 1 .. Len(answers) : answers[i] = mem[Op.off + i - 1]

Enabling ==
  at[lock] = "wren" =>
    /\ msg = WrenMessage /\ ~chipBusy
    /\ spiPc = "idle" /\ status = "0" => wel

Writing ==
  at[lock] = "write" =>
    /\ msg = WriteMessage(Op) /\ bits
    /\ IF spiPc = "idle" THEN PageStored ELSE wel /\ ~chipBusy

Polling ==
  at[lock] = "rdsr" =>
    /\ msg = RdsrMessage /\ bits /\ PageStored
    /\ Answering /\ answers = <<READY>> => ~chipBusy

Underway ==
  lock # NONE =>
    /\ Requested /\ Reading /\ Enabling /\ Writing /\ Polling
    /\ Op.kind = "write" => PagesStored

AT25Inv == TypeOK /\ IInv /\ MessageInv /\ Locked /\ Underway

-----------------------------------------------------------------------------
(* Constants and arithmetic                                                 *)

LEMMA Sizes ==
  /\ Size \in Nat \ {0} /\ Page \in Nat \ {0} /\ Page <= Size
  /\ Requests \subseteq Nat \X Nat
  /\ AT25_WREN \in Words /\ AT25_RDSR \in Words /\ AT25_READ \in Words
  /\ AT25_WRITE \in Words /\ READY \in Words /\ BUSY \in Words
  /\ Addresses \subseteq Words /\ Values \subseteq Words
  /\ BLANK \in Values /\ NONE \notin Procs
  BY AT25Assumption DEF Opcodes, Statuses

\* An address within a page.
LEMMA WithinPage ==
  ASSUME NEW P \in Nat \ {0}, NEW a \in Nat, NEW k \in Nat, (a % P) + k < P
  PROVE  (a + k) % P = (a % P) + k
<1> DEFINE q  == a \div P
           r  == a % P
           q2 == (a + k) \div P
           r2 == (a + k) % P
<1>1. q \in Int /\ q2 \in Int /\ r \in 0 .. P - 1 /\ r2 \in 0 .. P - 1 /\ r + k < P
  OBVIOUS
<1>2. a = P * q + r /\ a + k = P * q2 + r2
  OBVIOUS
<1> HIDE DEF q, r, q2, r2
<1>3. P * (q2 - q) = r + k - r2
  BY <1>1, <1>2
<1>4. /\ q2 - q >= 1  => P * (q2 - q) >= P
      /\ q2 - q <= -1 => P * (q2 - q) <= -P
  BY <1>1
<1>5. q2 = q
  BY <1>1, <1>3, <1>4
<1>6. r2 = r + k
  BY <1>1, <1>2, <1>5
<1> QED
  BY <1>6 DEF r, r2

\* A segment is a part of what is asked for, and of one page.
LEMMA SegmentFits ==
  ASSUME NEW o, o.off \in Nat, o.count \in Nat \ {0}
  PROVE  Segment(o) \in 1 .. o.count /\ (o.off % Page) + Segment(o) <= Page
<1>1. o.off % Page \in 0 .. Page - 1
  BY Sizes
<1> QED
  BY <1>1, Sizes DEF Segment

-----------------------------------------------------------------------------
(* The messages                                                             *)

LEMMA CommandType ==
  ASSUME NEW ws \in Seq(Words)
  PROVE  Sends(ws) \in Transfers
  BY DEF Sends, Transfers

LEMMA AnswerType ==
  ASSUME NEW n \in Nat
  PROVE  Gets(n) \in Transfers
<1>1. <<>> \in Seq(Words)
  BY EmptySeq
<1> QED
  BY <1>1 DEF Gets, Transfers

\* A message that only sends, and one that receives too.
LEMMA SendingIsSimple ==
  ASSUME NEW ws \in Seq(Words), bits \in BOOLEAN
  PROVE  LET m == Message(<<Sends(ws)>>) IN
         Simple(m) /\ Len(m.transfers) = 1 /\ m.transfers[1].tx = ws /\ m.supported = bits
<1> DEFINE ts == <<Sends(ws)>>
<1>1. ts \in Seq(Transfers) /\ Len(ts) = 1 /\ ts[1] = Sends(ws) /\ ts # <<>>
  BY CommandType
<1>2. Sends(ws).rx = 0 /\ Sends(ws).cs = FALSE /\ Sends(ws).tx = ws
  BY DEF Sends
<1> HIDE DEF ts
<1>3. /\ Message(ts) \in [supported : BOOLEAN, transfers : Seq(Transfers)]
      /\ Message(ts).transfers = ts /\ Message(ts).supported = bits
  BY <1>1 DEF Message
<1> QED
  BY <1>1, <1>2, <1>3 DEF Simple, IsMessage, ts

LEMMA AskingIsSimple ==
  ASSUME NEW ws \in Seq(Words), NEW n \in Nat, bits \in BOOLEAN
  PROVE  LET m == Message(<<Sends(ws), Gets(n)>>) IN
         /\ Simple(m) /\ Len(m.transfers) = 2
         /\ m.transfers[1].tx = ws /\ m.transfers[2].rx = n /\ m.supported = bits
<1> DEFINE ts == <<Sends(ws), Gets(n)>>
<1>1. /\ ts \in Seq(Transfers) /\ Len(ts) = 2 /\ ts # <<>>
      /\ ts[1] = Sends(ws) /\ ts[2] = Gets(n)
  BY CommandType, AnswerType
<1>2. /\ Sends(ws).rx = 0 /\ Sends(ws).cs = FALSE /\ Sends(ws).tx = ws
      /\ Gets(n).tx = <<>> /\ Gets(n).cs = FALSE /\ Gets(n).rx = n
  BY DEF Sends, Gets
<1> HIDE DEF ts
<1>3. /\ Message(ts) \in [supported : BOOLEAN, transfers : Seq(Transfers)]
      /\ Message(ts).transfers = ts /\ Message(ts).supported = bits
  BY <1>1 DEF Message
<1> QED
  BY <1>1, <1>2, <1>3 DEF Simple, IsMessage, ts

-----------------------------------------------------------------------------
(* A message, from its submission to its end                                *)

\* Where it can be.
LEMMA Position ==
  ASSUME IInv, MessageInv
  PROVE  /\ TypeInv /\ Receiver /\ Between
         /\ Len(Xfers) \in {1, 2} /\ cur \in 1 .. Len(Xfers) /\ cur \in {1, 2}
         /\ Xfers[1].tx \in Seq(Words) /\ Xfers[1].rx = 0 /\ T.cs = FALSE
         /\ cur = 2 => ~FirstOfFrame /\ T.tx = <<>>
         /\ cur = 1 => FirstOfFrame
<1>1. TypeInv /\ Receiver /\ Between /\ Simple(msg)
  BY DEF IInv, ReceiveInv, MessageInv
<1>2. Xfers \in Seq(Transfers) /\ cur \in 1 .. Len(Xfers)
  BY <1>1, TransferType
<1>3. Len(Xfers) \in {1, 2} /\ cur \in {1, 2}
  BY <1>1, <1>2 DEF Simple
<1>4. Xfers[1] \in Transfers
  BY <1>2, <1>3, ElementOfSeq
<1>5. Xfers[1].tx \in Seq(Words) /\ Xfers[1].rx = 0 /\ Xfers[1].cs = FALSE /\ T.cs = FALSE
  <2>1. Xfers[1].tx \in Seq(Words)
    BY <1>4 DEF Transfers
  <2>2. Xfers[1].rx = 0 /\ \A i \in 1 .. Len(Xfers) : Xfers[i].cs = FALSE
    BY <1>1 DEF Simple
  <2>3. 1 \in 1 .. Len(Xfers)
    BY <1>2, <1>3
  <2> QED
    BY <1>2, <2>1, <2>2, <2>3
<1>6. (cur = 2 => T.tx = <<>>) /\ (cur = 2 => ~FirstOfFrame) /\ (cur = 1 => FirstOfFrame)
  BY <1>1, <1>2, <1>3, <1>5 DEF Simple, FirstOfFrame
<1> QED
  BY <1>1, <1>2, <1>3, <1>5, <1>6

\* What the last step of a transfer leaves: everything sent and received.
LEMMA TransferDone ==
  ASSUME IInv, MessageInv, Return
  PROVE  /\ frame = Command /\ ~csChange
         /\ cur = 2 => bufs[2] = answers /\ Len(answers) = T.rx
<1>1. spiPc = "poll" /\ ~run /\ InTransfer
  BY DEF Return, InTransfer
<1>2. frame = due /\ due = Command
  BY <1>1, StoppedHasSent DEF MessageInv
<1>3. ~csChange
  BY <1>1, Position DEF Between
<1>4. xferStat = {} /\ rxFifo = <<>> /\ rxcr = 0
  BY <1>1 DEF IInv, ReceiveInv, Receiver
<1>5. /\ bufs[cur] \o rxFifo = answers /\ Len(answers) + rxcr = T.rx
      /\ bufs[cur] \in Seq(Words) /\ answers \in Seq(Words) /\ T.rx \in Nat
  <2>1. bufs \in Seq(Seq(Words)) /\ Len(bufs) = Len(Xfers) /\ answers \in Seq(Words)
    BY Position DEF TypeInv, SpiTypeOK
  <2>2. bufs[cur] \in Seq(Words)
    BY <2>1, Position, ElementOfSeq
  <2>3. T.rx \in Nat
    BY Position, TransferType
  <2> QED
    BY <1>1, <2>1, <2>2, <2>3 DEF IInv, ReceiveInv, Answered
<1>6. bufs[cur] = answers
  BY <1>4, <1>5, ConcatEmptySeq
<1>7. Len(answers) = T.rx
  BY <1>4, <1>5, LenProperties
<1> QED
  BY <1>2, <1>3, <1>6, <1>7

\* The chip answers the second transfer only, to the whole command, and no more
\* words than it is asked for.
LEMMA AnswersCommand ==
  ASSUME IInv, MessageInv, NEW w, HwReceive(w)
  PROVE  /\ Answering /\ InTransfer /\ frame = Command
         /\ Len(answers) \in Nat /\ Len(answers) < T.rx
         /\ answers' = Append(answers, w)
<1>1. run /\ rxcr > 0 /\ answers' = Append(answers, w)
  BY DEF HwReceive
<1>2. TypeInv /\ answers \in Seq(Words) /\ rxcr \in Nat /\ T.rx \in Nat
  BY Position, TransferType DEF TypeInv, SpiTypeOK
<1>3. Len(answers) \in Nat
  BY <1>2, LenProperties
<1>4. InTransfer /\ spiPc \in {"wait", "poll"}
  BY <1>1, Position DEF Receiver, InTransfer
<1>5. Len(answers) + rxcr = T.rx
  BY <1>4 DEF IInv, ReceiveInv, Answered
<1>6. Len(answers) < T.rx /\ T.rx # 0
  BY <1>1, <1>2, <1>3, <1>5
<1>7. cur = 2 /\ T.tx = <<>>
  BY <1>6, Position
<1>8. frame = due /\ due = Command
  BY <1>4, <1>7 DEF IInv, Sent, MessageInv
<1> QED
  BY <1>1, <1>3, <1>4, <1>6, <1>7, <1>8 DEF Answering

\* The message's progress is kept by every step, if at25.c submits nothing else.
LEMMA MessageNext ==
  ASSUME IInv, MessageInv, [SpiStep]_spiVars, Simple(msg)'
  PROVE  MessageInv'
<1>1. ASSUME NEW m, Submit(m) PROVE MessageInv'
  <2>1. /\ spiPc' = "setup" /\ cur' = 1 /\ status' = "0" /\ cs' = cs /\ spiPc = "idle"
    BY <1>1 DEF Submit
  <2>2. ~cs
    BY <2>1 DEF MessageInv, InTransfer
  <2> QED
    BY <2>1, <2>2 DEF MessageInv, InTransfer, Finished, Command
<1>2. CASE SetupXfer
  <2>1. /\ spiPc = "setup" /\ UNCHANGED <<msg, cur, csChange, due>>
    BY <1>2 DEF SetupXfer
  <2>2. csChange <=> cur = 1
    BY <2>1, Position DEF Between
  <2>3. status = "0"
    BY <2>1 DEF MessageInv
  <2>4. CASE cur = 2
    <3>1. spiPc' = "load" /\ status' = status /\ cs' = cs
      BY <1>2, <2>2, <2>4 DEF SetupXfer
    <3> QED
      BY <2>1, <2>3, <2>4, <3>1 DEF MessageInv, InTransfer, Finished, Command
  <2>5. CASE cur = 1 /\ msg.supported
    <3>1. spiPc' = "load" /\ status' = status /\ cs'
      BY <1>2, <2>2, <2>5 DEF SetupXfer
    <3> QED
      BY <2>1, <2>3, <2>5, <3>1 DEF MessageInv, InTransfer, Finished, Command
  <2>6. CASE cur = 1 /\ ~msg.supported
    <3>1. spiPc' = "done" /\ status' = "EINVAL" /\ cs' = cs
      BY <1>2, <2>2, <2>6 DEF SetupXfer
    <3> QED
      BY <2>1, <2>3, <2>6, <3>1 DEF MessageInv, InTransfer, Finished, Command
  <2> QED
    BY <2>4, <2>5, <2>6, Position
<1>3. CASE Load
  <2>1. /\ spiPc = "load" /\ spiPc' = "fill" /\ UNCHANGED <<msg, cur, status, cs>>
        /\ due' = (IF FirstOfFrame THEN <<>> ELSE due) \o T.tx
    BY <1>3 DEF Load
  <2>2. due' = Command
    <3>s. Command \in Seq(Words) /\ <<>> \o Command = Command /\ Command \o <<>> = Command
      <4> DEFINE c == Command
      <4>1. c \in Seq(Words)
        BY Position DEF Command
      <4> HIDE DEF c
      <4>2. <<>> \o c = c /\ c \o <<>> = c
        BY <4>1, ConcatEmptySeq
      <4> QED
        BY <4>1, <4>2 DEF c
    <3>1. CASE cur = 1
      <4>1. T.tx = Command /\ FirstOfFrame
        BY <3>1, Position DEF Command
      <4> QED
        BY <2>1, <3>s, <4>1
    <3>2. CASE cur = 2
      <4>1. due = Command /\ ~FirstOfFrame /\ T.tx = <<>>
        BY <2>1, <3>2, Position DEF MessageInv
      <4> QED
        BY <2>1, <3>s, <4>1
    <3> QED
      BY <3>1, <3>2, Position
  <2> QED
    BY <2>1, <2>2 DEF MessageInv, InTransfer, Finished, Command
<1>4. CASE Return
  <2>1. spiPc = "poll" /\ UNCHANGED <<msg, csChange, status, bufs, frame, due, answers>>
    BY <1>4 DEF Return
  <2>2. frame = Command /\ ~csChange /\ due = Command /\ cs /\ msg.supported /\ status = "0"
    BY <1>4, <2>1, TransferDone DEF MessageInv, InTransfer
  <2>3. CASE cur = Len(Xfers)
    <3>1. spiPc' = "done" /\ UNCHANGED <<cur, cs>>
      BY <1>4, <2>3 DEF Return
    <3>2. cur = 2 => bufs[2] = answers /\ Len(answers) = T.rx
      BY <1>4, TransferDone
    <3> QED
      BY <2>1, <2>2, <2>3, <3>1, <3>2 DEF MessageInv, InTransfer, Finished, Command
  <2>4. CASE cur # Len(Xfers)
    <3>1. spiPc' = "setup" /\ cur' = cur + 1 /\ cs' = (cs /\ ~csChange)
      BY <1>4, <2>4 DEF Return
    <3>2. cur' = 2
      <4> DEFINE n == Len(Xfers)
      <4>0. n \in {1, 2} /\ cur \in 1 .. n /\ cur # n
        BY <2>4, Position
      <4> HIDE DEF n
      <4>1. cur = 1
        BY <4>0
      <4> QED
        BY <3>1, <4>1
    <3> QED
      BY <2>1, <2>2, <3>1, <3>2 DEF MessageInv, InTransfer, Finished, Command
  <2> QED
    BY <2>3, <2>4
<1>5. CASE Finalize
  <2>1. /\ spiPc = "done" /\ spiPc' = "idle" /\ cs' = (cs /\ status = "0" /\ csChange)
        /\ UNCHANGED <<msg, cur, status, bufs, answers>>
    BY <1>5 DEF Finalize
  <2>2. ~cs'
    BY <2>1 DEF MessageInv
  <2> QED
    BY <2>1, <2>2 DEF MessageInv, InTransfer, Finished, Command
<1>6. CASE Fill \/ Start \/ Woken
  <2>1. /\ InTransfer /\ InTransfer' /\ spiPc' \notin {"setup", "load", "done", "idle"}
        /\ UNCHANGED <<msg, cur, status, cs, due>>
    BY <1>6 DEF Fill, Start, Woken, InTransfer
  <2> QED
    BY <2>1 DEF MessageInv, InTransfer, Finished, Command
<1>7. CASE IsrDrain \/ \E w \in Words : HwReceive(w)
  <2>1. spiPc \in {"fill", "start", "wait", "poll"}
    <3>1. CASE IsrDrain
      BY <3>1, Position DEF IsrDrain, Receiver
    <3>2. CASE \E w \in Words : HwReceive(w)
      BY <3>2, Position DEF HwReceive, Receiver
    <3> QED
      BY <1>7, <3>1, <3>2
  <2>2. UNCHANGED <<msg, cur, spiPc, status, cs, due>>
    BY <1>7 DEF IsrDrain, HwReceive
  <2> QED
    BY <2>1, <2>2 DEF MessageInv, InTransfer, Finished, Command
<1>8. CASE HwSend
  <2>1. spiPc \in {"fill", "start", "wait", "poll"}
    BY <1>8, Position DEF HwSend, Receiver
  <2>2. UNCHANGED <<msg, cur, spiPc, status, cs, due>>
    BY <1>8 DEF HwSend
  <2> QED
    BY <2>1, <2>2 DEF MessageInv, InTransfer, Finished, Command
<1>9. CASE IsrEnter \/ IsrDrained \/ IsrFill \/ IsrExit \/ HwStop \/ UNCHANGED spiVars
  <2>1. UNCHANGED <<msg, cur, spiPc, csChange, status, cs, due, frame, bufs, answers>>
    BY <1>9 DEF IsrEnter, IsrDrained, IsrFill, IsrExit, HwStop
  <2> QED
    BY <2>1 DEF MessageInv, InTransfer, Finished, Command
<1> QED
  BY <1>1, <1>2, <1>3, <1>4, <1>5, <1>6, <1>7, <1>8, <1>9 DEF SpiStep

-----------------------------------------------------------------------------
(* What the chip does with a WRITE                                          *)

\* The words of a WRITE, and the bytes of the chip behind it.
WriteOf(a, d)  == <<AT25_WRITE, a>> \o d
Overwritten(o) == [b \in Addresses |->
                     IF b \in o.off .. o.off + Segment(o) - 1 THEN Asked(o, b) ELSE mem[b]]

\* The words of a WRITE, and the data the chip finds among them.
LEMMA WriteWords ==
  ASSUME NEW a \in Words, NEW d \in Seq(Words), d # <<>>
  PROVE  LET ws == WriteOf(a, d) IN
         /\ ws \in Seq(Words) /\ Len(ws) > 2
         /\ ws[1] = AT25_WRITE /\ ws[2] = a
         /\ SubSeq(ws, 3, Len(ws)) = d
<1> DEFINE h    == <<AT25_WRITE, a>>
           n    == Len(d)
           ws   == h \o d
           data == SubSeq(ws, 3, Len(ws))
<1>1. h \in Seq(Words) /\ Len(h) = 2 /\ h[1] = AT25_WRITE /\ h[2] = a
  BY Sizes
<1>2. n \in Nat \ {0}
  BY EmptySeq, LenProperties
<1> HIDE DEF h
<1>3. /\ ws \in Seq(Words) /\ Len(ws) = 2 + n
      /\ \A i \in 1 .. 2 + n : ws[i] = IF i <= 2 THEN h[i] ELSE d[i - 2]
  <2>1. /\ ws \in Seq(Words) /\ Len(ws) = Len(h) + Len(d)
        /\ \A i \in 1 .. Len(h) + Len(d) : ws[i] = IF i <= Len(h) THEN h[i] ELSE d[i - Len(h)]
    BY <1>1, ConcatProperties
  <2>2. Len(h) = 2 /\ Len(d) = n
    BY <1>1
  <2> QED
    BY <2>1, <2>2
<1>4. ws[1] = AT25_WRITE /\ ws[2] = a
  BY <1>1, <1>2, <1>3
<1> HIDE DEF ws
<1>5. data \in Seq(Words) /\ Len(data) = n /\ \A i \in 1 .. n : data[i] = ws[2 + i]
  BY <1>2, <1>3, SubSeqProperties
<1>6. \A i \in 1 .. n : data[i] = d[i]
  BY <1>1, <1>2, <1>3, <1>5
<1>7. data = d
  BY <1>2, <1>5, <1>6, SeqEqual
<1> QED
  BY <1>2, <1>3, <1>4, <1>7 DEF ws, h, WriteOf

\* Within a page the chip stores them one behind the other, each where it was asked
\* for, and changes nothing else.
LEMMA ProgrammedWithinPage ==
  ASSUME NEW o, o.off \in Nat, o.written \in Nat, Segment(o) \in Nat \ {0},
         (o.off % Page) + Segment(o) <= Page
  PROVE  Programmed(o.off, Bytes(o)) = Overwritten(o)
<1> DEFINE d       == Bytes(o)
           a       == o.off
           n       == Segment(o)
           base    == a - (a % Page)
           here(b) == {i \in DOMAIN d : base + ((a + i - 1) % Page) = b}
<1>0. a \in Nat /\ n \in Nat \ {0} /\ (a % Page) + n <= Page
  OBVIOUS
<1>1. DOMAIN d = 1 .. n /\ \A i \in 1 .. n : d[i] = Asked(o, a + i - 1)
  <2>1. DOMAIN d = 1 .. n /\ \A i \in 1 .. n : d[i] = o.data[o.written + i]
    BY DEF Bytes
  <2>2. ASSUME NEW i \in 1 .. n PROVE o.written + i = (a + i - 1) - (o.off - o.written) + 1
    OBVIOUS
  <2> HIDE DEF d
  <2> QED
    BY <2>1, <2>2 DEF Asked
<1> HIDE DEF a, n, d
<1>2. Page \in Nat \ {0} /\ a % Page \in Nat
  BY <1>0, Sizes
<1>3. ASSUME NEW i \in 1 .. n PROVE base + ((a + i - 1) % Page) = a + i - 1
  <2>1. i - 1 \in Nat /\ (a % Page) + (i - 1) < Page
    BY <1>0, <1>2
  <2>2. (a + (i - 1)) % Page = (a % Page) + (i - 1)
    BY <1>0, <1>2, <2>1, WithinPage
  <2> DEFINE r == a % Page
  <2>3. base = a - r /\ (a + i - 1) % Page = r + (i - 1) /\ r \in Nat
    <3>1. a + i - 1 = a + (i - 1)
      BY <1>0
    <3> QED
      BY <1>0, <1>2, <2>2, <3>1
  <2> HIDE DEF base, r
  <2> QED
    BY <1>0, <2>3
<1> HIDE DEF base
<1>4. \A b \in Addresses : here(b) = {i \in 1 .. n : a + i - 1 = b}
  BY <1>1, <1>3
<1>5. ASSUME NEW b \in Addresses
      PROVE  (IF here(b) = {} THEN mem[b]
              ELSE d[CHOOSE i \in here(b) : \A j \in here(b) : j <= i])
               = IF b \in a .. a + n - 1 THEN Asked(o, b) ELSE mem[b]
  <2>1. b \in Nat
    BY Sizes DEF Addresses
  <2>2. here(b) = {i \in 1 .. n : a + i - 1 = b}
    BY <1>4
  <2> HIDE DEF here
  <2>3. CASE b \in a .. a + n - 1
    <3>1. here(b) = {b - a + 1} /\ b - a + 1 \in 1 .. n
      BY <1>0, <2>1, <2>2, <2>3
    <3>2. \A i \in here(b) : d[i] = Asked(o, b)
      <4>1. d[b - a + 1] = Asked(o, a + (b - a + 1) - 1)
        BY <1>1, <3>1
      <4>2. a + (b - a + 1) - 1 = b
        BY <1>0, <2>1
      <4> QED
        BY <3>1, <4>1, <4>2
    <3>3. (CHOOSE i \in here(b) : \A j \in here(b) : j <= i) \in here(b)
      <4>1. \E i \in here(b) : \A j \in here(b) : j <= i
        BY <3>1
      <4> QED
        BY <4>1
    <3> QED
      BY <2>3, <3>1, <3>2, <3>3
  <2>4. CASE b \notin a .. a + n - 1
    <3>1. here(b) = {}
      BY <1>0, <2>1, <2>2, <2>4
    <3> QED
      BY <2>4, <3>1
  <2> QED
    BY <2>3, <2>4
<1>6. Programmed(a, d)
        = [b \in Addresses |->
             IF here(b) = {} THEN mem[b]
             ELSE d[CHOOSE i \in here(b) : \A j \in here(b) : j <= i]]
  BY DEF Programmed, base
<1> HIDE DEF here
<1>7. Programmed(a, d) = Overwritten(o)
  BY <1>5, <1>6 DEF Overwritten, a, n
<1> QED
  BY <1>7 DEF d, a

-----------------------------------------------------------------------------
(* The operation under way                                                  *)

\* The types of what SpiTypeOK does not speak of.
CallTypes ==
  /\ lock \in Procs \cup {NONE}
  /\ op \in [Procs -> [kind : {"none", "read", "write"}, off : 0 .. Size,
                       count : 0 .. Size, written : 0 .. Size, data : Seq(Values)]]
  /\ at \in [Procs -> {"idle", "lock", "read", "wren", "write", "rdsr"}]
  /\ retries \in 0 .. 4
  /\ result.n \in 0 .. Size
  /\ result.err \in {"none", "EINVAL", "ETIMEDOUT"}
  /\ result.data \in Seq(Words)
  /\ bits \in BOOLEAN
  /\ mem \in [Addresses -> Values]
  /\ wel \in BOOLEAN /\ chipBusy \in BOOLEAN

LEMMA TypesTogether == TypeOK <=> SpiTypeOK /\ CallTypes
  BY DEF TypeOK, CallTypes

\* Its offsets lie in the chip.
LEMMA OpType ==
  ASSUME CallTypes, Underway, lock # NONE
  PROVE  /\ lock \in Procs /\ Op \in [kind : {"none", "read", "write"}, off : 0 .. Size,
                       count : 0 .. Size, written : 0 .. Size, data : Seq(Values)]
         /\ Op.off \in Nat /\ Op.count \in Nat \ {0} /\ Op.written \in Nat
         /\ Op.off + Op.count <= Size /\ Op.written <= Op.off
         /\ Op.off \in Addresses /\ Op.off \in Words
         /\ Segment(Op) \in 1 .. Op.count
         /\ (Op.off % Page) + Segment(Op) <= Page
         /\ Op.kind = "write" =>
              /\ Bytes(Op) \in Seq(Words) /\ Bytes(Op) # <<>>
              /\ \A a \in Op.off .. Op.off + Segment(Op) - 1 : Asked(Op, a) \in Values
<1>1. lock \in Procs
  BY DEF CallTypes
<1>2. Op \in [kind : {"none", "read", "write"}, off : 0 .. Size,
              count : 0 .. Size, written : 0 .. Size, data : Seq(Values)]
  BY <1>1 DEF CallTypes, Op
<1>3. Op.count > 0 /\ Op.off + Op.count <= Size /\ Op.written <= Op.off
  BY DEF Underway, Requested
<1>4. /\ Op.off \in 0 .. Size /\ Op.count \in 0 .. Size /\ Op.written \in 0 .. Size
      /\ Op.data \in Seq(Values)
  BY <1>2
<1>5. /\ Op.off \in Nat /\ Op.count \in Nat \ {0} /\ Op.written \in Nat
      /\ Op.off \in 0 .. Size - 1
  BY <1>3, <1>4, Sizes
<1>6. Op.off \in Words
  BY <1>5, Sizes DEF Addresses
<1>7. Segment(Op) \in 1 .. Op.count /\ (Op.off % Page) + Segment(Op) <= Page
  BY <1>5, SegmentFits
<1>8. ASSUME Op.kind = "write"
      PROVE  /\ Bytes(Op) \in Seq(Words) /\ Bytes(Op) # <<>>
             /\ \A a \in Op.off .. Op.off + Segment(Op) - 1 : Asked(Op, a) \in Values
  <2>1. Op.written + Op.count <= Len(Op.data) /\ Len(Op.data) \in Nat
    BY <1>4, <1>8, LenProperties DEF Underway, Requested
  <2> DEFINE n == Segment(Op)
             d == Op.data
             w == Op.written
  <2>2. n \in Nat \ {0} /\ w \in Nat /\ w + n <= Len(d) /\ d \in Seq(Values) /\ Len(d) \in Nat
    BY <1>4, <1>5, <1>7, <2>1
  <2>3. Bytes(Op) = [i \in 1 .. n |-> d[w + i]]
    BY DEF Bytes
  <2>4. \A a \in Op.off .. Op.off + n - 1 : a - (Op.off - w) + 1 \in 1 .. Len(d)
    <3> DEFINE f == Op.off
    <3>1. f \in Nat /\ w <= f
      BY <1>3, <1>5
    <3> HIDE DEF n, d, w, f
    <3>2. \A a \in f .. f + n - 1 : a - (f - w) + 1 \in 1 .. Len(d)
      BY <2>2, <3>1
    <3> QED
      BY <3>2 DEF f
  <2>5. \A a : Asked(Op, a) = d[a - (Op.off - w) + 1]
    BY DEF Asked
  <2> HIDE DEF n, d, w
  <2>6. \A i \in 1 .. Len(d) : d[i] \in Values
    BY <2>2, ElementOfSeq
  <2>7. \A i \in 1 .. n : w + i \in 1 .. Len(d)
    BY <2>2
  <2>8. Bytes(Op) \in [1 .. n -> Words]
    BY <2>3, <2>6, <2>7, Sizes
  <2>9. Bytes(Op) \in Seq(Words) /\ Len(Bytes(Op)) = n
    BY <2>2, <2>8, SeqDef, LenProperties
  <2> QED
    BY <2>2, <2>4, <2>5, <2>6, <2>9, EmptySeq DEF n
<1> QED
  BY <1>1, <1>2, <1>3, <1>4, <1>5, <1>6, <1>7, <1>8 DEF Addresses

\* It and its messages stay the same where at25.c does not go on.
LEMMA SameOp ==
  ASSUME UNCHANGED <<op, lock, bits>>
  PROVE  /\ Op' = Op /\ Segment(Op)' = Segment(Op)
         /\ ReadMessage(Op)' = ReadMessage(Op) /\ WriteMessage(Op)' = WriteMessage(Op)
         /\ WrenMessage' = WrenMessage /\ RdsrMessage' = RdsrMessage
<1>1. Op' = Op
  BY DEF Op
<1>2. Segment(Op)' = Segment(Op)
  BY <1>1 DEF Segment
<1>3. ReadMessage(Op)' = ReadMessage(Op)
  BY <1>1 DEF ReadMessage, Message, Sends, Gets
<1>4. WriteMessage(Op)' = WriteMessage(Op)
  BY <1>1 DEF WriteMessage, Message, Sends
<1>5. WrenMessage' = WrenMessage /\ RdsrMessage' = RdsrMessage
  BY DEF WrenMessage, RdsrMessage, Message, Sends, Gets
<1> QED
  BY <1>1, <1>2, <1>3, <1>4, <1>5

\* Its messages are simple, and what they say.
LEMMA WrenIs ==
  ASSUME bits \in BOOLEAN
  PROVE  /\ Simple(WrenMessage) /\ WrenMessage.supported = bits
         /\ Len(WrenMessage.transfers) = 1
         /\ WrenMessage.transfers[1].tx = <<AT25_WREN>>
  BY Sizes, SendingIsSimple, <<AT25_WREN>> \in Seq(Words) DEF WrenMessage

LEMMA RdsrIs ==
  ASSUME bits \in BOOLEAN
  PROVE  /\ Simple(RdsrMessage) /\ RdsrMessage.supported = bits
         /\ Len(RdsrMessage.transfers) = 2
         /\ RdsrMessage.transfers[1].tx = <<AT25_RDSR>>
         /\ RdsrMessage.transfers[2].rx = 1
  BY Sizes, AskingIsSimple, <<AT25_RDSR>> \in Seq(Words) DEF RdsrMessage

LEMMA ReadIs ==
  ASSUME bits \in BOOLEAN, NEW o, o.off \in Words, o.count \in Nat
  PROVE  /\ Simple(ReadMessage(o)) /\ ReadMessage(o).supported = bits
         /\ Len(ReadMessage(o).transfers) = 2
         /\ ReadMessage(o).transfers[1].tx = <<AT25_READ, o.off>>
         /\ ReadMessage(o).transfers[2].rx = o.count
<1> DEFINE ws == <<AT25_READ, o.off>>
<1>1. ws \in Seq(Words)
  BY Sizes
<1>2. ReadMessage(o) = Message(<<Sends(ws), Gets(o.count)>>)
  BY DEF ReadMessage
<1> HIDE DEF ws
<1>3. /\ Simple(ReadMessage(o)) /\ ReadMessage(o).supported = bits
      /\ Len(ReadMessage(o).transfers) = 2
      /\ ReadMessage(o).transfers[1].tx = ws
      /\ ReadMessage(o).transfers[2].rx = o.count
  BY <1>1, <1>2, AskingIsSimple
<1> QED
  BY <1>3 DEF ws

LEMMA WriteIs ==
  ASSUME bits \in BOOLEAN, NEW o, o.off \in Words, Bytes(o) \in Seq(Words), Bytes(o) # <<>>
  PROVE  LET ws == WriteMessage(o).transfers[1].tx IN
         /\ Simple(WriteMessage(o)) /\ WriteMessage(o).supported = bits
         /\ Len(WriteMessage(o).transfers) = 1
         /\ Len(ws) > 2 /\ ws[1] = AT25_WRITE /\ ws[2] = o.off
         /\ SubSeq(ws, 3, Len(ws)) = Bytes(o)
<1> DEFINE ws == WriteOf(o.off, Bytes(o))
<1>1. /\ ws \in Seq(Words) /\ Len(ws) > 2 /\ ws[1] = AT25_WRITE /\ ws[2] = o.off
      /\ SubSeq(ws, 3, Len(ws)) = Bytes(o)
  <2>1. /\ ws \in Seq(Words) /\ Len(ws) > 2 /\ ws[1] = AT25_WRITE /\ ws[2] = o.off
    BY WriteWords DEF AT25_WRITE
  <2>2. SubSeq(ws, 3, Len(ws)) = Bytes(o)
    BY WriteWords, Zenon
  <2> QED
    BY <2>1, <2>2
<1>2. WriteMessage(o) = Message(<<Sends(ws)>>)
  BY DEF WriteMessage, WriteOf
<1> HIDE DEF ws
<1> QED
  BY <1>1, <1>2, SendingIsSimple

-----------------------------------------------------------------------------
(* What the chip sees                                                       *)

\* It is deselected by a message of the operation under way that was carried
\* out: a WREN sets the latch, a WRITE stores its page, others change nothing.
LEMMA ChipDeselected ==
  ASSUME ChipEnv = {}, AT25Inv, BusEnd
  PROVE  /\ lock # NONE /\ spiPc = "done"
         /\ at[lock] \in {"read", "rdsr"} => UNCHANGED chipVars
         /\ at[lock] = "wren" => UNCHANGED <<mem, chipBusy>> /\ (status = "0" => wel')
         /\ at[lock] = "write" => mem' = Overwritten(Op)
<1>1. /\ spiPc = "done" /\ lock # NONE /\ (cs <=> status = "0") /\ (cs => frame = Command)
      /\ bits \in BOOLEAN
  BY DEF AT25Inv, BusEnd, Finalize, MessageInv, InTransfer, Locked, TypeOK
<1>t. Op.off \in Nat /\ Op.off \in Words /\ Op.written \in Nat /\ Op.count \in Nat
      /\ Segment(Op) \in Nat \ {0} /\ (Op.off % Page) + Segment(Op) <= Page
      /\ (Op.kind = "write" => Bytes(Op) \in Seq(Words) /\ Bytes(Op) # <<>>)
  BY <1>1, OpType, TypesTogether DEF AT25Inv
<1>2. CASE ~cs
  <2>1. UNCHANGED chipVars /\ status # "0"
    BY <1>1, <1>2 DEF BusEnd
  <2>2. ASSUME at[lock] = "write" PROVE FALSE
    <3>1. ~msg.supported
      BY <2>1 DEF AT25Inv, MessageInv
    <3>2. msg = WriteMessage(Op) /\ bits /\ Op.kind = "write"
      BY <1>1, <2>2 DEF AT25Inv, Underway, Writing, Requested
    <3> QED
      BY <1>t, <3>1, <3>2, WriteIs
  <2> QED
    BY <1>1, <2>1, <2>2
<1>3. CASE cs
  <2>0. Deselected /\ frame = Command /\ status = "0"
    BY <1>1, <1>3 DEF BusEnd
  <2>1. ASSUME at[lock] = "read" PROVE UNCHANGED chipVars
    <3>1. frame = <<AT25_READ, Op.off>>
      BY <1>1, <1>t, <2>0, <2>1, ReadIs DEF AT25Inv, Underway, Reading, Command
    <3> QED
      BY <2>0, <3>1 DEF Deselected, AT25_READ, AT25_WREN, AT25_WRITE
  <2>2. ASSUME at[lock] = "rdsr" PROVE UNCHANGED chipVars
    <3>1. frame = <<AT25_RDSR>>
      BY <1>1, <2>0, <2>2, RdsrIs DEF AT25Inv, Underway, Polling, Command
    <3> QED
      BY <2>0, <3>1 DEF Deselected, AT25_RDSR, AT25_WREN, AT25_WRITE
  <2>3. ASSUME at[lock] = "wren" PROVE UNCHANGED <<mem, chipBusy>> /\ wel'
    <3>1. frame = <<AT25_WREN>> /\ ~chipBusy
      BY <1>1, <2>0, <2>3, WrenIs DEF AT25Inv, Underway, Enabling, Command
    <3> QED
      BY <2>0, <3>1 DEF Deselected, AT25_WREN, AT25_WRITE
  <2>4. ASSUME at[lock] = "write"
        PROVE  mem' = Overwritten(Op)
    <3>1. wel /\ ~chipBusy /\ msg = WriteMessage(Op) /\ Op.kind = "write"
      BY <1>1, <2>4 DEF AT25Inv, Underway, Writing, Requested
    <3>2. /\ frame[1] = AT25_WRITE /\ frame[2] = Op.off /\ Len(frame) > 2
          /\ SubSeq(frame, 3, Len(frame)) = Bytes(Op)
      BY <1>1, <1>t, <2>0, <3>1, WriteIs DEF Command
    <3>3. frame # <<>> /\ frame # <<AT25_WREN>>
      BY <3>2 DEF AT25_WREN, AT25_WRITE
    <3>4. mem' = Programmed(frame[2], SubSeq(frame, 3, Len(frame)))
      BY <2>0, <3>1, <3>2, <3>3 DEF Deselected, Protected
    <3>5. mem' = Programmed(Op.off, Bytes(Op))
      BY <3>2, <3>4
    <3> QED
      BY <1>t, <3>5, ProgrammedWithinPage
  <2> QED
    BY <1>1, <2>0, <2>1, <2>2, <2>3, <2>4
<1> QED
  BY <1>2, <1>3

\* It answers a READ and an RDSR only: what is stored, one byte behind the
\* other, and its status.
LEMMA ChipAnswers ==
  ASSUME AT25Inv, NEW w, HwReceive(w)
  PROVE  /\ lock # NONE /\ at[lock] \in {"read", "rdsr"}
         /\ at[lock] = "read" =>
              /\ Len(answers) < Op.count /\ Op.off + Len(answers) \in Addresses
              /\ Answer = mem[Op.off + Len(answers)]
         /\ at[lock] = "rdsr" =>
              answers = <<>> /\ Answer = IF chipBusy THEN BUSY ELSE READY
<1>1. IInv /\ MessageInv /\ CallTypes /\ Locked /\ Underway /\ SpiTypeOK
  BY TypesTogether DEF AT25Inv
<1>2. /\ Answering /\ InTransfer /\ frame = Command
      /\ Len(answers) \in Nat /\ Len(answers) < T.rx
  BY <1>1, AnswersCommand
<1>3. lock # NONE /\ spiPc # "idle" /\ cur = 2 /\ Len(Xfers) = 2
  <2> DEFINE n == Len(Xfers)
  <2>1. n \in {1, 2} /\ cur \in 1 .. n
    BY <1>1, Position
  <2> HIDE DEF n
  <2>2. cur = 2
    BY <1>2 DEF Answering
  <2>3. n = 2
    BY <2>1, <2>2
  <2> QED
    BY <1>1, <1>2, <2>2, <2>3 DEF Locked, InTransfer, n
<1>4. /\ lock \in Procs /\ bits \in BOOLEAN /\ Op.off \in Nat /\ Op.off \in Words
      /\ Op.count \in Nat /\ Op.off + Op.count <= Size
      /\ (Op.kind = "write" => Bytes(Op) \in Seq(Words) /\ Bytes(Op) # <<>>)
  BY <1>1, <1>3, OpType DEF CallTypes
<1>5. at[lock] \in {"read", "wren", "write", "rdsr"}
  BY <1>1, <1>4 DEF Locked
<1>6. at[lock] # "wren"
  <2>1. at[lock] = "wren" => msg = WrenMessage
    BY <1>1, <1>3 DEF Underway, Enabling
  <2>2. Len(WrenMessage.transfers) = 1
    BY <1>4, WrenIs
  <2> QED
    BY <1>3, <2>1, <2>2
<1>7. at[lock] # "write"
  <2>1. at[lock] = "write" => msg = WriteMessage(Op) /\ Op.kind = "write"
    BY <1>1, <1>3 DEF Underway, Writing, Requested
  <2>2. Op.kind = "write" => Len(WriteMessage(Op).transfers) = 1
    BY <1>4, WriteIs
  <2> QED
    BY <1>3, <2>1, <2>2
<1>8. ASSUME at[lock] = "read"
      PROVE  /\ Len(answers) < Op.count /\ Op.off + Len(answers) \in Addresses
             /\ Answer = mem[Op.off + Len(answers)]
  <2>1. msg = ReadMessage(Op) /\ ~chipBusy
    BY <1>1, <1>3, <1>8 DEF Underway, Reading
  <2>2. Command = <<AT25_READ, Op.off>> /\ T.rx = Op.count
    BY <1>3, <1>4, <2>1, ReadIs DEF Command
  <2>3. frame[1] = AT25_READ /\ frame[2] = Op.off
    BY <1>2, <2>2
  <2>4. Answer = mem[(Op.off + Len(answers)) % Size]
    BY <2>1, <2>3 DEF Answer, AT25_READ, AT25_RDSR
  <2> DEFINE k == Len(answers)
  <2>5. k \in Nat /\ k < Op.count
    BY <1>2, <2>2
  <2> HIDE DEF k
  <2>6. Op.off + k \in 0 .. Size - 1 /\ Size \in Nat \ {0}
    BY <1>4, <2>5, Sizes
  <2>7. (Op.off + k) % Size = Op.off + k
    BY <2>6
  <2> QED
    BY <2>4, <2>5, <2>6, <2>7 DEF Addresses, k
<1>9. ASSUME at[lock] = "rdsr"
      PROVE  answers = <<>> /\ Answer = IF chipBusy THEN BUSY ELSE READY
  <2>1. msg = RdsrMessage
    BY <1>1, <1>3, <1>9 DEF Underway, Polling
  <2>2. Command = <<AT25_RDSR>> /\ T.rx = 1
    BY <1>3, <1>4, <2>1, RdsrIs DEF Command
  <2>3. answers \in Seq(Words) /\ Len(answers) = 0
    BY <1>1, <1>2, <2>2 DEF SpiTypeOK
  <2>4. answers = <<>>
    BY <2>3, EmptySeq
  <2> QED
    BY <1>2, <2>2, <2>4 DEF Answer
<1> QED
  BY <1>3, <1>5, <1>6, <1>7, <1>8, <1>9

LEMMA AnswerIsWord ==
  ASSUME AT25Inv, HwReceive(Answer)
  PROVE  Answer \in Words
<1>1. mem \in [Addresses -> Values]
  BY DEF AT25Inv, TypeOK
<1> QED
  BY <1>1, ChipAnswers, Sizes

\* What a step of the bus driver, the controller or the chip's answer can do to
\* the message of at25.c.
LEMMA BusStep ==
  ASSUME AT25Inv, Bus
  PROVE  /\ UNCHANGED <<msg, procVars, bits, chipVars>>
         /\ spiPc' = "idle" <=> spiPc = "idle"
         /\ spiPc = "idle" => status' = status
         /\ Answering' => \/ answers' = <<>>
                          \/ Answering /\ answers' = answers
                          \/ /\ Answering /\ HwReceive(Answer)
                             /\ answers \in Seq(Words) /\ Len(answers) \in Nat
                             /\ answers' = Append(answers, Answer)
<1>1. IInv /\ MessageInv /\ answers \in Seq(Words)
  BY DEF AT25Inv, TypeOK, SpiTypeOK
<1>2. UNCHANGED <<procVars, bits, chipVars>>
  BY DEF Bus
<1>3. CASE SetupXfer
  <2>1. cur = 2 => ~csChange
    BY <1>1, <1>3, Position DEF SetupXfer, Between
  <2> QED
    BY <1>2, <1>3, <2>1 DEF SetupXfer, Answering
<1>4. CASE Load
  BY <1>2, <1>4 DEF Load
<1>5. CASE Fill \/ Start \/ Woken
  BY <1>2, <1>5 DEF Fill, Start, Woken, Answering
<1>6. CASE Return
  <2>1. Answering' => cur = 2
    BY <1>6 DEF Return, Answering
  <2> QED
    BY <1>2, <1>6, <2>1 DEF Return, Answering
<1>7. CASE IsrEnter \/ IsrDrain \/ IsrDrained \/ IsrFill \/ IsrExit \/ HwSend \/ HwStop
  <2>1. UNCHANGED <<msg, cur, spiPc, status, answers>>
    BY <1>7 DEF IsrEnter, IsrDrain, IsrDrained, IsrFill, IsrExit, HwSend, HwStop
  <2> QED
    BY <1>2, <2>1 DEF Answering
<1>8. CASE HwReceive(Answer)
  <2>1. UNCHANGED <<msg, cur, spiPc, status>>
    BY <1>8 DEF HwReceive
  <2>2. Answering /\ Len(answers) \in Nat /\ answers' = Append(answers, Answer)
    BY <1>1, <1>8, AnswersCommand
  <2> QED
    BY <1>1, <1>2, <1>8, <2>1, <2>2
<1> QED
  BY <1>3, <1>4, <1>5, <1>6, <1>7, <1>8 DEF Bus

-----------------------------------------------------------------------------
(* The steps of at25.c                                                      *)

LEMMA NoOpType == NoOp \in [kind : {"none", "read", "write"}, off : 0 .. Size,
                            count : 0 .. Size, written : 0 .. Size, data : Seq(Values)]
  BY Sizes, EmptySeq DEF NoOp

\* A process whose message has been carried out holds the mutex.
LEMMA SyncedHolds ==
  ASSUME AT25Inv, NEW p \in Procs, NEW s \in {"read", "wren", "write", "rdsr"}, Synced(p, s)
  PROVE  /\ lock = p /\ lock # NONE /\ at[lock] = s /\ spiPc = "idle" /\ op[p] = Op
         /\ Requested /\ Reading /\ Enabling /\ Writing /\ Polling
         /\ Op.kind = "write" => PagesStored
         /\ status = "0" => msg.supported
         /\ status # "0" => status = "EINVAL" /\ ~msg.supported
         /\ status = "0" => cur = Len(Xfers)
         /\ status = "0" /\ cur = 2 => bufs[2] = answers /\ Len(answers) = T.rx
         /\ CallTypes
<1>1. at[p] = s /\ spiPc = "idle"
  BY DEF Synced
<1>2. lock = p /\ lock # NONE
  BY <1>1, Sizes DEF AT25Inv, Locked
<1>3. op[p] = Op /\ at[lock] = s
  BY <1>1, <1>2 DEF Op
<1>4. CallTypes
  BY TypesTogether DEF AT25Inv
<1> QED
  BY <1>1, <1>2, <1>3, <1>4 DEF AT25Inv, Underway, MessageInv, Finished

\* Leaving at25->lock.
LEMMA Unlocked ==
  ASSUME AT25Inv, NEW p \in Procs, lock = p, lock' = NONE,
         at' = [at EXCEPT ![p] = "idle"], op' = [op EXCEPT ![p] = NoOp],
         spiPc' = "idle", ~chipBusy'
  PROVE  Locked' /\ Underway'
<1>1. at \in [Procs -> {"idle", "lock", "read", "wren", "write", "rdsr"}] /\ DOMAIN op = Procs
  BY TypesTogether DEF AT25Inv, CallTypes
<1>2. \A q \in Procs : at'[q] = (IF q = p THEN "idle" ELSE at[q])
                       /\ op'[q] = (IF q = p THEN NoOp ELSE op[q])
  BY <1>1
<1>3. \A q \in Procs : q # p => /\ at[q] \notin {"read", "wren", "write", "rdsr"}
                                /\ op[q] = NoOp
  BY DEF AT25Inv, Locked
<1>4. Locked'
  BY <1>2, <1>3, Sizes DEF Locked
<1> QED
  BY <1>4 DEF Underway

\* Going on with it, or taking it.
LEMMA StillLocked ==
  ASSUME AT25Inv, NEW p \in Procs, lock' = p, lock \in {p, NONE},
         at'[p] \in {"read", "wren", "write", "rdsr"},
         \A q \in Procs : q # p => at'[q] = at[q] /\ op'[q] = op[q]
  PROVE  Locked' /\ Op' = op'[p] /\ lock' # NONE
<1>1. \A q \in Procs : q # p => /\ at[q] \notin {"read", "wren", "write", "rdsr"}
                                /\ op[q] = NoOp
  BY Sizes DEF AT25Inv, Locked
<1> QED
  BY <1>1, Sizes DEF Locked, Op

LEMMA CallNext ==
  ASSUME AT25Inv, NEW p \in Procs, Call(p)
  PROVE  CallTypes' /\ Locked' /\ Underway'
<1>1. /\ at[p] = "idle" /\ at' = [at EXCEPT ![p] = "lock"]
      /\ UNCHANGED <<spiVars, lock, op, retries, result, bits, chipVars>>
  BY DEF Call
<1>2. CallTypes /\ Locked /\ Underway
  BY TypesTogether DEF AT25Inv
<1>3. CallTypes'
  BY <1>1, <1>2 DEF CallTypes
<1>4. \A q \in Procs : at'[q] = IF q = p THEN "lock" ELSE at[q]
  BY <1>1, <1>2 DEF CallTypes
<1>5. Locked'
  BY <1>1, <1>2, <1>4 DEF Locked
<1>6. ASSUME lock # NONE PROVE at'[lock'] = at[lock]
  <2>1. lock \in Procs /\ lock # p
    BY <1>1, <1>2, <1>6 DEF CallTypes, Locked
  <2> QED
    BY <1>1, <1>4, <2>1
<1>7. Underway'
  <2>1. SUFFICES ASSUME lock # NONE PROVE Underway'
    BY <1>1 DEF Underway
  <2>2. at'[lock'] = at[lock]
    BY <1>6, <2>1
  <2> QED
    BY <1>1, <1>2, <2>1, <2>2, SameOp
    DEF Underway, Requested, Reading, Enabling, Writing, Polling, PageStored, PagesStored,
        Answering
<1> QED
  BY <1>3, <1>5, <1>7

LEMMA LockNext ==
  ASSUME AT25Inv, NEW p \in Procs, Lock(p)
  PROVE  CallTypes' /\ Locked' /\ Underway' /\ \E m : Submit(m) /\ Simple(m)
<1>1. /\ lock = NONE /\ lock' = p /\ result' = NoResult
      /\ UNCHANGED <<retries, bits, chipVars>>
  BY DEF Lock
<1>2. CallTypes /\ Locked /\ ~chipBusy
  BY <1>1, TypesTogether DEF AT25Inv, Locked
<1>3. PICK r \in Requests :
        /\ r[1] < Size /\ r[2] > 0
        /\ LET o == [off |-> r[1], count |-> Clipped(r[1], r[2]), written |-> 0,
                     kind |-> "read", data |-> <<>>] IN
           \/ /\ op' = [op EXCEPT ![p] = o]
              /\ at' = [at EXCEPT ![p] = "read"]
              /\ Submit(ReadMessage(o))
           \/ \E d \in Buffers :
                /\ Len(d) = r[2]
                /\ op' = [op EXCEPT ![p] = [o EXCEPT !.kind = "write", !.data = d]]
                /\ at' = [at EXCEPT ![p] = "wren"]
                /\ Submit(WrenMessage)
  BY DEF Lock
<1> DEFINE n == Clipped(r[1], r[2])
<1>4. r[1] \in Nat /\ r[2] \in Nat /\ r[1] < Size /\ r[2] > 0 /\ Size \in Nat
  BY <1>3, Sizes
<1>5. n \in Nat /\ n > 0 /\ r[1] + n <= Size /\ n <= r[2]
  BY <1>4 DEF Clipped
<1> HIDE DEF n
<1>6. PICK o, s :
        /\ o \in [kind : {"read", "write"}, off : 0 .. Size, count : 0 .. Size,
                  written : 0 .. Size, data : Seq(Values)]
        /\ o.off = r[1] /\ o.count = n /\ o.written = 0
        /\ o.kind = "write" => n <= Len(o.data)
        /\ s = (IF o.kind = "read" THEN "read" ELSE "wren")
        /\ op' = [op EXCEPT ![p] = o] /\ at' = [at EXCEPT ![p] = s]
        /\ Submit(IF o.kind = "read" THEN ReadMessage(o) ELSE WrenMessage)
  <2> DEFINE o1 == [off |-> r[1], count |-> n, written |-> 0, kind |-> "read", data |-> <<>>]
  <2>0. /\ r[1] \in 0 .. Size /\ n \in 0 .. Size /\ 0 \in 0 .. Size /\ <<>> \in Seq(Values)
    BY <1>4, <1>5, Sizes, EmptySeq
  <2>1. CASE /\ op' = [op EXCEPT ![p] = o1] /\ at' = [at EXCEPT ![p] = "read"]
             /\ Submit(ReadMessage(o1))
    <3>1. /\ o1 \in [kind : {"read", "write"}, off : 0 .. Size, count : 0 .. Size,
                     written : 0 .. Size, data : Seq(Values)]
          /\ o1.off = r[1] /\ o1.count = n /\ o1.written = 0 /\ o1.kind = "read"
      BY <2>0
    <3> HIDE DEF o1
    <3> QED
      BY <2>1, <3>1
  <2>2. ASSUME NEW d \in Buffers, Len(d) = r[2],
               op' = [op EXCEPT ![p] = [o1 EXCEPT !.kind = "write", !.data = d]],
               at' = [at EXCEPT ![p] = "wren"], Submit(WrenMessage)
        PROVE  \E o, s :
                 /\ o \in [kind : {"read", "write"}, off : 0 .. Size, count : 0 .. Size,
                           written : 0 .. Size, data : Seq(Values)]
                 /\ o.off = r[1] /\ o.count = n /\ o.written = 0
                 /\ o.kind = "write" => n <= Len(o.data)
                 /\ s = (IF o.kind = "read" THEN "read" ELSE "wren")
                 /\ op' = [op EXCEPT ![p] = o] /\ at' = [at EXCEPT ![p] = s]
                 /\ Submit(IF o.kind = "read" THEN ReadMessage(o) ELSE WrenMessage)
    <3> DEFINE o2 == [o1 EXCEPT !.kind = "write", !.data = d]
    <3>1. /\ o2 \in [kind : {"read", "write"}, off : 0 .. Size, count : 0 .. Size,
                     written : 0 .. Size, data : Seq(Values)]
          /\ o2.off = r[1] /\ o2.count = n /\ o2.written = 0 /\ o2.kind = "write"
          /\ n <= Len(o2.data)
      <4>1. d \in Seq(Values) /\ Len(d) = r[2]
        BY <2>2, AT25Assumption
      <4> QED
        BY <1>5, <2>0, <4>1
    <3>2. op' = [op EXCEPT ![p] = o2]
      BY <2>2
    <3> HIDE DEF o2
    <3> QED
      BY <2>2, <3>1, <3>2
  <2> QED
    BY <1>3, <2>1, <2>2 DEF n
<1>7. CallTypes'
  <2>1. o \in [kind : {"none", "read", "write"}, off : 0 .. Size,
               count : 0 .. Size, written : 0 .. Size, data : Seq(Values)]
    BY <1>6
  <2>2. NoResult.n = 0 /\ NoResult.err = "none" /\ NoResult.data = <<>> /\ <<>> \in Seq(Words)
    BY EmptySeq DEF NoResult, Returns
  <2> QED
    BY <1>1, <1>2, <1>4, <1>6, <2>1, <2>2 DEF CallTypes
<1>8. /\ at'[p] = s /\ op'[p] = o
      /\ \A q \in Procs : q # p => at'[q] = at[q] /\ op'[q] = op[q]
  BY <1>2, <1>6 DEF CallTypes
<1>9. Locked' /\ Op' = o /\ lock' # NONE
  BY <1>1, <1>6, <1>8, StillLocked
<1>10. o.off \in Words /\ o.off \in Nat /\ o.count \in Nat /\ bits \in BOOLEAN
  <2>1. r[1] \in Addresses
    BY <1>4 DEF Addresses
  <2> QED
    BY <1>2, <1>4, <1>5, <1>6, <2>1, Sizes DEF CallTypes
<1>11. \E m : Submit(m) /\ Simple(m)
  BY <1>6, <1>10, ReadIs, WrenIs
<1>12. Underway'
  <2>1. at'[lock'] = s /\ ~chipBusy' /\ spiPc' = "setup" /\ cur' = 1
    BY <1>1, <1>2, <1>6, <1>8 DEF Submit
  <2>2. Requested'
    BY <1>4, <1>5, <1>6, <1>9, <2>1 DEF Requested
  <2>3. Reading'
    <3>1. ReadMessage(Op)' = ReadMessage(o)
      BY <1>1, <1>9 DEF ReadMessage, Message, Sends, Gets
    <3> QED
      BY <1>6, <2>1, <3>1 DEF Reading, Answering, Submit
  <2>4. Enabling'
    <3>1. WrenMessage' = WrenMessage
      BY <1>1 DEF WrenMessage, Message, Sends
    <3> QED
      BY <1>6, <2>1, <3>1 DEF Enabling, Submit
  <2>5. Writing' /\ Polling'
    BY <1>6, <2>1 DEF Writing, Polling
  <2>6. PagesStored'
    BY <1>4, <1>6, <1>9 DEF PagesStored
  <2> QED
    BY <2>2, <2>3, <2>4, <2>5, <2>6 DEF Underway
<1> QED
  BY <1>7, <1>9, <1>11, <1>12

\* A read that is carried out returns what is stored.
LEMMA ReadData ==
  ASSUME AT25Inv, NEW p \in Procs, Synced(p, "read"), status = "0"
  PROVE  /\ bufs[2] \in Seq(Words) /\ Len(bufs[2]) = Op.count
         /\ \A i \in 1 .. Op.count : bufs[2][i] = mem[Op.off + i - 1]
<1>1. /\ lock # NONE /\ at[lock] = "read" /\ spiPc = "idle" /\ CallTypes
      /\ cur = Len(Xfers) /\ (cur = 2 => bufs[2] = answers /\ Len(answers) = T.rx)
      /\ msg = ReadMessage(Op)
      /\ (Answering => \A i \in 1 .. Len(answers) : answers[i] = mem[Op.off + i - 1])
  BY SyncedHolds DEF Reading
<1>2. Op.off \in Words /\ Op.count \in Nat /\ bits \in BOOLEAN
  BY <1>1, OpType DEF AT25Inv, CallTypes
<1>3. Len(msg.transfers) = 2 /\ msg.transfers[2].rx = Op.count
  BY <1>1, <1>2, ReadIs
<1>4. cur = 2 /\ Answering /\ bufs[2] = answers /\ Len(answers) = Op.count
  BY <1>1, <1>3 DEF Answering
<1>5. answers \in Seq(Words)
  BY DEF AT25Inv, TypeOK, SpiTypeOK
<1> QED
  BY <1>1, <1>4, <1>5

LEMMA ReadEndNext ==
  ASSUME AT25Inv, NEW p \in Procs, ReadEnd(p)
  PROVE  CallTypes' /\ Locked' /\ Underway' /\ UNCHANGED spiVars
<1>1. /\ Synced(p, "read") /\ UNCHANGED <<spiVars, retries, bits, chipVars>>
      /\ Unlock(p, IF status = "0" THEN Returns(op[p].count, "none", bufs[2])
                                   ELSE Returns(0, status, <<>>))
  BY DEF ReadEnd
<1>2. /\ lock = p /\ lock # NONE /\ spiPc = "idle" /\ CallTypes /\ op[p] = Op
      /\ at[lock] = "read" /\ ~chipBusy /\ (status # "0" => status = "EINVAL")
  BY <1>1, SyncedHolds DEF Reading
<1>3. Op.count \in 0 .. Size
  BY <1>2, OpType DEF AT25Inv
<1>4. result'.n \in 0 .. Size /\ result'.err \in {"none", "EINVAL"} /\ result'.data \in Seq(Words)
  <2>1. CASE status = "0"
    <3>1. result' = Returns(Op.count, "none", bufs[2])
      BY <1>1, <1>2, <2>1 DEF Unlock
    <3>2. result'.n = Op.count /\ result'.err = "none" /\ result'.data = bufs[2]
      BY <3>1 DEF Returns
    <3> QED
      BY <1>1, <1>3, <2>1, <3>2, ReadData
  <2>2. CASE status # "0"
    <3>1. result' = Returns(0, status, <<>>)
      BY <1>1, <2>2 DEF Unlock
    <3>2. result'.n = 0 /\ result'.err = status /\ result'.data = <<>>
      BY <3>1 DEF Returns
    <3> QED
      BY <1>2, <2>2, <3>2, Sizes, EmptySeq
  <2> QED
    BY <2>1, <2>2
<1>5. /\ lock' = NONE /\ at' = [at EXCEPT ![p] = "idle"] /\ op' = [op EXCEPT ![p] = NoOp]
  BY <1>1 DEF Unlock
<1>6. CallTypes'
  BY <1>1, <1>2, <1>4, <1>5, NoOpType DEF CallTypes
<1>7. Locked' /\ Underway'
  BY <1>1, <1>2, <1>5, Unlocked
<1> QED
  BY <1>1, <1>6, <1>7

\* The end of a write.
LEMMA WriteUnlocked ==
  ASSUME AT25Inv, NEW p \in Procs, lock = p, ~chipBusy, spiPc = "idle",
         NEW o, o.written \in 0 .. Size, NEW e \in {"EINVAL", "ETIMEDOUT", "none"},
         Unlock(p, WriteResult(o, e)), UNCHANGED <<spiVars, bits, chipVars>>, retries' = retries
  PROVE  CallTypes' /\ Locked' /\ Underway' /\ result'.n = o.written /\ at'[p] = "idle"
<1>1. CallTypes
  BY TypesTogether DEF AT25Inv
<1>2. /\ lock' = NONE /\ at' = [at EXCEPT ![p] = "idle"] /\ op' = [op EXCEPT ![p] = NoOp]
      /\ result' = WriteResult(o, e)
  BY DEF Unlock
<1>3. /\ result'.n = o.written /\ result'.err \in {"none", "EINVAL", "ETIMEDOUT"}
      /\ result'.data = <<>> /\ <<>> \in Seq(Words)
  BY <1>2, EmptySeq DEF WriteResult, Returns
<1>4. CallTypes'
  BY <1>1, <1>2, <1>3, NoOpType DEF CallTypes
<1>5. Locked' /\ Underway'
  BY <1>2, Unlocked
<1>6. at'[p] = "idle"
  BY <1>1, <1>2 DEF CallTypes
<1> QED
  BY <1>3, <1>4, <1>5, <1>6

LEMMA WrenEndNext ==
  ASSUME AT25Inv, NEW p \in Procs, WrenEnd(p)
  PROVE  /\ CallTypes' /\ Locked' /\ Underway'
         /\ UNCHANGED spiVars \/ \E m : Submit(m) /\ Simple(m)
<1>1. Synced(p, "wren") /\ UNCHANGED <<retries, bits, chipVars>>
  BY DEF WrenEnd
<1>2. /\ lock = p /\ lock # NONE /\ spiPc = "idle" /\ CallTypes /\ op[p] = Op
      /\ at[lock] = "wren" /\ msg = WrenMessage /\ ~chipBusy
      /\ (status = "0" => wel /\ msg.supported) /\ (status # "0" => status = "EINVAL")
      /\ Requested /\ Op.kind = "write" /\ PagesStored
  BY <1>1, SyncedHolds DEF Enabling, Requested
<1>3. CASE status # "0"
  <2>1. Unlock(p, WriteResult(Op, "EINVAL")) /\ UNCHANGED spiVars
    BY <1>2, <1>3 DEF WrenEnd
  <2>2. Op.written \in 0 .. Size
    BY <1>2, OpType DEF AT25Inv
  <2>3. CallTypes' /\ Locked' /\ Underway'
    BY <1>1, <1>2, <2>1, <2>2, WriteUnlocked
  <2> QED
    BY <2>1, <2>3
<1>4. CASE status = "0"
  <2>1. /\ Submit(WriteMessage(Op)) /\ at' = [at EXCEPT ![p] = "write"]
        /\ UNCHANGED <<lock, op, result>>
    BY <1>2, <1>4 DEF WrenEnd
  <2>2. CallTypes'
    BY <1>1, <1>2, <2>1 DEF CallTypes
  <2>3. at'[p] = "write" /\ \A q \in Procs : q # p => at'[q] = at[q] /\ op'[q] = op[q]
    BY <1>2, <2>1 DEF CallTypes
  <2>4. Locked' /\ lock' # NONE
    BY <1>2, <2>1, <2>3, StillLocked
  <2>5. /\ Op' = Op /\ WriteMessage(Op)' = WriteMessage(Op) /\ at'[lock'] = "write"
    BY <1>1, <1>2, <2>1, <2>3, SameOp
  <2>6. bits /\ Simple(WriteMessage(Op))
    <3>1. WrenMessage.supported = bits /\ bits \in BOOLEAN
      BY <1>2, WrenIs DEF CallTypes
    <3>2. bits
      BY <1>2, <1>4, <3>1
    <3>3. Op.off \in Words /\ Bytes(Op) \in Seq(Words) /\ Bytes(Op) # <<>>
      BY <1>2, OpType DEF AT25Inv
    <3> QED
      BY <3>1, <3>2, <3>3, WriteIs
  <2>7. Requested' /\ PagesStored'
    BY <1>1, <1>2, <2>5 DEF Requested, PagesStored
  <2>8. Writing'
    BY <1>1, <1>2, <1>4, <2>1, <2>5, <2>6 DEF Writing, Submit
  <2>9. Underway'
    BY <2>5, <2>7, <2>8 DEF Underway, Reading, Enabling, Polling
  <2> QED
    BY <2>1, <2>2, <2>4, <2>6, <2>9
<1> QED
  BY <1>3, <1>4

LEMMA WriteEndNext ==
  ASSUME AT25Inv, NEW p \in Procs, WriteEnd(p)
  PROVE  /\ CallTypes' /\ Locked' /\ Underway' /\ UNCHANGED op
         /\ \E m : Submit(m) /\ Simple(m)
<1>1. Synced(p, "write") /\ UNCHANGED <<bits, chipVars>>
  BY DEF WriteEnd
<1>2. /\ lock = p /\ lock # NONE /\ spiPc = "idle" /\ CallTypes /\ op[p] = Op
      /\ at[lock] = "write" /\ msg = WriteMessage(Op) /\ bits /\ PageStored
      /\ (status # "0" => ~msg.supported)
      /\ Requested /\ Op.kind = "write" /\ PagesStored
  BY <1>1, SyncedHolds DEF Writing, Requested
<1>3. status = "0"
  <2>1. Op.off \in Words /\ Bytes(Op) \in Seq(Words) /\ Bytes(Op) # <<>>
    BY <1>2, OpType DEF AT25Inv
  <2>2. msg.supported
    BY <1>2, <2>1, WriteIs
  <2> QED
    BY <1>2, <2>2
<1>4. /\ Submit(RdsrMessage) /\ retries' = 0 /\ at' = [at EXCEPT ![p] = "rdsr"]
      /\ UNCHANGED <<lock, op, result>>
  BY <1>3 DEF WriteEnd
<1>5. CallTypes'
  BY <1>1, <1>2, <1>4 DEF CallTypes
<1>6. at'[p] = "rdsr" /\ \A q \in Procs : q # p => at'[q] = at[q] /\ op'[q] = op[q]
  BY <1>2, <1>4 DEF CallTypes
<1>7. Locked' /\ lock' # NONE
  BY <1>2, <1>4, <1>6, StillLocked
<1>8. /\ Op' = Op /\ RdsrMessage' = RdsrMessage /\ Segment(Op)' = Segment(Op)
      /\ at'[lock'] = "rdsr"
  BY <1>1, <1>2, <1>4, <1>6, SameOp
<1>9. Requested' /\ PagesStored' /\ PageStored'
  BY <1>1, <1>2, <1>8 DEF Requested, PagesStored, PageStored
<1>10. Polling'
  BY <1>1, <1>2, <1>4, <1>8, <1>9 DEF Polling, Submit, Answering
<1>11. Underway'
  BY <1>8, <1>9, <1>10 DEF Underway, Reading, Enabling, Writing
<1>12. Simple(RdsrMessage)
  BY <1>2, RdsrIs
<1> QED
  BY <1>4, <1>5, <1>7, <1>11, <1>12

\* The operation behind the page that is stored.
LEMMA AdvancedIs ==
  ASSUME CallTypes, Underway, lock # NONE
  PROVE  LET o == Advanced(Op) IN
         /\ o \in [kind : {"none", "read", "write"}, off : 0 .. Size,
                   count : 0 .. Size, written : 0 .. Size, data : Seq(Values)]
         /\ o.off = Op.off + Segment(Op) /\ o.count = Op.count - Segment(Op)
         /\ o.written = Op.written + Segment(Op) /\ o.kind = Op.kind
         /\ o.off + o.count <= Size /\ o.written <= o.off
         /\ o.data = Op.data /\ o.written + o.count = Op.written + Op.count
         /\ \A a : Asked(o, a) = Asked(Op, a)
<1> DEFINE n == Segment(Op)
           o == Advanced(Op)
<1>1. /\ Op \in [kind : {"none", "read", "write"}, off : 0 .. Size,
                 count : 0 .. Size, written : 0 .. Size, data : Seq(Values)]
      /\ Op.off \in Nat /\ Op.count \in Nat /\ Op.written \in Nat /\ Size \in Nat
      /\ Op.off + Op.count <= Size /\ Op.written <= Op.off /\ n \in 1 .. Op.count
  BY OpType, Sizes
<1>2. o = [Op EXCEPT !.off = @ + n, !.count = @ - n, !.written = @ + n]
  BY DEF Advanced
<1> HIDE DEF n, o
<1>3. Op.off + n \in 0 .. Size /\ Op.count - n \in 0 .. Size /\ Op.written + n \in 0 .. Size
  BY <1>1
<1>4. /\ o \in [kind : {"none", "read", "write"}, off : 0 .. Size,
                count : 0 .. Size, written : 0 .. Size, data : Seq(Values)]
      /\ o.off = Op.off + n /\ o.count = Op.count - n /\ o.written = Op.written + n
      /\ o.data = Op.data /\ o.kind = Op.kind
  BY <1>1, <1>2, <1>3
<1>5. /\ o.off + o.count <= Size /\ o.written <= o.off
      /\ o.written + o.count = Op.written + Op.count
      /\ o.off - o.written = Op.off - Op.written
  <2>1. /\ Op.off \in Nat /\ Op.count \in Nat /\ Op.written \in Nat /\ n \in Nat
        /\ Op.off + Op.count <= Size /\ Op.written <= Op.off /\ Size \in Nat
    BY <1>1
  <2>2. /\ o.off = Op.off + n /\ o.count = Op.count - n /\ o.written = Op.written + n
    BY <1>4
  <2> QED
    BY <2>1, <2>2
<1>6. \A a : Asked(o, a) = Asked(Op, a)
  BY <1>4, <1>5 DEF Asked
<1> QED
  BY <1>4, <1>5, <1>6 DEF n, o

\* A status that is ready says that the page is stored, and the chip idle.
LEMMA ReadyMeansStored ==
  ASSUME AT25Inv, NEW p \in Procs, Synced(p, "rdsr")
  PROVE  /\ Op.kind = "write" /\ PagesStored /\ PageStored
         /\ Ready => ~chipBusy
         /\ \A a \in Op.off - Op.written .. Op.off + Segment(Op) - 1 : mem[a] = Asked(Op, a)
<1>1. /\ lock # NONE /\ at[lock] = "rdsr" /\ spiPc = "idle" /\ CallTypes
      /\ Requested /\ Polling /\ (Op.kind = "write" => PagesStored)
      /\ (status = "0" => cur = Len(Xfers))
      /\ (status = "0" /\ cur = 2 => bufs[2] = answers)
  BY SyncedHolds
<1>2. /\ Op.kind = "write" /\ PagesStored /\ PageStored /\ msg = RdsrMessage
      /\ (Answering /\ answers = <<READY>> => ~chipBusy)
  BY <1>1 DEF Requested, Polling
<1>3. ASSUME Ready PROVE ~chipBusy
  <2>1. Len(msg.transfers) = 2
    BY <1>1, <1>2, RdsrIs DEF CallTypes
  <2>2. cur = 2 /\ Answering /\ answers = <<READY>>
    BY <1>1, <1>3, <2>1 DEF Ready, Answering
  <2> QED
    BY <1>2, <2>2
<1>4. ASSUME NEW a \in Op.off - Op.written .. Op.off + Segment(Op) - 1
      PROVE  mem[a] = Asked(Op, a)
  <2>1. Op.off \in Nat /\ Op.written \in Nat /\ Segment(Op) \in Nat
    BY <1>1, OpType DEF AT25Inv
  <2>2. \/ a \in Op.off - Op.written .. Op.off - 1
        \/ a \in Op.off .. Op.off + Segment(Op) - 1
    BY <2>1
  <2> QED
    BY <1>2, <2>2 DEF PagesStored, PageStored
<1> QED
  BY <1>2, <1>3, <1>4

LEMMA RdsrEndNext ==
  ASSUME ChipEnv = {}, AT25Inv, NEW p \in Procs, RdsrEnd(p)
  PROVE  /\ CallTypes' /\ Locked' /\ Underway'
         /\ UNCHANGED spiVars \/ \E m : Submit(m) /\ Simple(m)
<1>1. Synced(p, "rdsr") /\ UNCHANGED <<bits, chipVars>>
  BY DEF RdsrEnd
<1>2. /\ lock = p /\ lock # NONE /\ spiPc = "idle" /\ CallTypes /\ op[p] = Op
      /\ at[lock] = "rdsr" /\ bits /\ Requested /\ Underway
  BY <1>1, SyncedHolds DEF Polling, AT25Inv
<1>3. /\ Op.kind = "write" /\ PagesStored /\ PageStored /\ (Ready => ~chipBusy)
      /\ \A a \in Op.off - Op.written .. Op.off + Segment(Op) - 1 : mem[a] = Asked(Op, a)
  BY <1>1, ReadyMeansStored
<1>4. Simple(RdsrMessage) /\ Simple(WrenMessage)
  BY <1>2, RdsrIs, WrenIs
<1>5. CASE PollAgain /\ UNCHANGED <<lock, op, at, result>>
  <2>1. /\ Submit(RdsrMessage) /\ retries' = (IF retries < 4 THEN retries + 1 ELSE 4)
        /\ UNCHANGED <<lock, op, at, result>>
    BY <1>5 DEF PollAgain
  <2>2. retries' \in 0 .. 4
    BY <1>2, <2>1 DEF CallTypes
  <2>3. CallTypes'
    BY <1>1, <1>2, <2>1, <2>2 DEF CallTypes
  <2>4. Locked'
    BY <1>2, <2>1 DEF AT25Inv, Locked
  <2>5. /\ Op' = Op /\ RdsrMessage' = RdsrMessage /\ Segment(Op)' = Segment(Op)
        /\ at'[lock'] = "rdsr"
    BY <1>1, <1>2, <2>1, SameOp
  <2>6. Requested' /\ PagesStored' /\ PageStored'
    BY <1>1, <1>2, <1>3, <2>5 DEF Requested, PagesStored, PageStored
  <2>7. Polling'
    BY <1>1, <1>2, <2>1, <2>5, <2>6 DEF Polling, Submit, Answering
  <2>8. Underway'
    BY <2>5, <2>6, <2>7 DEF Underway, Reading, Enabling, Writing
  <2> QED
    BY <1>4, <2>1, <2>3, <2>4, <2>8
<1>6. CASE /\ PollTimeout /\ Unlock(p, WriteResult(op[p], "ETIMEDOUT"))
           /\ UNCHANGED <<spiVars, retries>>
  <2>1. ~chipBusy
    BY <1>6 DEF PollTimeout
  <2>2. Op.written \in 0 .. Size
    BY <1>2, OpType DEF AT25Inv
  <2> QED
    BY <1>1, <1>2, <1>6, <2>1, <2>2, WriteUnlocked
<1>7. CASE /\ Ready /\ Advanced(op[p]).count # 0
           /\ op' = [op EXCEPT ![p] = Advanced(@)]
           /\ at' = [at EXCEPT ![p] = "wren"]
           /\ Submit(WrenMessage)
           /\ UNCHANGED <<lock, retries, result>>
  <2>1. PICK o : o = Advanced(Op)
    OBVIOUS
  <2>2. /\ o \in [kind : {"none", "read", "write"}, off : 0 .. Size,
                  count : 0 .. Size, written : 0 .. Size, data : Seq(Values)]
        /\ o.off = Op.off + Segment(Op) /\ o.count = Op.count - Segment(Op)
        /\ o.written = Op.written + Segment(Op) /\ o.kind = Op.kind
        /\ o.off + o.count <= Size /\ o.written <= o.off
        /\ o.data = Op.data /\ o.written + o.count = Op.written + Op.count
        /\ \A a : Asked(o, a) = Asked(Op, a)
    BY <1>2, <2>1, AdvancedIs
  <2>3. op' = [op EXCEPT ![p] = o] /\ o.count # 0 /\ ~chipBusy
    BY <1>2, <1>3, <1>7, <2>1
  <2>4. CallTypes'
    BY <1>1, <1>2, <1>7, <2>2, <2>3 DEF CallTypes
  <2>5. /\ at'[p] = "wren" /\ op'[p] = o
        /\ \A q \in Procs : q # p => at'[q] = at[q] /\ op'[q] = op[q]
    BY <1>2, <1>7, <2>3 DEF CallTypes
  <2>6. Locked' /\ Op' = o /\ lock' # NONE /\ at'[lock'] = "wren"
    BY <1>2, <1>7, <2>5, StillLocked
  <2>7. o.count \in Nat /\ o.count > 0
    BY <2>2, <2>3
  <2>8. Requested'
    BY <1>2, <1>3, <2>2, <2>6, <2>7 DEF Requested
  <2>9. Enabling'
    <3>1. WrenMessage' = WrenMessage
      BY <1>1 DEF WrenMessage, Message, Sends
    <3> QED
      BY <1>1, <1>7, <2>3, <3>1 DEF Enabling, Submit
  <2>10. PagesStored'
    <3>1. Op.off \in Nat /\ Op.written \in Nat /\ Segment(Op) \in Nat
      BY <1>2, OpType
    <3>2. /\ o.off - o.written = Op.off - Op.written
          /\ o.off - 1 = Op.off + Segment(Op) - 1
      BY <2>2, <3>1
    <3>3. \A a \in o.off - o.written .. o.off - 1 : mem[a] = Asked(o, a)
      BY <1>3, <2>2, <3>2
    <3>4. mem' = mem
      BY <1>1
    <3> QED
      BY <2>6, <3>3, <3>4 DEF PagesStored
  <2>11. Underway'
    BY <2>6, <2>8, <2>9, <2>10 DEF Underway, Reading, Writing, Polling
  <2> QED
    BY <1>4, <1>7, <2>4, <2>6, <2>11
<1>8. CASE /\ Ready /\ Advanced(op[p]).count = 0
           /\ Unlock(p, WriteResult(Advanced(op[p]), "none"))
           /\ UNCHANGED <<spiVars, retries>>
  <2>1. PICK o : o = Advanced(Op)
    OBVIOUS
  <2>2. o.written \in 0 .. Size
    <3>1. o \in [kind : {"none", "read", "write"}, off : 0 .. Size,
                 count : 0 .. Size, written : 0 .. Size, data : Seq(Values)]
      BY <1>2, <2>1, AdvancedIs
    <3> QED
      BY <3>1
  <2>3. Unlock(p, WriteResult(o, "none"))
    BY <1>2, <1>8, <2>1
  <2> QED
    BY <1>1, <1>2, <1>3, <1>8, <2>2, <2>3, WriteUnlocked
<1> QED
  BY <1>5, <1>6, <1>7, <1>8 DEF RdsrEnd

-----------------------------------------------------------------------------
(* The steps of the bus and of the chip                                     *)

LEMMA BusNext ==
  ASSUME AT25Inv, Bus
  PROVE  CallTypes' /\ Locked' /\ Underway'
<1>1. /\ UNCHANGED <<msg, procVars, bits, chipVars>>
      /\ spiPc' = "idle" <=> spiPc = "idle"
      /\ spiPc = "idle" => status' = status
  BY BusStep
<1>2. CallTypes /\ Locked /\ Underway
  BY TypesTogether DEF AT25Inv
<1>3. CallTypes' /\ Locked'
  BY <1>1, <1>2 DEF CallTypes, Locked
<1>4. /\ Op' = Op /\ Segment(Op)' = Segment(Op)
      /\ ReadMessage(Op)' = ReadMessage(Op) /\ WriteMessage(Op)' = WriteMessage(Op)
      /\ WrenMessage' = WrenMessage /\ RdsrMessage' = RdsrMessage
  BY <1>1, SameOp
<1>5. ASSUME lock # NONE PROVE Reading'
  <2>1. SUFFICES ASSUME at[lock] = "read", Answering', NEW i \in 1 .. Len(answers')
                 PROVE  answers'[i] = mem[Op.off + i - 1]
    BY <1>1, <1>2, <1>4, <1>5 DEF Underway, Reading
  <2>2. Answering => \A j \in 1 .. Len(answers) : answers[j] = mem[Op.off + j - 1]
    BY <1>2, <1>5, <2>1 DEF Underway, Reading
  <2>3. CASE answers' = <<>>
    BY <2>1, <2>3
  <2>4. CASE Answering /\ answers' = answers
    BY <2>1, <2>2, <2>4
  <2>5. CASE /\ Answering /\ HwReceive(Answer)
             /\ answers \in Seq(Words) /\ Len(answers) \in Nat
             /\ answers' = Append(answers, Answer)
    <3>1. PICK w : w = Answer
      OBVIOUS
    <3>2. w = mem[Op.off + Len(answers)]
      BY <2>1, <2>5, <3>1, ChipAnswers
    <3>3. /\ Len(answers') = Len(answers) + 1
          /\ \A j \in 1 .. Len(answers) : answers'[j] = answers[j]
          /\ answers'[Len(answers) + 1] = w
      <4>1. w \in Words
        BY <2>5, <3>1, AnswerIsWord
      <4> QED
        BY <2>5, <3>1, <4>1, AppendProperties
    <3>4. Op.off \in Nat
      BY <1>2, <1>5, OpType DEF AT25Inv
    <3>5. CASE i = Len(answers) + 1
      <4>1. Op.off + i - 1 = Op.off + Len(answers)
        BY <2>5, <3>4, <3>5
      <4> QED
        BY <3>2, <3>3, <3>5, <4>1
    <3>6. CASE i # Len(answers) + 1
      <4>1. i \in 1 .. Len(answers)
        BY <2>1, <2>5, <3>3, <3>6
      <4> QED
        BY <2>2, <2>5, <3>3, <4>1
    <3> QED
      BY <3>5, <3>6
  <2> QED
    BY <2>1, <2>3, <2>4, <2>5, BusStep
<1>6. ASSUME lock # NONE PROVE Polling'
  <2>1. ASSUME at[lock] = "rdsr", Answering', answers' = <<READY>> PROVE ~chipBusy
    <3>1. Answering /\ answers = <<READY>> => ~chipBusy
      BY <1>2, <1>6, <2>1 DEF Underway, Polling
    <3>2. CASE Answering /\ HwReceive(Answer) /\ answers' = Append(answers, Answer)
      <4>1. answers = <<>> /\ Answer = IF chipBusy THEN BUSY ELSE READY
        BY <2>1, <3>2, ChipAnswers
      <4>2. Answer = READY
        BY <2>1, <3>2, <4>1
      <4> QED
        BY <4>1, <4>2 DEF READY, BUSY
    <3>3. answers' # <<>>
      BY <2>1
    <3> QED
      BY <2>1, <3>1, <3>2, <3>3, BusStep
  <2>2. at[lock] = "rdsr" => msg = RdsrMessage /\ bits /\ PageStored
    BY <1>2, <1>6 DEF Underway, Polling
  <2>3. PageStored => PageStored'
    BY <1>1, <1>4 DEF PageStored
  <2> QED
    BY <1>1, <1>4, <2>1, <2>2, <2>3 DEF Polling
<1>7. ASSUME lock # NONE
      PROVE  Requested' /\ Enabling' /\ Writing' /\ (Op.kind = "write" => PagesStored')
  BY <1>1, <1>2, <1>4, <1>7
  DEF Underway, Requested, Enabling, Writing, PageStored, PagesStored
<1>8. Underway'
  BY <1>1, <1>4, <1>5, <1>6, <1>7 DEF Underway
<1> QED
  BY <1>3, <1>8

LEMMA BusEndNext ==
  ASSUME ChipEnv = {}, AT25Inv, BusEnd
  PROVE  CallTypes' /\ Locked' /\ Underway'
<1>1. /\ Finalize /\ UNCHANGED <<procVars, bits>> /\ spiPc = "done" /\ spiPc' = "idle"
      /\ UNCHANGED <<msg, cur, status, answers>>
  BY DEF BusEnd, Finalize
<1>2. CallTypes /\ Locked /\ Underway
  BY TypesTogether DEF AT25Inv
<1>3. /\ lock # NONE
      /\ at[lock] \in {"read", "rdsr"} => UNCHANGED chipVars
      /\ at[lock] = "wren" => UNCHANGED <<mem, chipBusy>> /\ (status = "0" => wel')
      /\ at[lock] = "write" => mem' = Overwritten(Op)
  BY ChipDeselected
<1>4. /\ Op' = Op /\ Segment(Op)' = Segment(Op)
      /\ ReadMessage(Op)' = ReadMessage(Op) /\ WriteMessage(Op)' = WriteMessage(Op)
      /\ WrenMessage' = WrenMessage /\ RdsrMessage' = RdsrMessage
  BY <1>1, SameOp
<1>5. /\ Op.off \in Nat /\ Op.written \in Nat /\ Op.count \in Nat /\ Op.written <= Op.off
      /\ Segment(Op) \in 1 .. Op.count /\ Op.off + Op.count <= Size
      /\ lock \in Procs
      /\ (Op.kind = "write" =>
            \A a \in Op.off .. Op.off + Segment(Op) - 1 : Asked(Op, a) \in Values)
  BY <1>2, <1>3, OpType
<1>6. at[lock] \in {"read", "wren", "write", "rdsr"}
  BY <1>2, <1>5 DEF Locked
<1>7. mem' \in [Addresses -> Values] /\ wel' \in BOOLEAN /\ chipBusy' \in BOOLEAN
  <2>1. mem' \in [Addresses -> Values]
    <3>1. CASE at[lock] = "write"
      <4>1. Op.kind = "write"
        BY <1>2, <1>3, <3>1 DEF Underway, Requested
      <4> DEFINE page == Op.off .. Op.off + Segment(Op) - 1
      <4>2. mem' = [b \in Addresses |-> IF b \in page THEN Asked(Op, b) ELSE mem[b]]
        BY <1>3, <3>1 DEF Overwritten
      <4>3. \A a \in page : Asked(Op, a) \in Values
        BY <1>5, <4>1
      <4>4. mem \in [Addresses -> Values]
        BY <1>2 DEF CallTypes
      <4> HIDE DEF page
      <4>5. \A b \in Addresses : (IF b \in page THEN Asked(Op, b) ELSE mem[b]) \in Values
        BY <4>3, <4>4
      <4> QED
        BY <4>2, <4>5
    <3>2. mem \in [Addresses -> Values]
      BY <1>2 DEF CallTypes
    <3> QED
      BY <1>3, <1>6, <3>1, <3>2
  <2>2. wel' \in BOOLEAN /\ chipBusy' \in BOOLEAN
    BY <1>1, <1>2 DEF BusEnd, Deselected, CallTypes
  <2> QED
    BY <2>1, <2>2
<1>8. CallTypes' /\ Locked'
  BY <1>1, <1>2, <1>3, <1>7 DEF CallTypes, Locked
<1>9. Answering' <=> Answering
  BY <1>1 DEF Answering
<1>10. Requested'
  BY <1>1, <1>2, <1>3, <1>4 DEF Underway, Requested
<1>11. CASE at[lock] \in {"read", "wren", "rdsr"}
  <2>1. mem' = mem /\ chipBusy' = chipBusy
    BY <1>3, <1>11
  <2>2. Reading'
    BY <1>1, <1>2, <1>3, <1>4, <1>9, <2>1 DEF Underway, Reading
  <2>3. Enabling'
    BY <1>1, <1>2, <1>3, <1>4, <2>1 DEF Underway, Enabling
  <2>4. PageStored => PageStored'
    BY <1>4, <2>1 DEF PageStored
  <2>5. Polling'
    BY <1>1, <1>2, <1>3, <1>4, <1>9, <2>1, <2>4 DEF Underway, Polling
  <2>6. Op.kind = "write" => PagesStored'
    BY <1>2, <1>3, <1>4, <2>1 DEF Underway, PagesStored
  <2>7. Writing'
    BY <1>1, <1>11 DEF Writing
  <2> QED
    BY <1>4, <1>8, <1>10, <2>2, <2>3, <2>5, <2>6, <2>7 DEF Underway
<1>12. CASE at[lock] = "write"
  <2>1. msg = WriteMessage(Op) /\ bits /\ Op.kind = "write" /\ PagesStored
    BY <1>2, <1>3, <1>12 DEF Underway, Writing, Requested
  <2>2. \A a \in Addresses :
          mem'[a] = IF a \in Op.off .. Op.off + Segment(Op) - 1 THEN Asked(Op, a) ELSE mem[a]
    BY <1>3, <1>12 DEF Overwritten
  <2>3. PageStored'
    <3>1. \A a \in Op.off .. Op.off + Segment(Op) - 1 : a \in Addresses
      BY <1>5, Sizes DEF Addresses
    <3> QED
      BY <1>4, <2>2, <3>1 DEF PageStored
  <2>4. PagesStored'
    <3>1. \A a \in Op.off - Op.written .. Op.off - 1 : a \in Addresses
      BY <1>5, Sizes DEF Addresses
    <3> QED
      BY <1>4, <2>1, <2>2, <3>1 DEF PagesStored
  <2>5. Writing'
    BY <1>1, <1>4, <2>1, <2>3 DEF Writing
  <2>6. Reading' /\ Enabling' /\ Polling'
    BY <1>1, <1>12 DEF Reading, Enabling, Polling
  <2> QED
    BY <1>8, <1>10, <2>4, <2>5, <2>6 DEF Underway
<1> QED
  BY <1>6, <1>11, <1>12

LEMMA OtherNext ==
  ASSUME AT25Inv, ChipDone \/ UNCHANGED vars
  PROVE  CallTypes' /\ Locked' /\ Underway'
<1>1. UNCHANGED <<spiVars, procVars, bits, mem, wel>> /\ chipBusy' \in {chipBusy, FALSE}
  BY DEF ChipDone
<1>2. CallTypes /\ Locked /\ Underway
  BY TypesTogether DEF AT25Inv
<1>3. CallTypes' /\ Locked'
  <2>1. CASE chipBusy' = chipBusy
    BY <1>1, <1>2, <2>1 DEF CallTypes, Locked
  <2>2. CASE chipBusy' = FALSE
    BY <1>1, <1>2, <2>2 DEF CallTypes, Locked
  <2> QED
    BY <1>1, <2>1, <2>2
<1>4. Underway'
  <2>1. ~chipBusy => ~chipBusy'
    BY <1>1
  <2> QED
    BY <1>1, <1>2, <2>1, SameOp
    DEF Underway, Requested, Reading, Enabling, Writing, Polling, PageStored, PagesStored,
        Answering
<1> QED
  BY <1>3, <1>4

-----------------------------------------------------------------------------
(* The invariant                                                            *)

LEMMA AT25InvInit == Init => AT25Inv
<1> SUFFICES ASSUME Init PROVE AT25Inv
  OBVIOUS
<1>1. IInv /\ SpiTypeOK
  BY IInvInit DEF Init, IInv, ReceiveInv, TypeInv
<1>2. MessageInv
  <2>1. /\ msg = NoMessage /\ cur = 1 /\ spiPc = "idle" /\ status = "0" /\ cs = FALSE
    BY DEF Init, SpiInit
  <2>2. /\ NoMessage.supported = TRUE /\ Len(NoMessage.transfers) = 1
        /\ NoMessage.transfers[1].cs = FALSE /\ NoMessage.transfers[1].rx = 0
    BY DEF NoMessage
  <2>3. IsMessage(msg)
    BY <1>1 DEF IInv, ReceiveInv, TypeInv
  <2>4. Simple(msg)
    BY <2>1, <2>2, <2>3 DEF Simple
  <2> QED
    BY <2>1, <2>2, <2>4 DEF MessageInv, Finished, InTransfer
<1>3. CallTypes
  <2>1. NoResult.n = 0 /\ NoResult.err = "none" /\ NoResult.data = <<>> /\ <<>> \in Seq(Words)
    BY EmptySeq DEF NoResult, Returns
  <2>2. mem \in [Addresses -> Values]
    BY Sizes DEF Init
  <2>3. op \in [Procs -> [kind : {"none", "read", "write"}, off : 0 .. Size,
                         count : 0 .. Size, written : 0 .. Size, data : Seq(Values)]]
    BY NoOpType DEF Init
  <2>4. at \in [Procs -> {"idle", "lock", "read", "wren", "write", "rdsr"}]
    BY DEF Init
  <2>5. 0 \in 0 .. 4 /\ 0 \in 0 .. Size
    BY Sizes
  <2> QED
    BY <2>1, <2>2, <2>3, <2>4, <2>5 DEF Init, CallTypes
<1>4. Locked /\ Underway
  BY Sizes DEF Init, SpiInit, Locked, Underway
<1> QED
  BY <1>1, <1>2, <1>3, <1>4, TypesTogether DEF AT25Inv

\* Every step is one of the bus driver's or leaves it alone, and at25.c submits
\* simple messages only.
LEMMA Mapped ==
  ASSUME ChipEnv = {}, AT25Inv, [Next]_vars
  PROVE  [SpiStep]_spiVars /\ Simple(msg)'
<1>1. Simple(msg)
  BY DEF AT25Inv, MessageInv
<1>2. CASE \/ UNCHANGED spiVars
           \/ \E m : Submit(m) /\ Simple(m)
  <2>1. ASSUME NEW m, Submit(m), Simple(m) PROVE SpiStep /\ msg' = m
    BY <2>1 DEF SpiStep, Simple, Submit
  <2>2. \A m : Submit(m) /\ Simple(m) => [SpiStep]_spiVars /\ Simple(msg')
    BY <2>1
  <2>3. UNCHANGED spiVars => Simple(msg')
    BY <1>1
  <2> QED
    BY <1>2, <2>2, <2>3
<1>3. ASSUME NEW p \in Procs,
             Call(p) \/ Lock(p) \/ ReadEnd(p) \/ WrenEnd(p) \/ WriteEnd(p) \/ RdsrEnd(p)
      PROVE  \/ UNCHANGED spiVars
             \/ \E m : Submit(m) /\ Simple(m)
  BY <1>3, LockNext, ReadEndNext, WrenEndNext, WriteEndNext, RdsrEndNext DEF Call
<1>4. CASE Bus
  <2>1. SpiStep
    BY <1>4, AnswerIsWord DEF Bus, SpiStep
  <2>2. msg' = msg
    BY <1>4, BusStep
  <2> QED
    BY <1>1, <2>1, <2>2
<1>5. CASE BusEnd
  BY <1>1, <1>5 DEF BusEnd, Finalize, SpiStep
<1>6. CASE ChipDone \/ UNCHANGED vars
  BY <1>2, <1>6 DEF ChipDone
<1> QED
  BY <1>2, <1>3, <1>4, <1>5, <1>6 DEF Next

LEMMA AT25InvNext ==
  ASSUME Env = {}, ChipEnv = {}
  PROVE  AT25Inv /\ [Next]_vars => AT25Inv'
<1> SUFFICES ASSUME AT25Inv, [Next]_vars PROVE AT25Inv'
  OBVIOUS
<1>1. [SpiStep]_spiVars /\ Simple(msg)'
  BY Mapped
<1>2. IInv'
  BY <1>1, IInvNext DEF AT25Inv
<1>3. MessageInv'
  BY <1>1, MessageNext DEF AT25Inv
<1>4. CallTypes' /\ Locked' /\ Underway'
  BY CallNext, LockNext, ReadEndNext, WrenEndNext, WriteEndNext, RdsrEndNext,
     BusNext, BusEndNext, OtherNext DEF Next
<1>5. SpiTypeOK'
  BY <1>2 DEF IInv, ReceiveInv, TypeInv
<1>6. TypeOK'
  BY <1>4, <1>5 DEF TypeOK, CallTypes
<1> QED
  BY <1>2, <1>3, <1>4, <1>6 DEF AT25Inv

LEMMA AT25InvAlways ==
  ASSUME Env = {}, ChipEnv = {}
  PROVE  Spec => []AT25Inv
  BY AT25InvInit, AT25InvNext, PTL DEF Spec

-----------------------------------------------------------------------------
(* What the driver promises                                                 *)

\* Every variable keeps its type: in particular no offset of at25_ee_read or
\* at25_ee_write leaves the chip, page by page.
THEOREM AT25TypeCorrect ==
  ASSUME Env = {}, ChipEnv = {}
  PROVE  Spec => []TypeOK
<1>1. AT25Inv => TypeOK
  BY DEF AT25Inv
<1> QED
  BY <1>1, AT25InvAlways, PTL

\* What a successful at25_ee_read returns is what the chip holds.

\* A process changes its own step and operation only.
LEMMA OwnStep ==
  ASSUME AT25Inv, [Next]_vars, NEW p \in Procs
  PROVE  \/ UNCHANGED <<at[p], op[p]>>
         \/ Call(p) \/ Lock(p) \/ ReadEnd(p) \/ WrenEnd(p) \/ WriteEnd(p) \/ RdsrEnd(p)
<1>1. /\ at \in [Procs -> {"idle", "lock", "read", "wren", "write", "rdsr"}]
      /\ DOMAIN op = Procs
  BY TypesTogether DEF AT25Inv, CallTypes
<1>2. ASSUME NEW q \in Procs, q # p,
             Call(q) \/ Lock(q) \/ ReadEnd(q) \/ WrenEnd(q) \/ WriteEnd(q) \/ RdsrEnd(q)
      PROVE  UNCHANGED <<at[p], op[p]>>
  <2>1. CASE Call(q)
    BY <1>1, <1>2, <2>1 DEF Call
  <2>2. CASE Lock(q)
    BY <1>1, <1>2, <2>2 DEF Lock
  <2>3. CASE ReadEnd(q)
    BY <1>1, <1>2, <2>3 DEF ReadEnd, Unlock
  <2>4. CASE WrenEnd(q)
    BY <1>1, <1>2, <2>4 DEF WrenEnd, Unlock
  <2>5. CASE WriteEnd(q)
    BY <1>1, <1>2, <2>5 DEF WriteEnd, Unlock
  <2>6. CASE RdsrEnd(q)
    BY <1>1, <1>2, <2>6 DEF RdsrEnd, Unlock
  <2> QED
    BY <1>2, <2>1, <2>2, <2>3, <2>4, <2>5, <2>6
<1>3. CASE Bus \/ BusEnd \/ ChipDone \/ UNCHANGED vars
  BY <1>3 DEF Bus, BusEnd, ChipDone
<1> QED
  BY <1>2, <1>3 DEF Next

\* What a successful at25_ee_read returns is what the chip holds.
THEOREM ReadIsStoredAlways ==
  ASSUME Env = {}, ChipEnv = {}
  PROVE  Spec => ReadIsStored
<1>1. ASSUME AT25Inv, [Next]_vars, NEW p \in Procs,
             at[p] = "read", at'[p] = "idle", result'.err = "none"
      PROVE  result'.data = [i \in 1 .. op[p].count |-> mem[op[p].off + i - 1]]
  <2>1. ReadEnd(p)
    BY <1>1, OwnStep DEF Call, Lock, WrenEnd, WriteEnd, RdsrEnd, Synced
  <2>2. /\ Synced(p, "read")
        /\ result' = IF status = "0" THEN Returns(op[p].count, "none", bufs[2])
                                     ELSE Returns(0, status, <<>>)
    BY <2>1 DEF ReadEnd, Unlock
  <2>3. op[p] = Op /\ (status # "0" => status = "EINVAL") /\ Op.count \in Nat
    BY <1>1, <2>2, SyncedHolds, OpType DEF AT25Inv
  <2>4. status = "0"
    <3>1. status # "0" => result'.err = "EINVAL"
      BY <2>2, <2>3 DEF Returns
    <3> QED
      BY <1>1, <3>1
  <2>5. result'.data = bufs[2]
    BY <2>2, <2>4 DEF Returns
  <2>6. /\ bufs[2] \in Seq(Words) /\ Len(bufs[2]) = Op.count
        /\ \A i \in 1 .. Op.count : bufs[2][i] = mem[Op.off + i - 1]
    BY <1>1, <2>2, <2>4, ReadData
  <2> DEFINE b == bufs[2]
             n == Op.count
             f == [i \in 1 .. n |-> mem[Op.off + i - 1]]
  <2>7. b = f
    <3>1. b \in Seq(Words) /\ Len(b) = n /\ n \in Nat /\ \A i \in 1 .. n : b[i] = f[i]
      BY <2>3, <2>6
    <3>2. DOMAIN f = 1 .. n /\ f = [i \in 1 .. n |-> f[i]]
      OBVIOUS
    <3> HIDE DEF b, n, f
    <3>3. b = [i \in 1 .. n |-> b[i]]
      BY <3>1
    <3> QED
      BY <3>1, <3>2, <3>3
  <2> QED
    BY <2>3, <2>5, <2>7
<1>2. AT25Inv /\ [Next]_vars =>
        [ \A p \in Procs :
            at[p] = "read" /\ at'[p] = "idle" /\ result'.err = "none" =>
              result'.data = [i \in 1 .. op[p].count |-> mem[op[p].off + i - 1]] ]_vars
  BY <1>1
<1> QED
  BY <1>2, AT25InvAlways, PTL DEF Spec, ReadIsStored

\* What at25_ee_write says it has written is in the chip, every byte at its address,
\* at every page it goes on to and when it returns, also after an error or a timeout:
\* for a chip that has no readonly sections, and is ready again within EE_TIMEOUT.  The
\* driver tells neither, and at25.c says so of the first: the hypothesis ChipEnv = {}.
THEOREM WrittenIsStoredAlways ==
  ASSUME Env = {}, ChipEnv = {}
  PROVE  Spec => WrittenIsStored
<1>1. ASSUME AT25Inv, [Next]_vars, NEW p \in Procs, op[p].kind = "write", op'[p] # op[p]
      PROVE  LET n     == IF at'[p] = "idle" THEN result'.n ELSE op'[p].written
                 first == op[p].off - op[p].written
             IN  \A a \in first .. first + n - 1 : mem[a] = Asked(op[p], a)
  <2>1. CallTypes /\ Locked /\ Underway
    BY <1>1, TypesTogether DEF AT25Inv
  <2>2. lock = p /\ lock # NONE /\ op[p] = Op
    <3>1. lock = p
      BY <1>1, <2>1 DEF Locked, NoOp
    <3> QED
      BY <3>1, Sizes DEF Op
  <2>3. /\ Op.off \in Nat /\ Op.written \in Nat /\ Segment(Op) \in Nat
        /\ Op.written \in 0 .. Size
    BY <2>1, <2>2, OpType
  <2>4. WrenEnd(p) \/ RdsrEnd(p)
    <3>1. ~Lock(p) /\ ~Call(p) /\ ~WriteEnd(p)
      BY <1>1, <2>2, WriteEndNext DEF Lock, Call
    <3>2. ~ReadEnd(p)
      <4>1. ASSUME Synced(p, "read") PROVE FALSE
        BY <1>1, <2>2, <4>1, SyncedHolds DEF Requested
      <4> QED
        BY <4>1 DEF ReadEnd
    <3> QED
      BY <1>1, <3>1, <3>2, OwnStep
  <2>5. ASSUME PagesStored, at'[p] = "idle", result'.n = Op.written
        PROVE  LET n     == IF at'[p] = "idle" THEN result'.n ELSE op'[p].written
                   first == op[p].off - op[p].written
               IN  \A a \in first .. first + n - 1 : mem[a] = Asked(op[p], a)
    <3>1. (Op.off - Op.written) + Op.written - 1 = Op.off - 1
      BY <2>3
    <3> QED
      BY <2>2, <2>5, <3>1 DEF PagesStored
  <2>6. CASE WrenEnd(p)
    <3>1. /\ Synced(p, "wren") /\ ~chipBusy /\ spiPc = "idle" /\ PagesStored
          /\ (status # "0" => status = "EINVAL")
      <4>1. Synced(p, "wren")
        BY <2>6 DEF WrenEnd
      <4> QED
        BY <1>1, <2>2, <4>1, SyncedHolds DEF Enabling
    <3>2. /\ status = "EINVAL" /\ Unlock(p, WriteResult(Op, "EINVAL"))
          /\ UNCHANGED <<spiVars, bits, chipVars>> /\ retries' = retries
      BY <1>1, <2>2, <2>6, <3>1 DEF WrenEnd
    <3>3. result'.n = Op.written /\ at'[p] = "idle"
      BY <1>1, <2>2, <2>3, <3>1, <3>2, WriteUnlocked
    <3> QED
      BY <2>5, <3>1, <3>3
  <2>7. CASE RdsrEnd(p)
    <3>1. Synced(p, "rdsr") /\ UNCHANGED <<bits, chipVars>> /\ spiPc = "idle"
      BY <2>7 DEF RdsrEnd, Synced
    <3>2. /\ PagesStored /\ (Ready => ~chipBusy)
          /\ \A a \in Op.off - Op.written .. Op.off + Segment(Op) - 1 : mem[a] = Asked(Op, a)
      BY <1>1, <3>1, ReadyMeansStored
    <3>3. CASE /\ PollTimeout /\ Unlock(p, WriteResult(op[p], "ETIMEDOUT"))
               /\ UNCHANGED <<spiVars, retries>>
      <4>1. ~chipBusy
        BY <3>3 DEF PollTimeout
      <4>2. result'.n = Op.written /\ at'[p] = "idle"
        BY <1>1, <2>2, <2>3, <3>1, <3>3, <4>1, WriteUnlocked
      <4> QED
        BY <2>5, <3>2, <4>2
    <3>4. PICK o : o = Advanced(Op)
      OBVIOUS
    <3>5. /\ o.written = Op.written + Segment(Op) /\ o.written \in 0 .. Size
          /\ (Op.off - Op.written) + o.written - 1 = Op.off + Segment(Op) - 1
      <4>1. /\ o \in [kind : {"none", "read", "write"}, off : 0 .. Size,
                      count : 0 .. Size, written : 0 .. Size, data : Seq(Values)]
            /\ o.written = Op.written + Segment(Op)
        BY <2>1, <2>2, <3>4, AdvancedIs
      <4>2. o.written \in 0 .. Size
        BY <4>1
      <4>3. \A m, n, k \in Int : (m - n) + (n + k) - 1 = m + k - 1
        OBVIOUS
      <4>4. (Op.off - Op.written) + (Op.written + Segment(Op)) - 1 = Op.off + Segment(Op) - 1
        BY <2>3, <4>3
      <4> QED
        BY <4>1, <4>2, <4>4
    <3>6. CASE /\ Ready /\ op' = [op EXCEPT ![p] = Advanced(@)]
               /\ at' = [at EXCEPT ![p] = "wren"]
      <4>1. op'[p] = o /\ at'[p] = "wren"
        BY <2>1, <2>2, <3>4, <3>6 DEF CallTypes
      <4> QED
        BY <2>2, <3>2, <3>5, <4>1
    <3>7. CASE /\ Ready /\ Unlock(p, WriteResult(Advanced(op[p]), "none"))
               /\ UNCHANGED <<spiVars, retries>>
      <4>1. Unlock(p, WriteResult(o, "none"))
        BY <2>2, <3>4, <3>7
      <4>2. result'.n = o.written /\ at'[p] = "idle"
        BY <1>1, <2>2, <3>1, <3>2, <3>5, <3>7, <4>1, WriteUnlocked
      <4> QED
        BY <2>2, <3>2, <3>5, <4>2
    <3> QED
      BY <1>1, <2>7, <3>3, <3>6, <3>7 DEF RdsrEnd
  <2> QED
    BY <2>4, <2>6, <2>7
<1>2. AT25Inv /\ [Next]_vars =>
        [ \A p \in Procs :
            op[p].kind = "write" /\ op'[p] # op[p] =>
              LET n     == IF at'[p] = "idle" THEN result'.n ELSE op'[p].written
                  first == op[p].off - op[p].written
              IN  \A a \in first .. first + n - 1 : mem[a] = Asked(op[p], a) ]_vars
  BY <1>1
<1> QED
  BY <1>2, AT25InvAlways, PTL DEF Spec, WrittenIsStored

\* A byte of the chip changes only while at25_ee_write is asked to write it, and
\* to what it was asked for.
THEOREM OnlyRequestedAlways ==
  ASSUME Env = {}, ChipEnv = {}
  PROVE  Spec => OnlyRequested
<1>1. ASSUME AT25Inv, [Next]_vars, NEW a \in Addresses, mem'[a] # mem[a]
      PROVE  /\ lock # NONE /\ op[lock].kind = "write"
             /\ a \in op[lock].off .. op[lock].off + op[lock].count - 1
             /\ mem'[a] = Asked(op[lock], a)
  <2>1. CallTypes /\ Locked /\ Underway
    BY <1>1, TypesTogether DEF AT25Inv
  <2>2. BusEnd
    <3>1. ASSUME NEW p \in Procs,
                 Call(p) \/ Lock(p) \/ ReadEnd(p) \/ WrenEnd(p) \/ WriteEnd(p) \/ RdsrEnd(p)
          PROVE  mem' = mem
      BY <3>1 DEF Call, Lock, ReadEnd, WrenEnd, WriteEnd, RdsrEnd
    <3>2. Bus \/ ChipDone \/ UNCHANGED vars => mem' = mem
      BY DEF Bus, ChipDone
    <3> QED
      BY <1>1, <3>1, <3>2 DEF Next
  <2>3. /\ lock # NONE
        /\ at[lock] \in {"read", "rdsr"} => mem' = mem
        /\ at[lock] = "wren" => mem' = mem
        /\ at[lock] = "write" => mem' = Overwritten(Op)
    BY <1>1, <2>2, ChipDeselected
  <2>4. at[lock] = "write"
    <3>1. at[lock] \in {"read", "wren", "write", "rdsr"}
      BY <2>1, <2>3 DEF Locked, CallTypes
    <3> QED
      BY <1>1, <2>3, <3>1
  <2>5. a \in Op.off .. Op.off + Segment(Op) - 1 /\ mem'[a] = Asked(Op, a)
    BY <1>1, <2>3, <2>4 DEF Overwritten
  <2>6. /\ Op.off \in Nat /\ Op.count \in Nat /\ Segment(Op) \in 1 .. Op.count
        /\ Op.kind = "write"
    BY <2>1, <2>3, <2>4, OpType DEF Underway, Requested
  <2>7. a \in Op.off .. Op.off + Op.count - 1
    BY <2>5, <2>6
  <2> QED
    BY <2>3, <2>5, <2>6, <2>7 DEF Op
<1>2. AT25Inv /\ [Next]_vars =>
        [ \A a \in Addresses : mem'[a] # mem[a] =>
            /\ lock # NONE /\ op[lock].kind = "write"
            /\ a \in op[lock].off .. op[lock].off + op[lock].count - 1
            /\ mem'[a] = Asked(op[lock], a) ]_vars
  BY <1>1
<1> QED
  BY <1>2, AT25InvAlways, PTL DEF Spec, OnlyRequested
===============================================================================
