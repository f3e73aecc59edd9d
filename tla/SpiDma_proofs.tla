------------------------------ MODULE SpiDma_proofs ------------------------------
(***************************************************************************)
(* What the SPI driver over the DMA engine sends and receives, for         *)
(* messages, FIFOs, a trigger level and limits of any size, with callbacks *)
(* before or beside the thread: however thread, interrupt handler and the  *)
(* two channels share a transfer, words are sent in order, and a transfer  *)
(* that receives returns complete, with nobody left to touch its buffers.  *)
(***************************************************************************)
EXTENDS SpiDma, SequenceTheorems, TLAPS

USE DEF threadVars, hostVars, dmaVars, fifoVars, ctrlVars, wireVars, Goes

-----------------------------------------------------------------------------
(* The inductive invariant                                                  *)

Xfers == msg.transfers

Steps == {"fill", "tx", "txIssue", "rx", "rxIssue", "wait", "asleep", "return"}

InTransfer == spiPc \in Steps

\* The transfer is sent, or received, by a channel.
TxDma == dma /\ Len(T.tx) > TxMost
RxDma == dma /\ T.rx > RxMost

AnyWord == Words \cup {BLANK}

MessageOK ==
  /\ IsMessage(msg) /\ Orderly(msg) /\ Settled(msg) /\ cur \in 1 .. Len(Xfers)

ScalarsOK ==
  /\ dma \in BOOLEAN /\ spiPc \in Steps \cup {"idle", "setup", "load", "done"}
  /\ csChange \in BOOLEAN /\ status \in {"0", "EINVAL"} /\ actual \in Nat
  /\ xferStat \subseteq {"TX", "RX"} /\ late \subseteq {"TX", "RX"}
  /\ txCnt \in Nat /\ rxCnt \in Nat /\ rxLeft \in Nat
  /\ txcr \in Nat /\ rxcr \in Nat /\ simult \in BOOLEAN /\ run \in BOOLEAN
  /\ ier \subseteq {"TX", "RX", "RXC"} /\ rxcif \in BOOLEAN /\ cs \in BOOLEAN

SequencesOK ==
  /\ rxBuf \in Seq(AnyWord) /\ txLeft \in Seq(Seq(Words))
  /\ txFifo \in Seq(Words) /\ Len(txFifo) <= Depth
  /\ rxFifo \in Seq(Words) /\ Len(rxFifo) <= Depth
  /\ frame \in Seq(Words) /\ due \in Seq(Words) /\ answers \in Seq(Words)

TypeInv == MessageOK /\ ScalarsOK /\ SequencesOK

\* What a channel is at that has been given one transfer at most, x.
Chan(waiting, active, moved, finished, given, done) ==
  [waiting |-> waiting, active |-> active, moved |-> moved, finished |-> finished,
   cyclic |-> FALSE, given |-> given, done |-> done]

Unused(ch)  == \E g, d : ch = Chan(<<>>, <<>>, {}, <<>>, g, d)
Waiting(ch) == \E x, g, d : ch = Chan(<<x>>, <<>>, {}, <<>>, g, d)
Moving(ch)  == \E x, g, d : ch = Chan(<<>>, <<x>>, {}, <<>>, g, d)
Moved(ch)   == \E x, g, d : ch = Chan(<<>>, <<x>>, {x.item}, <<>>, g, d)
Done(ch)    == \E x, g, d : ch = Chan(<<>>, <<>>, {}, <<x>>, g, d)

\* A channel works for the transfer under way alone, and from its submission
\* to the call that reports it; the bit it is waited for by is set meanwhile.
TxChannel ==
  \/ Unused(txChan) /\ txLeft = <<>>
  \/ /\ TxDma /\ "TX" \in xferStat /\ "TX" \notin late
     /\ \/ spiPc = "txIssue" /\ Waiting(txChan) /\ txLeft = <<T.tx>>
        \/ /\ spiPc \in {"rx", "rxIssue", "wait", "asleep"}
           /\ \/ Moving(txChan) /\ Len(txLeft) = 1 /\ txLeft[1] # <<>>
              \/ (Moved(txChan) \/ Done(txChan)) /\ txLeft = <<>>

RxChannel ==
  \/ Unused(rxChan) /\ rxLeft = 0
  \/ /\ RxDma /\ "RX" \in xferStat /\ "RX" \notin late
     /\ \/ spiPc = "rxIssue" /\ Waiting(rxChan) /\ rxLeft = T.rx
        \/ /\ spiPc \in {"wait", "asleep"}
           /\ \/ Moving(rxChan) /\ rxLeft \in 1 .. T.rx
              \/ (Moved(rxChan) \/ Done(rxChan)) /\ rxLeft = 0

\* The words still to be written to the FIFO, whoever writes them, ...
Rest ==
  IF ~TxDma THEN SubSeq(T.tx, txCnt + 1, Len(T.tx))
  ELSE IF spiPc = "tx" THEN T.tx
  ELSE IF txLeft = <<>> THEN <<>> ELSE txLeft[1]

\* ... and how many have been read from the other, whoever reads them.
Taken ==
  IF ~RxDma THEN rxCnt
  ELSE IF spiPc \in {"tx", "txIssue", "rx"} THEN 0 ELSE T.rx - rxLeft

\* The next transfer only receives, with the chip still selected: what the last
\* one has only sent may still be in the FIFO.
Trailing == spiPc \in {"setup", "load"} /\ ~csChange /\ T.tx = <<>> /\ T.rx > 0

\* What has been sent, is in the FIFO and is still to be written is what is due;
\* what the last transfer has left in the FIFO is sent before a word is received.
Sending ==
  IF InTransfer
  THEN /\ txcr = Len(txFifo) + Len(Rest)
       /\ (frame \o txFifo) \o Rest = due
       /\ txCnt <= Len(T.tx)
       /\ T.tx = <<>> /\ txcr > 0 => T.rx > 0 /\ answers = <<>>
  ELSE txcr = Len(txFifo) /\ frame \o txFifo = due /\ (txcr > 0 => Trailing)

\* What no channel sends has been written once its bit is cleared.
Handed == InTransfer /\ ~TxDma /\ "TX" \notin xferStat => txCnt = Len(T.tx)

\* What the chip has answered is in the buffer and in the FIFO.
Receiving ==
  IF InTransfer
  THEN /\ Len(answers) + rxcr = T.rx /\ Len(answers) = Taken + Len(rxFifo)
       /\ Len(rxBuf) = T.rx
       /\ \A i \in 1 .. Taken : rxBuf[i] = answers[i]
       /\ \A i \in 1 .. Len(rxFifo) : rxFifo[i] = answers[Taken + i]
  ELSE rxcr = 0 /\ rxFifo = <<>>

\* Bits are set within a transfer only, and that of the receiver until there is
\* nothing left to receive.
Bits ==
  /\ dma => spiPc # "fill"
  /\ ~dma => spiPc \notin {"tx", "txIssue", "rx", "rxIssue"}
  /\ ~InTransfer \/ spiPc = "return" => xferStat = {}
  /\ spiPc \in {"fill", "tx"} => txCnt = 0 /\ (T.tx # <<>> => txFifo = <<>>)
  /\ spiPc \in {"fill", "tx"} /\ T.tx # <<>> => "TX" \in xferStat
  /\ spiPc \in {"tx", "txIssue", "rx"} /\ T.rx > 0 => "RX" \in xferStat
  /\ late \subseteq xferStat
  /\ "TX" \in late => TxDma /\ spiPc \in {"rx", "rxIssue", "wait", "asleep"}
  /\ "RX" \in late => RxDma /\ spiPc \in {"wait", "asleep"}
  /\ InTransfer /\ "RX" \notin xferStat => rxcr = 0 /\ rxFifo = <<>>

\* A transfer ends with the first error.
NoError == spiPc \in {"setup", "load"} \/ InTransfer => status = "0"

\* The chip is selected for a transfer; one that goes both ways goes at once;
\* and the clock runs until nothing is left to be sent and received.
Clock ==
  /\ spiPc = "load" \/ InTransfer \/ (spiPc = "setup" /\ ~csChange) => cs
  /\ InTransfer => csChange = T.cs
  /\ simult => txcr = rxcr
  /\ InTransfer => simult = (T.tx # <<>> /\ T.rx > 0)
  /\ InTransfer /\ ~run /\ spiPc # "fill" => txcr = 0 /\ rxcr = 0

\* The chip is still selected that a channel has received from.
Stale ==
  \E i \in 1 .. cur - 1 :
    Xfers[i].rx > RxMost /\ \A k \in i .. cur - 1 : ~Xfers[k].cs

\* The handler is let in only where it has something to do: not while a channel
\* works.  The flag it takes for the end of a transfer is raised by that one;
\* one that a channel has received is left raised, and does no harm until the
\* chip is selected anew.
Interrupts ==
  /\ spiPc = "fill" => ier = {}
  /\ "TX" \in ier => ~dma /\ "TX" \in xferStat /\ spiPc \in {"wait", "asleep"}
  /\ "RX" \in ier => "RXC" \in ier
  /\ dma /\ "RXC" \in ier => \/ spiPc = "load"
                             \/ /\ spiPc \in {"wait", "asleep"}
                                /\ T.rx \in 1 .. RxMost /\ "RX" \in xferStat
  /\ rxcif =>
       IF ~dma THEN InTransfer /\ "RX" \in xferStat /\ rxcr = 0
       ELSE /\ spiPc \in {"setup", "load"} =>
                 Stale \/ (csChange /\ (spiPc = "load" => "RXC" \in ier))
            /\ InTransfer =>
                 \/ T.rx > RxMost
                 \/ T.rx = 0 /\ Stale
                 \/ rxcr = 0 /\ "RX" \in xferStat

IInv == /\ TypeInv /\ TxChannel /\ RxChannel /\ Sending /\ Handed /\ Receiving
        /\ Bits /\ NoError /\ Clock /\ Interrupts

-----------------------------------------------------------------------------
(* Channels                                                                 *)

\* One transfer is submitted to a channel, with its number for an item.
LEMMA ChanSubmit ==
  ASSUME NEW ch, NEW new, Unused(ch), NEW k,
         new = [ch EXCEPT
                  !.waiting = @ \o [i \in DOMAIN <<k>> |->
                                      [item |-> <<k>>[i], cookie |-> ch.given + i]],
                  !.given = @ + Len(<<k>>)]
  PROVE  Waiting(new)
<1>1. PICK g, d : ch = Chan(<<>>, <<>>, {}, <<>>, g, d)
  BY DEF Unused
<1> DEFINE s == [i \in DOMAIN <<k>> |-> [item |-> <<k>>[i], cookie |-> g + i]]
<1>2. s = <<[item |-> k, cookie |-> g + 1]>>
  OBVIOUS
<1>3. <<>> \o s = s
  <2>1. s \in Seq({[item |-> k, cookie |-> g + 1]})
    BY <1>2
  <2> QED
    BY <2>1, ConcatEmptySeq
<1>4. new = [Chan(<<>>, <<>>, {}, <<>>, g, d) EXCEPT !.waiting = @ \o s, !.given = @ + Len(<<k>>)]
  BY <1>1 DEF Chan
<1>5. new = Chan(<<>> \o s, <<>>, {}, <<>>, g + Len(<<k>>), d)
  BY <1>4 DEF Chan
<1> HIDE DEF s
<1>6. new = Chan(<<[item |-> k, cookie |-> g + 1]>>, <<>>, {}, <<>>, g + Len(<<k>>), d)
  BY <1>2, <1>3, <1>5
<1> QED
  BY <1>6 DEF Waiting

LEMMA ChanIssue ==
  ASSUME NEW ch, NEW new,
         new = [ch EXCEPT !.active = @ \o ch.waiting, !.waiting = <<>>]
  PROVE  /\ Unused(ch) => Unused(new)
         /\ Waiting(ch) => Moving(new)
<1>1. ASSUME Unused(ch) PROVE Unused(new)
  <2>1. PICK g, d : ch = Chan(<<>>, <<>>, {}, <<>>, g, d)
    BY <1>1 DEF Unused
  <2>2. new = [Chan(<<>>, <<>>, {}, <<>>, g, d) EXCEPT !.active = @ \o <<>>, !.waiting = <<>>]
    BY <2>1 DEF Chan
  <2>3. new = Chan(<<>>, <<>> \o <<>>, {}, <<>>, g, d)
    BY <2>2 DEF Chan
  <2>4. <<>> \o <<>> = <<>>
    BY EmptySeq, ConcatEmptySeq
  <2> QED
    BY <2>3, <2>4 DEF Unused
<1>2. ASSUME Waiting(ch) PROVE Moving(new)
  <2>1. PICK x, g, d : ch = Chan(<<x>>, <<>>, {}, <<>>, g, d)
    BY <1>2 DEF Waiting
  <2>2. new = [Chan(<<x>>, <<>>, {}, <<>>, g, d) EXCEPT !.active = @ \o <<x>>, !.waiting = <<>>]
    BY <2>1 DEF Chan
  <2>3. new = Chan(<<>>, <<>> \o <<x>>, {}, <<>>, g, d)
    BY <2>2 DEF Chan
  <2>4. <<>> \o <<x>> = <<x>>
    <3>1. <<x>> \in Seq({x})
      OBVIOUS
    <3> QED
      BY <3>1, ConcatEmptySeq
  <2> QED
    BY <2>3, <2>4 DEF Moving
<1> QED
  BY <1>1, <1>2

\* What a channel at each stage is.
LEMMA ChanFields ==
  ASSUME NEW ch
  PROVE  /\ Unused(ch)  => ch.waiting = <<>> /\ ch.active = <<>> /\ ch.finished = <<>>
         /\ Waiting(ch) => ch.waiting # <<>> /\ ch.active = <<>> /\ ch.finished = <<>>
         /\ Moving(ch)  => /\ ch.waiting = <<>> /\ ch.active # <<>> /\ ch.finished = <<>>
                           /\ ch.moved = {}
         /\ Moved(ch)   => /\ ch.waiting = <<>> /\ ch.active # <<>> /\ ch.finished = <<>>
                           /\ \A i \in DOMAIN ch.active : ch.active[i].item \in ch.moved
         /\ Done(ch)    => ch.waiting = <<>> /\ ch.active = <<>> /\ ch.finished # <<>>
<1>0. \A x : <<x>> # <<>> /\ DOMAIN <<x>> = {1} /\ <<x>>[1] = x
  OBVIOUS
<1>1. Unused(ch)  => ch.waiting = <<>> /\ ch.active = <<>> /\ ch.finished = <<>>
  BY DEF Unused, Chan
<1>2. Waiting(ch) => ch.waiting # <<>> /\ ch.active = <<>> /\ ch.finished = <<>>
  BY <1>0 DEF Waiting, Chan
<1>3. Moving(ch)  => ch.waiting = <<>> /\ ch.active # <<>> /\ ch.finished = <<>> /\ ch.moved = {}
  BY <1>0 DEF Moving, Chan
<1>4. Moved(ch)   => /\ ch.waiting = <<>> /\ ch.active # <<>> /\ ch.finished = <<>>
                     /\ \A i \in DOMAIN ch.active : ch.active[i].item \in ch.moved
  BY <1>0 DEF Moved, Chan
<1>5. Done(ch)    => ch.waiting = <<>> /\ ch.active = <<>> /\ ch.finished # <<>>
  BY <1>0 DEF Done, Chan
<1> QED
  BY <1>1, <1>2, <1>3, <1>4, <1>5

LEMMA ChanMove ==
  ASSUME NEW ch, NEW new, Moving(ch), NEW i \in DOMAIN ch.active,
         new = [ch EXCEPT !.moved = @ \cup {ch.active[i].item}]
  PROVE  Moved(new)
<1>1. PICK x, g, d : ch = Chan(<<>>, <<x>>, {}, <<>>, g, d)
  BY DEF Moving
<1>2. ch.active[i] = x
  BY <1>1 DEF Chan
<1>3. new = [Chan(<<>>, <<x>>, {}, <<>>, g, d) EXCEPT !.moved = @ \cup {x.item}]
  BY <1>1, <1>2
<1>4. new = Chan(<<>>, <<x>>, {x.item}, <<>>, g, d)
  BY <1>3 DEF Chan
<1> QED
  BY <1>4 DEF Moved

LEMMA ChanComplete ==
  ASSUME NEW ch, NEW new, Moved(ch), NEW first, first = Head(ch.active),
         new = [ch EXCEPT
                  !.active = Tail(@),
                  !.moved = @ \ {first.item},
                  !.finished = Append(@, IF ch.cyclic THEN first ELSE [first EXCEPT !.cookie = 0]),
                  !.done = IF ch.cyclic THEN @ ELSE first.cookie]
  PROVE  Done(new)
<1>1. PICK x, g, d : ch = Chan(<<>>, <<x>>, {x.item}, <<>>, g, d)
  BY DEF Moved
<1>2. first = x /\ ch.cyclic = FALSE
  BY <1>1 DEF Chan
<1> DEFINE y == [x EXCEPT !.cookie = 0]
<1>3. new = [Chan(<<>>, <<x>>, {x.item}, <<>>, g, d) EXCEPT
               !.active = Tail(@), !.moved = @ \ {x.item},
               !.finished = Append(@, y), !.done = x.cookie]
  BY <1>1, <1>2
<1> HIDE DEF y
<1>4. new = Chan(<<>>, Tail(<<x>>), {x.item} \ {x.item}, Append(<<>>, y), g, x.cookie)
  BY <1>3 DEF Chan
<1>5. Tail(<<x>>) = <<>> /\ {x.item} \ {x.item} = {} /\ Append(<<>>, y) = <<y>>
  OBVIOUS
<1>6. new = Chan(<<>>, <<>>, {}, <<y>>, g, x.cookie)
  BY <1>4, <1>5
<1> QED
  BY <1>6 DEF Done

LEMMA ChanReport ==
  ASSUME NEW ch, NEW new, Done(ch),
         new = [ch EXCEPT !.finished = Tail(@),
                          !.active = IF ch.cyclic THEN Append(@, Head(ch.finished)) ELSE @]
  PROVE  Unused(new)
<1>1. PICK x, g, d : ch = Chan(<<>>, <<>>, {}, <<x>>, g, d)
  BY DEF Done
<1>2. ch.cyclic = FALSE
  BY <1>1 DEF Chan
<1>3. new = [Chan(<<>>, <<>>, {}, <<x>>, g, d) EXCEPT !.finished = Tail(@), !.active = @]
  BY <1>1, <1>2
<1>4. new = Chan(<<>>, <<>>, {}, Tail(<<x>>), g, d)
  BY <1>3 DEF Chan
<1>5. Tail(<<x>>) = <<>>
  OBVIOUS
<1> QED
  BY <1>4, <1>5 DEF Unused

\* What the channels' steps do to them, at each stage.
LEMMA TxStages ==
  /\ Unused(txChan) /\ Tx!Submit(<<txChan.given + 1>>) => Waiting(txChan')
  /\ Unused(txChan) /\ Tx!Issue => Unused(txChan')
  /\ Waiting(txChan) /\ Tx!Issue => Moving(txChan')
  /\ Moving(txChan) /\ Tx!Move => Moved(txChan')
  /\ Tx!Complete => txChan.active # <<>> /\ (Moved(txChan) => Done(txChan')) /\ ~Moving(txChan)
  /\ Tx!Report => txChan.finished # <<>> /\ (Done(txChan) => Unused(txChan'))
<1>1. Unused(txChan) /\ Tx!Submit(<<txChan.given + 1>>) => Waiting(txChan')
  BY ChanSubmit DEF Tx!Submit
<1>2. Tx!Issue => (Unused(txChan) => Unused(txChan')) /\ (Waiting(txChan) => Moving(txChan'))
  BY ChanIssue DEF Tx!Issue
<1>3. Moving(txChan) /\ Tx!Move => Moved(txChan')
  BY ChanMove DEF Tx!Move
<1>4. Tx!Complete => txChan.active # <<>> /\ (Moved(txChan) => Done(txChan'))
  BY ChanComplete DEF Tx!Complete
<1>5. Tx!Complete => ~Moving(txChan)
  BY ChanFields DEF Tx!Complete
<1>6. Tx!Report => txChan.finished # <<>> /\ (Done(txChan) => Unused(txChan'))
  BY ChanReport DEF Tx!Report
<1> QED
  BY <1>1, <1>2, <1>3, <1>4, <1>5, <1>6

LEMMA RxStages ==
  /\ Unused(rxChan) /\ Rx!Submit(<<rxChan.given + 1>>) => Waiting(rxChan')
  /\ Unused(rxChan) /\ Rx!Issue => Unused(rxChan')
  /\ Waiting(rxChan) /\ Rx!Issue => Moving(rxChan')
  /\ Moving(rxChan) /\ Rx!Move => Moved(rxChan')
  /\ Rx!Complete => rxChan.active # <<>> /\ (Moved(rxChan) => Done(rxChan')) /\ ~Moving(rxChan)
  /\ Rx!Report => rxChan.finished # <<>> /\ (Done(rxChan) => Unused(rxChan'))
<1>1. Unused(rxChan) /\ Rx!Submit(<<rxChan.given + 1>>) => Waiting(rxChan')
  BY ChanSubmit DEF Rx!Submit
<1>2. Rx!Issue => (Unused(rxChan) => Unused(rxChan')) /\ (Waiting(rxChan) => Moving(rxChan'))
  BY ChanIssue DEF Rx!Issue
<1>3. Moving(rxChan) /\ Rx!Move => Moved(rxChan')
  BY ChanMove DEF Rx!Move
<1>4. Rx!Complete => rxChan.active # <<>> /\ (Moved(rxChan) => Done(rxChan'))
  BY ChanComplete DEF Rx!Complete
<1>5. Rx!Complete => ~Moving(rxChan)
  BY ChanFields DEF Rx!Complete
<1>6. Rx!Report => rxChan.finished # <<>> /\ (Done(rxChan) => Unused(rxChan'))
  BY ChanReport DEF Rx!Report
<1> QED
  BY <1>1, <1>2, <1>3, <1>4, <1>5, <1>6

-----------------------------------------------------------------------------
(* Types                                                                    *)

LEMMA Constants ==
  /\ Trigger \in Nat \ {0} /\ Depth \in Nat /\ Depth >= Trigger /\ Depth > 0
  /\ TxMost \in Nat /\ TxMost < Depth /\ RxMost \in 0 .. TxMost
  BY SpiDmaAssumption

\* What a transfer is.
LEMMA TransferType ==
  ASSUME MessageOK
  PROVE  /\ Xfers \in Seq(Transfers) /\ Len(Xfers) \in Nat /\ cur \in 1 .. Len(Xfers)
         /\ T \in Transfers
         /\ T.tx \in Seq(Words) /\ T.rx \in Nat /\ T.cs \in BOOLEAN
         /\ Len(T.tx) \in Nat
         /\ T.tx # <<>> <=> Len(T.tx) > 0
         /\ Len(T.tx) > 0 => T.rx \in {0, Len(T.tx)}
<1>1. Xfers \in Seq(Transfers) /\ Len(Xfers) \in Nat /\ cur \in 1 .. Len(Xfers)
  BY LenProperties DEF MessageOK, IsMessage, Xfers
<1>2. T \in Transfers
  BY <1>1, ElementOfSeq DEF T, Xfers
<1>3. T.tx \in Seq(Words) /\ T.rx \in Nat /\ T.cs \in BOOLEAN
      /\ (T.tx = <<>> \/ T.rx \in {0, Len(T.tx)})
  BY <1>2 DEF Transfers
<1>4. \A s \in Seq(Words) : Len(s) \in Nat /\ (s # <<>> <=> Len(s) > 0)
  BY EmptySeq, LenProperties
<1>5. Len(T.tx) \in Nat /\ (T.tx # <<>> <=> Len(T.tx) > 0)
  BY <1>3, <1>4
<1> QED
  BY <1>1, <1>2, <1>3, <1>5

\* The words that follow are as many as asked for, or all there are.
LEMMA FollowingType ==
  ASSUME MessageOK, txCnt \in 0 .. Len(T.tx), NEW n \in Nat
  PROVE  /\ Following(n) \in Seq(Words) /\ Len(Following(n)) \in Nat
         /\ Len(Following(n)) <= n /\ txCnt + Len(Following(n)) <= Len(T.tx)
         /\ n >= Len(T.tx) - txCnt => txCnt + Len(Following(n)) = Len(T.tx)
         /\ Following(n) = SubSeq(T.tx, txCnt + 1, txCnt + Len(Following(n)))
<1> DEFINE s == T.tx
           k == IF txCnt + n < Len(s) THEN txCnt + n ELSE Len(s)
<1>1. s \in Seq(Words) /\ Len(s) \in Nat /\ txCnt \in 0 .. Len(s)
  BY TransferType
<1>2. Following(n) = SubSeq(s, txCnt + 1, k)
  BY DEF Following
<1> HIDE DEF s
<1>3. k \in txCnt .. Len(s)
  BY <1>1
<1>4. \A i \in txCnt + 1 .. k : s[i] \in Words
  BY <1>1, <1>3, ElementOfSeq
<1>5. SubSeq(s, txCnt + 1, k) \in Seq(Words) /\ Len(SubSeq(s, txCnt + 1, k)) = k - txCnt
  <2> HIDE DEF k
  <2>1. txCnt + 1 \in Int /\ k \in Int
    BY <1>1, <1>3
  <2>2. /\ SubSeq(s, txCnt + 1, k) \in Seq(Words)
        /\ Len(SubSeq(s, txCnt + 1, k)) = IF txCnt + 1 <= k THEN k - (txCnt + 1) + 1 ELSE 0
    BY <1>4, <2>1, SubSeqProperties
  <2> QED
    BY <1>1, <1>3, <2>2
<1>6. /\ Following(n) \in Seq(Words) /\ Len(Following(n)) = k - txCnt
      /\ Following(n) = SubSeq(s, txCnt + 1, txCnt + (k - txCnt))
  <2>1. txCnt + (k - txCnt) = k
    BY <1>1, <1>3
  <2> QED
    BY <1>2, <1>5, <2>1
<1>7. /\ k - txCnt \in Nat /\ k - txCnt <= n /\ txCnt + (k - txCnt) <= Len(s)
      /\ n >= Len(s) - txCnt => txCnt + (k - txCnt) = Len(s)
  BY <1>1
<1> QED
  BY <1>6, <1>7 DEF s

\* What is written and what is then left are what was left.
LEMMA FollowingAndRest ==
  ASSUME MessageOK, NEW i \in 0 .. Len(T.tx), NEW j \in i .. Len(T.tx)
  PROVE  /\ SubSeq(T.tx, i + 1, j) \o SubSeq(T.tx, j + 1, Len(T.tx))
              = SubSeq(T.tx, i + 1, Len(T.tx))
         /\ SubSeq(T.tx, j + 1, Len(T.tx)) \in Seq(Words)
         /\ Len(SubSeq(T.tx, j + 1, Len(T.tx))) = Len(T.tx) - j
<1> DEFINE s == T.tx
<1>1. s \in Seq(Words) /\ Len(s) \in Nat /\ i \in 0 .. Len(s) /\ j \in i .. Len(s)
  BY TransferType
<1> HIDE DEF s
<1>2. i + 1 \in 1 .. Len(s) + 1 /\ j \in (i + 1) - 1 .. Len(s) /\ Len(s) \in j .. Len(s)
  BY <1>1
<1>3. SubSeq(s, i + 1, j) \o SubSeq(s, j + 1, Len(s)) = SubSeq(s, i + 1, Len(s))
  BY <1>1, <1>2, ConcatAdjacentSubSeq
<1>4. \A l \in j + 1 .. Len(s) : s[l] \in Words
  BY <1>1, ElementOfSeq
<1>5. /\ SubSeq(s, j + 1, Len(s)) \in Seq(Words)
      /\ Len(SubSeq(s, j + 1, Len(s))) = Len(s) - j
  <2>1. j + 1 \in Int /\ Len(s) \in Int
    BY <1>1
  <2>2. /\ SubSeq(s, j + 1, Len(s)) \in Seq(Words)
        /\ Len(SubSeq(s, j + 1, Len(s)))
             = IF j + 1 <= Len(s) THEN Len(s) - (j + 1) + 1 ELSE 0
    BY <1>4, <2>1, SubSeqProperties
  <2> QED
    BY <1>1, <2>2
<1> QED
  BY <1>3, <1>5 DEF s

\* What is left has a type and a length.
LEMMA RestType ==
  ASSUME IInv, InTransfer
  PROVE  Rest \in Seq(Words) /\ Len(Rest) \in Nat
<1> USE DEF IInv, TypeInv, ScalarsOK, SequencesOK
<1>1. T.tx \in Seq(Words) /\ <<>> \in Seq(Words)
  BY TransferType, EmptySeq
<1>2. CASE ~TxDma
  <2>1. txCnt \in 0 .. Len(T.tx) /\ txCnt \in txCnt .. Len(T.tx)
    BY TransferType DEF Sending
  <2>2. SubSeq(T.tx, txCnt + 1, Len(T.tx)) \in Seq(Words)
    BY <2>1, FollowingAndRest
  <2> QED
    BY <1>2, <2>2, LenProperties DEF Rest
<1>3. CASE TxDma
  <2>1. txLeft # <<>> => txLeft[1] \in Seq(Words)
    <3>1. txLeft # <<>> => 1 \in 1 .. Len(txLeft)
      BY EmptySeq, LenProperties
    <3> QED
      BY <3>1, ElementOfSeq
  <2>2. Rest \in Seq(Words)
    BY <1>1, <1>3, <2>1 DEF Rest
  <2> QED
    BY <2>2, LenProperties
<1> QED
  BY <1>2, <1>3

\* The lengths of the FIFOs, and when there is something in them.
LEMMA Fifos ==
  ASSUME IInv
  PROVE  /\ Len(txFifo) \in 0 .. Depth /\ (txFifo # <<>> <=> Len(txFifo) > 0)
         /\ Len(rxFifo) \in 0 .. Depth /\ (rxFifo # <<>> <=> Len(rxFifo) > 0)
         /\ Depth - Len(txFifo) \in Nat
<1>1. \A s \in Seq(Words) : Len(s) \in Nat /\ (s # <<>> <=> Len(s) > 0)
  BY EmptySeq, LenProperties
<1>2. /\ txFifo \in Seq(Words) /\ Len(txFifo) <= Depth
      /\ rxFifo \in Seq(Words) /\ Len(rxFifo) <= Depth /\ Depth \in Nat
  BY Constants DEF IInv, TypeInv, SequencesOK
<1> QED
  BY <1>1, <1>2

\* Interrupts are taken where no channel works; and before a transfer, when
\* the flag has been left raised.
LEMMA IsrWhere ==
  ASSUME IInv, IrqLine
  PROVE  \/ spiPc = "load" /\ dma /\ rxcif /\ ~RxFlag /\ ~TxFlag
         \/ spiPc \in {"wait", "asleep"} /\ ~TxDma /\ ~RxDma
<1>0. /\ TypeInv /\ MessageOK /\ ScalarsOK /\ Sending /\ Receiving /\ Bits /\ Interrupts
  BY DEF IInv, TypeInv
<1>1. RxFlag => rxFifo # <<>>
  BY Fifos, Constants DEF RxFlag
<1>2. TxFlag => Len(txFifo) < txcr
  BY DEF TxFlag
<1>3. RxFlag \/ TxFlag => InTransfer
  BY <1>0, <1>1, <1>2, Fifos DEF Sending, Receiving
<1>4. CASE "TX" \in ier
  BY <1>0, <1>4 DEF Interrupts, TxDma, RxDma
<1>5. CASE "RXC" \in ier /\ (RxFlag \/ rxcif)
  <2>1. CASE ~dma
    <3>1. InTransfer /\ "RX" \in xferStat
      BY <1>0, <1>1, <1>3, <1>5, <2>1 DEF Interrupts, Bits
    <3>2. spiPc # "fill" /\ spiPc # "return"
      BY <1>0, <1>5, <3>1 DEF Interrupts, Bits
    <3>3. spiPc \in {"wait", "asleep"}
      BY <1>0, <2>1, <3>1, <3>2 DEF InTransfer, Steps, Bits
    <3> QED
      BY <2>1, <3>3 DEF TxDma, RxDma
  <2>2. CASE dma /\ spiPc = "load"
    BY <1>3, <1>5, <2>2 DEF InTransfer, Steps
  <2>3. CASE dma /\ spiPc # "load"
    <3>1. spiPc \in {"wait", "asleep"} /\ T.rx \in 1 .. RxMost
      BY <1>0, <1>5, <2>3 DEF Interrupts
    <3>2. ~RxDma
      BY <3>1, Constants DEF RxDma
    <3>3. ~TxDma
      BY <1>0, <3>1, Constants, TransferType DEF TxDma
    <3> QED
      BY <3>1, <3>2, <3>3
  <2> QED
    BY <2>1, <2>2, <2>3
<1> QED
  BY <1>0, <1>4, <1>5 DEF IrqLine, Interrupts

\* What the interrupt handler reads and writes.
Read    == IF rxcif \/ RxFlag THEN rxFifo ELSE <<>>
Written == IF TxFlag THEN Following(Depth - Len(txFifo)) ELSE <<>>

\* Before a transfer it lowers the flag and does nothing else.
LEMMA IsrBefore ==
  ASSUME IInv, Isr, spiPc \notin {"wait", "asleep"}
  PROVE  /\ spiPc = "load" /\ dma /\ spiPc' = "load" /\ rxcif' = FALSE
         /\ xferStat' = xferStat /\ ier' \subseteq ier \ {"RX", "RXC"}
         /\ rxBuf' = rxBuf /\ rxCnt' = rxCnt /\ txCnt' = txCnt
         /\ txFifo' = txFifo /\ rxFifo' = rxFifo
<1>1. spiPc = "load" /\ dma /\ rxcif /\ ~RxFlag /\ ~TxFlag
  BY IsrWhere DEF Isr
<1>2. rxFifo = <<>> /\ xferStat = {} /\ rxBuf \in Seq(AnyWord) /\ rxCnt \in Nat
      /\ txFifo \in Seq(Words) /\ txCnt \in Nat
  BY <1>1 DEF IInv, Receiving, Bits, TypeInv, SequencesOK, ScalarsOK, InTransfer, Steps
<1>3. /\ rxBuf' = [i \in DOMAIN rxBuf |->
                     IF i - rxCnt \in DOMAIN <<>> THEN <<>>[i - rxCnt] ELSE rxBuf[i]]
      /\ rxCnt' = rxCnt + Len(<<>>) /\ rxFifo' = rxFifo
      /\ txFifo' = txFifo \o <<>> /\ txCnt' = txCnt + Len(<<>>)
      /\ xferStat' = xferStat \ ({} \cup {"RX"})
      /\ ier' = ier \ ({} \cup {"RX", "RXC"})
      /\ spiPc' = (IF spiPc = "asleep" THEN "wait" ELSE spiPc)
      /\ rxcif' = FALSE
  BY <1>1, <1>2 DEF Isr, Wakes
<1>4. rxBuf' = rxBuf
  <2>1. DOMAIN <<>> = {} /\ rxBuf = [i \in DOMAIN rxBuf |-> rxBuf[i]]
    BY <1>2
  <2> QED
    BY <1>3, <2>1
<1>5. txFifo \o <<>> = txFifo /\ Len(<<>>) = 0
  BY <1>2, ConcatEmptySeq
<1> QED
  BY <1>1, <1>2, <1>3, <1>4, <1>5

\* Within one it fills and drains.
LEMMA IsrWithin ==
  ASSUME IInv, Isr, spiPc \in {"wait", "asleep"}
  PROVE  /\ ~TxDma /\ ~RxDma /\ spiPc' \in {"wait", "asleep"}
         /\ Read \in Seq(Words) /\ Written \in Seq(Words)
         /\ Len(Read) \in Nat /\ Len(Written) \in Nat
         /\ Len(txFifo) + Len(Written) <= Depth /\ txCnt + Len(Written) <= Len(T.tx)
         /\ Written = SubSeq(T.tx, txCnt + 1, txCnt + Len(Written))
         /\ rxBuf' = [i \in DOMAIN rxBuf |->
                        IF i - rxCnt \in DOMAIN Read THEN Read[i - rxCnt] ELSE rxBuf[i]]
         /\ rxCnt' = rxCnt + Len(Read)
         /\ rxFifo' = IF Read = <<>> THEN rxFifo ELSE <<>>
         /\ txFifo' = txFifo \o Written /\ txCnt' = txCnt + Len(Written)
         /\ xferStat' \subseteq xferStat /\ ier' \subseteq ier
         /\ "RX" \in xferStat' <=> "RX" \in xferStat /\ ~rxcif
         /\ "TX" \in ier' /\ "TX" \in xferStat => "TX" \in xferStat'
         /\ "RX" \in ier' => "RXC" \in ier'
         /\ dma /\ "RXC" \in ier' => "RXC" \in ier /\ ~rxcif
<1>0. TypeInv /\ MessageOK /\ ScalarsOK /\ SequencesOK /\ Sending /\ InTransfer
  BY DEF IInv, TypeInv, InTransfer, Steps
<1>1. ~TxDma /\ ~RxDma
  BY IsrWhere DEF Isr
<1>2. Read \in Seq(Words) /\ Len(Read) \in Nat
  BY <1>0, EmptySeq, LenProperties DEF SequencesOK, Read
<1>3. txCnt \in 0 .. Len(T.tx) /\ Len(T.tx) \in Nat
  BY <1>0, TransferType DEF Sending, ScalarsOK
<1>4. /\ Written \in Seq(Words) /\ Len(Written) \in Nat
      /\ Len(txFifo) + Len(Written) <= Depth /\ txCnt + Len(Written) <= Len(T.tx)
      /\ Written = SubSeq(T.tx, txCnt + 1, txCnt + Len(Written))
  <2>1. CASE TxFlag
    <3> DEFINE room == Depth - Len(txFifo)
    <3>1. room \in Nat /\ Len(txFifo) \in Nat /\ Depth \in Nat
      BY Fifos, Constants
    <3>2. Written = Following(room)
      BY <2>1 DEF Written
    <3>3. /\ Written \in Seq(Words) /\ Len(Written) \in Nat
          /\ Len(Written) <= room /\ txCnt + Len(Written) <= Len(T.tx)
          /\ Written = SubSeq(T.tx, txCnt + 1, txCnt + Len(Written))
      <4> HIDE DEF room
      <4> QED
        BY <1>0, <1>3, <3>1, <3>2, FollowingType
    <3> QED
      BY <3>1, <3>3
  <2>2. CASE ~TxFlag
    <3>1. Written = <<>> /\ Len(Written) = 0 /\ Written \in Seq(Words)
      BY <2>2, EmptySeq DEF Written
    <3>2. SubSeq(T.tx, txCnt + 1, txCnt + 0) = <<>>
      BY <1>3, SubSeqEmpty
    <3> QED
      BY <1>3, <3>1, <3>2, Fifos
  <2> QED
    BY <2>1, <2>2
<1> DEFINE sent  == IF TxFlag /\ txCnt + Len(Written) = Len(T.tx) THEN {"TX"} ELSE {}
           recvd == IF rxcif THEN {"RX"} ELSE {}
<1>5. /\ rxBuf' = [i \in DOMAIN rxBuf |->
                     IF i - rxCnt \in DOMAIN Read THEN Read[i - rxCnt] ELSE rxBuf[i]]
      /\ rxCnt' = rxCnt + Len(Read)
      /\ rxFifo' = IF Read = <<>> THEN rxFifo ELSE <<>>
      /\ txFifo' = txFifo \o Written /\ txCnt' = txCnt + Len(Written)
      /\ xferStat' = xferStat \ (sent \cup recvd)
      /\ ier' = ier \ (sent \cup (IF dma /\ rxcif THEN {"RX", "RXC"} ELSE {}))
      /\ IF sent \cup recvd # {} THEN Wakes ELSE UNCHANGED spiPc
  BY DEF Isr, Read, Written
<1>6. spiPc' \in {"wait", "asleep"}
  BY <1>5 DEF Wakes
<1>7. /\ xferStat' \subseteq xferStat /\ ier' \subseteq ier
      /\ "RX" \in xferStat' <=> "RX" \in xferStat /\ ~rxcif
      /\ "TX" \in ier' /\ "TX" \in xferStat => "TX" \in xferStat'
      /\ "RX" \in ier' => "RXC" \in ier'
      /\ dma /\ "RXC" \in ier' => "RXC" \in ier /\ ~rxcif
  BY <1>0, <1>5 DEF IInv, Interrupts
<1> QED
  BY <1>1, <1>2, <1>4, <1>5, <1>6, <1>7

-----------------------------------------------------------------------------
(* Steps and types                                                          *)

\* What fills the FIFO before a transfer, or all of it, writes.
LEMMA FilledType ==
  ASSUME IInv, InTransfer, NEW ws, ws = Following(Depth - Len(txFifo))
  PROVE  /\ ws \in Seq(Words) /\ Len(ws) \in Nat
         /\ txFifo \o ws \in Seq(Words) /\ Len(txFifo \o ws) = Len(txFifo) + Len(ws)
         /\ Len(txFifo \o ws) <= Depth /\ txCnt + Len(ws) <= Len(T.tx)
         /\ Depth - Len(txFifo) >= Len(T.tx) - txCnt => txCnt + Len(ws) = Len(T.tx)
         /\ ws = SubSeq(T.tx, txCnt + 1, txCnt + Len(ws))
<1> DEFINE room == Depth - Len(txFifo)
<1>1. room \in Nat /\ Len(txFifo) \in Nat /\ Depth \in Nat /\ txFifo \in Seq(Words)
  BY Fifos, Constants DEF IInv, TypeInv, SequencesOK
<1>2. MessageOK /\ txCnt \in 0 .. Len(T.tx)
  BY TransferType DEF IInv, TypeInv, ScalarsOK, Sending
<1>3. /\ ws \in Seq(Words) /\ Len(ws) \in Nat /\ Len(ws) <= room
      /\ txCnt + Len(ws) <= Len(T.tx)
      /\ room >= Len(T.tx) - txCnt => txCnt + Len(ws) = Len(T.tx)
      /\ ws = SubSeq(T.tx, txCnt + 1, txCnt + Len(ws))
  <2>1. ws = Following(room)
    OBVIOUS
  <2> HIDE DEF room
  <2> QED
    BY <1>1, <1>2, <2>1, FollowingType
<1>4. txFifo \o ws \in Seq(Words) /\ Len(txFifo \o ws) = Len(txFifo) + Len(ws)
  BY <1>1, <1>3, ConcatProperties
<1> QED
  BY <1>1, <1>3, <1>4

LEMMA MessageNext ==
  ASSUME Env \subseteq {"beside"}, IInv, [Next]_vars
  PROVE  MessageOK'
<1>0. MessageOK
  BY DEF IInv, TypeInv
<1>1. ASSUME NEW m \in Messages, Submit(m) PROVE MessageOK'
  <2>1. IsMessage(m) /\ Orderly(m) /\ Settled(m) /\ msg' = m /\ cur' = 1
    BY <1>1, SpiDmaAssumption DEF Submit
  <2>2. 1 \in 1 .. Len(m.transfers)
    <3>1. m.transfers \in Seq(Transfers) /\ m.transfers # <<>>
      BY <2>1 DEF IsMessage
    <3> QED
      BY <3>1, EmptySeq, LenProperties
  <2> QED
    BY <2>1, <2>2 DEF MessageOK, Xfers
<1>2. CASE Return
  <2>1. msg' = msg
    BY <1>2 DEF Return
  <2>2. cur' = cur \/ (cur # Len(Xfers) /\ cur' = cur + 1)
    BY <1>2 DEF Return, Xfers
  <2>3. cur' \in 1 .. Len(Xfers)
    BY <1>0, <2>2, TransferType
  <2> QED
    BY <1>0, <2>1, <2>3 DEF MessageOK, Xfers
<1>3. CASE UNCHANGED <<msg, cur>>
  BY <1>0, <1>3 DEF MessageOK, Xfers
<1>4. CASE SetupXfer \/ Load \/ Fill \/ TxByCpu \/ TxSubmit \/ TxIssue \/ RxByCpu
           \/ RxSubmit \/ RxIssue \/ Wait \/ Finalize
  BY <1>3, <1>4 DEF SetupXfer, Load, Fill, TxByCpu, TxSubmit, TxIssue, RxByCpu,
     RxSubmit, RxIssue, Wait, Finalize
<1>5. CASE Isr \/ CallbackEnds \/ TxEngine \/ RxEngine \/ Controller \/ UNCHANGED vars
  BY <1>3, <1>5 DEF Isr, CallbackEnds, TxEngine, TxWord, TxComplete, TxCallback, RxEngine,
     RxWord, RxComplete, RxCallback, Callback, Controller, HwSend, HwStop, HwExchange,
     HwReceive, vars
<1> QED
  BY <1>1, <1>2, <1>4, <1>5 DEF Next, Thread, ThreadStep

LEMMA ScalarsNext ==
  ASSUME IInv, [Next]_vars
  PROVE  ScalarsOK'
<1>0. ScalarsOK /\ MessageOK
  BY DEF IInv, TypeInv
<1> USE DEF ScalarsOK, Steps
<1>1. CASE \E m \in Messages : Submit(m)
  BY <1>0, <1>1 DEF Submit
<1>2. CASE SetupXfer
  BY <1>0, <1>2 DEF SetupXfer, Enabled
<1>3. CASE Load
  <2>1. T.cs \in BOOLEAN /\ Len(T.tx) \in Nat /\ T.rx \in Nat
    BY <1>0, TransferType
  <2> QED
    BY <1>0, <1>3, <2>1 DEF Load, Unmasked
<1>4. CASE Fill
  <2>1. InTransfer
    BY <1>4 DEF Fill, InTransfer
  <2>2. /\ txCnt' = txCnt \/ txCnt' = txCnt + Len(Following(Depth - Len(txFifo)))
        /\ xferStat' \subseteq xferStat /\ ier' \subseteq {"TX", "RX", "RXC"}
    BY <1>0, <1>4 DEF Fill, Filled
  <2>3. txCnt' \in Nat
    BY <1>0, <2>1, <2>2, FilledType
  <2> QED
    BY <1>0, <1>4, <2>2, <2>3 DEF Fill
<1>5. CASE TxByCpu
  <2>1. InTransfer
    BY <1>5 DEF TxByCpu, InTransfer
  <2>2. /\ txCnt' = txCnt \/ txCnt' = txCnt + Len(Following(Depth - Len(txFifo)))
        /\ xferStat' \subseteq xferStat /\ ier' \subseteq {"TX", "RX", "RXC"}
    BY <1>0, <1>5 DEF TxByCpu, Filled
  <2>3. txCnt' \in Nat
    BY <1>0, <2>1, <2>2, FilledType
  <2> QED
    BY <1>0, <1>5, <2>2, <2>3 DEF TxByCpu
<1>6. CASE TxSubmit \/ TxIssue \/ RxByCpu \/ RxIssue \/ Wait \/ Finalize
  BY <1>0, <1>6 DEF TxSubmit, TxIssue, RxByCpu, RxIssue, Wait, Finalize, Refused, Configured
<1>7. CASE RxSubmit
  BY <1>0, <1>7, TransferType DEF RxSubmit, Refused, Configured
<1>8. CASE Return
  <2>1. actual' \in Nat
    BY <1>0, <1>8 DEF Return, Counted
  <2> QED
    BY <1>0, <1>8, <2>1 DEF Return
<1>9. CASE Isr
  <2>1. /\ txCnt' \in Nat /\ rxCnt' \in Nat /\ spiPc' \in Steps \cup {"load"}
        /\ xferStat' \subseteq xferStat /\ ier' \subseteq ier /\ rxcif' \in BOOLEAN
    <3>1. CASE spiPc \in {"wait", "asleep"}
      <4>1. rxcif' = FALSE
        BY <1>9 DEF Isr
      <4>2. /\ spiPc' \in {"wait", "asleep"} /\ xferStat' \subseteq xferStat /\ ier' \subseteq ier
            /\ rxCnt' = rxCnt + Len(Read) /\ Len(Read) \in Nat
            /\ txCnt' = txCnt + Len(Written) /\ Len(Written) \in Nat
        BY <1>9, <3>1, IsrWithin
      <4>3. txCnt' \in Nat /\ rxCnt' \in Nat
        BY <1>0, <4>2
      <4>4. spiPc' \in Steps
        BY <4>2
      <4> QED
        BY <4>1, <4>2, <4>3, <4>4
    <3>2. CASE spiPc \notin {"wait", "asleep"}
      BY <1>0, <1>9, <3>2, IsrBefore
    <3> QED
      BY <3>1, <3>2
  <2>2. UNCHANGED <<dma, csChange, status, actual, late, rxLeft, txcr, rxcr, simult, run, cs>>
    BY <1>9 DEF Isr
  <2> QED
    BY <1>0, <2>1, <2>2
<1>10. CASE CallbackEnds
  BY <1>0, <1>10 DEF CallbackEnds
<1>11. CASE TxWord \/ TxComplete \/ RxComplete \/ HwStop
  <2>1. UNCHANGED <<threadVars, hostVars, rxLeft, txcr, rxcr, simult, ier, rxcif, cs>>
        /\ run' \in {run, FALSE}
    BY <1>11 DEF TxWord, TxComplete, RxComplete, HwStop
  <2> QED
    BY <1>0, <2>1
<1>12. CASE RxWord
  BY <1>0, <1>12 DEF RxWord
<1>13. CASE TxCallback
  BY <1>0, <1>13 DEF TxCallback, Callback, Wakes
<1>15. CASE RxCallback
  BY <1>0, <1>15 DEF RxCallback, Callback, Wakes
<1>16. CASE HwSend
  BY <1>0, <1>16 DEF HwSend
<1>17. ASSUME NEW w \in Words, HwExchange(w) \/ HwReceive(w) PROVE ScalarsOK'
  <2>1. rxcif' \in BOOLEAN /\ rxcr' \in Nat
    BY <1>0, <1>17 DEF HwExchange, HwReceive, Received
  <2>2. txcr' \in Nat
    BY <1>0, <1>17 DEF HwExchange, HwReceive
  <2>3. UNCHANGED <<threadVars, hostVars, dmaVars, simult, run, ier, cs>>
    BY <1>17 DEF HwExchange, HwReceive
  <2> QED
    BY <1>0, <2>1, <2>2, <2>3
<1>14. CASE UNCHANGED vars
  BY <1>0, <1>14 DEF vars
<1> QED
  BY <1>1, <1>2, <1>3, <1>4, <1>5, <1>6, <1>7, <1>8, <1>9, <1>10, <1>11, <1>12, <1>13,
     <1>14, <1>15, <1>16, <1>17 DEF Next, Thread, ThreadStep, TxEngine, RxEngine, Controller

\* The transmit channel writes the next word of the transfer it works for, and
\* has moved its data with the last.
LEMMA TxWordWhere ==
  ASSUME IInv, TxWord
  PROVE  /\ TxDma /\ "TX" \in xferStat /\ "TX" \notin late
         /\ spiPc \in {"rx", "rxIssue", "wait", "asleep"}
         /\ Moving(txChan) /\ txLeft # <<>> /\ txLeft[1] \in Seq(Words) /\ txLeft[1] # <<>>
         /\ Len(txFifo) < Depth /\ txFifo' = Append(txFifo, Head(txLeft[1]))
         /\ \/ txLeft' = <<Tail(txLeft[1])>> /\ Tail(txLeft[1]) # <<>> /\ txChan' = txChan
            \/ txLeft' = <<>> /\ Tail(txLeft[1]) = <<>> /\ Tx!Move
<1>0. TxChannel /\ txLeft \in Seq(Seq(Words))
  BY DEF IInv, TypeInv, SequencesOK
<1>1. txChan.active # <<>> /\ txLeft # <<>>
  BY DEF TxWord
<1>2. /\ TxDma /\ "TX" \in xferStat /\ "TX" \notin late
      /\ spiPc \in {"rx", "rxIssue", "wait", "asleep"}
      /\ Moving(txChan) /\ Len(txLeft) = 1 /\ txLeft[1] # <<>>
  BY <1>0, <1>1, ChanFields DEF TxChannel
<1> DEFINE h == txLeft[1]
<1>3. h \in Seq(Words) /\ Head(txLeft) = h /\ txLeft = <<h>>
  <2>1. txLeft[1] \in Seq(Words)
    BY <1>0, <1>2, ElementOfSeq
  <2>2. txLeft = <<txLeft[1]>>
    BY <1>0, <1>2
  <2> QED
    BY <1>0, <1>2, <2>1, <2>2
<1> HIDE DEF h
<1>4. /\ Tail(h) \in Seq(Words) /\ Len(Tail(h)) = Len(h) - 1 /\ Len(h) \in Nat
      /\ (Tail(h) = <<>> <=> Len(Tail(h)) = 0)
  <2>1. h # <<>>
    BY <1>2 DEF h
  <2>2. Tail(h) \in Seq(Words) /\ Len(Tail(h)) = Len(h) - 1
    BY <1>3, <2>1, HeadTailProperties
  <2> QED
    BY <1>3, <2>2, EmptySeq, LenProperties
<1>5. Tail(h) # <<>> <=> Len(h) > 1
  <2>1. Len(h) > 0
    BY <1>2, <1>3, EmptySeq, LenProperties DEF h
  <2> QED
    BY <1>4, <2>1
<1>6. /\ Len(txFifo) < Depth /\ txFifo' = Append(txFifo, Head(h))
      /\ IF Len(h) > 1
         THEN txLeft' = [txLeft EXCEPT ![1] = Tail(@)] /\ txChan' = txChan
         ELSE txLeft' = Tail(txLeft) /\ Tx!Move
  BY <1>3 DEF TxWord
<1>7. [txLeft EXCEPT ![1] = Tail(@)] = <<Tail(h)>> /\ Tail(txLeft) = <<>>
  BY <1>3
<1> QED
  BY <1>1, <1>2, <1>3, <1>5, <1>6, <1>7 DEF h

\* The receive channel reads the next word of the transfer it works for.
LEMMA RxWordWhere ==
  ASSUME IInv, RxWord
  PROVE  /\ RxDma /\ "RX" \in xferStat /\ "RX" \notin late
         /\ spiPc \in {"wait", "asleep"}
         /\ Moving(rxChan) /\ rxLeft \in 1 .. T.rx /\ T.rx \in Nat
         /\ Taken = T.rx - rxLeft /\ Taken + 1 \in 1 .. T.rx
         /\ Len(rxBuf) = T.rx /\ rxFifo # <<>>
         /\ rxBuf' = [rxBuf EXCEPT ![Taken + 1] = Head(rxFifo)]
         /\ rxFifo' = Tail(rxFifo) /\ rxLeft' = rxLeft - 1
         /\ IF rxLeft = 1 THEN Rx!Move ELSE rxChan' = rxChan
<1>0. RxChannel /\ Receiving /\ MessageOK
  BY DEF IInv, TypeInv
<1>1. rxChan.active # <<>> /\ rxLeft > 0
  BY DEF RxWord
<1>2. /\ RxDma /\ "RX" \in xferStat /\ "RX" \notin late /\ spiPc \in {"wait", "asleep"}
      /\ Moving(rxChan) /\ rxLeft \in 1 .. T.rx
  BY <1>0, <1>1, ChanFields DEF RxChannel
<1>3. Len(rxBuf) = T.rx /\ T.rx \in Nat
  BY <1>0, <1>2, TransferType DEF Receiving, InTransfer, Steps
<1>4. Taken = T.rx - rxLeft
  BY <1>2 DEF Taken
<1>5. Taken + 1 \in 1 .. T.rx /\ Len(rxBuf) - rxLeft + 1 = Taken + 1
  BY <1>2, <1>3, <1>4
<1> QED
  BY <1>2, <1>3, <1>4, <1>5 DEF RxWord

LEMMA SequencesNext ==
  ASSUME IInv, [Next]_vars
  PROVE  SequencesOK'
<1>0. SequencesOK /\ MessageOK /\ ScalarsOK /\ Depth \in Nat
  BY Constants DEF IInv, TypeInv
<1>f. /\ Len(txFifo) \in Nat /\ Len(rxFifo) \in Nat
      /\ \A s \in Seq(Words), w \in Words :
           Append(s, w) \in Seq(Words) /\ Len(Append(s, w)) = Len(s) + 1
      /\ \A s \in Seq(Words) : s # <<>> =>
           Head(s) \in Words /\ Tail(s) \in Seq(Words) /\ Len(Tail(s)) = Len(s) - 1
  BY Fifos, AppendProperties, HeadTailProperties
<1>e. <<>> \in Seq(Words) /\ <<>> \in Seq(Seq(Words)) /\ Len(<<>>) <= Depth
  BY Constants, EmptySeq
<1>1. CASE UNCHANGED <<rxBuf, txLeft, txFifo, rxFifo, frame, due, answers>>
  BY <1>0, <1>1 DEF SequencesOK
<1>2. CASE SetupXfer
  <2>1. /\ txFifo' = txFifo \/ txFifo' = <<>>
        /\ rxFifo' = rxFifo \/ rxFifo' = <<>>
        /\ frame' = frame \/ frame' = <<>>
        /\ due' = due \/ due' = <<>>
        /\ UNCHANGED <<rxBuf, txLeft, answers>>
    BY <1>2 DEF SetupXfer
  <2>2. txFifo' \in Seq(Words) /\ Len(txFifo') <= Depth
    BY <1>0, <1>e, <2>1 DEF SequencesOK
  <2>3. rxFifo' \in Seq(Words) /\ Len(rxFifo') <= Depth
    BY <1>0, <1>e, <2>1 DEF SequencesOK
  <2> QED
    BY <1>0, <1>e, <2>1, <2>2, <2>3 DEF SequencesOK
<1>3. CASE Load
  <2>1. /\ txFifo' = txFifo \/ txFifo' = <<>>
        /\ answers' = <<>> /\ due' = due \o T.tx
        /\ rxBuf' = [i \in 1 .. T.rx |-> BLANK]
        /\ UNCHANGED <<txLeft, rxFifo, frame>>
    BY <1>3 DEF Load
  <2>2. due \o T.tx \in Seq(Words)
    BY <1>0, TransferType, ConcatProperties DEF SequencesOK
  <2>3. rxBuf' \in Seq(AnyWord)
    <3>1. T.rx \in Nat /\ BLANK \in AnyWord
      BY <1>0, TransferType DEF AnyWord
    <3> QED
      BY <2>1, <3>1, IsASeq
  <2>4. txFifo' \in Seq(Words) /\ Len(txFifo') <= Depth
    BY <1>0, <1>e, <2>1 DEF SequencesOK
  <2> QED
    BY <1>0, <1>e, <2>1, <2>2, <2>3, <2>4 DEF SequencesOK
<1>4. CASE Fill \/ TxByCpu
  <2>1. InTransfer
    BY <1>4 DEF Fill, TxByCpu, InTransfer, Steps
  <2>2. /\ txFifo' = txFifo \/ txFifo' = txFifo \o Following(Depth - Len(txFifo))
        /\ UNCHANGED <<rxBuf, txLeft, rxFifo, frame, due, answers>>
    BY <1>4 DEF Fill, TxByCpu, Filled
  <2>3. txFifo' \in Seq(Words) /\ Len(txFifo') <= Depth
    BY <1>0, <2>1, <2>2, FilledType DEF SequencesOK
  <2> QED
    BY <1>0, <2>2, <2>3 DEF SequencesOK
<1>5. CASE TxSubmit
  <2>1. txLeft' \in {txLeft, Append(txLeft, T.tx)}
        /\ UNCHANGED <<rxBuf, txFifo, rxFifo, frame, due, answers>>
    BY <1>5 DEF TxSubmit
  <2>2. Append(txLeft, T.tx) \in Seq(Seq(Words))
    BY <1>0, TransferType, AppendProperties DEF SequencesOK
  <2> QED
    BY <1>0, <2>1, <2>2 DEF SequencesOK
<1>6. CASE Isr
  <2>1. UNCHANGED <<txLeft, frame, due, answers>>
    BY <1>6 DEF Isr
  <2>2. CASE spiPc \notin {"wait", "asleep"}
    BY <1>0, <1>6, <2>1, <2>2, IsrBefore DEF SequencesOK
  <2>3. CASE spiPc \in {"wait", "asleep"}
    <3>1. /\ Read \in Seq(Words) /\ Written \in Seq(Words)
          /\ Len(Written) \in Nat /\ Len(txFifo) + Len(Written) <= Depth
          /\ rxBuf' = [i \in DOMAIN rxBuf |->
                         IF i - rxCnt \in DOMAIN Read THEN Read[i - rxCnt] ELSE rxBuf[i]]
          /\ rxFifo' = rxFifo \/ rxFifo' = <<>>
          /\ txFifo' = txFifo \o Written
      BY <1>6, <2>3, IsrWithin
    <3>2. txFifo' \in Seq(Words) /\ Len(txFifo') <= Depth
      BY <1>0, <3>1, ConcatProperties DEF SequencesOK
    <3>3. rxBuf' \in Seq(AnyWord)
      <4>1. /\ DOMAIN rxBuf = 1 .. Len(rxBuf) /\ Len(rxBuf) \in Nat
            /\ \A i \in 1 .. Len(rxBuf) : rxBuf[i] \in AnyWord
        BY <1>0, LenProperties, ElementOfSeq DEF SequencesOK
      <4>2. \A i \in DOMAIN Read : Read[i] \in AnyWord
        BY <3>1, LenProperties, ElementOfSeq DEF AnyWord
      <4> DEFINE e(i) == IF i - rxCnt \in DOMAIN Read THEN Read[i - rxCnt] ELSE rxBuf[i]
      <4>3. \A i \in 1 .. Len(rxBuf) : e(i) \in AnyWord
        BY <4>1, <4>2
      <4>4. rxBuf' = [i \in 1 .. Len(rxBuf) |-> e(i)]
        BY <3>1, <4>1
      <4> HIDE DEF e
      <4> QED
        BY <4>1, <4>3, <4>4, IsASeq
    <3>4. rxFifo' \in Seq(Words) /\ Len(rxFifo') <= Depth
      BY <1>0, <1>e, <3>1 DEF SequencesOK
    <3> QED
      BY <1>0, <2>1, <3>2, <3>3, <3>4 DEF SequencesOK
  <2> QED
    BY <2>2, <2>3
<1>7. CASE TxWord
  <2>1. /\ txLeft[1] \in Seq(Words) /\ txLeft[1] # <<>> /\ Len(txFifo) < Depth
        /\ txFifo' = Append(txFifo, Head(txLeft[1]))
        /\ txLeft' = <<Tail(txLeft[1])>> \/ txLeft' = <<>>
    BY <1>7, TxWordWhere
  <2>2. Head(txLeft[1]) \in Words /\ Tail(txLeft[1]) \in Seq(Words)
    BY <2>1, HeadTailProperties
  <2>3. <<Tail(txLeft[1])>> \in Seq(Seq(Words))
    BY <2>2
  <2>4. txLeft' \in Seq(Seq(Words))
    BY <1>e, <2>1, <2>3
  <2>5. txFifo' \in Seq(Words) /\ Len(txFifo') <= Depth
    <3>1. txFifo' \in Seq(Words) /\ Len(txFifo') = Len(txFifo) + 1
      BY <1>0, <2>1, <2>2, AppendProperties DEF SequencesOK
    <3> QED
      BY <1>0, <1>f, <2>1, <3>1
  <2>6. UNCHANGED <<rxBuf, rxFifo, frame, due, answers>>
    BY <1>7 DEF TxWord
  <2> QED
    BY <1>0, <2>4, <2>5, <2>6 DEF SequencesOK
<1>8. CASE RxWord
  <2>1. /\ rxFifo # <<>> /\ rxFifo' = Tail(rxFifo) /\ Taken + 1 \in 1 .. Len(rxBuf)
        /\ rxBuf' = [rxBuf EXCEPT ![Taken + 1] = Head(rxFifo)]
    BY <1>8, RxWordWhere
  <2>2. Head(rxFifo) \in AnyWord /\ rxFifo' \in Seq(Words) /\ Len(rxFifo') = Len(rxFifo) - 1
    BY <1>0, <1>f, <2>1 DEF SequencesOK, AnyWord
  <2>3. rxBuf' \in Seq(AnyWord)
    BY <1>0, <2>1, <2>2, ExceptSeq DEF SequencesOK
  <2>4. Len(rxFifo') <= Depth
    BY <1>0, <1>f, <2>2 DEF SequencesOK
  <2>5. UNCHANGED <<txLeft, txFifo, frame, due, answers>>
    BY <1>8 DEF RxWord
  <2> QED
    BY <1>0, <2>2, <2>3, <2>4, <2>5 DEF SequencesOK
<1>9. ASSUME NEW w \in Words, HwSend \/ HwExchange(w) \/ HwReceive(w) PROVE SequencesOK'
  <2>1. txFifo' = txFifo \/ (txFifo # <<>> /\ txFifo' = Tail(txFifo))
    BY <1>9 DEF HwSend, HwExchange, HwReceive
  <2>2. frame' = frame \/ (txFifo # <<>> /\ frame' = Append(frame, Head(txFifo)))
    BY <1>9 DEF HwSend, HwExchange, HwReceive, Sent
  <2>3. /\ rxFifo' = rxFifo \/ (Len(rxFifo) < Depth /\ rxFifo' = Append(rxFifo, w))
        /\ answers' = answers \/ answers' = Append(answers, w)
        /\ UNCHANGED <<rxBuf, txLeft, due>>
    BY <1>9 DEF HwSend, HwExchange, HwReceive, Received
  <2>h. txFifo # <<>> => /\ Head(txFifo) \in Words /\ Tail(txFifo) \in Seq(Words)
                         /\ Len(Tail(txFifo)) = Len(txFifo) - 1
    BY <1>0, HeadTailProperties DEF SequencesOK
  <2>4. txFifo' \in Seq(Words) /\ Len(txFifo') <= Depth
    <3>1. CASE txFifo' = txFifo
      BY <1>0, <3>1 DEF SequencesOK
    <3>2. CASE txFifo # <<>> /\ txFifo' = Tail(txFifo)
      <4>1. txFifo' \in Seq(Words) /\ Len(txFifo') = Len(txFifo) - 1 /\ Len(txFifo) <= Depth
        BY <1>0, <2>h, <3>2 DEF SequencesOK
      <4> QED
        BY <1>0, <1>f, <4>1
    <3> QED
      BY <2>1, <3>1, <3>2
  <2>5. frame' \in Seq(Words)
    <3>1. txFifo # <<>> => Append(frame, Head(txFifo)) \in Seq(Words)
      BY <1>0, <2>h, AppendProperties DEF SequencesOK
    <3> QED
      BY <1>0, <2>2, <3>1 DEF SequencesOK
  <2>6. rxFifo' \in Seq(Words) /\ Len(rxFifo') <= Depth
    <3>1. Append(rxFifo, w) \in Seq(Words) /\ Len(Append(rxFifo, w)) = Len(rxFifo) + 1
      BY <1>0, AppendProperties DEF SequencesOK
    <3>2. CASE rxFifo' = rxFifo
      BY <1>0, <3>2 DEF SequencesOK
    <3>3. CASE Len(rxFifo) < Depth /\ rxFifo' = Append(rxFifo, w)
      <4>1. rxFifo' \in Seq(Words) /\ Len(rxFifo') = Len(rxFifo) + 1
        BY <3>1, <3>3
      <4> QED
        BY <1>0, <1>f, <3>3, <4>1
    <3> QED
      BY <2>3, <3>2, <3>3
  <2>7. answers' \in Seq(Words)
    <3>1. Append(answers, w) \in Seq(Words)
      BY <1>0, AppendProperties DEF SequencesOK
    <3> QED
      BY <1>0, <2>3, <3>1 DEF SequencesOK
  <2> QED
    BY <1>0, <2>3, <2>4, <2>5, <2>6, <2>7 DEF SequencesOK
<1>10. CASE HwSend
  <2>1. \A w \in Words : SequencesOK'
    BY <1>9, <1>10
  <2>2. Head(txFifo) \in Words
    BY <1>0, <1>10, HeadTailProperties DEF HwSend, SequencesOK
  <2> QED
    BY <2>1, <2>2
<1>11. CASE \/ \E m \in Messages : Submit(m)
            \/ TxIssue \/ RxByCpu \/ RxSubmit \/ RxIssue \/ Wait \/ Return \/ Finalize
  BY <1>1, <1>11 DEF Submit, TxIssue, RxByCpu, RxSubmit, RxIssue, Wait, Return, Finalize
<1>12. CASE \/ CallbackEnds \/ TxComplete \/ TxCallback \/ RxComplete \/ RxCallback
            \/ HwStop \/ UNCHANGED vars
  BY <1>1, <1>12 DEF CallbackEnds, TxComplete, TxCallback, RxComplete, RxCallback, Callback,
     HwStop, vars
<1> QED
  BY <1>2, <1>3, <1>4, <1>5, <1>6, <1>7, <1>8, <1>9, <1>10, <1>11, <1>12
  DEF Next, Thread, ThreadStep, TxEngine, RxEngine, Controller

LEMMA TypeNext ==
  ASSUME Env \subseteq {"beside"}, IInv, [Next]_vars
  PROVE  TypeInv'
  BY MessageNext, ScalarsNext, SequencesNext DEF TypeInv

-----------------------------------------------------------------------------
(* Steps and channels                                                       *)

\* The stages of the thread at which a channel may have been given a transfer.
TxUnderway == spiPc \in {"txIssue", "rx", "rxIssue", "wait", "asleep"}
RxUnderway == spiPc \in {"rxIssue", "wait", "asleep"}

LEMMA Underway ==
  ASSUME IInv
  PROVE  /\ ~(TxUnderway /\ TxDma /\ "TX" \in xferStat) => Unused(txChan) /\ txLeft = <<>>
         /\ ~(RxUnderway /\ RxDma /\ "RX" \in xferStat) => Unused(rxChan) /\ rxLeft = 0
  BY DEF IInv, TxChannel, RxChannel, TxUnderway, RxUnderway

\* Nothing happens to a channel that works for nobody; or to one that does.
LEMMA TxStays ==
  ASSUME IInv, UNCHANGED <<dma, msg, cur, txChan, txLeft>>,
         \/ ~(TxUnderway /\ TxDma /\ "TX" \in xferStat)
         \/ /\ "TX" \in xferStat /\ "TX" \notin late
              => "TX" \in xferStat' /\ "TX" \notin late'
            /\ spiPc = "txIssue" => spiPc' = "txIssue"
            /\ spiPc \in {"rx", "rxIssue", "wait", "asleep"}
              => spiPc' \in {"rx", "rxIssue", "wait", "asleep"}
  PROVE  TxChannel'
<1>1. CASE ~(TxUnderway /\ TxDma /\ "TX" \in xferStat)
  <2>1. Unused(txChan') /\ txLeft' = <<>>
    BY <1>1, Underway
  <2> QED
    BY <2>1 DEF TxChannel
<1>2. CASE TxUnderway /\ TxDma /\ "TX" \in xferStat
  <2>1. TxChannel /\ T' = T /\ TxDma' = TxDma /\ txChan' = txChan /\ txLeft' = txLeft
    BY DEF IInv, T, TxDma
  <2> QED
    BY <1>2, <2>1 DEF TxChannel
<1> QED
  BY <1>1, <1>2

LEMMA RxStays ==
  ASSUME IInv, UNCHANGED <<dma, msg, cur, rxChan, rxLeft>>,
         \/ ~(RxUnderway /\ RxDma /\ "RX" \in xferStat)
         \/ /\ "RX" \in xferStat /\ "RX" \notin late
              => "RX" \in xferStat' /\ "RX" \notin late'
            /\ spiPc = "rxIssue" => spiPc' = "rxIssue"
            /\ spiPc \in {"wait", "asleep"} => spiPc' \in {"wait", "asleep"}
  PROVE  RxChannel'
<1>1. CASE ~(RxUnderway /\ RxDma /\ "RX" \in xferStat)
  <2>1. Unused(rxChan') /\ rxLeft' = 0
    BY <1>1, Underway
  <2> QED
    BY <2>1 DEF RxChannel
<1>2. CASE RxUnderway /\ RxDma /\ "RX" \in xferStat
  <2>1. RxChannel /\ T' = T /\ RxDma' = RxDma /\ rxChan' = rxChan /\ rxLeft' = rxLeft
    BY DEF IInv, T, RxDma
  <2> QED
    BY <1>2, <2>1 DEF RxChannel
<1> QED
  BY <1>1, <1>2

LEMMA TxChannelNext ==
  ASSUME Env \subseteq {"beside"}, IInv, [Next]_vars
  PROVE  TxChannel'
<1>0. TypeInv /\ MessageOK /\ ScalarsOK /\ TxChannel /\ Bits
  BY DEF IInv, TypeInv
<1>s. ASSUME ~(TxUnderway /\ TxDma /\ "TX" \in xferStat), txChan' = txChan, txLeft' = txLeft
      PROVE  TxChannel'
  BY <1>s, Underway DEF TxChannel
<1>1. CASE \/ \E m \in Messages : Submit(m)
           \/ SetupXfer \/ Load \/ Fill \/ TxByCpu \/ Return \/ Finalize
  <2>1. ~TxUnderway /\ txChan' = txChan /\ txLeft' = txLeft
    BY <1>1 DEF Submit, SetupXfer, Load, Fill, TxByCpu, Return, Finalize, TxUnderway
  <2> QED
    BY <1>s, <2>1
<1>2. CASE TxSubmit
  <2>1. /\ Len(T.tx) > TxMost /\ spiPc = "tx" /\ spiPc' = "txIssue"
        /\ Tx!Submit(<<txChan.given + 1>>) /\ txLeft' = Append(txLeft, T.tx)
        /\ UNCHANGED <<dma, msg, cur, xferStat, late>>
    BY <1>2 DEF TxSubmit, Refused
  <2>2. Unused(txChan) /\ txLeft = <<>>
    BY <2>1, Underway DEF TxUnderway
  <2>3. Waiting(txChan') /\ txLeft' = <<T.tx>> /\ T' = T
    BY <2>1, <2>2, TxStages DEF T
  <2>4. dma /\ T.tx # <<>>
    BY <1>0, <2>1, TransferType, Constants DEF Bits, ScalarsOK
  <2>5. TxDma' /\ "TX" \in xferStat' /\ "TX" \notin late'
    BY <1>0, <2>1, <2>3, <2>4 DEF TxDma, Bits
  <2> QED
    BY <2>1, <2>3, <2>5 DEF TxChannel
<1>3. CASE TxIssue
  <2>1. /\ spiPc = "txIssue" /\ spiPc' = "rx" /\ Tx!Issue
        /\ UNCHANGED <<dma, msg, cur, xferStat, late, txLeft>>
    BY <1>0, <1>3 DEF TxIssue, IInv, NoError, InTransfer, Steps
  <2>2. CASE Unused(txChan) /\ txLeft = <<>>
    BY <2>1, <2>2, TxStages DEF TxChannel
  <2>3. CASE ~(Unused(txChan) /\ txLeft = <<>>)
    <3>1. TxDma /\ "TX" \in xferStat /\ "TX" \notin late /\ Waiting(txChan) /\ txLeft = <<T.tx>>
      BY <1>0, <2>1, <2>3 DEF TxChannel
    <3>2. Moving(txChan') /\ T' = T /\ TxDma'
      BY <2>1, <3>1, TxStages DEF T, TxDma
    <3>3. T.tx # <<>>
      BY <1>0, <3>1, TransferType, Constants DEF TxDma
    <3>4. Len(txLeft') = 1 /\ txLeft'[1] # <<>>
      BY <2>1, <3>1, <3>3
    <3> QED
      BY <2>1, <3>1, <3>2, <3>4 DEF TxChannel
  <2> QED
    BY <2>2, <2>3
<1>4. CASE RxByCpu \/ RxSubmit \/ RxIssue
  <2>1. /\ UNCHANGED <<dma, msg, cur, txChan, txLeft, xferStat, late>>
        /\ spiPc \in {"rx", "rxIssue"} /\ spiPc' \in {"rxIssue", "wait"}
    BY <1>0, <1>4 DEF RxByCpu, RxSubmit, RxIssue, Refused, IInv, NoError, InTransfer, Steps
  <2> QED
    BY <2>1, TxStays
<1>5. CASE Wait
  <2>1. /\ UNCHANGED <<dma, msg, cur, txChan, txLeft, xferStat, late>>
        /\ spiPc = "wait" /\ (xferStat # {} => spiPc' = "asleep")
    BY <1>5 DEF Wait, Finished
  <2>2. "TX" \in xferStat => spiPc' = "asleep"
    BY <2>1
  <2> QED
    BY <2>1, <2>2, TxStays
<1>6. CASE Isr
  <2>1. txChan' = txChan /\ txLeft' = txLeft
    BY <1>6 DEF Isr
  <2>2. ~(TxUnderway /\ TxDma)
    BY <1>6, IsrWhere DEF Isr, TxUnderway
  <2> QED
    BY <1>s, <2>1, <2>2
<1>7. CASE CallbackEnds
  <2>1. /\ UNCHANGED <<dma, msg, cur, txChan, txLeft, spiPc>>
        /\ xferStat' = xferStat \ late /\ late' = {}
    BY <1>7 DEF CallbackEnds
  <2> QED
    BY <2>1, TxStays
<1>8. CASE TxWord
  <2>1. /\ TxDma /\ "TX" \in xferStat /\ "TX" \notin late
        /\ spiPc \in {"rx", "rxIssue", "wait", "asleep"} /\ Moving(txChan)
        /\ \/ txLeft' = <<Tail(txLeft[1])>> /\ Tail(txLeft[1]) # <<>> /\ txChan' = txChan
           \/ txLeft' = <<>> /\ Tail(txLeft[1]) = <<>> /\ Tx!Move
    BY <1>8, TxWordWhere
  <2>2. UNCHANGED <<dma, msg, cur, spiPc, xferStat, late>>
    BY <1>8 DEF TxWord
  <2>3. TxDma'
    BY <2>1, <2>2 DEF TxDma, T
  <2>4. \/ Moving(txChan') /\ Len(txLeft') = 1 /\ txLeft'[1] # <<>>
        \/ Moved(txChan') /\ txLeft' = <<>>
    BY <2>1, TxStages
  <2> QED
    BY <2>1, <2>2, <2>3, <2>4 DEF TxChannel
<1>9. CASE TxComplete
  <2>1. Tx!Complete /\ UNCHANGED <<dma, msg, cur, spiPc, xferStat, late, txLeft>>
    BY <1>9 DEF TxComplete
  <2>2. txChan.active # <<>> /\ ~Moving(txChan) /\ (Moved(txChan) => Done(txChan'))
    BY <2>1, TxStages
  <2>3. /\ TxDma /\ "TX" \in xferStat /\ "TX" \notin late
        /\ spiPc \in {"rx", "rxIssue", "wait", "asleep"} /\ Moved(txChan) /\ txLeft = <<>>
    BY <1>0, <2>2, ChanFields DEF TxChannel
  <2>4. TxDma'
    BY <2>1, <2>3 DEF TxDma, T
  <2> QED
    BY <2>1, <2>2, <2>3, <2>4 DEF TxChannel
<1>10. CASE TxCallback
  <2>1. Tx!Report /\ txLeft' = txLeft
    BY <1>10 DEF TxCallback
  <2>2. txChan.finished # <<>> /\ (Done(txChan) => Unused(txChan'))
    BY <2>1, TxStages
  <2>3. Done(txChan) /\ txLeft = <<>>
    BY <1>0, <2>2, ChanFields DEF TxChannel
  <2> QED
    BY <2>1, <2>2, <2>3 DEF TxChannel
<1>11. CASE RxWord \/ RxComplete
  <2>1. UNCHANGED <<dma, msg, cur, spiPc, xferStat, late, txChan, txLeft>>
    BY <1>11 DEF RxWord, RxComplete
  <2> QED
    BY <2>1, TxStays
<1>12. CASE RxCallback
  <2>1. /\ UNCHANGED <<dma, msg, cur, xferStat, txChan, txLeft>>
        /\ late' = late \cup {"RX"} /\ spiPc' = IF spiPc = "asleep" THEN "wait" ELSE spiPc
    BY <1>12 DEF RxCallback, Callback, Wakes
  <2>2. "TX" \in late' => "TX" \in late
    BY <2>1
  <2> QED
    BY <2>1, <2>2, TxStays
<1>13. CASE Controller \/ UNCHANGED vars
  <2>1. UNCHANGED <<dma, msg, cur, spiPc, xferStat, late, txChan, txLeft>>
    BY <1>13 DEF Controller, HwSend, HwStop, HwExchange, HwReceive, vars
  <2> QED
    BY <2>1, TxStays
<1> QED
  BY <1>1, <1>2, <1>3, <1>4, <1>5, <1>6, <1>7, <1>8, <1>9, <1>10, <1>11, <1>12, <1>13
  DEF Next, Thread, ThreadStep, TxEngine, RxEngine

LEMMA RxChannelNext ==
  ASSUME Env \subseteq {"beside"}, IInv, [Next]_vars
  PROVE  RxChannel'
<1>0. TypeInv /\ MessageOK /\ ScalarsOK /\ RxChannel /\ Bits
  BY DEF IInv, TypeInv
<1>s. ASSUME ~(RxUnderway /\ RxDma /\ "RX" \in xferStat), rxChan' = rxChan, rxLeft' = rxLeft
      PROVE  RxChannel'
  BY <1>s, Underway DEF RxChannel
<1>1. CASE \/ \E m \in Messages : Submit(m)
           \/ SetupXfer \/ Load \/ Fill \/ TxByCpu \/ TxSubmit \/ TxIssue \/ RxByCpu
           \/ Return \/ Finalize
  <2>1. ~RxUnderway /\ rxChan' = rxChan /\ rxLeft' = rxLeft
    BY <1>1 DEF Submit, SetupXfer, Load, Fill, TxByCpu, TxSubmit, TxIssue, RxByCpu, Return,
       Finalize, RxUnderway, Refused
  <2> QED
    BY <1>s, <2>1
<1>2. CASE RxSubmit
  <2>1. /\ T.rx > RxMost /\ spiPc = "rx" /\ spiPc' = "rxIssue"
        /\ Rx!Submit(<<rxChan.given + 1>>) /\ rxLeft' = T.rx
        /\ UNCHANGED <<dma, msg, cur, xferStat, late>>
    BY <1>2 DEF RxSubmit, Refused
  <2>2. Unused(rxChan)
    BY <2>1, Underway DEF RxUnderway
  <2>3. Waiting(rxChan') /\ T' = T
    BY <2>1, <2>2, RxStages DEF T
  <2>4. dma /\ T.rx > 0
    BY <1>0, <2>1, TransferType, Constants DEF Bits, ScalarsOK
  <2>5. RxDma' /\ "RX" \in xferStat' /\ "RX" \notin late'
    BY <1>0, <2>1, <2>3, <2>4 DEF RxDma, Bits
  <2> QED
    BY <2>1, <2>3, <2>5 DEF RxChannel
<1>3. CASE RxIssue
  <2>1. /\ spiPc = "rxIssue" /\ spiPc' = "wait" /\ Rx!Issue
        /\ UNCHANGED <<dma, msg, cur, xferStat, late, rxLeft>>
    BY <1>0, <1>3 DEF RxIssue, IInv, NoError, InTransfer, Steps
  <2>2. CASE Unused(rxChan) /\ rxLeft = 0
    BY <2>1, <2>2, RxStages DEF RxChannel
  <2>3. CASE ~(Unused(rxChan) /\ rxLeft = 0)
    <3>1. RxDma /\ "RX" \in xferStat /\ "RX" \notin late /\ Waiting(rxChan) /\ rxLeft = T.rx
      BY <1>0, <2>1, <2>3 DEF RxChannel
    <3>2. Moving(rxChan') /\ T' = T /\ RxDma'
      BY <2>1, <3>1, RxStages DEF T, RxDma
    <3>3. rxLeft' \in 1 .. T.rx
      BY <1>0, <2>1, <3>1, TransferType, Constants DEF RxDma
    <3> QED
      BY <2>1, <3>1, <3>2, <3>3 DEF RxChannel
  <2> QED
    BY <2>2, <2>3
<1>4. CASE Wait
  <2>1. /\ UNCHANGED <<dma, msg, cur, rxChan, rxLeft, xferStat, late>>
        /\ spiPc = "wait" /\ (xferStat # {} => spiPc' = "asleep")
    BY <1>4 DEF Wait, Finished
  <2>2. "RX" \in xferStat => spiPc' = "asleep"
    BY <2>1
  <2> QED
    BY <2>1, <2>2, RxStays
<1>5. CASE Isr
  <2>1. rxChan' = rxChan /\ rxLeft' = rxLeft
    BY <1>5 DEF Isr
  <2>2. ~(RxUnderway /\ RxDma)
    BY <1>5, IsrWhere DEF Isr, RxUnderway
  <2> QED
    BY <1>s, <2>1, <2>2
<1>6. CASE CallbackEnds
  <2>1. /\ UNCHANGED <<dma, msg, cur, rxChan, rxLeft, spiPc>>
        /\ xferStat' = xferStat \ late /\ late' = {}
    BY <1>6 DEF CallbackEnds
  <2> QED
    BY <2>1, RxStays
<1>7. CASE RxWord
  <2>1. /\ RxDma /\ "RX" \in xferStat /\ "RX" \notin late
        /\ spiPc \in {"wait", "asleep"} /\ Moving(rxChan) /\ rxLeft \in 1 .. T.rx
        /\ T.rx \in Nat /\ rxLeft' = rxLeft - 1
        /\ IF rxLeft = 1 THEN Rx!Move ELSE rxChan' = rxChan
    BY <1>7, RxWordWhere
  <2>2. UNCHANGED <<dma, msg, cur, spiPc, xferStat, late>>
    BY <1>7 DEF RxWord
  <2>3. RxDma' /\ T' = T
    BY <2>1, <2>2 DEF RxDma, T
  <2>4. CASE rxLeft = 1
    <3>1. Moved(rxChan') /\ rxLeft' = 0
      BY <2>1, <2>4, RxStages
    <3> QED
      BY <2>1, <2>2, <2>3, <3>1 DEF RxChannel
  <2>5. CASE rxLeft # 1
    <3>1. Moving(rxChan') /\ rxLeft' \in 1 .. T.rx
      BY <2>1, <2>5
    <3> QED
      BY <2>1, <2>2, <2>3, <3>1 DEF RxChannel
  <2> QED
    BY <2>4, <2>5
<1>8. CASE RxComplete
  <2>1. Rx!Complete /\ UNCHANGED <<dma, msg, cur, spiPc, xferStat, late, rxLeft>>
    BY <1>8 DEF RxComplete
  <2>2. rxChan.active # <<>> /\ ~Moving(rxChan) /\ (Moved(rxChan) => Done(rxChan'))
    BY <2>1, RxStages
  <2>3. /\ RxDma /\ "RX" \in xferStat /\ "RX" \notin late
        /\ spiPc \in {"wait", "asleep"} /\ Moved(rxChan) /\ rxLeft = 0
    BY <1>0, <2>2, ChanFields DEF RxChannel
  <2>4. RxDma'
    BY <2>1, <2>3 DEF RxDma, T
  <2> QED
    BY <2>1, <2>2, <2>3, <2>4 DEF RxChannel
<1>9. CASE RxCallback
  <2>1. Rx!Report /\ rxLeft' = rxLeft
    BY <1>9 DEF RxCallback, Callback
  <2>2. rxChan.finished # <<>> /\ (Done(rxChan) => Unused(rxChan'))
    BY <2>1, RxStages
  <2>3. Done(rxChan) /\ rxLeft = 0
    BY <1>0, <2>2, ChanFields DEF RxChannel
  <2> QED
    BY <2>1, <2>2, <2>3 DEF RxChannel
<1>10. CASE TxWord \/ TxComplete
  <2>1. UNCHANGED <<dma, msg, cur, spiPc, xferStat, late, rxChan, rxLeft>>
    BY <1>10 DEF TxWord, TxComplete
  <2> QED
    BY <2>1, RxStays
<1>11. CASE TxCallback
  <2>1. /\ UNCHANGED <<dma, msg, cur, xferStat, rxChan, rxLeft>>
        /\ late' = late \cup {"TX"} /\ spiPc' = IF spiPc = "asleep" THEN "wait" ELSE spiPc
    BY <1>11 DEF TxCallback, Callback, Wakes
  <2>2. "RX" \in late' => "RX" \in late
    BY <2>1
  <2> QED
    BY <2>1, <2>2, RxStays
<1>12. CASE Controller \/ UNCHANGED vars
  <2>1. UNCHANGED <<dma, msg, cur, spiPc, xferStat, late, rxChan, rxLeft>>
    BY <1>12 DEF Controller, HwSend, HwStop, HwExchange, HwReceive, vars
  <2> QED
    BY <2>1, RxStays
<1> QED
  BY <1>1, <1>2, <1>3, <1>4, <1>5, <1>6, <1>7, <1>8, <1>9, <1>10, <1>11, <1>12
  DEF Next, Thread, ThreadStep, TxEngine, RxEngine

-----------------------------------------------------------------------------
(* Steps and the words sent                                                 *)

\* An element that moves from the head of one sequence to the end of another
\* leaves what they are together.
LEMMA MovesOver ==
  ASSUME NEW S, NEW s \in Seq(S), NEW t \in Seq(S), t # <<>>
  PROVE  Append(s, Head(t)) \o Tail(t) = s \o t
<1>1. Head(t) \in S /\ Tail(t) \in Seq(S) /\ <<Head(t)>> \in Seq(S)
  BY HeadTailProperties
<1>2. Append(s, Head(t)) = s \o <<Head(t)>>
  BY <1>1, AppendIsConcat
<1>3. <<Head(t)>> \o Tail(t) = t
  BY SMTT(30), HeadTailProperties, LenProperties
<1> QED
  BY <1>1, <1>2, <1>3, ConcatAssociative

LEMMA Regroup ==
  \A x, y, z \in Seq(Words) : (x \o y) \o z = x \o (y \o z)
<1> TAKE x, y, z \in Seq(Words)
<1> QED
  BY ConcatAssociative

\* So do words that move from the third of three to the second, one or more.
LEMMA MovesUp ==
  \A f, q, t \in Seq(Words) :
    t # <<>> => (f \o Append(q, Head(t))) \o Tail(t) = (f \o q) \o t
<1> SUFFICES ASSUME NEW f \in Seq(Words), NEW q \in Seq(Words), NEW t \in Seq(Words), t # <<>>
             PROVE  (f \o Append(q, Head(t))) \o Tail(t) = (f \o q) \o t
  OBVIOUS
<1>1. Head(t) \in Words /\ Tail(t) \in Seq(Words)
  BY HeadTailProperties
<1> DEFINE a == Append(q, Head(t))
           b == Tail(t)
<1>2. a \in Seq(Words) /\ b \in Seq(Words) /\ a \o b = q \o t
  BY <1>1, AppendProperties, MovesOver
<1> HIDE DEF a, b
<1>3. (f \o a) \o b = f \o (a \o b)
  BY <1>2, Regroup
<1>4. (f \o q) \o t = f \o (q \o t)
  BY Regroup
<1>5. (f \o a) \o b = (f \o q) \o t
  BY <1>2, <1>3, <1>4
<1> QED
  BY <1>5 DEF a, b

LEMMA MoveUp ==
  \A f, q, v, t \in Seq(Words) : (f \o (q \o v)) \o t = (f \o q) \o (v \o t)
<1> SUFFICES ASSUME NEW f \in Seq(Words), NEW q \in Seq(Words),
                    NEW v \in Seq(Words), NEW t \in Seq(Words)
             PROVE  (f \o (q \o v)) \o t = (f \o q) \o (v \o t)
  OBVIOUS
<1> DEFINE a == q \o v
           b == v \o t
<1>1. a \in Seq(Words) /\ b \in Seq(Words)
  BY ConcatProperties
<1>2. a \o t = q \o b
  BY ConcatAssociative
<1> HIDE DEF a, b
<1>3. (f \o a) \o t = f \o (a \o t)
  BY <1>1, Regroup
<1>4. (f \o q) \o b = f \o (q \o b)
  BY <1>1, Regroup
<1>5. (f \o a) \o t = (f \o q) \o b
  BY <1>2, <1>3, <1>4
<1> QED
  BY <1>5 DEF a, b

\* What comes first is a prefix.
LEMMA FirstIsPrefix ==
  ASSUME NEW S, NEW s \in Seq(S), NEW t \in Seq(S)
  PROVE  IsPrefix(s, s \o t)
<1>1. Len(s) \in Nat /\ Len(s) <= Len(s \o t)
  BY ConcatProperties, LenProperties
<1>2. SubSeq(s, 1, Len(s)) = SubSeq(s \o t, 1, Len(s))
  <2>1. CASE Len(s) = 0
    BY <2>1, SubSeqEmpty
  <2>2. CASE Len(s) # 0
    BY <1>1, <2>2, SubSeqOfConcat1
  <2> QED
    BY <2>1, <2>2
<1> QED
  BY <1>1, <1>2 DEF IsPrefix

\* Nothing is sent or written.
LEMMA SendingStays ==
  ASSUME IInv, UNCHANGED <<dma, msg, cur, txCnt, txLeft, txcr, txFifo, frame, due>>,
         InTransfer' = InTransfer, TxDma => (spiPc' = "tx" <=> spiPc = "tx"),
         answers' = answers \/ txcr = 0, InTransfer \/ UNCHANGED <<spiPc, csChange>>
  PROVE  Sending'
<1>1. T' = T /\ TxDma' = TxDma
  BY DEF T, TxDma
<1>2. Rest' = Rest
  BY <1>1 DEF Rest
<1>3. Sending /\ txcr \in Nat
  BY DEF IInv, TypeInv, ScalarsOK
<1>4. CASE InTransfer
  BY <1>1, <1>2, <1>3, <1>4 DEF Sending
<1>5. CASE ~InTransfer
  BY <1>1, <1>3, <1>5 DEF Sending, Trailing
<1> QED
  BY <1>4, <1>5

\* Thread or handler write some words.
LEMMA CpuWrites ==
  ASSUME IInv, InTransfer, ~TxDma, InTransfer',
         UNCHANGED <<dma, msg, cur, txcr, frame, due, answers>>,
         NEW ws \in Seq(Words), Len(ws) \in Nat, txCnt + Len(ws) <= Len(T.tx),
         ws = SubSeq(T.tx, txCnt + 1, txCnt + Len(ws)),
         txFifo' = txFifo \o ws, txCnt' = txCnt + Len(ws)
  PROVE  Sending'
<1>0. /\ MessageOK /\ txFifo \in Seq(Words) /\ Len(txFifo) \in Nat /\ frame \in Seq(Words)
      /\ txCnt \in Nat /\ txCnt <= Len(T.tx) /\ Len(T.tx) \in Nat
      /\ txcr = Len(txFifo) + Len(Rest) /\ (frame \o txFifo) \o Rest = due
      /\ T.tx = <<>> /\ txcr > 0 => T.rx > 0 /\ answers = <<>>
  <2>1. MessageOK /\ ScalarsOK /\ SequencesOK /\ Sending
    BY DEF IInv, TypeInv
  <2>2. Len(T.tx) \in Nat /\ Len(txFifo) \in Nat
    BY <2>1, Fifos, TransferType
  <2> QED
    BY <2>1, <2>2 DEF ScalarsOK, SequencesOK, Sending
<1>1. T' = T /\ ~TxDma'
  BY DEF T, TxDma
<1> DEFINE j == txCnt + Len(ws)
           r == SubSeq(T.tx, j + 1, Len(T.tx))
<1>2. txCnt \in 0 .. Len(T.tx) /\ j \in txCnt .. Len(T.tx)
  BY <1>0
<1>3. /\ SubSeq(T.tx, txCnt + 1, j) \o r = SubSeq(T.tx, txCnt + 1, Len(T.tx))
      /\ r \in Seq(Words) /\ Len(r) = Len(T.tx) - j
  <2> HIDE DEF j
  <2> QED
    BY <1>0, <1>2, FollowingAndRest
<1>4. Rest = ws \o r /\ Rest' = r
  BY <1>1, <1>3 DEF Rest
<1> HIDE DEF j, r
<1>5. /\ Len(txFifo') = Len(txFifo) + Len(ws) /\ Len(Rest) = Len(ws) + Len(r)
      /\ Len(r) \in Nat
  BY <1>0, <1>3, <1>4, ConcatProperties, LenProperties
<1>6. (frame \o txFifo') \o r = due
  <2>0. txFifo \in Seq(Words) /\ frame \in Seq(Words) /\ ws \in Seq(Words) /\ r \in Seq(Words)
    BY <1>0, <1>3
  <2>1. (frame \o (txFifo \o ws)) \o r = (frame \o txFifo) \o (ws \o r)
    <3>1. \A v, t \in Seq(Words) : (frame \o (txFifo \o v)) \o t = (frame \o txFifo) \o (v \o t)
      BY <2>0, MoveUp
    <3>2. \A t \in Seq(Words) : (frame \o (txFifo \o ws)) \o t = (frame \o txFifo) \o (ws \o t)
      BY <3>1
    <3> QED
      BY <2>0, <3>2
  <2> QED
    BY <1>0, <1>4, <2>1
<1>7. txcr' = Len(txFifo') + Len(Rest')
  BY <1>0, <1>4, <1>5
<1>8. txCnt' <= Len(T'.tx) /\ (T'.tx = <<>> /\ txcr' > 0 => T'.rx > 0 /\ answers' = <<>>)
  BY <1>0, <1>1
<1> QED
  BY <1>4, <1>6, <1>7, <1>8 DEF Sending

\* The controller sends a word, which may be one of the last transfer.
LEMMA CtrlSends ==
  ASSUME IInv, UNCHANGED <<dma, msg, cur, csChange, spiPc, txCnt, txLeft, due, cs>>, Sent,
         txcr > 0, txFifo # <<>>, txFifo' = Tail(txFifo), txcr' = txcr - 1,
         answers' = answers \/ T.tx # <<>>
  PROVE  Sending'
<1>0. Sending /\ txcr \in Nat /\ Clock
  BY DEF IInv, TypeInv, ScalarsOK
<1>1. cs
  BY <1>0 DEF Sending, Trailing, Clock
<1>2. frame' = Append(frame, Head(txFifo))
  BY <1>1 DEF Sent
<1>3. T' = T /\ TxDma' = TxDma /\ InTransfer' = InTransfer
  BY DEF T, TxDma, InTransfer
<1>4. Rest' = Rest
  BY <1>3 DEF Rest
<1>5. txFifo \in Seq(Words) /\ frame \in Seq(Words)
  BY DEF IInv, TypeInv, SequencesOK
<1>6. frame' \o txFifo' = frame \o txFifo
  BY <1>2, <1>5, MovesOver
<1>7. Len(txFifo') = Len(txFifo) - 1 /\ Len(txFifo) \in Nat
  BY <1>5, HeadTailProperties, LenProperties
<1>8. CASE InTransfer
  <2>1. /\ txcr = Len(txFifo) + Len(Rest) /\ (frame \o txFifo) \o Rest = due
        /\ txCnt <= Len(T.tx) /\ (T.tx = <<>> /\ txcr > 0 => T.rx > 0 /\ answers = <<>>)
    BY <1>0, <1>8 DEF Sending
  <2>2. txcr' = Len(txFifo') + Len(Rest')
    BY <1>4, <1>7, <1>8, <2>1, RestType
  <2>3. T'.tx = <<>> /\ txcr' > 0 => T'.rx > 0 /\ answers' = <<>>
    BY <1>3, <2>1
  <2> QED
    BY <1>3, <1>4, <1>6, <1>8, <2>1, <2>2, <2>3 DEF Sending
<1>9. CASE ~InTransfer
  <2>1. txcr = Len(txFifo) /\ frame \o txFifo = due /\ Trailing
    BY <1>0, <1>9 DEF Sending
  <2>2. txcr' = Len(txFifo') /\ Trailing'
    BY <1>3, <1>7, <2>1 DEF Trailing
  <2> QED
    BY <1>3, <1>6, <1>9, <2>1, <2>2 DEF Sending
<1> QED
  BY <1>8, <1>9

\* A transfer that may return has received everything and written everything,
\* and sent it unless it is one that only sends.
LEMMA AllDone ==
  ASSUME IInv, spiPc = "return"
  PROVE  /\ rxcr = 0 /\ rxFifo = <<>> /\ txcr = Len(txFifo) /\ frame \o txFifo = due
         /\ T.tx = <<>> \/ T.rx > 0 => txcr = 0 /\ txFifo = <<>> /\ frame = due
<1>0. /\ MessageOK /\ ScalarsOK /\ SequencesOK /\ Sending /\ Handed /\ Receiving /\ Bits
      /\ Clock /\ TxChannel /\ InTransfer
  BY DEF IInv, TypeInv, InTransfer, Steps
<1>1. rxcr = 0 /\ rxFifo = <<>> /\ xferStat = {}
  BY <1>0 DEF Bits
<1>2. Rest = <<>>
  <2>1. CASE TxDma
    BY <1>0, <1>1, <2>1 DEF TxChannel, Rest
  <2>2. CASE ~TxDma
    <3>1. txCnt = Len(T.tx) /\ Len(T.tx) \in Nat /\ T.tx \in Seq(Words)
      BY <1>0, <1>1, <2>2, TransferType DEF Handed
    <3>2. SubSeq(T.tx, txCnt + 1, Len(T.tx)) = <<>>
      BY <3>1, SubSeqEmpty
    <3> QED
      BY <2>2, <3>2 DEF Rest
  <2> QED
    BY <2>1, <2>2
<1>3. frame \o txFifo \in Seq(Words) /\ Len(txFifo) \in Nat
  BY <1>0, ConcatProperties, LenProperties DEF SequencesOK
<1>4. txcr = Len(txFifo) /\ frame \o txFifo = due
  <2>1. \A s \in Seq(Words) : s \o <<>> = s
    BY ConcatEmptySeq
  <2>2. (frame \o txFifo) \o <<>> = frame \o txFifo /\ Len(<<>>) = 0
    BY <1>3, <2>1
  <2> QED
    BY <1>0, <1>2, <1>3, <2>2 DEF Sending
<1>5. ASSUME T.tx = <<>> \/ T.rx > 0 PROVE txcr = 0 /\ txFifo = <<>> /\ frame = due
  <2>1. txcr = 0
    <3>1. CASE T.tx # <<>>
      BY <1>0, <1>1, <1>5, <3>1 DEF Clock
    <3>2. CASE T.tx = <<>> /\ T.rx > 0
      <4>1. Len(answers) = T.rx /\ Len(<<>>) = 0
        BY <1>0, <1>1, TransferType, LenProperties DEF Receiving, SequencesOK
      <4> QED
        BY <1>0, <3>2, <4>1 DEF Sending, ScalarsOK
    <3>3. CASE T.tx = <<>> /\ ~(T.rx > 0)
      BY <1>0, <3>3 DEF Sending, ScalarsOK
    <3> QED
      BY <3>1, <3>2, <3>3
  <2>2. txFifo = <<>> /\ frame \o <<>> = frame
    BY <1>0, <1>4, <2>1, Fifos, ConcatEmptySeq DEF SequencesOK
  <2> QED
    BY <1>4, <2>1, <2>2
<1> QED
  BY <1>1, <1>4, <1>5

LEMMA SendingNext ==
  ASSUME Env \subseteq {"beside"}, IInv, [Next]_vars
  PROVE  Sending'
<1>0. TypeInv /\ MessageOK /\ ScalarsOK /\ SequencesOK /\ Sending /\ Bits
  BY DEF IInv, TypeInv
<1> USE DEF InTransfer, Steps
<1>1. CASE (\E m \in Messages : Submit(m)) \/ Finalize
  <2>1. /\ ~InTransfer /\ ~InTransfer' /\ ~Trailing
        /\ UNCHANGED <<txcr, txFifo, frame, due>>
    BY <1>1 DEF Submit, Finalize, Trailing
  <2>2. ~(txcr' > 0)
    BY <1>0, <2>1 DEF Sending
  <2> QED
    BY <1>0, <2>1, <2>2 DEF Sending
<1>14. CASE SetupXfer
  <2>1. /\ spiPc = "setup" /\ ~InTransfer /\ ~InTransfer' /\ txcr' = txcr
        /\ UNCHANGED <<msg, cur, csChange>>
    BY <1>14 DEF SetupXfer
  <2>2. CASE ~csChange
    <3>1. spiPc' = "load" /\ UNCHANGED <<txFifo, frame, due>> /\ T' = T
      BY <1>14, <2>1, <2>2 DEF SetupXfer, T
    <3>2. Trailing => Trailing'
      BY <2>1, <2>2, <3>1 DEF Trailing
    <3> QED
      BY <1>0, <2>1, <3>1, <3>2 DEF Sending
  <2>3. CASE csChange
    <3>1. ~(txcr > 0) /\ txcr = Len(txFifo) /\ frame \o txFifo = due
      BY <1>0, <2>1, <2>3 DEF Sending, Trailing
    <3>2. Len(txFifo) = 0
      BY <1>0, <3>1 DEF ScalarsOK
    <3>3. <<>> \o <<>> = <<>> /\ Len(<<>>) = 0
      BY EmptySeq, ConcatEmptySeq
    <3>4. \/ UNCHANGED <<txFifo, frame, due>>
          \/ txFifo' = <<>> /\ frame' = <<>> /\ due' = <<>>
      BY <1>14, <2>3 DEF SetupXfer
    <3> QED
      BY <2>1, <3>1, <3>2, <3>3, <3>4 DEF Sending
  <2> QED
    BY <2>2, <2>3
<1>2. CASE Load
  <2>1. /\ spiPc = "load" /\ ~InTransfer /\ InTransfer'
        /\ spiPc' = (IF dma THEN "tx" ELSE "fill")
        /\ txCnt' = 0 /\ due' = due \o T.tx /\ frame' = frame /\ answers' = <<>>
        /\ txFifo' \in {txFifo, <<>>} /\ (T.tx = <<>> => txFifo' = txFifo)
        /\ txcr' = (IF T.tx # <<>> THEN Len(T.tx) ELSE txcr)
        /\ UNCHANGED <<dma, msg, cur>>
    BY <1>2 DEF Load
  <2>2. T' = T /\ T.tx \in Seq(Words) /\ Len(T.tx) \in Nat /\ (T.tx # <<>> <=> Len(T.tx) > 0)
    BY <1>0, <2>1, TransferType DEF T
  <2>3. txcr = Len(txFifo) /\ frame \o txFifo = due /\ (txcr > 0 => T.tx = <<>> /\ T.rx > 0)
    BY <1>0, <2>1 DEF Sending, Trailing
  <2>4. Rest' = T.tx
    <3>1. SubSeq(T.tx, 0 + 1, Len(T.tx)) = T.tx
      BY <2>2, SubSeqFull
    <3>2. CASE ~TxDma'
      BY <2>1, <2>2, <3>1, <3>2 DEF Rest
    <3>3. CASE TxDma'
      <4>1. dma /\ T.tx # <<>>
        BY <2>1, <2>2, <3>3, Constants DEF TxDma
      <4> QED
        BY <2>1, <2>2, <3>3, <4>1 DEF Rest
    <3> QED
      BY <3>2, <3>3
  <2>5. (frame' \o txFifo') \o Rest' = due' /\ txcr' = Len(txFifo') + Len(Rest')
    <3>1. CASE T.tx # <<>>
      <4>1. txFifo = <<>> /\ txFifo' = <<>>
        BY <1>0, <2>1, <2>3, <3>1, Fifos DEF ScalarsOK
      <4>2. frame \o <<>> = due /\ Len(<<>>) = 0
        BY <2>3, <4>1
      <4> QED
        BY <2>1, <2>2, <2>4, <3>1, <4>1, <4>2
    <3>2. CASE T.tx = <<>>
      <4>1. frame' \o txFifo' = due /\ due' = due \o <<>> /\ txcr' = txcr /\ Len(<<>>) = 0
        BY <2>1, <2>3, <3>2
      <4> QED
        BY <2>1, <2>3, <2>4, <3>2, <4>1, Fifos
    <3> QED
      BY <3>1, <3>2
  <2>6. T.tx = <<>> /\ txcr' > 0 => T.rx > 0
    BY <2>1, <2>3
  <2> QED
    BY <2>1, <2>2, <2>5, <2>6 DEF Sending
<1>3. CASE (Fill \/ TxByCpu) /\ T.tx # <<>>
  <2> DEFINE ws == Following(Depth - Len(txFifo))
  <2>1. /\ InTransfer /\ InTransfer' /\ UNCHANGED <<dma, msg, cur, txcr, frame, due, answers>>
        /\ txFifo' = txFifo \o ws /\ txCnt' = txCnt + Len(ws)
    BY <1>3 DEF Fill, TxByCpu, Filled
  <2>2. ~TxDma
    <3>1. CASE Fill
      BY <1>0, <3>1 DEF Fill, Bits, TxDma
    <3>2. CASE TxByCpu
      <4>1. Len(T.tx) <= TxMost /\ Len(T.tx) \in Nat /\ TxMost \in Nat
        BY <1>0, <3>2, TransferType, Constants DEF TxByCpu
      <4> QED
        BY <4>1 DEF TxDma
    <3> QED
      BY <1>3, <3>1, <3>2
  <2>3. /\ ws \in Seq(Words) /\ Len(ws) \in Nat /\ txCnt + Len(ws) <= Len(T.tx)
        /\ ws = SubSeq(T.tx, txCnt + 1, txCnt + Len(ws))
    <3>1. InTransfer
      BY <2>1
    <3> HIDE DEF InTransfer
    <3> QED
      BY <3>1, FilledType
  <2> HIDE DEF ws, InTransfer
  <2> QED
    BY <2>1, <2>2, <2>3, CpuWrites
<1>4. CASE (Fill \/ TxByCpu) /\ T.tx = <<>>
  <2>1. ~TxDma
    BY <1>0, <1>4, TransferType, Constants DEF TxDma
  <2>2. /\ UNCHANGED <<dma, msg, cur, txCnt, txLeft, txcr, txFifo, frame, due, answers>>
        /\ InTransfer' = InTransfer /\ InTransfer
    BY <1>4 DEF Fill, TxByCpu
  <2> QED
    BY <2>1, <2>2, SendingStays
<1>5. CASE TxSubmit
  <2>1. /\ Len(T.tx) > TxMost /\ spiPc = "tx" /\ spiPc' = "txIssue"
        /\ txLeft' = Append(txLeft, T.tx)
        /\ UNCHANGED <<dma, msg, cur, txCnt, txcr, txFifo, frame, due, answers>>
    BY <1>5 DEF TxSubmit, Refused
  <2>2. txLeft = <<>>
    BY <2>1, Underway DEF TxUnderway
  <2>3. TxDma /\ TxDma' /\ T' = T
    BY <1>0, <2>1 DEF TxDma, T, Bits, ScalarsOK
  <2>4. txLeft' = <<T.tx>>
    BY <2>1, <2>2
  <2>5. Rest = T.tx /\ Rest' = T.tx
    BY <2>1, <2>3, <2>4 DEF Rest
  <2> QED
    BY <1>0, <2>1, <2>3, <2>5 DEF Sending
<1>6. CASE TxIssue \/ RxByCpu \/ RxSubmit \/ RxIssue \/ Wait
  <2>1. /\ UNCHANGED <<dma, msg, cur, txCnt, txLeft, txcr, txFifo, frame, due, answers>>
        /\ InTransfer /\ InTransfer' = InTransfer /\ spiPc # "tx" /\ spiPc' # "tx"
    BY <1>6 DEF TxIssue, RxByCpu, RxSubmit, RxIssue, Wait, Refused, IInv, NoError
  <2> QED
    BY <2>1, SendingStays
<1>7. CASE Return
  <2>1. /\ spiPc = "return" /\ InTransfer /\ ~InTransfer'
        /\ UNCHANGED <<txcr, txFifo, frame, due>>
    BY <1>7 DEF Return
  <2>2. txcr = Len(txFifo) /\ frame \o txFifo = due
    BY <2>1, AllDone
  <2>3. CASE T.tx = <<>> \/ T.rx > 0
    <3>1. txcr = 0
      BY <2>1, <2>3, AllDone
    <3> QED
      BY <2>1, <2>2, <3>1 DEF Sending
  <2>4. CASE T.tx # <<>> /\ ~(T.rx > 0)
    <3>1. T.rx = 0
      BY <1>0, <2>4, TransferType
    <3>2. Settled(msg) /\ T = msg.transfers[cur] /\ cur \in DOMAIN msg.transfers
          /\ DOMAIN msg.transfers = 1 .. Len(msg.transfers)
          /\ cur \in 1 .. Len(msg.transfers) /\ Len(msg.transfers) \in Nat
      BY <1>0, TransferType, LenProperties DEF MessageOK, Xfers, T
    <3>3. /\ cur + 1 \in DOMAIN msg.transfers /\ ~T.cs
          /\ msg.transfers[cur + 1].tx = <<>> /\ msg.transfers[cur + 1].rx > 0
      BY <2>4, <3>1, <3>2 DEF Settled
    <3>4. cur # Len(msg.transfers)
      BY <3>2, <3>3
    <3>5. spiPc' = "setup" /\ cur' = cur + 1 /\ UNCHANGED <<msg, csChange>>
      BY <1>7, <3>4 DEF Return
    <3>6. ~csChange
      BY <2>1, <3>3 DEF IInv, Clock
    <3>7. Trailing'
      BY <3>3, <3>5, <3>6 DEF Trailing, T
    <3> QED
      BY <2>1, <2>2, <3>7 DEF Sending
  <2> QED
    BY <2>3, <2>4
<1>8. CASE Isr
  <2>1. UNCHANGED <<dma, msg, cur, csChange, txLeft, txcr, frame, due, answers>>
    BY <1>8 DEF Isr
  <2>2. CASE spiPc \notin {"wait", "asleep"}
    <3>1. txFifo' = txFifo /\ txCnt' = txCnt /\ spiPc = "load" /\ spiPc' = "load"
      BY <1>8, <2>2, IsrBefore
    <3>2. InTransfer' = InTransfer /\ spiPc' = spiPc
      BY <3>1
    <3> QED
      BY <2>1, <3>1, <3>2, SendingStays
  <2>3. CASE spiPc \in {"wait", "asleep"}
    <3>1. /\ ~TxDma /\ spiPc' \in {"wait", "asleep"} /\ Written \in Seq(Words)
          /\ Len(Written) \in Nat /\ txCnt + Len(Written) <= Len(T.tx)
          /\ Written = SubSeq(T.tx, txCnt + 1, txCnt + Len(Written))
          /\ txFifo' = txFifo \o Written /\ txCnt' = txCnt + Len(Written)
      BY <1>8, <2>3, IsrWithin
    <3>2. InTransfer /\ InTransfer'
      BY <2>3, <3>1
    <3> HIDE DEF InTransfer
    <3> QED
      BY <2>1, <3>1, <3>2, CpuWrites
  <2> QED
    BY <2>2, <2>3
<1>9. CASE TxWord
  <2> DEFINE h == txLeft[1]
  <2>1. /\ TxDma /\ spiPc \in {"rx", "rxIssue", "wait", "asleep"}
        /\ txLeft # <<>> /\ h \in Seq(Words) /\ h # <<>> /\ txFifo' = Append(txFifo, Head(h))
        /\ (txLeft' = <<Tail(h)>> \/ (txLeft' = <<>> /\ Tail(h) = <<>>))
    BY <1>9, TxWordWhere
  <2>2. UNCHANGED <<dma, msg, cur, spiPc, txCnt, txcr, frame, due, answers>>
    BY <1>9 DEF TxWord
  <2>3. TxDma' /\ T' = T /\ InTransfer /\ InTransfer' /\ spiPc # "tx" /\ spiPc' # "tx"
    BY <2>1, <2>2 DEF TxDma, T
  <2>4. Rest = h /\ Rest' = Tail(h)
    <3>1. <<Tail(h)>> # <<>> /\ <<Tail(h)>>[1] = Tail(h)
      OBVIOUS
    <3>2. Rest = h
      BY <2>1, <2>3 DEF Rest
    <3>3. Rest' = Tail(h)
      BY <2>1, <2>3, <3>1 DEF Rest
    <3> QED
      BY <3>2, <3>3
  <2> HIDE DEF h
  <2>5. /\ txFifo \in Seq(Words) /\ frame \in Seq(Words) /\ txcr = Len(txFifo) + Len(h)
        /\ (frame \o txFifo) \o h = due /\ txCnt <= Len(T.tx)
        /\ (T.tx = <<>> /\ txcr > 0 => T.rx > 0 /\ answers = <<>>)
    BY <1>0, <2>3, <2>4 DEF Sending, SequencesOK
  <2>6. Len(Tail(h)) = Len(h) - 1 /\ Head(h) \in Words /\ Len(h) \in Nat
    BY <2>1, HeadTailProperties, LenProperties
  <2>7. Len(txFifo') = Len(txFifo) + 1 /\ Len(txFifo) \in Nat
    BY <2>1, <2>5, <2>6, AppendProperties, LenProperties
  <2>8. (frame \o txFifo') \o Tail(h) = due
    <3>1. (frame \o Append(txFifo, Head(h))) \o Tail(h) = (frame \o txFifo) \o h
      BY <2>1, <2>5, MovesUp
    <3> QED
      BY <2>1, <2>5, <3>1
  <2>9. txcr' = Len(txFifo') + Len(Rest')
    <3>1. txcr' = Len(txFifo) + Len(h) /\ Len(Rest') = Len(h) - 1
      BY <2>2, <2>4, <2>5, <2>6
    <3> QED
      BY <2>6, <2>7, <3>1
  <2> QED
    BY <2>2, <2>3, <2>4, <2>5, <2>8, <2>9 DEF Sending
<1>10. CASE CallbackEnds \/ TxComplete \/ TxCallback \/ RxEngine \/ HwStop \/ UNCHANGED vars
  <2>1. /\ UNCHANGED <<dma, msg, cur, csChange, txCnt, txLeft, txcr, txFifo, frame, due, answers>>
        /\ spiPc' = spiPc \/ (spiPc = "asleep" /\ spiPc' = "wait")
    BY <1>10 DEF CallbackEnds, TxComplete, TxCallback, RxEngine, RxWord, RxComplete, RxCallback,
       Callback, Wakes, HwStop, vars
  <2>2. /\ InTransfer' = InTransfer /\ (spiPc' = "tx" <=> spiPc = "tx")
        /\ InTransfer \/ spiPc' = spiPc
    BY <2>1
  <2> QED
    BY <2>1, <2>2, SendingStays
<1>11. ASSUME NEW w \in Words, HwReceive(w) PROVE Sending'
  <2>1. /\ UNCHANGED <<dma, msg, cur, csChange, txCnt, txLeft, txcr, txFifo, frame, due, spiPc>>
        /\ txcr = 0
    BY <1>11 DEF HwReceive
  <2> QED
    BY <2>1, SendingStays
<1>12. CASE HwSend
  BY <1>12, CtrlSends DEF HwSend
<1>13. ASSUME NEW w \in Words, HwExchange(w) PROVE Sending'
  <2>1. T.tx # <<>>
    <3>1. simult /\ rxcr > 0 /\ InTransfer
      BY <1>0, <1>13 DEF HwExchange, IInv, Receiving, ScalarsOK
    <3> HIDE DEF InTransfer
    <3> QED
      BY <3>1 DEF IInv, Clock
  <2> QED
    BY <1>13, <2>1, CtrlSends DEF HwExchange
<1> QED
  BY <1>1, <1>2, <1>3, <1>4, <1>5, <1>6, <1>7, <1>8, <1>9, <1>10, <1>11, <1>12, <1>13, <1>14
  DEF Next, Thread, ThreadStep, TxEngine, Controller

\* Thread and handler clear the sender's bit with the last word they write, and
\* callbacks only where a channel sends.
LEMMA HandedNext ==
  ASSUME Env \subseteq {"beside"}, IInv, [Next]_vars
  PROVE  Handed'
<1>0. TypeInv /\ MessageOK /\ ScalarsOK /\ Sending /\ Handed /\ Bits
  BY DEF IInv, TypeInv
<1> USE DEF InTransfer, Steps
<1>s. ASSUME UNCHANGED <<dma, msg, cur, txCnt>>, ~TxDma => xferStat' = xferStat,
             InTransfer' => InTransfer
      PROVE  Handed'
  BY <1>0, <1>s DEF Handed, T, TxDma
<1>1. CASE \/ \E m \in Messages : Submit(m)
           \/ SetupXfer \/ Return \/ Finalize
  BY <1>1 DEF Submit, SetupXfer, Return, Finalize, Handed
<1>2. CASE Load
  <2>1. /\ txCnt' = 0 /\ UNCHANGED <<msg, cur>>
        /\ xferStat' = {b \in {"TX", "RX"} : IF b = "TX" THEN T.tx # <<>> ELSE T.rx > 0}
    BY <1>2 DEF Load
  <2>2. "TX" \notin xferStat' => Len(T.tx) = 0
    BY <1>0, <2>1, TransferType
  <2> QED
    BY <2>1, <2>2 DEF Handed, T
<1>3. CASE (Fill \/ TxByCpu) /\ T.tx # <<>>
  <2>1. "TX" \in xferStat /\ UNCHANGED <<msg, cur>>
    BY <1>0, <1>3 DEF Fill, TxByCpu, Bits
  <2>2. \/ xferStat' = xferStat
        \/ txCnt' = txCnt + Len(Following(Depth - Len(txFifo)))
           /\ txCnt + Len(Following(Depth - Len(txFifo))) = Len(T.tx)
    BY <1>3 DEF Fill, TxByCpu, Filled
  <2> QED
    BY <2>1, <2>2 DEF Handed, T
<1>4. CASE \/ (Fill \/ TxByCpu) /\ T.tx = <<>>
           \/ TxSubmit \/ TxIssue \/ RxByCpu \/ RxSubmit \/ RxIssue \/ Wait
  <2>1. UNCHANGED <<dma, msg, cur, txCnt, xferStat>> /\ InTransfer
    <3>1. CASE (Fill \/ TxByCpu) /\ T.tx = <<>>
      BY <3>1 DEF Fill, TxByCpu
    <3>2. CASE TxSubmit \/ TxIssue \/ RxByCpu \/ RxSubmit \/ RxIssue \/ Wait
      BY <3>2 DEF TxSubmit, TxIssue, RxByCpu, RxSubmit, RxIssue, Wait, Refused
    <3> QED
      BY <1>4, <3>1, <3>2
  <2> QED
    BY <1>s, <2>1
<1>5. CASE Isr
  <2>1. UNCHANGED <<dma, msg, cur>>
    BY <1>5 DEF Isr
  <2>2. CASE spiPc \notin {"wait", "asleep"}
    <3>1. txCnt' = txCnt /\ xferStat' = xferStat /\ spiPc = "load" /\ spiPc' = "load"
      BY <1>5, <2>2, IsrBefore
    <3> QED
      BY <1>s, <2>1, <3>1
  <2>3. CASE spiPc \in {"wait", "asleep"}
    <3>1. /\ ~TxDma /\ Len(Written) \in Nat /\ txCnt + Len(Written) <= Len(T.tx)
          /\ txCnt' = txCnt + Len(Written)
      BY <1>5, <2>3, IsrWithin
    <3>2. "TX" \in xferStat /\ "TX" \notin xferStat' => txCnt + Len(Written) = Len(T.tx)
      <4>1. xferStat' = xferStat \ ((IF TxFlag /\ txCnt + Len(Written) = Len(T.tx)
                                     THEN {"TX"} ELSE {}) \cup (IF rxcif THEN {"RX"} ELSE {}))
        BY <1>5 DEF Isr, Written
      <4> QED
        BY <4>1
    <3>3. "TX" \notin xferStat => txCnt = Len(T.tx)
      BY <1>0, <2>3, <3>1 DEF Handed
    <3>4. txCnt \in Nat /\ Len(T.tx) \in Nat
      BY <1>0, TransferType DEF ScalarsOK
    <3>5. "TX" \notin xferStat' => txCnt' = Len(T.tx)
      BY <3>1, <3>2, <3>3, <3>4
    <3> QED
      BY <2>1, <3>5 DEF Handed, T
  <2> QED
    BY <2>2, <2>3
<1>6. CASE CallbackEnds
  <2>1. UNCHANGED <<dma, msg, cur, txCnt, spiPc>> /\ xferStat' = xferStat \ late
    BY <1>6 DEF CallbackEnds
  <2>2. ~TxDma => "TX" \notin late
    BY <1>0 DEF Bits
  <2> QED
    BY <1>0, <2>1, <2>2 DEF Handed, T, TxDma
<1>7. CASE TxEngine \/ RxEngine \/ Controller \/ UNCHANGED vars
  <2>1. /\ UNCHANGED <<dma, msg, cur, txCnt, xferStat>>
        /\ spiPc' = spiPc \/ (spiPc = "asleep" /\ spiPc' = "wait")
    BY <1>7 DEF TxEngine, TxWord, TxComplete, TxCallback, RxEngine, RxWord, RxComplete,
       RxCallback, Callback, Wakes, Controller, HwSend, HwStop, HwExchange, HwReceive, vars
  <2> QED
    BY <1>s, <2>1
<1> QED
  BY <1>1, <1>2, <1>3, <1>4, <1>5, <1>6, <1>7 DEF Next, Thread, ThreadStep

-----------------------------------------------------------------------------
(* Steps and the words received                                             *)

Early == {"tx", "txIssue", "rx"}

\* Within a transfer what has been taken, and what has not, are answers.
LEMMA TakenType ==
  ASSUME IInv, InTransfer
  PROVE  /\ Taken \in Nat /\ rxCnt \in Nat /\ rxcr \in Nat /\ T.rx \in Nat
         /\ rxBuf \in Seq(AnyWord) /\ rxFifo \in Seq(Words) /\ answers \in Seq(Words)
         /\ Len(answers) \in Nat /\ Len(rxFifo) \in Nat
         /\ Len(answers) + rxcr = T.rx /\ Len(answers) = Taken + Len(rxFifo)
         /\ Len(rxBuf) = T.rx
         /\ \A i \in 1 .. Taken : rxBuf[i] = answers[i]
         /\ \A i \in 1 .. Len(rxFifo) : rxFifo[i] = answers[Taken + i]
<1>0. MessageOK /\ ScalarsOK /\ SequencesOK /\ RxChannel /\ Receiving
  BY DEF IInv, TypeInv
<1>1. /\ rxCnt \in Nat /\ rxcr \in Nat /\ T.rx \in Nat /\ rxLeft \in Nat
      /\ rxBuf \in Seq(AnyWord) /\ rxFifo \in Seq(Words) /\ answers \in Seq(Words)
      /\ Len(answers) \in Nat /\ Len(rxFifo) \in Nat
  BY <1>0, TransferType, LenProperties DEF ScalarsOK, SequencesOK
<1>2. rxLeft <= T.rx
  BY <1>0, <1>1 DEF RxChannel
<1>3. Taken \in Nat
  BY <1>1, <1>2 DEF Taken
<1> QED
  BY <1>0, <1>1, <1>3 DEF Receiving

\* Nothing is received or read.
LEMMA ReceivingStays ==
  ASSUME IInv, UNCHANGED <<dma, msg, cur, rxCnt, rxBuf, rxLeft, rxFifo, rxcr, answers>>,
         InTransfer' = InTransfer, RxDma => (spiPc' \in Early <=> spiPc \in Early)
  PROVE  Receiving'
<1>1. T' = T /\ RxDma' = RxDma
  BY DEF T, RxDma
<1>2. Taken' = Taken
  BY <1>1 DEF Taken, Early
<1>3. Receiving
  BY DEF IInv
<1> QED
  BY <1>1, <1>2, <1>3 DEF Receiving

\* The controller receives a word.
LEMMA CtrlReceives ==
  ASSUME IInv, UNCHANGED <<dma, msg, cur, spiPc, rxCnt, rxBuf, rxLeft>>,
         NEW w \in Words, Received(w), rxcr > 0
  PROVE  Receiving'
<1>1. InTransfer
  BY DEF IInv, Receiving, TypeInv, ScalarsOK
<1>2. T' = T /\ RxDma' = RxDma /\ InTransfer'
  BY <1>1 DEF T, RxDma, InTransfer
<1>3. Taken' = Taken
  BY <1>2 DEF Taken
<1>4. /\ Len(answers') = Len(answers) + 1
      /\ \A i \in 1 .. Len(answers) : answers'[i] = answers[i]
      /\ answers'[Len(answers) + 1] = w
  BY <1>1, TakenType, AppendProperties DEF Received
<1>5. /\ Len(rxFifo') = Len(rxFifo) + 1
      /\ \A i \in 1 .. Len(rxFifo) : rxFifo'[i] = rxFifo[i]
      /\ rxFifo'[Len(rxFifo) + 1] = w
  BY <1>1, TakenType, AppendProperties DEF Received
<1>6. Len(answers') + rxcr' = T.rx /\ Len(answers') = Taken + Len(rxFifo')
  BY <1>1, <1>4, <1>5, TakenType DEF Received
<1>7. \A i \in 1 .. Taken : rxBuf'[i] = answers'[i]
  BY <1>1, <1>4, TakenType
<1>8. ASSUME NEW i \in 1 .. Len(rxFifo') PROVE rxFifo'[i] = answers'[Taken + i]
  <2>1. CASE i = Len(rxFifo) + 1
    BY <1>1, <1>4, <1>5, <2>1, TakenType
  <2>2. CASE i # Len(rxFifo) + 1
    <3>1. i \in 1 .. Len(rxFifo) /\ Taken + i \in 1 .. Len(answers)
      BY <1>1, <1>5, <2>2, TakenType
    <3> QED
      BY <1>1, <1>4, <1>5, <3>1, TakenType
  <2> QED
    BY <2>1, <2>2
<1> QED
  BY <1>1, <1>2, <1>3, <1>6, <1>7, <1>8, TakenType DEF Receiving

\* The handler takes all words that are there, or none.
LEMMA HandlerReads ==
  ASSUME IInv, Isr, spiPc \in {"wait", "asleep"}
  PROVE  Receiving'
<1>0. InTransfer
  BY DEF InTransfer, Steps
<1>1. /\ ~RxDma /\ spiPc' \in {"wait", "asleep"}
      /\ rxBuf' = [i \in DOMAIN rxBuf |->
                     IF i - rxCnt \in DOMAIN Read THEN Read[i - rxCnt] ELSE rxBuf[i]]
      /\ rxCnt' = rxCnt + Len(Read) /\ Read \in Seq(Words)
      /\ rxFifo' = IF Read = <<>> THEN rxFifo ELSE <<>>
  BY IsrWithin
<1>2. UNCHANGED <<dma, msg, cur, rxcr, answers>>
  BY DEF Isr
<1>3. T' = T /\ ~RxDma' /\ InTransfer'
  BY <1>1, <1>2 DEF T, RxDma, InTransfer, Steps
<1>4. Taken = rxCnt /\ Taken' = rxCnt + Len(Read)
  BY <1>1, <1>3 DEF Taken
<1>5. Read = rxFifo \/ Read = <<>>
  BY DEF Read
<1>6. DOMAIN Read = 1 .. Len(Read) /\ Len(Read) \in Nat /\ DOMAIN rxBuf = 1 .. T.rx
  BY <1>0, <1>1, TakenType, LenProperties
<1>7. Len(rxBuf') = T.rx
  <2>1. rxBuf' \in Seq(AnyWord)
    <3>1. SequencesOK'
      BY SequencesNext DEF Next
    <3> QED
      BY <3>1 DEF SequencesOK
  <2>2. DOMAIN rxBuf' = 1 .. T.rx
    BY <1>1, <1>6
  <2> QED
    BY <1>0, <2>1, <2>2, LenProperties, TakenType
<1>8. CASE Read = <<>>
  <2>1. Len(Read) = 0 /\ rxFifo' = rxFifo /\ Taken' = Taken
    BY <1>0, <1>1, <1>4, <1>8, TakenType
  <2>2. \A i \in 1 .. Taken : rxBuf'[i] = answers[i]
    <3>1. \A i \in 1 .. Taken : i \in DOMAIN rxBuf /\ i - rxCnt \notin DOMAIN Read
      BY <1>0, <1>4, <1>6, <2>1, TakenType
    <3> QED
      BY <1>0, <1>1, <3>1, TakenType
  <2> QED
    BY <1>0, <1>2, <1>3, <1>7, <2>1, <2>2, TakenType DEF Receiving
<1>9. CASE Read # <<>>
  <2>1. Read = rxFifo /\ rxFifo' = <<>> /\ Taken' = Len(answers) /\ Len(rxFifo') = 0
    BY <1>0, <1>1, <1>4, <1>5, <1>9, TakenType
  <2>2. ASSUME NEW i \in 1 .. Taken' PROVE rxBuf'[i] = answers[i]
    <3>1. i \in DOMAIN rxBuf
      BY <1>0, <1>6, <2>1, TakenType
    <3>2. CASE i <= rxCnt
      <4>1. i - rxCnt \notin DOMAIN Read /\ i \in 1 .. Taken
        BY <1>0, <1>4, <1>6, <2>1, <3>2, TakenType
      <4> QED
        BY <1>0, <1>1, <3>1, <4>1, TakenType
    <3>3. CASE i > rxCnt
      <4> DEFINE k == i - rxCnt
      <4>1. k \in 1 .. Len(rxFifo) /\ Taken + k = i
        BY <1>0, <1>4, <2>1, <3>3, TakenType
      <4>2. rxBuf'[i] = rxFifo[k]
        BY <1>1, <1>6, <2>1, <3>1, <4>1
      <4> HIDE DEF k
      <4> QED
        BY <1>0, <4>1, <4>2, TakenType
    <3> QED
      BY <1>0, <2>1, <3>2, <3>3, TakenType
  <2>3. \A i \in 1 .. Len(rxFifo') : rxFifo'[i] = answers[Taken' + i]
    BY <2>1
  <2>4. Len(answers) = Taken' + Len(rxFifo')
    BY <1>0, <2>1, TakenType
  <2> QED
    BY <1>0, <1>2, <1>3, <1>7, <2>2, <2>3, <2>4, TakenType DEF Receiving
<1> QED
  BY <1>8, <1>9

\* The channel takes one.
LEMMA ChannelReads ==
  ASSUME IInv, RxWord
  PROVE  Receiving'
<1>1. /\ RxDma /\ spiPc \in {"wait", "asleep"} /\ rxLeft \in 1 .. T.rx /\ T.rx \in Nat
      /\ Taken + 1 \in 1 .. T.rx /\ rxFifo # <<>>
      /\ rxBuf' = [rxBuf EXCEPT ![Taken + 1] = Head(rxFifo)]
      /\ rxFifo' = Tail(rxFifo) /\ rxLeft' = rxLeft - 1 /\ Taken = T.rx - rxLeft
  BY RxWordWhere
<1>2. UNCHANGED <<dma, msg, cur, spiPc, rxCnt, rxcr, answers>>
  BY DEF RxWord
<1>3. T' = T /\ RxDma' /\ InTransfer /\ InTransfer'
  BY <1>1, <1>2 DEF T, RxDma, InTransfer, Steps
<1>4. Taken' = Taken + 1
  BY <1>1, <1>2, <1>3 DEF Taken
<1>a. Taken \in Nat /\ Len(rxFifo) \in Nat
  BY <1>3, TakenType
<1>5. /\ Len(rxFifo') = Len(rxFifo) - 1 /\ Len(rxFifo) > 0 /\ Head(rxFifo) = rxFifo[1]
      /\ \A i \in 1 .. Len(rxFifo') : rxFifo'[i] = rxFifo[i + 1]
  BY <1>1, <1>3, TakenType, HeadTailProperties, EmptySeq, LenProperties
<1>6. Len(rxBuf') = T.rx /\ \A i \in 1 .. T.rx :
        rxBuf'[i] = IF i = Taken + 1 THEN rxFifo[1] ELSE rxBuf[i]
  <2>1. DOMAIN rxBuf = 1 .. T.rx
    BY <1>3, TakenType, LenProperties
  <2>2. rxBuf' \in Seq(AnyWord)
    <3>1. SequencesOK'
      BY SequencesNext DEF Next, RxEngine
    <3> QED
      BY <3>1 DEF SequencesOK
  <2>3. DOMAIN rxBuf' = 1 .. T.rx
    BY <1>1, <2>1
  <2> QED
    BY <1>1, <1>5, <2>1, <2>2, <2>3, LenProperties
<1>7. Len(answers) = Taken' + Len(rxFifo')
  BY <1>3, <1>4, <1>5, TakenType
<1>8. ASSUME NEW i \in 1 .. Taken' PROVE rxBuf'[i] = answers[i]
  <2>1. CASE i = Taken + 1
    <3>1. rxFifo[1] = answers[Taken + 1]
      BY <1>3, <1>5, TakenType
    <3> QED
      BY <1>1, <1>6, <2>1, <3>1
  <2>2. CASE i # Taken + 1
    <3>1. i \in 1 .. Taken /\ i \in 1 .. T.rx
      <4>1. i \in 1 .. Taken + 1
        BY <1>4
      <4> QED
        BY <1>1, <1>a, <2>2, <4>1
    <3> QED
      BY <1>3, <1>6, <2>2, <3>1, TakenType
  <2> QED
    BY <2>1, <2>2
<1>9. ASSUME NEW i \in 1 .. Len(rxFifo') PROVE rxFifo'[i] = answers[Taken' + i]
  <2> DEFINE k == i + 1
  <2>0. i \in 1 .. Len(rxFifo) - 1 /\ rxFifo'[i] = rxFifo[k]
    BY <1>5
  <2>1. k \in 1 .. Len(rxFifo) /\ Taken' + i = Taken + k
    BY <1>4, <1>a, <2>0
  <2> HIDE DEF k
  <2> QED
    BY <1>3, <2>0, <2>1, TakenType
<1> QED
  BY <1>2, <1>3, <1>6, <1>7, <1>8, <1>9, TakenType DEF Receiving

LEMMA ReceivingNext ==
  ASSUME Env \subseteq {"beside"}, IInv, [Next]_vars
  PROVE  Receiving'
<1>0. TypeInv /\ MessageOK /\ ScalarsOK /\ SequencesOK /\ Receiving /\ Bits
  BY DEF IInv, TypeInv
<1> USE DEF InTransfer, Steps, Early
<1>1. CASE \/ \E m \in Messages : Submit(m)
           \/ SetupXfer \/ Finalize
  <2>1. /\ ~InTransfer /\ ~InTransfer' /\ rxcr' = rxcr
        /\ rxFifo' = rxFifo \/ rxFifo' = <<>>
    BY <1>1 DEF Submit, SetupXfer, Finalize
  <2> QED
    BY <1>0, <2>1 DEF Receiving
<1>2. CASE Load
  <2>1. /\ rxcr = 0 /\ rxFifo = <<>> /\ InTransfer'
        /\ spiPc' = (IF dma THEN "tx" ELSE "fill")
        /\ rxCnt' = 0 /\ rxBuf' = [i \in 1 .. T.rx |-> BLANK]
        /\ rxcr' = (IF T.rx > 0 THEN T.rx ELSE 0) /\ rxFifo' = <<>> /\ answers' = <<>>
        /\ UNCHANGED <<dma, msg, cur>>
    BY <1>0, <1>2 DEF Load, Receiving
  <2>2. T' = T /\ T.rx \in Nat
    BY <1>0, <2>1, TransferType DEF T
  <2>3. Taken' = 0
    BY <2>1 DEF Taken, RxDma
  <2>4. Len(rxBuf') = T.rx
    <3>1. rxBuf' \in Seq(AnyWord) /\ DOMAIN rxBuf' = 1 .. T.rx
      BY <2>1, SequencesNext DEF SequencesOK
    <3> QED
      BY <2>2, <3>1, LenProperties
  <2>5. Len(answers') = 0 /\ Len(rxFifo') = 0 /\ rxcr' = T.rx
    BY <2>1, <2>2
  <2> QED
    BY <2>1, <2>2, <2>3, <2>4, <2>5 DEF Receiving
<1>3. CASE TxByCpu \/ TxSubmit \/ TxIssue \/ RxByCpu \/ RxIssue \/ Wait \/ Fill
  <2>1. UNCHANGED <<dma, msg, cur, rxCnt, rxBuf, rxLeft, rxFifo, rxcr, answers>>
    BY <1>3 DEF TxByCpu, TxSubmit, TxIssue, RxByCpu, RxIssue, Wait, Fill
  <2>2. InTransfer /\ InTransfer' = InTransfer
    BY <1>3 DEF IInv, NoError, TxByCpu, TxSubmit, TxIssue, RxByCpu, RxIssue, Wait, Fill, Refused
  <2>3. RxDma => (spiPc' \in Early <=> spiPc \in Early)
    <3>1. CASE RxByCpu
      BY <1>0, <3>1, Constants, TransferType DEF RxByCpu, RxDma
    <3>2. CASE ~RxByCpu
      BY <1>3, <3>2 DEF TxByCpu, TxSubmit, TxIssue, RxIssue, Wait, Fill, Refused, IInv, NoError
    <3> QED
      BY <3>1, <3>2
  <2> HIDE DEF InTransfer, Early
  <2> QED
    BY <2>1, <2>2, <2>3, ReceivingStays
<1>4. CASE RxSubmit
  <2>1. /\ spiPc = "rx" /\ spiPc' = "rxIssue" /\ T.rx > RxMost /\ rxLeft' = T.rx
        /\ UNCHANGED <<dma, msg, cur, rxCnt, rxBuf, rxFifo, rxcr, answers>>
    BY <1>4 DEF RxSubmit, Refused
  <2>2. RxDma /\ RxDma' /\ T' = T /\ T.rx \in Nat
    BY <1>0, <2>1, TransferType DEF RxDma, T, Bits, ScalarsOK
  <2>3. Taken = 0 /\ Taken' = 0
    BY <2>1, <2>2 DEF Taken
  <2> QED
    BY <1>0, <2>1, <2>2, <2>3 DEF Receiving
<1>5. CASE Return
  <2>1. spiPc = "return" /\ ~InTransfer' /\ UNCHANGED <<rxcr, rxFifo>>
    BY <1>5 DEF Return
  <2>2. rxcr = 0 /\ rxFifo = <<>>
    BY <2>1, AllDone
  <2> QED
    BY <2>1, <2>2 DEF Receiving
<1>6. CASE Isr
  <2>1. UNCHANGED <<dma, msg, cur, rxLeft, rxcr, answers>>
    BY <1>6 DEF Isr
  <2>2. CASE spiPc \notin {"wait", "asleep"}
    <3>1. /\ rxFifo' = rxFifo /\ rxCnt' = rxCnt /\ rxBuf' = rxBuf
          /\ spiPc = "load" /\ spiPc' = "load"
      BY <1>6, <2>2, IsrBefore
    <3> QED
      BY <2>1, <3>1, ReceivingStays
  <2>3. CASE spiPc \in {"wait", "asleep"}
    BY <1>6, <2>3, HandlerReads
  <2> QED
    BY <2>2, <2>3
<1>7. CASE RxWord
  BY <1>7, ChannelReads
<1>8. CASE \/ CallbackEnds \/ TxEngine \/ RxComplete \/ RxCallback \/ HwSend \/ HwStop
           \/ UNCHANGED vars
  <2>1. /\ UNCHANGED <<dma, msg, cur, rxCnt, rxBuf, rxLeft, rxFifo, rxcr, answers>>
        /\ spiPc' = spiPc \/ (spiPc = "asleep" /\ spiPc' = "wait")
    BY <1>8 DEF CallbackEnds, TxEngine, TxWord, TxComplete, TxCallback, RxComplete, RxCallback,
       Callback, Wakes, HwSend, HwStop, vars
  <2>2. InTransfer' = InTransfer /\ (spiPc' \in Early <=> spiPc \in Early)
    BY <2>1
  <2> QED
    BY <2>1, <2>2, ReceivingStays
<1>9. ASSUME NEW w \in Words, HwReceive(w) \/ HwExchange(w) PROVE Receiving'
  <2>1. UNCHANGED <<dma, msg, cur, spiPc, rxCnt, rxBuf, rxLeft>> /\ Received(w) /\ rxcr > 0
    BY <1>9 DEF HwReceive, HwExchange
  <2> QED
    BY <2>1, CtrlReceives
<1> QED
  BY <1>1, <1>2, <1>3, <1>4, <1>5, <1>6, <1>7, <1>8, <1>9
  DEF Next, Thread, ThreadStep, RxEngine, Controller

-----------------------------------------------------------------------------
(* Bits, clock and interrupts                                               *)

\* A callback that is under way works for a channel that has gone.
LEMMA LateWhere ==
  ASSUME IInv
  PROVE  /\ "TX" \in late => TxDma /\ spiPc \in {"rx", "rxIssue", "wait", "asleep"}
         /\ "RX" \in late =>
              RxDma /\ spiPc \in {"wait", "asleep"} /\ rxcr = 0 /\ rxFifo = <<>>
         /\ spiPc \notin {"rx", "rxIssue", "wait", "asleep"} => late = {}
         /\ late \subseteq {"TX", "RX"} /\ late \subseteq xferStat
<1>0. ScalarsOK /\ Bits /\ RxChannel
  BY DEF IInv, TypeInv
<1>1. ASSUME "RX" \in late PROVE rxcr = 0 /\ rxFifo = <<>>
  <2>1. RxDma /\ spiPc \in {"wait", "asleep"} /\ rxLeft = 0
    BY <1>0, <1>1 DEF Bits, RxChannel
  <2>2. InTransfer /\ Taken = T.rx - 0
    BY <2>1 DEF InTransfer, Steps, Taken
  <2>3. rxcr = 0 /\ Len(rxFifo) = 0
    BY <2>2, TakenType
  <2> QED
    BY <2>3, Fifos
<1> QED
  BY <1>0, <1>1 DEF Bits, ScalarsOK

\* A callback begins for a channel at the end of its work.
LEMMA CallbackWhere ==
  ASSUME IInv
  PROVE  /\ TxCallback => /\ TxDma /\ "TX" \in xferStat
                          /\ spiPc \in {"rx", "rxIssue", "wait", "asleep"}
         /\ RxCallback => RxDma /\ "RX" \in xferStat /\ spiPc \in {"wait", "asleep"}
<1>1. TxChannel /\ RxChannel
  BY DEF IInv
<1>2. TxCallback => txChan.finished # <<>>
  BY TxStages DEF TxCallback
<1>3. RxCallback => rxChan.finished # <<>>
  BY RxStages DEF RxCallback
<1>4. Unused(txChan) \/ Waiting(txChan) => txChan.finished = <<>>
  BY ChanFields
<1>5. Unused(rxChan) \/ Waiting(rxChan) => rxChan.finished = <<>>
  BY ChanFields
<1> QED
  BY <1>1, <1>2, <1>3, <1>4, <1>5 DEF TxChannel, RxChannel

\* The end that the handler sees has come.
LEMMA FlagIsEnd ==
  ASSUME IInv, rxcif, InTransfer, ~RxDma
  PROVE  rxcr = 0
<1>0. Interrupts /\ ScalarsOK /\ MessageOK
  BY DEF IInv, TypeInv
<1>1. CASE T.rx = 0
  BY <1>1, TakenType
<1>2. CASE T.rx # 0
  BY <1>0, <1>2 DEF Interrupts, RxDma, ScalarsOK
<1> QED
  BY <1>1, <1>2

LEMMA BitsNext ==
  ASSUME Env \subseteq {"beside"}, IInv, [Next]_vars
  PROVE  Bits'
<1>0. TypeInv /\ MessageOK /\ ScalarsOK /\ SequencesOK /\ Bits /\ Sending /\ Receiving
  BY DEF IInv, TypeInv
<1> USE DEF InTransfer, Steps
<1>1. CASE \/ \E m \in Messages : Submit(m)
           \/ SetupXfer \/ Finalize
  <2>1. /\ spiPc \in {"idle", "setup", "done"} /\ UNCHANGED <<dma, xferStat, late>>
        /\ spiPc' \in {"setup", "load", "done", "idle"}
    BY <1>1 DEF Submit, SetupXfer, Finalize
  <2>2. xferStat' = {} /\ late' = {}
    BY <1>0, <2>1 DEF Bits
  <2> QED
    BY <2>1, <2>2 DEF Bits
<1>2. CASE Load
  <2>1. /\ spiPc = "load" /\ spiPc' = (IF dma THEN "tx" ELSE "fill")
        /\ xferStat' = {b \in {"TX", "RX"} : IF b = "TX" THEN T.tx # <<>> ELSE T.rx > 0}
        /\ txCnt' = 0 /\ (txFifo' = <<>> \/ txFifo' = txFifo) /\ rxFifo' = rxFifo
        /\ rxcr' = (IF T.rx > 0 THEN T.rx ELSE rxcr)
        /\ UNCHANGED <<dma, msg, cur, late>>
    BY <1>2 DEF Load
  <2>2. T' = T /\ late' = {} /\ rxFifo' = <<>> /\ rxcr = 0
    BY <1>0, <2>1 DEF Bits, Receiving, T
  <2>3. T.tx # <<>> => txFifo' = <<>>
    <3>1. T.tx # <<>> => txcr = Len(txFifo) /\ ~(txcr > 0)
      BY <1>0, <2>1 DEF Sending, Trailing
    <3> QED
      BY <1>0, <2>1, <3>1, Fifos DEF ScalarsOK
  <2> QED
    BY <1>0, <2>1, <2>2, <2>3 DEF Bits, ScalarsOK
<1>3. CASE Fill \/ TxByCpu
  <2>1. /\ spiPc \in {"fill", "tx"} /\ spiPc' = (IF spiPc = "fill" THEN "wait" ELSE "rx")
        /\ UNCHANGED <<dma, msg, cur, late, rxcr, rxFifo>>
        /\ "RX" \in xferStat' <=> "RX" \in xferStat
    BY <1>3 DEF Fill, TxByCpu, Filled
  <2>2. T' = T /\ late = {} /\ late' = {}
    BY <1>0, <2>1, LateWhere DEF T
  <2> QED
    BY <1>0, <2>1, <2>2 DEF Bits
<1>4. CASE TxSubmit \/ TxIssue \/ RxByCpu \/ RxSubmit \/ RxIssue \/ Wait
  <2>1. UNCHANGED <<dma, msg, cur, late, xferStat, rxcr, rxFifo, txFifo, txCnt>>
    BY <1>4 DEF TxSubmit, TxIssue, RxByCpu, RxSubmit, RxIssue, Wait
  <2>2. T' = T /\ TxDma' = TxDma /\ RxDma' = RxDma
    BY <2>1 DEF T, TxDma, RxDma
  <2>3. CASE TxSubmit
    <3>1. spiPc = "tx" /\ spiPc' = "txIssue"
      BY <2>3 DEF TxSubmit, Refused
    <3> QED
      BY <1>0, <2>1, <2>2, <3>1 DEF Bits
  <2>4. CASE RxSubmit
    <3>1. spiPc = "rx" /\ spiPc' = "rxIssue"
      BY <2>4 DEF RxSubmit, Refused
    <3> QED
      BY <1>0, <2>1, <2>2, <3>1 DEF Bits
  <2>5. CASE TxIssue \/ RxByCpu \/ RxIssue
    <3>1. \/ spiPc = "txIssue" /\ spiPc' = "rx"
          \/ spiPc \in {"rx", "rxIssue"} /\ spiPc' = "wait"
      BY <2>5 DEF TxIssue, RxByCpu, RxIssue, IInv, NoError
    <3> QED
      BY <1>0, <2>1, <2>2, <3>1 DEF Bits
  <2>6. CASE Wait
    <3>1. spiPc = "wait" /\ spiPc' = (IF xferStat = {} THEN "return" ELSE "asleep")
      BY <2>6 DEF Wait, Finished
    <3> QED
      BY <1>0, <2>1, <2>2, <3>1 DEF Bits
  <2> QED
    BY <1>4, <2>3, <2>4, <2>5, <2>6
<1>5. CASE Return
  <2>1. spiPc = "return" /\ spiPc' \in {"done", "setup"} /\ UNCHANGED <<dma, xferStat, late>>
    BY <1>5 DEF Return
  <2> QED
    BY <1>0, <2>1 DEF Bits
<1>6. CASE Isr
  <2>1. UNCHANGED <<dma, msg, cur, late, rxcr>> /\ T' = T
    BY <1>6 DEF Isr, T
  <2>2. CASE spiPc \notin {"wait", "asleep"}
    <3>1. spiPc = "load" /\ spiPc' = "load" /\ xferStat' = xferStat
      BY <1>6, <2>2, IsrBefore
    <3> QED
      BY <1>0, <2>1, <3>1 DEF Bits
  <2>3. CASE spiPc \in {"wait", "asleep"}
    <3>1. /\ ~TxDma /\ ~RxDma /\ spiPc' \in {"wait", "asleep"}
          /\ rxFifo' = IF Read = <<>> THEN rxFifo ELSE <<>>
          /\ "RX" \in xferStat' <=> "RX" \in xferStat /\ ~rxcif
      BY <1>6, <2>3, IsrWithin
    <3>2. late = {}
      BY <3>1, LateWhere
    <3>3. ASSUME "RX" \notin xferStat' PROVE rxcr' = 0 /\ rxFifo' = <<>>
      <4>1. CASE "RX" \notin xferStat
        BY <1>0, <2>1, <2>3, <3>1, <4>1 DEF Bits
      <4>2. CASE rxcif
        BY <2>1, <2>3, <3>1, <4>2, FlagIsEnd DEF Read
      <4> QED
        BY <3>1, <3>3, <4>1, <4>2
    <3> QED
      BY <1>0, <2>1, <2>3, <3>1, <3>2, <3>3 DEF Bits
  <2> QED
    BY <2>2, <2>3
<1>7. CASE CallbackEnds
  <2>1. /\ UNCHANGED <<dma, msg, cur, spiPc, rxcr, rxFifo, txFifo, txCnt>> /\ T' = T
        /\ xferStat' = xferStat \ late /\ late' = {}
    BY <1>7 DEF CallbackEnds, T
  <2>2. "RX" \in late => rxcr = 0 /\ rxFifo = <<>>
    BY LateWhere
  <2>3. spiPc \notin {"rx", "rxIssue", "wait", "asleep"} => late = {}
    BY LateWhere
  <2>4. spiPc = "rx" => "RX" \notin late
    BY LateWhere
  <2> QED
    BY <1>0, <2>1, <2>2, <2>3, <2>4 DEF Bits
<1>8. CASE TxCallback \/ RxCallback
  <2>1. /\ UNCHANGED <<dma, msg, cur, xferStat, rxcr, rxFifo, txFifo, txCnt>>
        /\ T' = T /\ TxDma' = TxDma /\ RxDma' = RxDma
        /\ spiPc' = IF spiPc = "asleep" THEN "wait" ELSE spiPc
    BY <1>8 DEF TxCallback, RxCallback, Callback, Wakes, T, TxDma, RxDma
  <2>2. CASE TxCallback
    <3>1. late' = late \cup {"TX"}
      BY <2>2 DEF TxCallback, Callback
    <3>2. TxDma /\ "TX" \in xferStat /\ spiPc \in {"rx", "rxIssue", "wait", "asleep"}
      BY <2>2, CallbackWhere
    <3> QED
      BY <1>0, <2>1, <3>1, <3>2 DEF Bits
  <2>3. CASE RxCallback
    <3>1. late' = late \cup {"RX"}
      BY <2>3 DEF RxCallback, Callback
    <3>2. RxDma /\ "RX" \in xferStat /\ spiPc \in {"wait", "asleep"}
      BY <2>3, CallbackWhere
    <3> QED
      BY <1>0, <2>1, <3>1, <3>2 DEF Bits
  <2> QED
    BY <1>8, <2>2, <2>3
<1>9. CASE TxWord
  <2>1. spiPc \in {"rx", "rxIssue", "wait", "asleep"}
    BY <1>9, TxWordWhere
  <2>2. /\ UNCHANGED <<dma, msg, cur, spiPc, late, xferStat, rxcr, rxFifo, txCnt>>
        /\ T' = T /\ TxDma' = TxDma /\ RxDma' = RxDma
    BY <1>9 DEF TxWord, T, TxDma, RxDma
  <2> QED
    BY <1>0, <2>1, <2>2 DEF Bits
<1>10. CASE RxWord
  <2>1. "RX" \in xferStat
    BY <1>10, RxWordWhere
  <2>2. /\ UNCHANGED <<dma, msg, cur, spiPc, late, xferStat, rxcr, txFifo, txCnt>>
        /\ T' = T /\ TxDma' = TxDma /\ RxDma' = RxDma
    BY <1>10 DEF RxWord, T, TxDma, RxDma
  <2> QED
    BY <1>0, <2>1, <2>2 DEF Bits
<1>11. CASE TxComplete \/ RxComplete \/ HwStop \/ UNCHANGED vars
  <2>1. /\ UNCHANGED <<dma, msg, cur, spiPc, late, xferStat, rxcr, rxFifo, txFifo, txCnt>>
        /\ T' = T /\ TxDma' = TxDma /\ RxDma' = RxDma
    BY <1>11 DEF TxComplete, RxComplete, HwStop, vars, T, TxDma, RxDma
  <2> QED
    BY <1>0, <2>1 DEF Bits
<1>12. CASE HwSend
  <2>1. /\ UNCHANGED <<dma, msg, cur, spiPc, late, xferStat, rxcr, rxFifo, txCnt>>
        /\ txFifo # <<>> /\ T' = T /\ TxDma' = TxDma /\ RxDma' = RxDma
    BY <1>12 DEF HwSend, T, TxDma, RxDma
  <2> QED
    BY <1>0, <2>1 DEF Bits
<1>13. ASSUME NEW w \in Words, HwExchange(w) \/ HwReceive(w) PROVE Bits'
  <2>1. /\ UNCHANGED <<dma, msg, cur, spiPc, late, xferStat, txCnt>> /\ rxcr > 0
        /\ txFifo # <<>> \/ txFifo' = txFifo
        /\ T' = T /\ TxDma' = TxDma /\ RxDma' = RxDma
    BY <1>13 DEF HwExchange, HwReceive, T, TxDma, RxDma
  <2>2. InTransfer => "RX" \in xferStat
    BY <1>0, <2>1 DEF Bits
  <2> QED
    BY <1>0, <2>1, <2>2 DEF Bits
<1> QED
  BY <1>1, <1>2, <1>3, <1>4, <1>5, <1>6, <1>7, <1>8, <1>9, <1>10, <1>11, <1>12, <1>13
  DEF Next, Thread, ThreadStep, TxEngine, RxEngine, Controller

LEMMA NoErrorNext ==
  ASSUME Env \subseteq {"beside"}, IInv, [Next]_vars
  PROVE  NoError'
<1>0. NoError
  BY DEF IInv
<1> USE DEF InTransfer, Steps, NoError
<1>1. CASE \/ (\E m \in Messages : Submit(m)) \/ SetupXfer \/ Finalize
  BY <1>0, <1>1 DEF Submit, SetupXfer, Finalize
<1>2. CASE Load \/ Fill \/ TxByCpu \/ TxIssue \/ RxByCpu \/ RxIssue \/ Wait \/ Return
  BY <1>0, <1>2 DEF Load, Fill, TxByCpu, TxIssue, RxByCpu, RxIssue, Wait, Return
<1>3. CASE TxSubmit \/ RxSubmit
  BY <1>0, <1>3 DEF TxSubmit, RxSubmit, Refused, Configured
<1>4. CASE \/ Isr \/ CallbackEnds \/ TxEngine \/ RxEngine \/ Controller \/ UNCHANGED vars
  BY <1>0, <1>4 DEF Isr, CallbackEnds, TxEngine, TxWord, TxComplete, TxCallback, RxEngine,
     RxWord, RxComplete, RxCallback, Callback, Wakes, Controller, HwSend, HwStop, HwExchange,
     HwReceive, vars
<1> QED
  BY <1>1, <1>2, <1>3, <1>4 DEF Next, Thread, ThreadStep

LEMMA ClockNext ==
  ASSUME Env \subseteq {"beside"}, IInv, [Next]_vars
  PROVE  Clock'
<1>0. TypeInv /\ MessageOK /\ ScalarsOK /\ Bits /\ Clock /\ Sending /\ Receiving
  BY DEF IInv, TypeInv
<1> USE DEF InTransfer, Steps
<1>1. CASE \/ \E m \in Messages : Submit(m)
           \/ Finalize
  BY <1>0, <1>1 DEF Submit, Finalize, Clock
<1>2. CASE SetupXfer
  BY <1>0, <1>2 DEF SetupXfer, Clock
<1>3. CASE Load
  <2>1. /\ spiPc = "load" /\ spiPc' = (IF dma THEN "tx" ELSE "fill") /\ csChange' = T.cs
        /\ txcr' = (IF T.tx # <<>> THEN Len(T.tx) ELSE txcr)
        /\ rxcr' = (IF T.rx > 0 THEN T.rx ELSE rxcr)
        /\ simult' = (T.tx # <<>> /\ T.rx > 0) /\ run' = (dma \/ run)
        /\ UNCHANGED <<dma, msg, cur, cs>> /\ T' = T
    BY <1>3 DEF Load, T
  <2>2. simult' => txcr' = rxcr'
    <3>1. T.tx # <<>> /\ T.rx > 0 => Len(T.tx) > 0 /\ T.rx = Len(T.tx)
      BY <1>0, TransferType
    <3> QED
      BY <2>1, <3>1
  <2> QED
    BY <1>0, <2>1, <2>2 DEF Clock, ScalarsOK
<1>4. CASE Fill \/ TxByCpu \/ TxSubmit \/ TxIssue \/ RxByCpu \/ RxSubmit \/ RxIssue \/ Wait
  <2>1. /\ UNCHANGED <<msg, cur, csChange, txcr, rxcr, simult, cs>> /\ T' = T
        /\ InTransfer /\ InTransfer'
        /\ run' \/ (run' = run /\ spiPc # "fill")
    BY <1>4 DEF Fill, TxByCpu, TxSubmit, TxIssue, RxByCpu, RxSubmit, RxIssue, Wait, Refused, T,
       IInv, NoError
  <2> QED
    BY <1>0, <2>1 DEF Clock
<1>5. CASE Return
  <2>1. /\ spiPc = "return" /\ UNCHANGED <<csChange, txcr, rxcr, simult>>
        /\ spiPc' = "done" \/ (spiPc' = "setup" /\ cs' = (cs /\ ~csChange))
    BY <1>5 DEF Return
  <2> QED
    BY <1>0, <2>1 DEF Clock
<1>6. CASE Isr \/ CallbackEnds \/ TxEngine \/ RxEngine \/ UNCHANGED vars
  <2>1. /\ UNCHANGED <<msg, cur, csChange, txcr, rxcr, simult, run, cs>> /\ T' = T
        /\ spiPc' = spiPc \/ (spiPc = "asleep" /\ spiPc' = "wait")
    BY <1>6 DEF Isr, CallbackEnds, TxEngine, TxWord, TxComplete, TxCallback, RxEngine, RxWord,
       RxComplete, RxCallback, Callback, Wakes, vars, T
  <2> QED
    BY <1>0, <2>1 DEF Clock
<1>7. CASE HwSend \/ HwStop
  <2>1. UNCHANGED <<msg, cur, spiPc, csChange, simult, cs>> /\ T' = T /\ run
    BY <1>7 DEF HwSend, HwStop, T
  <2>2. CASE HwSend
    BY <1>0, <2>1, <2>2 DEF HwSend, Clock
  <2>3. CASE HwStop
    BY <1>0, <2>1, <2>3 DEF HwStop, Clock
  <2> QED
    BY <1>7, <2>2, <2>3
<1>8. ASSUME NEW w \in Words, HwExchange(w) \/ HwReceive(w) PROVE Clock'
  <2>1. UNCHANGED <<msg, cur, spiPc, csChange, simult, cs, run>> /\ T' = T /\ run
    BY <1>8 DEF HwExchange, HwReceive, T
  <2>2. simult => txcr' = rxcr'
    BY <1>0, <1>8 DEF HwExchange, HwReceive, Received, Clock
  <2> QED
    BY <1>0, <2>1, <2>2 DEF Clock
<1> QED
  BY <1>1, <1>2, <1>3, <1>4, <1>5, <1>6, <1>7, <1>8 DEF Next, Thread, ThreadStep, Controller

LEMMA InterruptsNext ==
  ASSUME Env \subseteq {"beside"}, IInv, [Next]_vars
  PROVE  Interrupts'
<1>0. /\ TypeInv /\ MessageOK /\ ScalarsOK /\ SequencesOK /\ Bits /\ Clock /\ Sending
      /\ Receiving /\ Interrupts
  BY DEF IInv, TypeInv
<1>s. UNCHANGED <<msg, cur>> => T' = T /\ Stale' = Stale
  BY DEF T, Stale, Xfers
<1> USE DEF InTransfer, Steps
<1>1. CASE \E m \in Messages : Submit(m)
  <2>1. /\ spiPc = "idle" /\ spiPc' = "setup" /\ csChange'
        /\ UNCHANGED <<dma, ier, rxcif, xferStat>>
    BY <1>1 DEF Submit
  <2> QED
    BY <1>0, <1>s, <2>1 DEF Interrupts
<1>2. CASE SetupXfer
  <2>1. /\ spiPc = "setup" /\ UNCHANGED <<dma, msg, cur, csChange, rxcif, xferStat>>
        /\ \/ spiPc' = "load" /\ ~csChange /\ ier' = ier
           \/ spiPc' = "load" /\ csChange /\ "RXC" \in ier' /\ ier' \subseteq {"RX", "RXC"}
           \/ spiPc' = "done" /\ ier' = ier
    BY <1>2 DEF SetupXfer, Enabled
  <2> QED
    BY <1>0, <1>s, <2>1 DEF Interrupts
<1>3. CASE Load
  <2>1. /\ spiPc = "load" /\ spiPc' = (IF dma THEN "tx" ELSE "fill") /\ ier' = {}
        /\ ~IrqLine /\ UNCHANGED <<dma, msg, cur, rxcif>> /\ T' = T
    BY <1>3 DEF Load, Unmasked, T
  <2>2. rxcif => dma /\ Stale
    BY <1>0, <1>s, <2>1 DEF Interrupts, IrqLine
  <2>3. Stale => T.rx \notin 1 .. RxMost
    <3> SUFFICES ASSUME Stale, T.rx \in 1 .. RxMost PROVE FALSE
      OBVIOUS
    <3>1. PICK i \in 1 .. cur - 1 :
            Xfers[i].rx > RxMost /\ \A k \in i .. cur - 1 : ~Xfers[k].cs
      BY DEF Stale
    <3>2. /\ Xfers \in Seq(Transfers) /\ Len(Xfers) \in Nat /\ cur \in 1 .. Len(Xfers)
          /\ DOMAIN Xfers = 1 .. Len(Xfers)
      BY <1>0, TransferType, LenProperties
    <3>3. i \in DOMAIN Xfers /\ cur \in DOMAIN Xfers /\ i < cur
      BY <3>2
    <3>4. \E k \in i .. cur - 1 : Xfers[k].cs
      BY <1>0, <3>1, <3>3 DEF MessageOK, Orderly, T, Xfers
    <3> QED
      BY <3>1, <3>4
  <2>4. T.rx > RxMost \/ T.rx = 0 \/ T.rx \in 1 .. RxMost
    BY <1>0, Constants, TransferType
  <2> QED
    BY <1>s, <2>1, <2>2, <2>3, <2>4 DEF Interrupts
<1>4. CASE Fill
  <2>1. /\ spiPc = "fill" /\ spiPc' = "wait" /\ ~dma
        /\ UNCHANGED <<dma, msg, cur, rxcr, rxcif>>
        /\ "RX" \in xferStat' <=> "RX" \in xferStat
    BY <1>0, <1>4 DEF Fill, Filled, Bits
  <2>2. "RXC" \in ier' /\ ("TX" \in ier' => T.tx # <<>> /\ xferStat' = xferStat)
    BY <1>4 DEF Fill, Filled
  <2>3. "TX" \in ier' => "TX" \in xferStat'
    BY <1>0, <2>1, <2>2 DEF Bits
  <2> QED
    BY <1>0, <1>s, <2>1, <2>2, <2>3 DEF Interrupts
<1>5. CASE TxByCpu
  <2>1. /\ spiPc = "tx" /\ spiPc' = "rx" /\ dma /\ Len(T.tx) <= TxMost
        /\ UNCHANGED <<dma, msg, cur, rxcr, rxcif>> /\ T' = T
        /\ "RX" \in xferStat' <=> "RX" \in xferStat
    BY <1>0, <1>5 DEF TxByCpu, Filled, Bits, T, ScalarsOK
  <2>2. ier' = ier
    <3>1. CASE T.tx = <<>>
      BY <1>5, <3>1 DEF TxByCpu
    <3>2. CASE T.tx # <<>>
      <4>1. txFifo = <<>> /\ txCnt = 0 /\ Len(txFifo) = 0
        BY <1>0, <2>1, <3>2 DEF Bits
      <4>2. Depth - Len(txFifo) >= Len(T.tx) - txCnt /\ Len(T.tx) + 1 <= Depth
        BY <1>0, <2>1, <4>1, Constants, TransferType
      <4>3. txCnt + Len(Following(Depth - Len(txFifo))) = Len(T.tx)
        <5>1. InTransfer
          BY <2>1
        <5> HIDE DEF InTransfer
        <5> QED
          BY <4>2, <5>1, FilledType
      <4>4. Len(txFifo) + Len(Following(Depth - Len(txFifo))) + 1 <= Depth
        <5>1. Len(Following(Depth - Len(txFifo))) \in Nat
          <6>1. InTransfer
            BY <2>1
          <6> HIDE DEF InTransfer
          <6> QED
            BY <6>1, FilledType
        <5> QED
          BY <4>1, <4>2, <4>3, <5>1
      <4> QED
        BY <1>5, <3>2, <4>3, <4>4 DEF TxByCpu, Filled
    <3> QED
      BY <3>1, <3>2
  <2> QED
    BY <1>0, <1>s, <2>1, <2>2 DEF Interrupts
<1>6. CASE TxSubmit \/ TxIssue \/ RxSubmit \/ RxIssue
  <2>1. /\ spiPc \in {"tx", "txIssue", "rx", "rxIssue"}
        /\ spiPc' \in {"txIssue", "rx", "rxIssue", "wait"} /\ dma
        /\ UNCHANGED <<dma, msg, cur, ier, xferStat, rxcr, rxcif>> /\ T' = T
    BY <1>0, <1>6 DEF TxSubmit, TxIssue, RxSubmit, RxIssue, Refused, Bits, T, ScalarsOK,
       IInv, NoError
  <2> QED
    BY <1>0, <1>s, <2>1 DEF Interrupts
<1>7. CASE RxByCpu
  <2>1. /\ spiPc = "rx" /\ spiPc' = "wait" /\ dma /\ T.rx <= RxMost /\ T.rx \in Nat
        /\ ier' = (IF T.rx > 0 THEN ier \cup {"RX", "RXC"} ELSE ier) /\ RxMost \in Nat
        /\ UNCHANGED <<dma, msg, cur, xferStat, rxcr, rxcif>> /\ T' = T
    BY <1>0, <1>7, Constants, TransferType DEF RxByCpu, Bits, T, ScalarsOK
  <2>2. "TX" \notin ier /\ "RXC" \notin ier /\ (T.rx > 0 => "RX" \in xferStat)
    BY <1>0, <1>s, <2>1 DEF Interrupts, Bits
  <2>3. T.rx > 0 => T.rx \in 1 .. RxMost
    BY <2>1
  <2> QED
    BY <1>0, <1>s, <2>1, <2>2, <2>3 DEF Interrupts
<1>8. CASE Wait
  <2>1. /\ spiPc = "wait" /\ spiPc' = (IF xferStat = {} THEN "return" ELSE "asleep")
        /\ UNCHANGED <<dma, msg, cur, ier, xferStat, rxcr, rxcif>> /\ T' = T
    BY <1>8 DEF Wait, Finished, T
  <2> QED
    BY <1>0, <1>s, <2>1 DEF Interrupts
<1>9. CASE Return
  <2>1. /\ spiPc = "return" /\ spiPc' \in {"done", "setup"} /\ xferStat = {}
        /\ UNCHANGED <<dma, msg, csChange, ier, xferStat, rxcif>> /\ csChange = T.cs
        /\ spiPc' = "setup" => cur' = cur + 1
    BY <1>0, <1>9 DEF Return, Bits, Clock
  <2>2. "TX" \notin ier /\ (dma => "RXC" \notin ier)
    BY <1>0, <1>s, <2>1 DEF Interrupts
  <2>3. rxcif => dma /\ (T.rx > RxMost \/ Stale)
    BY <1>0, <1>s, <2>1 DEF Interrupts
  <2>4. ASSUME spiPc' = "setup", T.rx > RxMost \/ Stale PROVE Stale' \/ csChange'
    <3>0. cur \in Nat \ {0} /\ cur' = cur + 1 /\ Xfers' = Xfers /\ Xfers[cur] = T
      BY <1>0, <1>s, <2>1, <2>4, TransferType DEF Xfers, T
    <3>1. CASE ~T.cs /\ T.rx > RxMost
      <4>1. cur \in 1 .. cur' - 1 /\ \A k \in cur .. cur' - 1 : k = cur
        BY <3>0
      <4>2. Xfers'[cur].rx > RxMost /\ \A k \in cur .. cur' - 1 : ~Xfers'[k].cs
        BY <3>0, <3>1, <4>1
      <4> QED
        BY <4>1, <4>2 DEF Stale
    <3>2. CASE ~T.cs /\ Stale
      <4>1. PICK i \in 1 .. cur - 1 :
              Xfers[i].rx > RxMost /\ \A k \in i .. cur - 1 : ~Xfers[k].cs
        BY <3>2 DEF Stale
      <4>2. i \in 1 .. cur' - 1 /\ \A k \in i .. cur' - 1 : k = cur \/ k \in i .. cur - 1
        BY <3>0
      <4>3. Xfers'[i].rx > RxMost /\ \A k \in i .. cur' - 1 : ~Xfers'[k].cs
        BY <3>0, <3>2, <4>1, <4>2
      <4> QED
        BY <4>2, <4>3 DEF Stale
    <3> QED
      BY <2>1, <2>4, <3>1, <3>2
  <2> QED
    BY <1>0, <1>s, <2>1, <2>2, <2>3, <2>4 DEF Interrupts
<1>10. CASE Finalize
  <2>1. spiPc = "done" /\ spiPc' = "idle" /\ UNCHANGED <<dma, ier, xferStat, rxcif>>
    BY <1>10 DEF Finalize
  <2> QED
    BY <1>0, <1>s, <2>1 DEF Interrupts
<1>11. CASE Isr
  <2>1. UNCHANGED <<dma, msg, cur>> /\ T' = T /\ ~rxcif'
    BY <1>11 DEF Isr, T
  <2>2. CASE spiPc \notin {"wait", "asleep"}
    <3>1. /\ spiPc = "load" /\ spiPc' = "load" /\ xferStat' = xferStat
          /\ ier' \subseteq ier \ {"RX", "RXC"}
      BY <1>11, <2>2, IsrBefore
    <3> QED
      BY <1>0, <1>s, <2>1, <3>1 DEF Interrupts
  <2>3. CASE spiPc \in {"wait", "asleep"}
    <3>1. /\ spiPc' \in {"wait", "asleep"} /\ ier' \subseteq ier
          /\ "RX" \in xferStat' <=> "RX" \in xferStat /\ ~rxcif
          /\ "TX" \in ier' /\ "TX" \in xferStat => "TX" \in xferStat'
          /\ "RX" \in ier' => "RXC" \in ier'
          /\ dma /\ "RXC" \in ier' => "RXC" \in ier /\ ~rxcif
      BY <1>11, <2>3, IsrWithin
    <3> QED
      BY <1>0, <1>s, <2>1, <2>3, <3>1 DEF Interrupts
  <2> QED
    BY <2>2, <2>3
<1>12. CASE CallbackEnds
  <2>1. /\ UNCHANGED <<dma, msg, cur, csChange, spiPc, ier, rxcr, rxcif>> /\ T' = T
        /\ xferStat' = xferStat \ late
    BY <1>12 DEF CallbackEnds, T
  <2>2. /\ "TX" \in late => dma
        /\ "RX" \in late => dma /\ T.rx > RxMost
    BY LateWhere DEF TxDma, RxDma
  <2>3. T.rx > RxMost => T.rx \notin 1 .. RxMost
    BY <1>0, Constants, TransferType
  <2> QED
    BY <1>0, <1>s, <2>1, <2>2, <2>3 DEF Interrupts
<1>13. CASE TxEngine \/ RxEngine \/ HwSend \/ HwStop \/ UNCHANGED vars
  <2>1. /\ UNCHANGED <<dma, msg, cur, csChange, ier, xferStat, rxcr, rxcif>> /\ T' = T
        /\ spiPc' = spiPc \/ (spiPc = "asleep" /\ spiPc' = "wait")
    BY <1>13 DEF TxEngine, TxWord, TxComplete, TxCallback, RxEngine, RxWord, RxComplete,
       RxCallback, Callback, Wakes, HwSend, HwStop, vars, T
  <2> QED
    BY <1>0, <1>s, <2>1 DEF Interrupts
<1>14. ASSUME NEW w \in Words, HwExchange(w) \/ HwReceive(w) PROVE Interrupts'
  <2>1. /\ UNCHANGED <<dma, msg, cur, csChange, spiPc, ier, xferStat>> /\ T' = T
        /\ rxcr > 0 /\ rxcr' = rxcr - 1 /\ rxcif' = (rxcif \/ rxcr = 1)
    BY <1>14 DEF HwExchange, HwReceive, Received, T
  <2>2. InTransfer /\ "RX" \in xferStat
    BY <1>0, <1>s, <2>1 DEF Bits, Receiving
  <2>3. rxcif => RxDma
    BY <2>1, <2>2, FlagIsEnd
  <2>4. rxcif' => rxcr' = 0 \/ (dma /\ T.rx > RxMost)
    <3>1. rxcif => dma /\ T.rx > RxMost
      BY <2>3 DEF RxDma
    <3>2. rxcr = 1 => rxcr' = 0
      BY <2>1
    <3> QED
      BY <2>1, <3>1, <3>2
  <2> QED
    BY <1>0, <1>s, <2>1, <2>2, <2>4 DEF Interrupts
<1> QED
  BY <1>1, <1>2, <1>3, <1>4, <1>5, <1>6, <1>7, <1>8, <1>9, <1>10, <1>11, <1>12, <1>13, <1>14
  DEF Next, Thread, ThreadStep, Controller

-----------------------------------------------------------------------------
(* The invariant holds, and what follows                                    *)

LEMMA IInvInit == Init => IInv
<1> SUFFICES ASSUME Init PROVE IInv
  OBVIOUS
<1> USE DEF Init
<1>1. /\ \A i \in {1} : NoMessage.transfers[i] = [tx |-> <<>>, rx |-> 0, cs |-> FALSE]
      /\ DOMAIN NoMessage.transfers = {1} /\ Len(NoMessage.transfers) = 1
      /\ NoMessage.transfers # <<>>
  BY DEF NoMessage
<1>2. IsMessage(NoMessage)
  <2>1. [tx |-> <<>>, rx |-> 0, cs |-> FALSE] \in Transfers
    BY EmptySeq DEF Transfers
  <2>2. NoMessage.transfers \in Seq(Transfers)
    BY <2>1 DEF NoMessage
  <2> QED
    BY <1>1, <2>2 DEF IsMessage, NoMessage
<1>3. T.tx = <<>> /\ T.rx = 0
  BY <1>1 DEF T
<1>4. Orderly(msg) /\ Settled(msg)
  BY <1>1 DEF Orderly, Settled
<1>5. TypeInv
  <2>1. MessageOK
    BY <1>1, <1>2, <1>4 DEF MessageOK, Xfers
  <2>2. ScalarsOK
    BY DEF ScalarsOK, Steps
  <2>3. SequencesOK
    <3>1. Len(<<>>) = 0 /\ <<>> \in Seq(AnyWord) /\ <<>> \in Seq(Words) /\ <<>> \in Seq(Seq(Words))
      BY EmptySeq
    <3> QED
      BY <3>1, Constants DEF SequencesOK
  <2> QED
    BY <2>1, <2>2, <2>3 DEF TypeInv
<1>6. Unused(txChan) /\ Unused(rxChan)
  <2>1. txChan = Chan(<<>>, <<>>, {}, <<>>, 0, 0)
    BY DEF Tx!Init, Tx!NewChan, Chan
  <2>2. rxChan = Chan(<<>>, <<>>, {}, <<>>, 0, 0)
    BY DEF Rx!Init, Rx!NewChan, Chan
  <2> QED
    BY <2>1, <2>2 DEF Unused
<1>7. TxChannel /\ RxChannel
  BY <1>6 DEF TxChannel, RxChannel
<1>8. Sending /\ Handed /\ Receiving /\ Bits /\ NoError /\ Clock /\ Interrupts
  BY DEF Sending, Handed, Receiving, Bits, NoError, Clock, Interrupts, InTransfer, Steps
<1> QED
  BY <1>5, <1>7, <1>8 DEF IInv

LEMMA IInvNext ==
  ASSUME Env \subseteq {"beside"}, IInv, [Next]_vars
  PROVE  IInv'
  BY TypeNext, TxChannelNext, RxChannelNext, SendingNext, HandedNext, ReceivingNext, BitsNext,
     NoErrorNext, ClockNext, InterruptsNext DEF IInv

LEMMA IInvAlways == ASSUME Env \subseteq {"beside"} PROVE Spec => []IInv
<1>1. IInv /\ [Next]_vars => IInv'
  BY IInvNext
<1> QED
  BY IInvInit, <1>1, PTL DEF Spec

\* The messages, the buffers and the FIFOs keep their types: neither FIFO is
\* written beyond its depth, whoever writes it.
THEOREM TypeCorrect == ASSUME Env \subseteq {"beside"} PROVE Spec => []TypeInv
<1>1. IInv => TypeInv
  BY DEF IInv
<1> QED
  BY IInvAlways, <1>1, PTL

\* A word goes to the chip once it has been written to the FIFO, whoever writes
\* it; nobody writes one that another has to write, or out of turn.
THEOREM WordsInOrderAlways == ASSUME Env \subseteq {"beside"} PROVE Spec => []WordsInOrder
<1>1. ASSUME IInv, InTransfer PROVE WordsInOrder
  <2>1. cs /\ (frame \o txFifo) \o Rest = due
    BY <1>1 DEF IInv, Clock, Sending
  <2>2. frame \in Seq(Words) /\ txFifo \in Seq(Words) /\ Rest \in Seq(Words)
    BY <1>1, RestType DEF IInv, TypeInv, SequencesOK
  <2>3. due = frame \o (txFifo \o Rest)
    BY <2>1, <2>2, Regroup
  <2>4. txFifo \o Rest \in Seq(Words)
    BY <2>2, ConcatProperties
  <2>5. IsPrefix(frame, due)
    BY <2>2, <2>3, <2>4, FirstIsPrefix
  <2> QED
    BY <2>1, <2>5 DEF WordsInOrder
<1>2. ASSUME IInv, ~InTransfer PROVE WordsInOrder
  <2>1. /\ txcr = Len(txFifo) /\ frame \o txFifo = due /\ (~cs => ~(txcr > 0)) /\ txcr \in Nat
        /\ frame \in Seq(Words) /\ txFifo \in Seq(Words)
    BY <1>2 DEF IInv, Sending, Trailing, Clock, TypeInv, ScalarsOK, SequencesOK
  <2>2. IsPrefix(frame, due)
    BY <2>1, FirstIsPrefix
  <2>3. ~cs => txFifo = <<>>
    BY <1>2, <2>1, Fifos
  <2>4. frame \o <<>> = frame
    BY <2>1, ConcatEmptySeq
  <2> QED
    BY <2>1, <2>2, <2>3, <2>4 DEF WordsInOrder
<1>3. IInv => WordsInOrder
  BY <1>1, <1>2
<1> QED
  BY IInvAlways, <1>3, PTL

\* A transfer that receives returns when it is complete in either direction, and
\* nobody has its buffers any more, be its callbacks made before the thread goes
\* on or beside it.
THEOREM CompleteOnReturnAlways ==
  ASSUME Env \subseteq {"beside"} PROVE Spec => []CompleteOnReturn
<1>1. ASSUME IInv, spiPc = "return", T.rx > 0
      PROVE  /\ frame = due /\ Len(answers) = T.rx /\ rxBuf = answers
             /\ Tx!Idle /\ Rx!Idle /\ late = {} /\ ~IrqLine
  <2>0. InTransfer /\ Bits /\ TxChannel /\ RxChannel /\ MessageOK /\ SequencesOK
    BY <1>1 DEF IInv, TypeInv, InTransfer, Steps
  <2>1. rxcr = 0 /\ rxFifo = <<>> /\ frame = due
    BY <1>1, AllDone
  <2>2. Taken = T.rx /\ Len(answers) = T.rx /\ Len(rxBuf) = T.rx
    BY <1>1, <2>0, <2>1, TakenType
  <2>3. \A i \in 1 .. T.rx : rxBuf[i] = answers[i]
    BY <1>1, <2>0, <2>2, TakenType
  <2>4. rxBuf = answers
    <3>1. rxBuf \in Seq(AnyWord) /\ answers \in Seq(AnyWord)
      BY <2>0, SeqMonotonic DEF SequencesOK, AnyWord
    <3> QED
      BY <2>2, <2>3, <3>1, SeqEqual
  <2>5. Unused(txChan) /\ Unused(rxChan)
    BY <1>1, <2>0 DEF TxChannel, RxChannel
  <2>6. Tx!Idle /\ Rx!Idle
    BY <2>5, ChanFields DEF Tx!Idle, Rx!Idle
  <2>7. late = {}
    BY <1>1, LateWhere
  <2>8. ~IrqLine
    BY <1>1, IsrWhere
  <2> QED
    BY <2>1, <2>2, <2>4, <2>6, <2>7, <2>8
<1>2. IInv => CompleteOnReturn
  BY <1>1 DEF CompleteOnReturn
<1> QED
  BY IInvAlways, <1>2, PTL
=============================================================================
