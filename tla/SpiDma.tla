--------------------------------- MODULE SpiDma ---------------------------------
(***************************************************************************)
(* spi-socle-test.c and spi-ftk-dma330.c: the driver of the controller of  *)
(* SpiPio that exchanges words both ways at once and lets two channels of  *)
(* a DMA engine move them.  Few words the thread and the interrupt handler *)
(* move; and all of them when no channels were there at probe.             *)
(*                                                                         *)
(* The channels are two DmaEngines: this is the composition of the SPI     *)
(* driver with what socle_dma330.c implements.  Thread, interrupt handler, *)
(* the callbacks of either channel, the channels and the controller are    *)
(* interleaved; the handler is one step, a callback two.                   *)
(***************************************************************************)
EXTENDS Integers, Sequences, SequencesExt

CONSTANTS
  Words,      \* what a word on the wire may be
  Messages,   \* the messages that drivers of SPI devices submit
  Depth,      \* of either FIFO
  Trigger,    \* level of the FIFO interrupts
  TxMost,     \* most words to be sent without DMA: 4 in the code
  RxMost,     \* most words to be received without DMA: 2 in the code
  MaxCookie,  \* bound on the transfers given to a channel
  BLANK,      \* what an rx_buf holds before it is written
  Env         \* the hazards, among those below, that the environment exhibits

(***************************************************************************)
(*   txonly   a message sends without receiving afterwards                 *)
(*   stale    a message receives by DMA and then without, the chip being   *)
(*            kept selected                                                *)
(*   slow     the handler is slow to take an interrupt, or runs beside the *)
(*            thread on another processor                                  *)
(*   ftk      the code is spi-ftk-dma330.c, which leaves interrupts on     *)
(*   beside   a callback runs beside the thread on another processor       *)
(*   fail     a channel cannot be configured, or refuses a transfer        *)
(***************************************************************************)
Hazards == {"txonly", "stale", "slow", "ftk", "beside", "fail"}

\* A transfer sends, receives, or does both, as many words; cs: cs_change.
Transfers ==
  {t \in [tx : Seq(Words), rx : Nat, cs : BOOLEAN] :
     t.tx = <<>> \/ t.rx \in {0, Len(t.tx)}}

IsMessage(m) ==
  m \in [supported : BOOLEAN, transfers : Seq(Transfers)] /\ m.transfers # <<>>

\* RxMost <= TxMost: what the handler receives no channel sends.
ASSUME SpiDmaAssumption ==
  /\ \A m \in Messages : IsMessage(m)
  /\ Trigger \in Nat \ {0} /\ Depth \in Nat /\ Depth >= Trigger
  /\ TxMost \in Nat /\ TxMost < Depth /\ RxMost \in 0 .. TxMost
  /\ MaxCookie \in Nat /\ BLANK \notin Words /\ Env \subseteq Hazards

VARIABLES
  \* the thread of the SPI core and its message
  dma,        \* probe was given both channels
  msg, cur, spiPc, csChange, status,
  actual,     \* actual_length
  \* struct socle_spi
  xferStat,   \* a set of "TX" and "RX", for TX_XFER_RUN and RX_XFER_RUN
  txCnt,      \* tx_xfer_cnt
  rxCnt,      \* rx_xfer_cnt
  rxBuf,      \* rx_buf
  late,       \* bits a callback has still to clear
  \* the DMA engine
  txChan, rxChan,
  txLeft,     \* the words each transfer of the transmit channel still has to move
  rxLeft,     \* words the receive channel still has to move
  \* the controller
  txFifo, rxFifo,
  txcr, rxcr, \* words to be sent and received
  simult,     \* SOCLE_SPI_TXRX_SIMULT_EN
  run,        \* SOCLE_SPI_TXRX_RUN
  ier,        \* a set of "TX" (TXFIFO), "RX" (RXFIFO) and "RXC" (RX_COMPLETE)
  rxcif,      \* the flag receive complete
  cs,         \* chip select
  \* history
  frame, due, \* words sent, and to be sent, since the chip was selected
  answers     \* words the device has answered in this transfer

threadVars == <<dma, msg, cur, spiPc, csChange, status, actual>>
hostVars   == <<xferStat, txCnt, rxCnt, rxBuf, late>>
dmaVars    == <<txChan, rxChan, txLeft, rxLeft>>
fifoVars   == <<txFifo, rxFifo>>
ctrlVars   == <<fifoVars, txcr, rxcr, simult, run, ier, rxcif, cs>>
wireVars   == <<frame, due, answers>>
vars       == <<threadVars, hostVars, dmaVars, ctrlVars, wireVars>>

\* The channels the thread submits to and issues, and that call it back.
Tx == INSTANCE DmaEngine WITH Items <- 1 .. MaxCookie, MaxChain <- 1, chan <- txChan
Rx == INSTANCE DmaEngine WITH Items <- 1 .. MaxCookie, MaxChain <- 1, chan <- rxChan

T == msg.transfers[cur]

NoMessage ==
  [supported |-> TRUE, transfers |-> <<[tx |-> <<>>, rx |-> 0, cs |-> FALSE]>>]

\* After socle_spi_probe.
Init ==
  /\ dma \in BOOLEAN
  /\ msg = NoMessage /\ cur = 1 /\ spiPc = "idle" /\ csChange = TRUE
  /\ status = "0" /\ actual = 0
  /\ xferStat = {} /\ txCnt = 0 /\ rxCnt = 0 /\ rxBuf = <<>> /\ late = {}
  /\ Tx!Init /\ Rx!Init /\ txLeft = <<>> /\ rxLeft = 0
  /\ txFifo = <<>> /\ rxFifo = <<>> /\ txcr = 0 /\ rxcr = 0
  /\ simult = FALSE /\ run = FALSE /\ ier = {} /\ rxcif = FALSE /\ cs = FALSE
  /\ frame = <<>> /\ due = <<>> /\ answers = <<>>

-----------------------------------------------------------------------------
(* The thread                                                               *)

Goes(from, to) == spiPc = from /\ spiPc' = to

\* No message receives without DMA, the chip still selected, what it has
\* received with DMA before.
Orderly(m) ==
  \A i, j \in DOMAIN m.transfers :
    /\ i < j
    /\ m.transfers[i].rx > RxMost
    /\ m.transfers[j].rx \in 1 .. RxMost
    => \E k \in i .. j - 1 : m.transfers[k].cs

\* What is sent without an answer is followed by what receives only, the chip
\* still selected: the controller sends first, and that transfer is waited for.
Settled(m) ==
  \A i \in DOMAIN m.transfers :
    LET t == m.transfers[i] IN
    t.tx # <<>> /\ t.rx = 0 =>
      /\ i + 1 \in DOMAIN m.transfers /\ ~t.cs
      /\ m.transfers[i + 1].tx = <<>> /\ m.transfers[i + 1].rx > 0

Submit(m) ==
  /\ Goes("idle", "setup")
  /\ "stale" \in Env \/ Orderly(m)
  /\ "txonly" \in Env \/ Settled(m)
  /\ \A ch \in {txChan, rxChan} : ch.given + Len(m.transfers) <= MaxCookie
  /\ msg' = m /\ cur' = 1 /\ csChange' = TRUE /\ status' = "0" /\ actual' = 0
  /\ UNCHANGED <<dma, hostVars, dmaVars, ctrlVars, wireVars>>

\* The interrupts socle_spi_setupxfer enables: the two drivers have the two
\* cases the other way round.
Enabled == IF dma = ("ftk" \notin Env) THEN {"RX", "RXC"} ELSE {"RXC"}

\* socle_spi_setupxfer, and the chip is selected; only after a cs_change.
SetupXfer ==
  /\ \/ /\ Goes("setup", "load") /\ ~csChange
        /\ UNCHANGED <<status, fifoVars, ier, cs, frame, due>>
     \/ /\ Goes("setup", "load") /\ csChange /\ msg.supported
        /\ ier' = Enabled /\ txFifo' = <<>> /\ rxFifo' = <<>> /\ cs' = TRUE
        /\ frame' = <<>> /\ due' = <<>>
        /\ UNCHANGED status
     \/ /\ Goes("setup", "done") /\ csChange /\ ~msg.supported
        /\ status' = "EINVAL"
        /\ UNCHANGED <<fifoVars, ier, cs, frame, due>>
  /\ UNCHANGED <<dma, msg, cur, csChange, actual, hostVars, dmaVars, txcr, rxcr,
                 simult, run, rxcif, answers>>

\* Register ISR.  The transmit flag says that there is room, and that words are
\* still to be written.
TxFlag  == Len(txFifo) + Trigger <= Depth /\ Len(txFifo) < txcr
RxFlag  == Len(rxFifo) >= Trigger
IrqLine == \/ "TX" \in ier /\ TxFlag
           \/ "RX" \in ier /\ RxFlag
           \/ "RXC" \in ier /\ rxcif

\* What txrx_bufs leaves of the interrupts setupxfer has enabled.
Unmasked == IF "ftk" \in Env THEN ier ELSE {}

\* socle_spi_txrx_bufs up to the setting of the counters, and with DMA of
\* TXRX_RUN.  An interrupt setupxfer has let through is taken before.
Load ==
  /\ IF dma THEN Goes("load", "tx") ELSE Goes("load", "fill")
  /\ "slow" \in Env \/ ~IrqLine
  /\ csChange' = T.cs
  /\ xferStat' = {b \in {"TX", "RX"} : IF b = "TX" THEN T.tx # <<>> ELSE T.rx > 0}
  /\ txCnt' = 0 /\ rxCnt' = 0 /\ rxBuf' = [i \in 1 .. T.rx |-> BLANK]
  /\ txFifo' = IF T.tx # <<>> /\ "ftk" \notin Env THEN <<>> ELSE txFifo
  /\ txcr' = IF T.tx # <<>> THEN Len(T.tx) ELSE txcr
  /\ rxcr' = IF T.rx > 0 THEN T.rx ELSE rxcr
  /\ simult' = (T.tx # <<>> /\ T.rx > 0)
  /\ ier' = Unmasked
  /\ run' = (dma \/ run)
  /\ due' = due \o T.tx /\ answers' = <<>>
  /\ UNCHANGED <<dma, msg, cur, status, actual, late, dmaVars, rxFifo, rxcif, cs,
                 frame>>

\* Mutant of Following: the last word is written again.
FollowingAgain(n) ==
  SubSeq(T.tx, IF txCnt = 0 THEN 1 ELSE txCnt,
         IF txCnt + n < Len(T.tx) THEN txCnt + n ELSE Len(T.tx))

\* The next words of tx_buf, at most n of them.
Following(n) ==
  SubSeq(T.tx, txCnt + 1, IF txCnt + n < Len(T.tx) THEN txCnt + n ELSE Len(T.tx))

\* Mutant of Filled: the interrupt is not enabled.
FilledSilently(spare, enabled) ==
  LET ws == Following(Depth - Len(txFifo)) IN
  /\ txFifo' = txFifo \o ws /\ txCnt' = txCnt + Len(ws)
  /\ xferStat' = IF txCnt + Len(ws) = Len(T.tx) THEN xferStat \ {"TX"} ELSE xferStat
  /\ ier' = enabled

\* As many of them as the FIFO holds are written to it.  The loop that writes
\* has seen the last one if spare more would fit; otherwise the rest is left to
\* the interrupt handler.
Filled(spare, enabled) ==
  LET ws == Following(Depth - Len(txFifo)) IN
  /\ txFifo' = txFifo \o ws /\ txCnt' = txCnt + Len(ws)
  /\ IF txCnt + Len(ws) = Len(T.tx) /\ Len(txFifo) + Len(ws) + spare <= Depth
     THEN xferStat' = xferStat \ {"TX"} /\ ier' = enabled
     ELSE UNCHANGED xferStat /\ ier' = enabled \cup {"TX"}

\* Without DMA.  The loop counts after it has written.
Fill ==
  /\ Goes("fill", "wait")
  /\ LET on == IF "ftk" \in Env THEN ier ELSE {"RX", "RXC"} IN
     IF T.tx # <<>> THEN Filled(0, on) ELSE ier' = on /\ UNCHANGED <<txFifo, txCnt, xferStat>>
  /\ run' = TRUE
  /\ UNCHANGED <<dma, msg, cur, csChange, status, actual, rxCnt, rxBuf, late,
                 dmaVars, rxFifo, txcr, rxcr, simult, rxcif, cs, wireVars>>

\* With DMA: few words to be sent are written at once.  The loop counts before
\* it writes.
TxByCpu ==
  /\ Goes("tx", "rx") /\ Len(T.tx) <= TxMost
  /\ IF T.tx # <<>> THEN Filled(1, ier) ELSE UNCHANGED <<txFifo, txCnt, xferStat, ier>>
  /\ UNCHANGED <<dma, msg, cur, csChange, status, actual, rxCnt, rxBuf, late,
                 dmaVars, rxFifo, txcr, rxcr, simult, run, rxcif, cs, wireVars>>

\* No descriptor.
Refused(step) == "fail" \in Env /\ Goes(step, "done") /\ status' = "EINVAL"

\* The channel is configured, or is not: then the transfer is submitted and
\* issued all the same before the error is returned.
Configured == status' = "0" \/ ("fail" \in Env /\ status' = "EINVAL")

\* socle_spi_dma_tx_slave_config
TxSubmit ==
  /\ Len(T.tx) > TxMost
  /\ \/ /\ Goes("tx", "txIssue") /\ Configured
        /\ Tx!Submit(<<txChan.given + 1>>)
        /\ txLeft' = Append(txLeft, T.tx)
     \/ Refused("tx") /\ UNCHANGED <<txChan, txLeft>>
  /\ UNCHANGED <<dma, msg, cur, csChange, actual, hostVars, rxChan, rxLeft,
                 ctrlVars, wireVars>>

TxIssue ==
  /\ Goes("txIssue", IF status = "0" THEN "rx" ELSE "done") /\ Tx!Issue
  /\ UNCHANGED <<dma, msg, cur, csChange, status, actual, hostVars, rxChan,
                 txLeft, rxLeft, ctrlVars, wireVars>>

\* Few words are received by the interrupt handler.
RxByCpu ==
  /\ Goes("rx", "wait") /\ T.rx <= RxMost
  /\ ier' = IF T.rx > 0 THEN ier \cup {"RX", "RXC"} ELSE ier
  /\ UNCHANGED <<dma, msg, cur, csChange, status, actual, hostVars, dmaVars,
                 fifoVars, txcr, rxcr, simult, run, rxcif, cs, wireVars>>

\* socle_spi_dma_rx_slave_config
RxSubmit ==
  /\ T.rx > RxMost
  /\ \/ /\ Goes("rx", "rxIssue") /\ Configured
        /\ Rx!Submit(<<rxChan.given + 1>>)
        /\ rxLeft' = T.rx
     \/ Refused("rx") /\ UNCHANGED <<rxChan, rxLeft>>
  /\ UNCHANGED <<dma, msg, cur, csChange, actual, hostVars, txChan, txLeft,
                 ctrlVars, wireVars>>

RxIssue ==
  /\ Goes("rxIssue", IF status = "0" THEN "wait" ELSE "done") /\ Rx!Issue
  /\ UNCHANGED <<dma, msg, cur, csChange, status, actual, hostVars, txChan,
                 txLeft, rxLeft, ctrlVars, wireVars>>

\* Mutant of Finished: it waits for the last word to be written, not read.
FinishedSent == "TX" \notin xferStat

\* The condition of wait_event_interruptible; the thread gets no signals.
Finished == xferStat = {}

Wait ==
  /\ IF Finished THEN Goes("wait", "return") ELSE Goes("wait", "asleep")
  /\ UNCHANGED <<dma, msg, cur, csChange, status, actual, hostVars, dmaVars,
                 ctrlVars, wireVars>>

\* What t->len becomes: a count of words that DMA does not count.
Counted == IF T.rx > 0 THEN rxCnt ELSE txCnt

\* Nothing waits for words still to be sent.
Return ==
  /\ actual' = actual + Counted
  /\ IF cur = Len(msg.transfers)
     THEN Goes("return", "done") /\ UNCHANGED <<cur, cs>>
     ELSE Goes("return", "setup") /\ cur' = cur + 1 /\ cs' = (cs /\ ~csChange)
  /\ UNCHANGED <<dma, msg, csChange, status, hostVars, dmaVars, fifoVars, txcr,
                 rxcr, simult, run, ier, rxcif, wireVars>>

\* spi_finalize_current_message; a cs_change at the end keeps the chip selected.
Finalize ==
  /\ Goes("done", "idle")
  /\ cs' = (cs /\ status = "0" /\ csChange)
  /\ UNCHANGED <<dma, msg, cur, csChange, status, actual, hostVars, dmaVars,
                 fifoVars, txcr, rxcr, simult, run, ier, rxcif, wireVars>>

-----------------------------------------------------------------------------
(* The interrupt handler and the callbacks                                  *)

Wakes == spiPc' = IF spiPc = "asleep" THEN "wait" ELSE spiPc

\* It acts on every flag, also those whose interrupts are not enabled.
Isr ==
  /\ IrqLine
  /\ LET read    == IF rxcif \/ RxFlag THEN rxFifo ELSE <<>>
         written == IF TxFlag THEN Following(Depth - Len(txFifo)) ELSE <<>>
         sent    == IF TxFlag /\ txCnt + Len(written) = Len(T.tx) THEN {"TX"} ELSE {}
         recvd   == IF rxcif THEN {"RX"} ELSE {}
     IN  /\ rxBuf' = [i \in DOMAIN rxBuf |->
                        IF i - rxCnt \in DOMAIN read THEN read[i - rxCnt] ELSE rxBuf[i]]
         /\ rxCnt' = rxCnt + Len(read)
         /\ rxFifo' = IF read = <<>> THEN rxFifo ELSE <<>>
         /\ txFifo' = txFifo \o written
         /\ txCnt' = txCnt + Len(written)
         /\ xferStat' = xferStat \ (sent \cup recvd)
         /\ ier' = ier \ (sent \cup (IF dma /\ rxcif THEN {"RX", "RXC"} ELSE {}))
         /\ IF sent \cup recvd # {} THEN Wakes ELSE UNCHANGED spiPc
  /\ rxcif' = FALSE
  /\ UNCHANGED <<dma, msg, cur, csChange, status, actual, late, dmaVars, txcr,
                 rxcr, simult, run, cs, wireVars>>

\* A callback, once begun, is ended before another or the thread goes on.
NoCallback == late = {} \/ "beside" \in Env

\* socle_spi_dma_tx_callback and .._rx_callback: wake up, then clear the bit.
Callback(b) ==
  /\ NoCallback
  /\ Wakes
  /\ late' = late \cup {b}
  /\ UNCHANGED <<dma, msg, cur, csChange, status, actual, xferStat, txCnt, rxCnt,
                 rxBuf, ctrlVars, wireVars>>

CallbackEnds ==
  /\ late # {}
  /\ xferStat' = xferStat \ late /\ late' = {}
  /\ UNCHANGED <<threadVars, txCnt, rxCnt, rxBuf, dmaVars, ctrlVars, wireVars>>

-----------------------------------------------------------------------------
(* The DMA engine                                                           *)

TxWord ==
  /\ txChan.active # <<>> /\ txLeft # <<>> /\ Len(txFifo) < Depth
  /\ txFifo' = Append(txFifo, Head(Head(txLeft)))
  /\ IF Len(Head(txLeft)) > 1
     THEN txLeft' = [txLeft EXCEPT ![1] = Tail(@)] /\ UNCHANGED txChan
     ELSE txLeft' = Tail(txLeft) /\ Tx!Move
  /\ UNCHANGED <<threadVars, hostVars, rxChan, rxLeft, rxFifo, txcr, rxcr, simult,
                 run, ier, rxcif, cs, wireVars>>

RxWord ==
  /\ rxChan.active # <<>> /\ rxLeft > 0 /\ rxFifo # <<>>
  /\ rxBuf' = [rxBuf EXCEPT ![Len(rxBuf) - rxLeft + 1] = Head(rxFifo)]
  /\ rxFifo' = Tail(rxFifo)
  /\ rxLeft' = rxLeft - 1
  /\ IF rxLeft = 1 THEN Rx!Move ELSE UNCHANGED rxChan
  /\ UNCHANGED <<threadVars, xferStat, txCnt, rxCnt, late, txChan, txLeft, txFifo,
                 txcr, rxcr, simult, run, ier, rxcif, cs, wireVars>>

TxComplete ==
  /\ Tx!Complete
  /\ UNCHANGED <<threadVars, hostVars, rxChan, txLeft, rxLeft, ctrlVars, wireVars>>

RxComplete ==
  /\ Rx!Complete
  /\ UNCHANGED <<threadVars, hostVars, txChan, txLeft, rxLeft, ctrlVars, wireVars>>

TxCallback == Tx!Report /\ Callback("TX") /\ UNCHANGED <<rxChan, txLeft, rxLeft>>

RxCallback == Rx!Report /\ Callback("RX") /\ UNCHANGED <<txChan, txLeft, rxLeft>>

-----------------------------------------------------------------------------
(* The controller                                                           *)

Sent == frame' = IF cs THEN Append(frame, Head(txFifo)) ELSE frame

\* The clock stops while the FIFO is full; what an overrun does is in SpiPio.
Received(w) ==
  /\ Len(rxFifo) < Depth
  /\ rxFifo' = Append(rxFifo, w) /\ rxcr' = rxcr - 1
  /\ rxcif' = (rxcif \/ rxcr = 1)
  /\ answers' = Append(answers, w)

HwExchange(w) ==
  /\ run /\ simult /\ txcr > 0 /\ rxcr > 0 /\ txFifo # <<>>
  /\ txFifo' = Tail(txFifo) /\ txcr' = txcr - 1
  /\ Sent /\ Received(w)
  /\ UNCHANGED <<threadVars, hostVars, dmaVars, simult, run, ier, cs, due>>

HwSend ==
  /\ run /\ ~simult /\ txcr > 0 /\ txFifo # <<>>
  /\ txFifo' = Tail(txFifo) /\ txcr' = txcr - 1
  /\ Sent
  /\ UNCHANGED <<threadVars, hostVars, dmaVars, rxFifo, rxcr, simult, run, ier,
                 rxcif, cs, due, answers>>

HwReceive(w) ==
  /\ run /\ ~simult /\ txcr = 0 /\ rxcr > 0
  /\ Received(w)
  /\ UNCHANGED <<threadVars, hostVars, dmaVars, txFifo, txcr, simult, run, ier, cs,
                 frame, due>>

HwStop ==
  /\ run /\ txcr = 0 /\ rxcr = 0
  /\ run' = FALSE
  /\ UNCHANGED <<threadVars, hostVars, dmaVars, fifoVars, txcr, rxcr, simult, ier,
                 rxcif, cs, wireVars>>

-----------------------------------------------------------------------------

ThreadStep ==
  \/ SetupXfer \/ Load \/ Fill \/ TxByCpu \/ TxSubmit \/ TxIssue
  \/ RxByCpu \/ RxSubmit \/ RxIssue \/ Wait \/ Return \/ Finalize

Thread == NoCallback /\ ThreadStep

TxEngine == TxWord \/ TxComplete \/ TxCallback
RxEngine == RxWord \/ RxComplete \/ RxCallback

Controller == HwSend \/ HwStop \/ \E w \in Words : HwExchange(w) \/ HwReceive(w)

Next ==
  \/ \E m \in Messages : Submit(m)
  \/ Thread \/ Isr \/ CallbackEnds \/ TxEngine \/ RxEngine \/ Controller

\* The thread runs, interrupts and callbacks are delivered, and channels and
\* controller go on while the FIFOs let them.  Nobody has to submit a message.
Fairness ==
  /\ WF_vars(Thread) /\ WF_vars(Isr) /\ WF_vars(CallbackEnds)
  /\ WF_vars(TxEngine) /\ WF_vars(RxEngine) /\ WF_vars(Controller)

Spec == Init /\ [][Next]_vars

FairSpec == Spec /\ Fairness

-----------------------------------------------------------------------------
(* Properties                                                               *)

\* Thread, interrupt handler and DMA never get in each other's way: what a
\* selected chip sees are the words of the message, in order and each once; and
\* the chip is not deselected before it has seen all of them.
WordsInOrder == IsPrefix(frame, due) /\ (~cs => frame = due)

\* socle_spi_txrx_bufs returns from a transfer that receives, which it does
\* without a look at the controller, when all words have been sent, all that
\* the chip has answered are in the buffer in their order, and neither channel
\* nor the interrupt handler is on its way to touch a buffer or call back.
CompleteOnReturn ==
  spiPc = "return" /\ T.rx > 0 =>
    /\ frame = due
    /\ Len(answers) = T.rx /\ rxBuf = answers
    /\ Tx!Idle /\ Rx!Idle /\ late = {} /\ ~IrqLine

\* Every message is finished: no wake-up comes before the bit it is about is
\* cleared, and no FIFO stays full or empty for want of somebody to move a word.
MessageEnds == spiPc = "setup" ~> spiPc = "idle"

=============================================================================
