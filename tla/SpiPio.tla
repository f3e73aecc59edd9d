--------------------------------- MODULE SpiPio ---------------------------------
(***************************************************************************)
(* spi-socle.c: a thread of the SPI core carries out one message at a      *)
(* time, transfer by transfer.  It fills the transmit FIFO, starts the     *)
(* controller and sleeps until xfer_stat is zero; the interrupt handler    *)
(* fills and drains the FIFOs and clears the bits of xfer_stat.            *)
(*                                                                         *)
(* The controller is the one of src/doc/F2/ip-spi/BOOT_SPI_1.pdf: it sends *)
(* TXCR words, then receives RXCR words, and stops its clock while the     *)
(* transmit FIFO is empty or the receive FIFO full (CLK_IDLE_AST).         *)
(* SIMULTANEOUSLY_TRANSFER_ENABLE is not defined.  The interrupt handler   *)
(* is interleaved word by word with the controller and with the thread.    *)
(***************************************************************************)
EXTENDS Integers, Sequences, SequencesExt

CONSTANTS
  Words,     \* what a word on the wire may be
  Messages,  \* the messages that drivers of SPI devices submit
  Depth,     \* of either FIFO
  Trigger,   \* SOCLE_SPI_RXFIFO_INT_TRIGGER_LEVEL_2, .._TXFIFO_..
  DUMMY,     \* the word written for a transfer that only receives
  WILD,      \* a word that lies behind the end of a tx_buf
  Env        \* the hazards, among those below, that the environment exhibits

(***************************************************************************)
(*   flag     the transmit interrupt flag is set by the trigger level      *)
(*            alone, although no word is left to be sent                   *)
(*   overrun  the clock does not stop when the receive FIFO is full        *)
(***************************************************************************)
Hazards == {"flag", "overrun"}

\* struct spi_transfer: its tx_buf (<<>> when there is none), the words it
\* receives (0 when there is no rx_buf), and cs_change.
Transfers ==
  {t \in [tx : Seq(Words), rx : Nat, cs : BOOLEAN] :
     t.tx = <<>> \/ t.rx \in {0, Len(t.tx)}}

\* struct spi_message; "supported" says that bits_per_word and chip_select
\* of its device are.
IsMessage(m) ==
  m \in [supported : BOOLEAN, transfers : Seq(Transfers)] /\ m.transfers # <<>>

ASSUME SpiAssumption ==
  /\ \A m \in Messages : IsMessage(m)
  /\ Trigger \in Nat \ {0} /\ Depth \in Nat /\ Depth >= Trigger
  /\ {DUMMY, WILD} \cap Words = {} /\ DUMMY # WILD
  /\ Env \subseteq Hazards

VARIABLES
  \* the thread and its message
  msg,        \* the message it works on, or last worked on
  cur,        \* the transfer it is at
  spiPc,
  csChange,
  status,     \* of the message
  actual,     \* actual_length
  \* struct socle_spi
  xferStat,   \* a set of "TX" and "RX", for TX_XFER_RUN and RX_XFER_RUN
  txCnt,      \* tx_xfer_cnt
  bufs,       \* the rx_buf of every transfer; rx_xfer_cnt is a length
  \* the interrupt handler
  isr,        \* where it is, and the flags it has read
  \* the controller
  txFifo, rxFifo,
  txcr, rxcr, \* words to be sent and received
  run,        \* SOCLE_SPI_TXRX_RUN
  ier,        \* a set of "TX" and "RX" (TXFIFO; RXFIFO and RX_COMPLETE)
  rxcif, ovr, \* the flags receive complete and overrun
  cs,         \* chip select
  \* history
  frame,      \* words sent since the chip was selected
  due,        \* words of the transfers since then, up to the current one
  answers     \* words the device has answered in this transfer

threadVars == <<msg, cur, spiPc, csChange, status, actual>>
hostVars   == <<xferStat, txCnt, bufs>>
ctrlVars   == <<txFifo, rxFifo, txcr, rxcr, run, ier, rxcif, ovr, cs>>
wireVars   == <<frame, due, answers>>
spiVars    == <<threadVars, hostVars, isr, ctrlVars, wireVars>>

Xfers == msg.transfers
T     == Xfers[cur]
XLen(t) == IF t.tx # <<>> THEN Len(t.tx) ELSE t.rx

NoIsr == [at |-> "idle", done |-> FALSE, tx |-> FALSE]

AnyWord == Words \cup {DUMMY, WILD}

SpiTypeOK ==
  /\ cur \in DOMAIN Xfers
  /\ spiPc \in {"idle", "setup", "load", "fill", "start", "wait", "poll", "done"}
  /\ csChange \in BOOLEAN
  /\ status \in {"0", "EINVAL"}
  /\ actual \in Nat
  /\ xferStat \subseteq {"TX", "RX"}
  /\ txCnt \in Nat
  /\ bufs \in Seq(Seq(Words)) /\ Len(bufs) = Len(Xfers)
  /\ isr \in [at : {"idle", "drain", "tx"}, done : BOOLEAN, tx : BOOLEAN]
  /\ txFifo \in Seq(AnyWord) /\ Len(txFifo) <= Depth
  /\ rxFifo \in Seq(Words) /\ Len(rxFifo) <= Depth
  /\ txcr \in Nat /\ rxcr \in Nat
  /\ run \in BOOLEAN
  /\ ier \subseteq {"TX", "RX"}
  /\ rxcif \in BOOLEAN /\ ovr \in BOOLEAN /\ cs \in BOOLEAN
  /\ frame \in Seq(AnyWord) /\ due \in Seq(Words) /\ answers \in Seq(Words)

\* After socle_spi_probe and socle_spi_setup; no message has been submitted.
NoMessage ==
  [supported |-> TRUE, transfers |-> <<[tx |-> <<>>, rx |-> 0, cs |-> FALSE]>>]

SpiInit ==
  /\ msg = NoMessage /\ cur = 1 /\ spiPc = "idle"
  /\ csChange = TRUE /\ status = "0" /\ actual = 0
  /\ xferStat = {} /\ txCnt = 0 /\ bufs = <<<<>>>>
  /\ isr = NoIsr
  /\ txFifo = <<>> /\ rxFifo = <<>> /\ txcr = 0 /\ rxcr = 0
  /\ run = FALSE /\ ier = {} /\ rxcif = FALSE /\ ovr = FALSE /\ cs = FALSE
  /\ frame = <<>> /\ due = <<>> /\ answers = <<>>

-----------------------------------------------------------------------------
(* The thread                                                               *)

\* The SPI core hands the next message to the driver.
Submit(m) ==
  /\ spiPc = "idle"
  /\ msg' = m /\ cur' = 1 /\ spiPc' = "setup" /\ csChange' = TRUE
  /\ status' = "0" /\ actual' = 0
  /\ bufs' = [i \in DOMAIN m.transfers |-> <<>>]
  /\ UNCHANGED <<xferStat, txCnt, isr, ctrlVars, wireVars>>

\* socle_spi_setupxfer, and the chip is selected; only after a cs_change.
SetupXfer ==
  /\ spiPc = "setup"
  /\ IF ~csChange
     THEN /\ spiPc' = "load" /\ UNCHANGED <<status, ctrlVars, frame>>
     ELSE IF msg.supported
     THEN /\ spiPc' = "load" /\ ier' = {"RX"}
          /\ txFifo' = <<>> /\ rxFifo' = <<>> /\ ovr' = FALSE
          /\ cs' = TRUE /\ frame' = <<>>
          /\ UNCHANGED <<status, txcr, rxcr, run, rxcif>>
     ELSE /\ spiPc' = "done" /\ status' = "EINVAL"
          /\ UNCHANGED <<ctrlVars, frame>>
  /\ UNCHANGED <<msg, cur, csChange, actual, hostVars, isr, due, answers>>

\* Mutant of Loaded: the transmit FIFO is not cleared.
LoadedDirty ==
  IF T.tx = <<>> /\ T.rx > 0 /\ Len(txFifo) < Depth THEN Append(txFifo, DUMMY)
                                                    ELSE txFifo

\* The FIFO a transfer finds: cleared when it sends, else with a word more.
Loaded ==
  IF T.tx # <<>> THEN <<>>
  ELSE IF T.rx > 0 /\ Len(txFifo) < Depth THEN Append(txFifo, DUMMY)
  ELSE txFifo

\* The message says that the chip is selected anew for this transfer.
FirstOfFrame == cur = 1 \/ Xfers[cur - 1].cs

\* socle_spi_txrx_bufs up to the setting of the counters.
Load ==
  /\ spiPc = "load" /\ spiPc' = "fill"
  /\ csChange' = T.cs
  /\ txCnt' = 0
  /\ xferStat' = (IF T.tx # <<>> THEN {"TX"} ELSE {})
                   \cup (IF T.rx > 0 THEN {"RX"} ELSE {})
  /\ txFifo' = Loaded
  /\ txcr' = (IF T.tx # <<>> THEN Len(T.tx) ELSE txcr)
  /\ rxcr' = (IF T.rx > 0 THEN T.rx ELSE rxcr)
  /\ answers' = <<>>
  /\ due' = (IF FirstOfFrame THEN <<>> ELSE due) \o T.tx
  /\ UNCHANGED <<msg, cur, status, actual, bufs, isr, rxFifo, run, ier, rxcif,
                 ovr, cs, frame>>

\* The words that go into the FIFO before the transfer starts.
FirstWords ==
  LET room == Depth - Len(txFifo)
  IN  SubSeq(T.tx, 1, IF Len(T.tx) < room THEN Len(T.tx) ELSE room)

\* Mutant of MoreToSend: the interrupt is not enabled.
MoreToSendSilent == ier

\* The rest is left to the interrupt handler.
MoreToSend == ier \cup {"TX"}

Fill ==
  /\ spiPc = "fill" /\ spiPc' = "start"
  /\ IF "TX" \in xferStat
     THEN /\ txFifo' = txFifo \o FirstWords /\ txCnt' = Len(FirstWords)
          /\ IF Len(FirstWords) = Len(T.tx)
             THEN xferStat' = xferStat \ {"TX"} /\ UNCHANGED ier
             ELSE ier' = MoreToSend /\ UNCHANGED xferStat
     ELSE UNCHANGED <<txFifo, txCnt, xferStat, ier>>
  /\ UNCHANGED <<msg, cur, csChange, status, actual, bufs, isr, rxFifo, txcr,
                 rxcr, run, rxcif, ovr, cs, wireVars>>

Start ==
  /\ spiPc = "start"
  /\ run' = TRUE
  /\ spiPc' = (IF xferStat # {} THEN "wait" ELSE "poll")
  /\ UNCHANGED <<msg, cur, csChange, status, actual, hostVars, isr, txFifo,
                 rxFifo, txcr, rxcr, ier, rxcif, ovr, cs, wireVars>>

\* Mutant of Woken: it waits for the last word to be sent, not received.
WokenSent ==
  /\ spiPc = "wait" /\ "TX" \notin xferStat
  /\ spiPc' = "poll"
  /\ UNCHANGED <<msg, cur, csChange, status, actual, hostVars, isr, ctrlVars,
                 wireVars>>

\* wait_event_interruptible; a thread of the SPI core gets no signals.
Woken ==
  /\ spiPc = "wait" /\ xferStat = {}
  /\ spiPc' = "poll"
  /\ UNCHANGED <<msg, cur, csChange, status, actual, hostVars, isr, ctrlVars,
                 wireVars>>

\* What t->len becomes.
Count == IF T.rx > 0 THEN Len(bufs[cur]) ELSE txCnt

\* The controller has stopped: the transfer returns its count, which is never
\* negative, and the message goes on.
Return ==
  /\ spiPc = "poll" /\ ~run
  /\ actual' = actual + Count
  /\ IF cur = Len(Xfers)
     THEN spiPc' = "done" /\ UNCHANGED <<cur, cs>>
     ELSE /\ spiPc' = "setup" /\ cur' = cur + 1
          /\ cs' = (cs /\ ~csChange)
  /\ UNCHANGED <<msg, csChange, status, hostVars, isr, txFifo, rxFifo, txcr,
                 rxcr, run, ier, rxcif, ovr, wireVars>>

\* spi_finalize_current_message; a cs_change at the end keeps the chip selected.
Finalize ==
  /\ spiPc = "done" /\ spiPc' = "idle"
  /\ cs' = (cs /\ status = "0" /\ csChange)
  /\ UNCHANGED <<msg, cur, csChange, status, actual, hostVars, isr, txFifo,
                 rxFifo, txcr, rxcr, run, ier, rxcif, ovr, wireVars>>

-----------------------------------------------------------------------------
(* The interrupt handler                                                    *)

\* Register ISR.  The transmit flag says that there is room and that words
\* are still to be written.
TxFlag ==
  /\ Len(txFifo) + Trigger <= Depth
  /\ "flag" \in Env \/ Len(txFifo) < txcr
RxFlag  == Len(rxFifo) >= Trigger
IrqLine == \/ "TX" \in ier /\ TxFlag
           \/ "RX" \in ier /\ (RxFlag \/ rxcif)

\* The bits an overrun clears.
Overrun == {b \in {"TX", "RX"} : IF b = "TX" THEN T.tx # <<>> ELSE T.rx > 0}

\* The flags are read, which clears receive complete.
IsrEnter ==
  /\ isr.at = "idle" /\ IrqLine
  /\ rxcif' = FALSE
  /\ IF ovr
     THEN xferStat' = xferStat \ Overrun /\ UNCHANGED isr
     ELSE /\ isr' = [at   |-> IF rxcif \/ RxFlag THEN "drain" ELSE "tx",
                     done |-> rxcif, tx |-> TxFlag]
          /\ UNCHANGED xferStat
  /\ UNCHANGED <<threadVars, txCnt, bufs, txFifo, rxFifo, txcr, rxcr, run, ier,
                 ovr, cs, wireVars>>

\* A turn of the loop that empties the receive FIFO.
IsrDrain ==
  /\ isr.at = "drain" /\ rxFifo # <<>>
  /\ bufs' = [bufs EXCEPT ![cur] = Append(@, Head(rxFifo))]
  /\ rxFifo' = Tail(rxFifo)
  /\ UNCHANGED <<threadVars, xferStat, txCnt, isr, txFifo, txcr, rxcr, run, ier,
                 rxcif, ovr, cs, wireVars>>

\* Mutant of Received: every time the FIFO is empty.
ReceivedAnyway == xferStat \ {"RX"}

Received == IF isr.done THEN xferStat \ {"RX"} ELSE xferStat

\* The receive FIFO is empty; after the last word the transfer is received.
IsrDrained ==
  /\ isr.at = "drain" /\ rxFifo = <<>>
  /\ xferStat' = Received
  /\ isr' = [isr EXCEPT !.at = "tx"]
  /\ UNCHANGED <<threadVars, txCnt, bufs, ctrlVars, wireVars>>

\* set_tx: the next word of tx_buf, whether there is one or not.
NextWord == IF txCnt < Len(T.tx) THEN T.tx[txCnt + 1] ELSE WILD

\* A turn of the loop that fills the transmit FIFO.
IsrFill ==
  /\ isr.at = "tx" /\ isr.tx /\ Len(txFifo) < Depth
  /\ txFifo' = Append(txFifo, NextWord) /\ txCnt' = txCnt + 1
  /\ IF txCnt + 1 = XLen(T)
     THEN ier' = ier \ {"TX"} /\ xferStat' = xferStat \ {"TX"} /\ isr' = NoIsr
     ELSE UNCHANGED <<ier, xferStat, isr>>
  /\ UNCHANGED <<threadVars, bufs, rxFifo, txcr, rxcr, run, rxcif, ovr, cs,
                 wireVars>>

IsrExit ==
  /\ isr.at = "tx" /\ (isr.tx => Len(txFifo) = Depth)
  /\ isr' = NoIsr
  /\ UNCHANGED <<threadVars, hostVars, ctrlVars, wireVars>>

-----------------------------------------------------------------------------
(* The controller                                                           *)

HwSend ==
  /\ run /\ txcr > 0 /\ txFifo # <<>>
  /\ txFifo' = Tail(txFifo) /\ txcr' = txcr - 1
  /\ frame' = Append(frame, Head(txFifo))
  /\ UNCHANGED <<threadVars, hostVars, isr, rxFifo, rxcr, run, ier, rxcif, ovr,
                 cs, due, answers>>

\* The device answers w.
HwReceive(w) ==
  /\ run /\ txcr = 0 /\ rxcr > 0
  /\ Len(rxFifo) < Depth \/ "overrun" \in Env
  /\ rxFifo' = (IF Len(rxFifo) < Depth THEN Append(rxFifo, w) ELSE rxFifo)
  /\ ovr' = (ovr \/ Len(rxFifo) = Depth)
  /\ rxcr' = rxcr - 1
  /\ rxcif' = (rxcif \/ rxcr = 1)
  /\ answers' = Append(answers, w)
  /\ UNCHANGED <<threadVars, hostVars, isr, txFifo, txcr, run, ier, cs, frame, due>>

HwStop ==
  /\ run /\ txcr = 0 /\ rxcr = 0
  /\ run' = FALSE
  /\ UNCHANGED <<threadVars, hostVars, isr, txFifo, rxFifo, txcr, rxcr, ier,
                 rxcif, ovr, cs, wireVars>>

-----------------------------------------------------------------------------
Thread == SetupXfer \/ Load \/ Fill \/ Start \/ Woken \/ Return \/ Finalize
Isr    == IsrEnter \/ IsrDrain \/ IsrDrained \/ IsrFill \/ IsrExit

SpiNext ==
  \/ \E m \in Messages : Submit(m)
  \/ SetupXfer \/ Load \/ Fill \/ Start \/ Woken \/ Return \/ Finalize
  \/ IsrEnter \/ IsrDrain \/ IsrDrained \/ IsrFill \/ IsrExit
  \/ HwSend \/ HwStop
  \/ \E w \in Words : HwReceive(w)

\* The SPI core's thread runs, interrupts are delivered, and the controller
\* goes on while its FIFOs let it.  Nobody has to submit a message.
SpiFairness ==
  /\ WF_spiVars(Thread) /\ WF_spiVars(Isr)
  /\ WF_spiVars(HwSend \/ HwStop \/ \E w \in Words : HwReceive(w))

SpiSpec     == SpiInit /\ [][SpiNext]_spiVars
SpiFairSpec == SpiSpec /\ SpiFairness

-----------------------------------------------------------------------------
(* What the driver promises                                                 *)

InTransfer == spiPc \in {"fill", "start", "wait", "poll"}

\* What a selected chip sees are the words of the message, in order and none
\* besides: no word of an earlier transfer, no dummy, none behind a buffer.
SentInOrder == InTransfer => IsPrefix(frame, due)

\* A word the chip answers reaches the buffer of its own transfer, once and in
\* order; what is not there yet is in the receive FIFO.
ReceivedInOrder == InTransfer => bufs[cur] \o rxFifo = answers

\* socle_spi_txrx_bufs returns when all words have been sent and all are in
\* the buffer, and the handler is not on its way to touch either.
CompleteOnReturn ==
  spiPc = "poll" /\ ~run =>
    /\ frame = due
    /\ Len(bufs[cur]) = T.rx
    /\ txCnt = Len(T.tx)
    /\ isr.at # "drain" /\ ~isr.tx

\* Every message is finished.
MessageEnds == spiPc = "setup" ~> spiPc = "idle"
=============================================================================
