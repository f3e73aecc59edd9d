-------------------------------- MODULE MCSpiDma --------------------------------
(* An instance of SpiDma for TLC.                                           *)
EXTENDS SpiDma

TxOnly(ws, c) == [tx |-> ws, rx |-> 0, cs |-> c]
RxOnly(n, c)  == [tx |-> <<>>, rx |-> n, cs |-> c]
Both(ws, c)   == [tx |-> ws, rx |-> Len(ws), cs |-> c]

Message(ok, ts) == [supported |-> ok, transfers |-> ts]

\* With TxMost = 2 and RxMost = 1: a command written by the thread and an answer
\* read by DMA; an exchange both by DMA, longer than the FIFO, and one without;
\* an exchange written by the thread and read by DMA, the chip kept selected,
\* then one by DMA; words sent by DMA, then one read by the handler, and the same
\* twice; nothing at all; a message for a device with unsupported settings; and
\* two that are submitted only where "stale" and "txonly" are admitted.
MCMessages ==
  { Message(TRUE, <<TxOnly(<<1>>, FALSE), RxOnly(4, FALSE)>>),
    Message(TRUE, <<Both(<<1, 2, 2, 1>>, TRUE), Both(<<2>>, FALSE)>>),
    Message(TRUE, <<Both(<<1, 2>>, FALSE), Both(<<2, 1, 1>>, TRUE)>>),
    Message(TRUE, <<TxOnly(<<2, 1, 1, 2, 1>>, FALSE), RxOnly(1, FALSE)>>),
    Message(TRUE, <<TxOnly(<<1, 2, 1>>, FALSE), RxOnly(2, TRUE),
                    TxOnly(<<2>>, FALSE), RxOnly(1, FALSE)>>),
    Message(TRUE, <<TxOnly(<<1, 2, 1>>, TRUE), TxOnly(<<2>>, FALSE)>>),
    Message(TRUE, <<RxOnly(3, FALSE), RxOnly(1, FALSE)>>),
    Message(TRUE, <<RxOnly(0, FALSE)>>),
    Message(FALSE, <<RxOnly(1, FALSE)>>) }
=============================================================================
