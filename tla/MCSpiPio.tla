------------------------------- MODULE MCSpiPio -------------------------------
(* An instance of SpiPio for TLC.                                           *)
EXTENDS SpiPio

Tx(ws, c)   == [tx |-> ws, rx |-> 0, cs |-> c]
Rx(n, c)    == [tx |-> <<>>, rx |-> n, cs |-> c]
Both(ws, c) == [tx |-> ws, rx |-> Len(ws), cs |-> c]

Message(ok, ts) == [supported |-> ok, transfers |-> ts]

\* A command and its answer; a transfer that only receives, twice, and one
\* that sends after it, the chip selected anew in between or left selected;
\* one that sends and receives more than a FIFO holds; nothing at all; and a
\* message for a device with unsupported settings.
MCMessages ==
  { Message(TRUE, <<Tx(<<1, 2>>, FALSE), Rx(4, FALSE)>>),
    Message(TRUE, <<Rx(1, TRUE), Rx(2, FALSE), Tx(<<2, 1, 2, 1, 1>>, TRUE)>>),
    Message(TRUE, <<Both(<<1, 2, 2, 1>>, FALSE), Tx(<<1>>, FALSE)>>),
    Message(TRUE, <<Rx(0, FALSE)>>),
    Message(FALSE, <<Tx(<<1>>, FALSE)>>) }
=============================================================================
