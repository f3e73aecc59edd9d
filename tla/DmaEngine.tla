------------------------------ MODULE DmaEngine ------------------------------
(***************************************************************************)
(* A channel of a DMA engine as its clients rely on it: chains of          *)
(* transfers are submitted, issued, carried out and reported, all in the   *)
(* order of their submission, and the cookie of a transfer is complete     *)
(* once its data was moved and not before.  A cyclic channel takes its     *)
(* transfers up again after it has reported them.                          *)
(*                                                                         *)
(* The channels of socle_dma330.c implement this (EngineSpec of DMA330);   *)
(* spi-socle-test.c is built on it (SpiDma).                               *)
(***************************************************************************)
EXTENDS Naturals, Sequences, Functions

CONSTANTS
  Items,      \* what can be transferred
  MaxChain    \* most transfers submitted at once

VARIABLE
  chan    \* the channel, a record:
          \*   waiting, active   sequences of the transfers submitted, and issued;
          \*                     a transfer is an item with its cookie
          \*   moved             the active items whose data was moved
          \*   finished          transfers not reported yet; the cookie is 0 once
          \*                     it is complete
          \*   cyclic
          \*   given, done       last cookie given out, last one complete

NewChan == [waiting |-> <<>>, active |-> <<>>, moved |-> {}, finished |-> <<>>,
            cyclic |-> FALSE, given |-> 0, done |-> 0]

Idle == chan.waiting = <<>> /\ chan.active = <<>> /\ chan.finished = <<>>

Submit(chain) ==
  chan' = [chan EXCEPT
             !.waiting = @ \o [i \in DOMAIN chain |->
                                 [item |-> chain[i], cookie |-> chan.given + i]],
             !.given = @ + Len(chain)]

Issue ==
  chan' = [chan EXCEPT !.active = @ \o chan.waiting, !.waiting = <<>>]

\* The data of the first transfer that is still due is moved.
Move ==
  \E i \in DOMAIN chan.active :
    /\ chan.active[i].item \notin chan.moved
    /\ \A j \in 1 .. i - 1 : chan.active[j].item \in chan.moved
    /\ chan' = [chan EXCEPT !.moved = @ \cup {chan.active[i].item}]

\* The first active transfer is over: complete, unless it is to be cycled.
Complete ==
  LET first == Head(chan.active) IN
  /\ chan.active # <<>> /\ first.item \in chan.moved
  /\ chan' = [chan EXCEPT
                !.active = Tail(@),
                !.moved = @ \ {first.item},
                !.finished = Append(@, IF chan.cyclic THEN first ELSE [first EXCEPT !.cookie = 0]),
                !.done = IF chan.cyclic THEN @ ELSE first.cookie]

\* The client is told of the first finished transfer.
Report ==
  /\ chan.finished # <<>>
  /\ chan' = [chan EXCEPT !.finished = Tail(@),
                          !.active = IF chan.cyclic THEN Append(@, Head(chan.finished)) ELSE @]

\* Everything is dropped; how many of the cookies are complete is left open.
TerminateAll ==
  \E n \in chan.done .. chan.given :
    chan' = [chan EXCEPT !.waiting = <<>>, !.active = <<>>, !.finished = <<>>,
                         !.moved = {}, !.done = n]

\* A chain that is to be cycled was prepared.
MakeCyclic == chan' = [chan EXCEPT !.cyclic = TRUE]

\* The channel is given to a new client.
Renew == Idle /\ chan' = NewChan

Init == chan = NewChan

\* Nothing is twice in a chain.
Chains == {s \in UNION {[1 .. n -> Items] : n \in 1 .. MaxChain} : IsInjective(s)}

Next ==
  \/ \E chain \in Chains : Submit(chain)
  \/ Issue \/ Move \/ Complete \/ Report
  \/ TerminateAll \/ MakeCyclic \/ Renew

Spec == Init /\ [][Next]_chan

=============================================================================
