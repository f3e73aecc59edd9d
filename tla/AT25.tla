---------------------------------- MODULE AT25 ----------------------------------
(***************************************************************************)
(* at25.c over spi-socle.c: processes read and write an EEPROM through     *)
(* sysfs or the memory accessor.  A read is one message; a write goes page *)
(* by page, with three kinds of messages for each: WREN, WRITE, and RDSR   *)
(* until the chip is ready or EE_TIMEOUT is over.  at25->lock is held all  *)
(* the while.  Every message goes through the bus driver word by word.     *)
(*                                                                         *)
(* The chip is an external model: it programs the page when it is          *)
(* deselected after a WRITE, if WREN came before; while it does it is busy *)
(* and obeys RDSR only.  Its addresses have one byte.  The write protection *)
(* of AT25_SR_BP0 and BP1 is a hazard: the driver never sets the bits and  *)
(* never asks for them.                                                    *)
(***************************************************************************)
EXTENDS SpiPio

CONSTANTS
  Procs,     \* processes that use the chip
  Size,      \* at25->bin.size
  Page,      \* chip.page_size, not above PAGE_SIZE
  Requests,  \* offsets and counts they ask for
  Values,    \* data bytes
  Buffers,   \* what they pass to a write: sequences of data bytes
  BLANK,     \* the byte an erased chip is full of
  NONE,
  ChipEnv    \* the hazards of the chip

(***************************************************************************)
(*   slow      the chip is still busy when EE_TIMEOUT is over              *)
(*   readonly  its upper half is protected against writes, by AT25_SR_BP1  *)
(***************************************************************************)
ChipHazards == {"slow", "readonly"}

Addresses == 0 .. Size - 1

AT25_WREN  == 6
AT25_RDSR  == 5
AT25_READ  == 3
AT25_WRITE == 2
Opcodes    == {AT25_WREN, AT25_RDSR, AT25_READ, AT25_WRITE}

\* The status register, with the bit AT25_SR_nRDY alone.
READY    == 0
BUSY     == 1
Statuses == {READY, BUSY}

ASSUME AT25Assumption ==
  /\ Size \in Nat \ {0} /\ Page \in 1 .. Size /\ Size % Page = 0
  /\ Requests \subseteq Nat \X Nat /\ Buffers \subseteq Seq(Values)
  /\ Opcodes \cup Statuses \cup Addresses \cup Values \subseteq Words
  /\ BLANK \in Values /\ NONE \notin Procs
  /\ ChipEnv \subseteq ChipHazards

VARIABLES
  lock,     \* at25->lock
  op,       \* what a process is in at25_ee_read or at25_ee_write for
  at,       \* the step it is at
  retries,  \* of the RDSR loop; the loop tells 0 .. 3 apart
  result,   \* what the last holder of the lock returned
  bits,     \* bits_per_word of the device is one the bus driver supports
  mem,      \* the chip: its bytes,
  wel,      \*   the write enable latch,
  chipBusy  \*   a write cycle is under way

procVars == <<lock, op, at, retries, result>>
chipVars == <<mem, wel, chipBusy>>
vars     == <<spiVars, procVars, bits, chipVars>>

\* off, count and written move on with every page, and buf with written.
NoOp == [kind |-> "none", off |-> 0, count |-> 0, written |-> 0, data |-> <<>>]

TypeOK ==
  /\ SpiTypeOK
  /\ lock \in Procs \cup {NONE}
  /\ op \in [Procs -> [kind : {"none", "read", "write"}, off : 0 .. Size,
                       count : 0 .. Size, written : 0 .. Size, data : Seq(Values)]]
  /\ at \in [Procs -> {"idle", "lock", "read", "wren", "write", "rdsr"}]
  /\ retries \in 0 .. 4
  /\ result.n \in 0 .. Size
  /\ result.err \in {"none", "EINVAL", "ETIMEDOUT"}
  /\ result.data \in Seq(Words)
  /\ bits \in BOOLEAN
  /\ mem \in [Addresses -> Values]
  /\ wel \in BOOLEAN /\ chipBusy \in BOOLEAN

Returns(n, err, data) == [n |-> n, err |-> err, data |-> data]

NoResult == Returns(0, "none", <<>>)

\* at25_probe has found the chip ready.
Init ==
  /\ SpiInit
  /\ lock = NONE
  /\ op = [p \in Procs |-> NoOp] /\ at = [p \in Procs |-> "idle"]
  /\ retries = 0
  /\ result = NoResult
  /\ bits \in BOOLEAN
  /\ mem = [a \in Addresses |-> BLANK] /\ wel = FALSE /\ chipBusy = FALSE

-----------------------------------------------------------------------------
(* The messages                                                             *)

Message(ts) == [supported |-> bits, transfers |-> ts]
Sends(ws)   == [tx |-> ws, rx |-> 0, cs |-> FALSE]
Gets(n)     == [tx |-> <<>>, rx |-> n, cs |-> FALSE]

ReadMessage(o)  == Message(<<Sends(<<AT25_READ, o.off>>), Gets(o.count)>>)
WrenMessage     == Message(<<Sends(<<AT25_WREN>>)>>)
RdsrMessage     == Message(<<Sends(<<AT25_RDSR>>), Gets(1)>>)

\* Mutant of Segment: where in its page the offset is is forgotten.
SegmentFromPage(o) == IF Page > o.count THEN o.count ELSE Page

\* As much of a page as there is left, and as is asked for.
Segment(o) ==
  LET left == Page - (o.off % Page) IN IF left > o.count THEN o.count ELSE left

\* Mutant of Bytes: buf does not move on.
BytesAgain(o) == [i \in 1 .. Segment(o) |-> o.data[i]]

\* The segment's bytes of what was passed: buf has moved on as far as written.
Bytes(o) == [i \in 1 .. Segment(o) |-> o.data[o.written + i]]

WriteMessage(o) == Message(<<Sends(<<AT25_WRITE, o.off>> \o Bytes(o))>>)

-----------------------------------------------------------------------------
(* at25_ee_read and at25_ee_write                                           *)

\* A request that reaches beyond the chip is cut.  One that has nothing left
\* returns at once, with 0 or EFBIG.
Clipped(off, n) == IF off + n > Size THEN Size - off ELSE n

\* What is asked for is of no consequence before the lock is taken.
Call(p) ==
  /\ at[p] = "idle"
  /\ at' = [at EXCEPT ![p] = "lock"]
  /\ UNCHANGED <<spiVars, lock, op, retries, result, bits, chipVars>>

\* The lock is taken and the first message submitted.
Lock(p) ==
  /\ at[p] = "lock" /\ lock = NONE
  /\ lock' = p /\ result' = NoResult
  /\ \E r \in Requests :
       /\ r[1] < Size /\ r[2] > 0
       /\ LET o == [off |-> r[1], count |-> Clipped(r[1], r[2]), written |-> 0,
                    kind |-> "read", data |-> <<>>] IN
          \/ /\ op' = [op EXCEPT ![p] = o]
             /\ at' = [at EXCEPT ![p] = "read"]
             /\ Submit(ReadMessage(o))
          \/ \E d \in Buffers :
               /\ Len(d) = r[2]
               /\ op' = [op EXCEPT ![p] = [o EXCEPT !.kind = "write", !.data = d]]
               /\ at' = [at EXCEPT ![p] = "wren"]
               /\ Submit(WrenMessage)
  /\ UNCHANGED <<retries, bits, chipVars>>

\* spi_sync has returned to p.
Synced(p, step) == at[p] = step /\ spiPc = "idle"

\* Mutant of Unlock: the lock is kept.
UnlockNot(p, res) ==
  /\ UNCHANGED lock
  /\ result' = res
  /\ at' = [at EXCEPT ![p] = "idle"]
  /\ op' = [op EXCEPT ![p] = NoOp]

Unlock(p, res) ==
  /\ lock' = NONE
  /\ result' = res
  /\ at' = [at EXCEPT ![p] = "idle"]
  /\ op' = [op EXCEPT ![p] = NoOp]

\* A read returns its count or an error.
ReadEnd(p) ==
  /\ Synced(p, "read")
  /\ Unlock(p, IF status = "0" THEN Returns(op[p].count, "none", bufs[2])
                               ELSE Returns(0, status, <<>>))
  /\ UNCHANGED <<spiVars, retries, bits, chipVars>>

\* A write returns what it has written, or else an error.
WriteResult(o, err) ==
  Returns(o.written, IF o.written > 0 THEN "none" ELSE err, <<>>)

WrenEnd(p) ==
  /\ Synced(p, "wren")
  /\ IF status # "0"
     THEN Unlock(p, WriteResult(op[p], status)) /\ UNCHANGED spiVars
     ELSE /\ Submit(WriteMessage(op[p]))
          /\ at' = [at EXCEPT ![p] = "write"]
          /\ UNCHANGED <<lock, op, result>>
  /\ UNCHANGED <<retries, bits, chipVars>>

WriteEnd(p) ==
  /\ Synced(p, "write")
  /\ IF status # "0"
     THEN /\ Unlock(p, WriteResult(op[p], status))
          /\ UNCHANGED <<spiVars, retries>>
     ELSE /\ Submit(RdsrMessage) /\ retries' = 0
          /\ at' = [at EXCEPT ![p] = "rdsr"]
          /\ UNCHANGED <<lock, op, result>>
  /\ UNCHANGED <<bits, chipVars>>

\* Mutant of Ready: AT25_SR_nRDY is not looked at.
ReadyAnyway == status = "0"

\* spi_w8r8 fails, or gives the status register.
Ready == status = "0" /\ bufs[2] = <<READY>>

\* retries++ < 3 || time_before_eq(jiffies, timeout)
PollAgain ==
  /\ ~Ready
  /\ Submit(RdsrMessage)
  /\ retries' = (IF retries < 4 THEN retries + 1 ELSE 4)

\* Three retries are over, and EE_TIMEOUT.
PollTimeout ==
  /\ ~Ready /\ retries >= 3
  /\ ~chipBusy \/ "slow" \in ChipEnv

Advanced(o) ==
  LET s == Segment(o) IN
  [o EXCEPT !.off = @ + s, !.count = @ - s, !.written = @ + s]

\* What follows a status: another one, giving up, the next page, or the end.
RdsrEnd(p) ==
  /\ Synced(p, "rdsr")
  /\ \/ PollAgain /\ UNCHANGED <<lock, op, at, result>>
     \/ /\ PollTimeout
        /\ Unlock(p, WriteResult(op[p], "ETIMEDOUT"))
        /\ UNCHANGED <<spiVars, retries>>
     \/ /\ Ready /\ Advanced(op[p]).count # 0
        /\ op' = [op EXCEPT ![p] = Advanced(@)]
        /\ at' = [at EXCEPT ![p] = "wren"]
        /\ Submit(WrenMessage)
        /\ UNCHANGED <<lock, retries, result>>
     \/ /\ Ready /\ Advanced(op[p]).count = 0
        /\ Unlock(p, WriteResult(Advanced(op[p]), "none"))
        /\ UNCHANGED <<spiVars, retries>>
  /\ UNCHANGED <<bits, chipVars>>

-----------------------------------------------------------------------------
(* The chip                                                                 *)

\* A page is written from an address, round its end to its beginning.
Programmed(a, data) ==
  LET base == a - (a % Page)
      here(b) == {i \in DOMAIN data : base + ((a + i - 1) % Page) = b}
  IN  [b \in Addresses |->
         IF here(b) = {} THEN mem[b]
         ELSE data[CHOOSE i \in here(b) : \A j \in here(b) : j <= i]]

\* The sections a WRITE does not change.
Protected == IF "readonly" \in ChipEnv THEN Size \div 2 .. Size - 1 ELSE {}

\* What it does when it is deselected.
Deselected ==
  IF chipBusy \/ frame = <<>> THEN UNCHANGED chipVars
  ELSE \/ frame = <<AT25_WREN>> /\ wel' = TRUE /\ UNCHANGED <<mem, chipBusy>>
       \/ /\ frame[1] = AT25_WRITE /\ wel /\ Len(frame) > 2
          /\ wel' = FALSE
          /\ IF frame[2] \in Protected THEN UNCHANGED <<mem, chipBusy>>
             ELSE /\ mem' = Programmed(frame[2], SubSeq(frame, 3, Len(frame)))
                  /\ chipBusy' = TRUE
       \/ /\ frame # <<AT25_WREN>> /\ ~(frame[1] = AT25_WRITE /\ wel /\ Len(frame) > 2)
          /\ UNCHANGED chipVars

\* What it answers next.
Answer ==
  IF frame[1] = AT25_RDSR THEN IF chipBusy THEN BUSY ELSE READY
  ELSE IF frame[1] = AT25_READ /\ ~chipBusy
  THEN mem[(frame[2] + Len(answers)) % Size]
  ELSE BUSY

\* The bus driver, and what the chip does when it is deselected by it.
Bus ==
  /\ \/ SetupXfer \/ Load \/ Fill \/ Start \/ Woken \/ Return
     \/ IsrEnter \/ IsrDrain \/ IsrDrained \/ IsrFill \/ IsrExit
     \/ HwSend \/ HwStop
     \/ HwReceive(Answer)
  /\ UNCHANGED <<procVars, bits, chipVars>>

BusEnd ==
  /\ Finalize
  /\ IF cs THEN Deselected ELSE UNCHANGED chipVars
  /\ UNCHANGED <<procVars, bits>>

ChipDone ==
  /\ chipBusy /\ chipBusy' = FALSE
  /\ UNCHANGED <<spiVars, procVars, bits, mem, wel>>

-----------------------------------------------------------------------------
Step(p) == Lock(p) \/ ReadEnd(p) \/ WrenEnd(p) \/ WriteEnd(p) \/ RdsrEnd(p)

Next ==
  \/ \E p \in Procs :
       \/ Call(p) \/ Lock(p) \/ ReadEnd(p) \/ WrenEnd(p) \/ WriteEnd(p)
       \/ RdsrEnd(p)
  \/ Bus \/ BusEnd \/ ChipDone

Spec == Init /\ [][Next]_vars

\* Processes in a call go on, the mutex is given out fairly, the bus driver
\* and the controller work, and a write cycle ends.  Nobody has to call.
Fairness ==
  /\ \A p \in Procs : SF_vars(Step(p))
  /\ WF_vars(Bus \/ BusEnd) /\ WF_vars(ChipDone)

FairSpec == Spec /\ Fairness

-----------------------------------------------------------------------------
(* What the driver promises                                                 *)

\* The byte a write is asked to store at an address: the first byte passed is for
\* the offset the call began with.
Asked(o, a) == o.data[a - (o.off - o.written) + 1]

\* What a write says it has written is in the chip, every byte at its address: at
\* every page the write goes on to, and when it returns.  For a chip that is not write
\* protected: at25_ee_write asks whether the write cycle is over, never whether there
\* was one.
WrittenIsStored ==
  [][ \A p \in Procs :
        op[p].kind = "write" /\ op'[p] # op[p] =>
          LET n == IF at'[p] = "idle" THEN result'.n ELSE op'[p].written
              first == op[p].off - op[p].written
          IN  \A a \in first .. first + n - 1 : mem[a] = Asked(op[p], a) ]_vars

\* A read returns what the chip holds.
ReadIsStored ==
  [][ \A p \in Procs :
        at[p] = "read" /\ at'[p] = "idle" /\ result'.err = "none" =>
          result'.data = [i \in 1 .. op[p].count |-> mem[op[p].off + i - 1]]
    ]_vars

\* A byte of the chip changes only while a write is under way that covers it, and
\* to the byte that write was passed for it.
OnlyRequested ==
  [][ \A a \in Addresses : mem'[a] # mem[a] =>
        /\ lock # NONE /\ op[lock].kind = "write"
        /\ a \in op[lock].off .. op[lock].off + op[lock].count - 1
        /\ mem'[a] = Asked(op[lock], a) ]_vars

\* Every call returns.
CallsEnd == \A p \in Procs : at[p] = "lock" ~> at[p] = "idle"
=============================================================================
