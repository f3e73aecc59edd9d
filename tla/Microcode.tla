------------------------------- MODULE Microcode -------------------------------
(***************************************************************************)
(* The microcode of a channel thread of socle_dma330.c: how the burst size *)
(* and length of a request are chosen, how dma330_submit_req turns the     *)
(* request into a program of DMA330 instructions in one of the two halves  *)
(* of the thread's buffer, and the controller that fetches the program     *)
(* byte by byte while the other half is being written.                     *)
(*                                                                         *)
(* DMA330Core takes for granted that a request which runs to its end has   *)
(* moved its data; here is why it has.  SEV, END and the interrupt handler *)
(* that detaches the request are one step, ExecSevEnd: DMA330Core takes    *)
(* them apart, and what may come between them.                             *)
(***************************************************************************)
EXTENDS Integers, Sequences, FiniteSets

CONSTANTS
  Calls,       \* what clients ask for: records [type, bytes, align]
  LoopMax,     \* iterations an 8 bit loop counter can count: 256
  JumpMax,     \* longest jump back an 8 bit operand can hold: 255
  HalfSize,    \* mcbufsz / 2, bytes for the program of one request: 256
  BeatMax,     \* width of the data bus in bytes
  Lines        \* MFIFO entries of a channel: data_buf_dep / num_chan

Types == {"memtomem", "devtomem", "memtodev"}

\* The bytes of a beat: what read_dmac_config makes of the bits of CRD, up to
\* the 512 bits that pcfg.data_bus_width can hold.
Widths == {1, 2, 4, 8, 16, 32, 64}

ASSUME MicrocodeAssumption ==
  /\ Calls \subseteq [type : Types, bytes : Nat \ {0}, align : Widths]
  /\ LoopMax \in Nat \ {0, 1} /\ HalfSize \in Nat
  /\ JumpMax \in Nat /\ JumpMax >= 15   \* two counters and the longest body
  /\ BeatMax \in Widths /\ Lines \in Nat

--------------------------------------------------------------------------------
\* Bursts.

Greatest(S) == CHOOSE n \in S : \A k \in S : k <= n

\* A copy uses the widest beats both addresses and the length allow; "align" is
\* the alignment of src | dst.  For a device it is the width of its register.
BeatSize(c) ==
  IF c.type = "memtomem"
  THEN Greatest({b \in Widths : b <= BeatMax /\ b <= c.align /\ c.bytes % b = 0})
  ELSE c.align

\* Mutant of BurstLen: the MFIFO is forgotten.
LongestBurst(c) ==
  LET even == {l \in 1 .. 16 : c.bytes % (l * BeatSize(c)) = 0}
  IN  IF even = {} THEN 1 ELSE Greatest(even)

\* get_burst_len: at most 16 beats, what the MFIFO holds, and a whole number of
\* bursts.  With more channels than entries of the MFIFO, Lines = 0, it is 0.
BurstLen(c) ==
  LET fits  == (BeatMax * Lines) \div BeatSize(c)
      limit == IF fits > 16 THEN 16 ELSE fits
      even  == {l \in 2 .. limit : c.bytes % (l * BeatSize(c)) = 0}
  IN  IF limit <= 1 THEN limit ELSE IF even = {} THEN 1 ELSE Greatest(even)

\* The beats of a burst as the 4 bit field of the CCR has them, less one; 0
\* beats are 16.
PrepareCCR(c) ==
  [size |-> BeatSize(c),
   len  |-> ((IF c.type = "memtomem" THEN BurstLen(c) ELSE 1) - 1) % 16]

BurstBytes(ccr) == ccr.size * (ccr.len + 1)

--------------------------------------------------------------------------------
\* Instructions.  An instruction stands in its first byte, the bytes after it
\* are its operands.

Operand == [op |-> "operand"]
Junk == [op |-> "junk"]

Emit(insn, size) == [k \in 1 .. size |-> IF k = 1 THEN insn ELSE Operand]

LD == Emit([op |-> "LD"], 1)
ST == Emit([op |-> "ST"], 1)
RMB == Emit([op |-> "RMB", size |-> 1], 1)
WMB == Emit([op |-> "WMB", size |-> 1], 1)
LDP == Emit([op |-> "LDP"], 2)
STP == Emit([op |-> "STP"], 2)
WFP == Emit([op |-> "WFP", size |-> 2], 2)
FLUSHP == Emit([op |-> "FLUSHP", size |-> 2], 2)
SEV == Emit([op |-> "SEV"], 2)
END == Emit([op |-> "END"], 1)
MOV(reg, val) == Emit([op |-> "MOV", reg |-> reg, val |-> val], 6)

\* Mutant of LP: the controller's own increment is forgotten.
LPAsIs(loop, cnt) == Emit([op |-> "LP", loop |-> loop, cnt |-> cnt % LoopMax], 2)

\* Eight bit operands: a count of LoopMax is emitted as 0 less one.
LP(loop, cnt) == Emit([op |-> "LP", loop |-> loop, cnt |-> (cnt - 1) % LoopMax], 2)
LPEND(loop, bjump) ==
  Emit([op |-> "LPEND", loop |-> loop, bjump |-> bjump % (JumpMax + 1)], 2)

\* Load and store of one burst.
Burst(type, lockupFree) ==
  CASE type = "memtomem" -> IF lockupFree THEN LD \o ST ELSE LD \o RMB \o ST \o WMB
    [] type = "devtomem" -> WFP \o LDP \o ST \o FLUSHP
    [] type = "memtodev" -> WFP \o LD \o STP \o FLUSHP

Repeated(s, n) == [i \in 1 .. n * Len(s) |-> s[((i - 1) % Len(s)) + 1]]

\* The loops that move as many of the bursts as one nest of loops can: two
\* counters, and as many copies of the body as a jump back can span.
LoopCounts(bursts) ==
  IF bursts >= LoopMax * LoopMax
  THEN [lcnt0 |-> LoopMax, lcnt1 |-> LoopMax, cyc |-> (bursts \div LoopMax) \div LoopMax]
  ELSE IF bursts > LoopMax
  THEN [lcnt0 |-> bursts \div LoopMax, lcnt1 |-> LoopMax, cyc |-> 1]
  ELSE [lcnt0 |-> 0, lcnt1 |-> bursts, cyc |-> 1]

Unrolled(n, body) ==
  LET nested == IF n.lcnt0 = 0 THEN 4 ELSE 8
      cycmax == (JumpMax - nested) \div Len(body)
  IN  IF cycmax < n.cyc THEN cycmax ELSE n.cyc

Loop(bursts, body) ==
  LET n     == LoopCounts(bursts)
      cyc   == Unrolled(n, body)
      inner == LP(1, n.lcnt1) \o Repeated(body, cyc) \o LPEND(1, cyc * Len(body))
  IN  IF n.lcnt0 = 0
      THEN [code |-> inner, bursts |-> n.lcnt1 * cyc]
      ELSE [code |-> LP(0, n.lcnt0) \o inner \o LPEND(0, Len(inner)),
            bursts |-> n.lcnt1 * cyc * n.lcnt0]

SetupLoops(bursts, body) ==
  LET loops[b \in Nat] ==
        IF b = 0 THEN << >>
        ELSE LET l == Loop(b, body) IN l.code \o loops[b - l.bursts]
  IN  loops[bursts]

Program(c, lockupFree) ==
  LET ccr == PrepareCCR(c)
  IN  MOV("CCR", ccr) \o MOV("SAR", "src") \o MOV("DAR", "dst") \o FLUSHP
        \o SetupLoops(c.bytes \div BurstBytes(ccr), Burst(c.type, lockupFree))
        \o SEV \o END

\* What -EINVAL and -ENOMEM refuse.
Aligned(c) == c.bytes % BurstBytes(PrepareCCR(c)) = 0
FitsAnyway(p) == TRUE  \* mutant of FitsHalf
FitsHalf(p) == Len(p) <= HalfSize

\* Every program there is.
Programs == [lf \in BOOLEAN |-> [c \in {d \in Calls : Aligned(d)} |-> Program(c, lf)]]

--------------------------------------------------------------------------------
Slots == {0, 1}
NONE == [type |-> "none"]
Base(s) == s * HalfSize
Half(s) == Base(s) .. Base(s) + HalfSize - 1

VARIABLES
  lockupFree,  \* revision r1p0 or later: no barriers in a copy
  mem,         \* the thread's microcode buffer, byte by byte
  req,         \* per slot, the hooked request or NONE
  lstenq,      \* slot that was hooked last
  running,     \* slot whose program the controller runs, or -1
  pc,          \* where it fetches
  ccr,         \* its channel control register
  lc,          \* its two loop counters
  loaded,      \* bytes it has read
  stored       \* bytes it has written

driverVars == <<lockupFree, mem, req, lstenq>>
hwVars == <<running, pc, ccr, lc, loaded, stored>>
vars == <<driverVars, hwVars>>

Init ==
  /\ lockupFree \in BOOLEAN
  /\ mem = [a \in 0 .. 2 * HalfSize - 1 |-> Junk]
  /\ req = [s \in Slots |-> NONE]
  /\ lstenq = 0
  /\ running = -1 /\ pc = 0
  /\ ccr = [size |-> 1, len |-> 0] /\ lc = [l \in {0, 1} |-> 0]
  /\ loaded = 0 /\ stored = 0

\* What the second, real run of _setup_req writes.
Written(s, p) ==
  [a \in DOMAIN mem |-> IF a - Base(s) + 1 \in DOMAIN p THEN p[a - Base(s) + 1] ELSE mem[a]]

FreeSlot == IF req[0] = NONE THEN 0 ELSE 1

\* dma330_submit_req, under dmac->lock.  A full queue, an unaligned length and
\* a program that is too long are refused and change nothing.
Submit(c) ==
  /\ \E s \in Slots : req[s] = NONE
  /\ Aligned(c)
  /\ LET p == Programs[lockupFree][c] IN
       /\ FitsHalf(p)
       /\ mem' = Written(FreeSlot, p)
  /\ lstenq' = FreeSlot
  /\ req' = [req EXCEPT ![FreeSlot] = c]
  /\ UNCHANGED <<lockupFree, hwVars>>

\* Mutant of SlotToRun: the request hooked last goes first.
NewestToRun == IF req[lstenq] # NONE THEN lstenq ELSE 1 - lstenq

\* _trigger, and the controller that takes up DMAGO: the request hooked earlier
\* goes first.
SlotToRun == IF req[1 - lstenq] # NONE THEN 1 - lstenq ELSE lstenq

Trigger ==
  /\ running = -1
  /\ req[SlotToRun] # NONE
  /\ running' = SlotToRun /\ pc' = Base(SlotToRun)
  /\ loaded' = 0 /\ stored' = 0
  /\ UNCHANGED <<driverVars, ccr, lc>>

--------------------------------------------------------------------------------
\* The controller.

Fetched(op) == running # -1 /\ pc \in DOMAIN mem /\ mem[pc].op = op

ExecMov ==
  /\ Fetched("MOV")
  /\ ccr' = IF mem[pc].reg = "CCR" THEN mem[pc].val ELSE ccr
  /\ pc' = pc + 6
  /\ UNCHANGED <<driverVars, running, lc, loaded, stored>>

\* A burst that the MFIFO has no room for is not begun.
ExecLoad ==
  /\ Fetched("LD") \/ Fetched("LDP")
  /\ loaded + BurstBytes(ccr) - stored <= BeatMax * Lines
  /\ loaded' = loaded + BurstBytes(ccr)
  /\ pc' = pc + IF Fetched("LDP") THEN 2 ELSE 1
  /\ UNCHANGED <<driverVars, running, ccr, lc, stored>>

ExecStore ==
  /\ Fetched("ST") \/ Fetched("STP")
  /\ stored + BurstBytes(ccr) <= loaded
  /\ stored' = stored + BurstBytes(ccr)
  /\ pc' = pc + IF Fetched("STP") THEN 2 ELSE 1
  /\ UNCHANGED <<driverVars, running, ccr, lc, loaded>>

ExecLoop ==
  /\ Fetched("LP")
  /\ lc' = [lc EXCEPT ![mem[pc].loop] = mem[pc].cnt]
  /\ pc' = pc + 2
  /\ UNCHANGED <<driverVars, running, ccr, loaded, stored>>

ExecLoopEnd ==
  /\ Fetched("LPEND")
  /\ IF lc[mem[pc].loop] = 0
     THEN pc' = pc + 2 /\ UNCHANGED lc
     ELSE pc' = pc - mem[pc].bjump /\ lc' = [lc EXCEPT ![mem[pc].loop] = @ - 1]
  /\ UNCHANGED <<driverVars, running, ccr, loaded, stored>>

\* Barriers, and requests of the peripheral, which comes round to them.
ExecWait ==
  /\ \E op \in {"RMB", "WMB", "WFP", "FLUSHP"} : Fetched(op)
  /\ pc' = pc + mem[pc].size
  /\ UNCHANGED <<driverVars, running, ccr, lc, loaded, stored>>

\* DMASEV and DMAEND of the controller, and of dma330_update that it detaches the
\* request, in one: nothing between them reads or writes the buffer.  The half
\* still holds the program, which nobody may run again: it is junk from now on.
ExecSevEnd ==
  /\ Fetched("SEV")
  /\ running' = -1
  /\ req' = [req EXCEPT ![running] = NONE]
  /\ mem' = [a \in DOMAIN mem |-> IF a \in Half(running) THEN Junk ELSE mem[a]]
  /\ UNCHANGED <<lockupFree, lstenq, pc, ccr, lc, loaded, stored>>

Exec == ExecMov \/ ExecLoad \/ ExecStore \/ ExecLoop \/ ExecLoopEnd \/ ExecWait \/ ExecSevEnd

Next == (\E c \in Calls : Submit(c)) \/ Trigger \/ Exec

\* The driver starts what is hooked, and the controller goes on.
Spec == Init /\ [][Next]_vars /\ WF_vars(Trigger) /\ WF_vars(Exec)

--------------------------------------------------------------------------------
\* The program of a hooked request lies in its half of the buffer, whole and as
\* it was generated, whatever is submitted to the other slot meanwhile.
ProgramIntact ==
  \A s \in Slots : req[s] # NONE =>
    LET p == Programs[lockupFree][req[s]] IN
      \A i \in DOMAIN p : Base(s) + i - 1 \in Half(s) /\ mem[Base(s) + i - 1] = p[i]

\* The controller is at an instruction of the program it was started with, never
\* at an operand or behind the end, whichever way the loops have jumped; and when
\* the program signals its event it has read and written exactly the bytes of
\* its request, however they were split into loops, unrolled bodies and a rest.
MovesExactly ==
  running # -1 =>
    /\ req[running] # NONE
    /\ pc - Base(running) + 1 \in DOMAIN Programs[lockupFree][req[running]]
    /\ mem[pc] # Operand
    /\ stored <= loaded /\ loaded <= req[running].bytes
    /\ Fetched("SEV") => stored = req[running].bytes

\* What the driver does not ask: that the channel has a part of the MFIFO, and
\* that it holds a beat of the width the caller of prep_slave_sg has set.
Roomy(c) == IF c.type = "memtomem" THEN Lines > 0 ELSE c.align <= BeatMax * Lines

\* The controller never waits for room or for data that nobody but the program
\* it stands in would make: where the channel has a part of the MFIFO at all,
\* get_burst_len chooses bursts that it can hold, and every load is followed by its
\* store before the next load, over all jumps.  With fewer entries than channels, or
\* with a device wider than the part, the channel may stand still, see Roomy.
NeverStuck ==
  running # -1 /\ Roomy(req[running]) =>
    /\ Fetched("LD") \/ Fetched("LDP") => loaded + BurstBytes(ccr) - stored <= BeatMax * Lines
    /\ Fetched("ST") \/ Fetched("STP") => stored + BurstBytes(ccr) <= loaded

\* A hooked request runs to its event: its loops end, its bursts fit into the
\* MFIFO, and requests hooked after it do not overtake it for ever.
ProgramEnds == \A s \in Slots : req[s] # NONE ~> running = s /\ Fetched("SEV")
================================================================================
