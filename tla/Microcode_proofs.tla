---------------------------- MODULE Microcode_proofs ----------------------------
(***************************************************************************)
(* For buffers, counters and jumps of any size, and any requests: a nest   *)
(* of loops moves some of the bursts and never too many, with operands     *)
(* that fit; no program is overwritten while its request is hooked; a      *)
(* program that runs to its event has moved the bytes of its request,      *)
(* each of them once; and on the way there it is never stuck for want of   *)
(* room or of data.                                                        *)
(*                                                                         *)
(* The loops of a program are generated by recursion on the bursts that    *)
(* are left.  What they are is proved by the smallest counterexample:      *)
(* a set of naturals that is not empty has a least element, LeastNat.      *)
(***************************************************************************)
EXTENDS Microcode, WellFoundedInduction, TLAPS

--------------------------------------------------------------------------------
\* What division leaves.
LEMMA DivFact ==
  ASSUME NEW a \in Nat, NEW n \in Nat \ {0}
  PROVE  a \div n \in Nat /\ n * (a \div n) <= a
PROOF OBVIOUS

\* A quotient is at least 1 where the divisor is no larger.
LEMMA DivPositive ==
  ASSUME NEW a \in Nat, NEW n \in Nat \ {0}, a >= n
  PROVE  a \div n >= 1
PROOF OBVIOUS

\* The quotient of less than a square is below its root.
LEMMA DivBelow ==
  ASSUME NEW a \in Nat, NEW n \in Nat \ {0}, a < n * n
  PROVE  a \div n < n
PROOF OBVIOUS

\* Larger factors, larger product.
LEMMA ProductGrows ==
  ASSUME NEW a \in Nat, NEW b \in Nat, NEW n \in Nat, a <= b
  PROVE  n * a <= n * b /\ n * a \in Nat
PROOF OBVIOUS

\* A set of naturals that is not empty has a least element: what is proved of
\* all smaller bursts holds of these, or there is a smallest counterexample.
LEMMA LeastNat ==
  ASSUME NEW S, S \subseteq Nat, S # {}
  PROVE  \E m \in S : \A k \in S : m <= k
PROOF
<1> DEFINE Q == {ss \in Nat \X Nat : ss[1] < ss[2]}
<1>1. IsWellFoundedOn(Q, Nat)
  BY NatLessThanWellFounded DEF OpToRel
<1>2. PICK m \in S : \A k \in S : ~(<<k, m>> \in Q)
  <2> HIDE DEF Q
  <2> QED BY <1>1, WFMin
<1>3. \A k \in S : m <= k
  <2> SUFFICES ASSUME NEW k \in S, ~(m <= k) PROVE FALSE
    OBVIOUS
  <2> DEFINE p == <<k, m>>
  <2>1. p \in Nat \X Nat /\ p[1] = k /\ p[2] = m
    OBVIOUS
  <2>2. k < m
    OBVIOUS
  <2>3. p[1] < p[2]
    BY <2>1, <2>2
  <2> HIDE DEF p
  <2>4. p \in Q
    BY <2>1, <2>3
  <2> QED
    BY <2>4, <1>2 DEF p
<1> QED
  BY <1>3
--------------------------------------------------------------------------------
\* The counters of a nest, and what is left of the bursts for each of them.
LEMMA CountsSound ==
  ASSUME NEW b \in Nat \ {0}
  PROVE  LET n == LoopCounts(b) IN
           /\ n.lcnt1 \in 1 .. LoopMax /\ n.lcnt0 \in 0 .. LoopMax
           /\ n.cyc \in Nat \ {0}
           /\ n.lcnt0 = 0 => n.cyc = 1 /\ n.lcnt1 = b
           /\ n.lcnt0 # 0 => n.lcnt1 * (n.lcnt0 * n.cyc) <= b
PROOF
<1> DEFINE L == LoopMax
           n == LoopCounts(b)
<1>0. L \in Nat \ {0} /\ L > 1
  BY MicrocodeAssumption
<1>1. CASE b >= L * L
  <2>1. n = [lcnt0 |-> L, lcnt1 |-> L, cyc |-> (b \div L) \div L]
    BY <1>1 DEF LoopCounts
  <2>2. b \div L \in Nat /\ L * (b \div L) <= b
    BY <1>0, DivFact
  <2>3. b \div L >= L
    <3>1. SUFFICES ASSUME b \div L < L PROVE FALSE
      BY <2>2, <1>0
    <3>2. b < L * ((b \div L) + 1)
      BY <1>0
    <3>3. (b \div L) + 1 \in Nat /\ (b \div L) + 1 <= L
      BY <2>2, <3>1, <1>0
    <3>4. L * ((b \div L) + 1) <= L * L
      BY <3>3, <1>0, ProductGrows
    <3> QED
      BY <3>2, <3>4, <2>2, <1>1, <1>0
  <2>4. (b \div L) \div L \in Nat /\ L * ((b \div L) \div L) <= b \div L
    BY <2>2, <1>0, DivFact
  <2>5. (b \div L) \div L >= 1
    BY <2>2, <2>3, <1>0, DivPositive
  <2>6. L * (L * ((b \div L) \div L)) <= L * (b \div L)
    BY <2>4, <2>2, <1>0, ProductGrows
  <2>7. L * (L * ((b \div L) \div L)) <= b
    BY <2>6, <2>2, <2>4, <1>0
  <2> QED
    BY <2>1, <2>4, <2>5, <2>7, <1>0
<1>2. CASE b < L * L /\ b > L
  <2>1. n = [lcnt0 |-> b \div L, lcnt1 |-> L, cyc |-> 1]
    BY <1>2, <1>0 DEF LoopCounts
  <2>2. b \div L \in Nat /\ L * (b \div L) <= b
    BY <1>0, DivFact
  <2>3. b \div L < L
    BY <1>2, <1>0, DivBelow
  <2>4. b \div L >= 1
    BY <1>2, <1>0, DivPositive
  <2> DEFINE q == b \div L
  <2>5. n = [lcnt0 |-> q, lcnt1 |-> L, cyc |-> 1]
    BY <2>1
  <2>6. q \in 1 .. L /\ L * q <= b /\ q * 1 = q
    BY <2>2, <2>3, <2>4, <1>0
  <2> HIDE DEF q
  <2> QED
    BY <2>5, <2>6, <1>0
<1>3. CASE b < L * L /\ b <= L
  <2>1. n = [lcnt0 |-> 0, lcnt1 |-> b, cyc |-> 1]
    BY <1>3, <1>0 DEF LoopCounts
  <2> QED
    BY <2>1, <1>3, <1>0
<1> QED
  BY <1>0, <1>1, <1>2, <1>3

\* The body is unrolled at least once, at most as often as is needed, and with
\* it the loops around it stay within reach of a jump.
LEMMA UnrolledSound ==
  ASSUME NEW n \in [lcnt0 : Nat, lcnt1 : Nat, cyc : Nat \ {0}],
         NEW body, NEW size \in 1 .. 7, Len(body) = size
  PROVE  /\ Unrolled(n, body) \in 1 .. n.cyc
         /\ Len(body) * Unrolled(n, body) + (IF n.lcnt0 = 0 THEN 4 ELSE 8) <= JumpMax
PROOF
<1>a. Len(body) \in Nat \ {0} /\ Len(body) <= 7
  OBVIOUS
<1> DEFINE nested == IF n.lcnt0 = 0 THEN 4 ELSE 8
           room == JumpMax - nested
           cycmax == room \div Len(body)
<1>0. nested \in {4, 8}
  OBVIOUS
<1>1. room \in Nat /\ room >= 7 /\ Len(body) \in Nat \ {0} /\ room >= Len(body)
  <2>1. JumpMax \in Nat /\ JumpMax >= 15
    BY MicrocodeAssumption
  <2>2. room \in Nat /\ room >= 7
    <3> HIDE DEF nested
    <3> QED BY <1>0, <2>1
  <2> HIDE DEF room
  <2> QED BY <2>2, <1>a
<1>2. cycmax \in Nat /\ Len(body) * cycmax <= room
  <2> HIDE DEF room
  <2> QED BY <1>1, DivFact
<1>3. cycmax >= 1
  <2> HIDE DEF room
  <2> QED BY <1>1, DivPositive
<1>4. Unrolled(n, body) = IF cycmax < n.cyc THEN cycmax ELSE n.cyc
  BY DEF Unrolled
<1>5. Unrolled(n, body) \in 1 .. n.cyc /\ Unrolled(n, body) <= cycmax
  <2> HIDE DEF cycmax
  <2> QED BY <1>2, <1>3, <1>4
<1>6. Len(body) * Unrolled(n, body) <= Len(body) * cycmax
  <2> HIDE DEF cycmax
  <2> QED BY <1>1, <1>2, <1>5, ProductGrows
<1>7. Len(body) * Unrolled(n, body) <= room
  <2>1. Len(body) * Unrolled(n, body) \in Nat /\ Len(body) * cycmax \in Nat
    <3> HIDE DEF cycmax
    <3> QED BY <1>1, <1>2, <1>5
  <2> HIDE DEF room, cycmax
  <2> QED BY <1>1, <1>2, <1>6, <2>1
<1>8. Len(body) * Unrolled(n, body) \in Nat
  BY <1>1, <1>5
<1> QED
  BY <1>5, <1>7, <1>8, MicrocodeAssumption

\* A nest of loops around a body that short.
LEMMA NestSound ==
  ASSUME NEW b \in Nat \ {0}, NEW body, NEW size \in 1 .. 7, Len(body) = size
  PROVE  LET n == LoopCounts(b)  cyc == Unrolled(n, body) IN
           /\ Loop(b, body).bursts \in 1 .. b
           /\ n.lcnt1 \in 1 .. LoopMax /\ n.lcnt0 \in 0 .. LoopMax
           /\ cyc * Len(body) <= JumpMax
           /\ n.lcnt0 # 0 => cyc * Len(body) + 4 <= JumpMax
PROOF
<1> DEFINE n == LoopCounts(b)
           cyc == Unrolled(n, body)
<1> SUFFICES /\ Loop(b, body).bursts \in 1 .. b
             /\ n.lcnt1 \in 1 .. LoopMax /\ n.lcnt0 \in 0 .. LoopMax
             /\ cyc * Len(body) <= JumpMax
             /\ n.lcnt0 # 0 => cyc * Len(body) + 4 <= JumpMax
  OBVIOUS
<1>1. /\ n.lcnt1 \in 1 .. LoopMax /\ n.lcnt0 \in 0 .. LoopMax
      /\ n.cyc \in Nat \ {0}
      /\ n.lcnt0 = 0 => n.cyc = 1 /\ n.lcnt1 = b
      /\ n.lcnt0 # 0 => n.lcnt1 * (n.lcnt0 * n.cyc) <= b
  BY CountsSound
<1>2. n \in [lcnt0 : Nat, lcnt1 : Nat, cyc : Nat \ {0}]
  <2>1. n = [lcnt0 |-> n.lcnt0, lcnt1 |-> n.lcnt1, cyc |-> n.cyc]
    BY DEF LoopCounts
  <2> HIDE DEF n
  <2> QED BY <1>1, <2>1, MicrocodeAssumption
<1>3. cyc \in 1 .. n.cyc /\ Len(body) * cyc + (IF n.lcnt0 = 0 THEN 4 ELSE 8) <= JumpMax
  <2> HIDE DEF n
  <2> QED BY <1>2, UnrolledSound
<1>4. Loop(b, body).bursts = IF n.lcnt0 = 0 THEN n.lcnt1 * cyc ELSE n.lcnt1 * cyc * n.lcnt0
  BY DEF Loop
<1>5. CASE n.lcnt0 = 0
  <2> HIDE DEF n
  <2>1. cyc = 1
    <3> HIDE DEF cyc
    <3> QED BY <1>1, <1>3, <1>5
  <2>2. Loop(b, body).bursts = b
    BY <1>1, <1>4, <1>5, <2>1
  <2> HIDE DEF cyc
  <2> QED BY <1>1, <1>3, <1>5, <2>2, <2>1, MicrocodeAssumption
<1>6. CASE n.lcnt0 # 0
  <2> HIDE DEF n
  <2> HIDE DEF cyc
  <2>1. n.lcnt0 \in Nat \ {0} /\ n.lcnt1 \in Nat \ {0} /\ cyc \in Nat \ {0} /\ n.cyc \in Nat
    BY <1>1, <1>3, <1>6, MicrocodeAssumption
  <2>2. n.lcnt0 * cyc <= n.lcnt0 * n.cyc /\ n.lcnt0 * cyc \in Nat
    BY <1>3, <2>1, ProductGrows
  <2>3. n.lcnt1 * (n.lcnt0 * cyc) <= n.lcnt1 * (n.lcnt0 * n.cyc)
    <3>1. n.lcnt0 * n.cyc \in Nat
      BY <2>1
    <3> QED BY <2>1, <2>2, <3>1, ProductGrows
  <2>4. n.lcnt1 * cyc * n.lcnt0 = n.lcnt1 * (n.lcnt0 * cyc)
    BY <2>1
  <2>5. n.lcnt1 * (n.lcnt0 * cyc) >= 1
    BY <2>1
  <2>6. n.lcnt1 * (n.lcnt0 * cyc) \in Nat /\ n.lcnt1 * (n.lcnt0 * n.cyc) \in Nat
    BY <2>1
  <2>7. Loop(b, body).bursts \in 1 .. b
    <3>1. Loop(b, body).bursts = n.lcnt1 * (n.lcnt0 * cyc)
      BY <1>4, <1>6, <2>4
    <3> QED BY <1>1, <1>6, <2>3, <2>5, <2>6, <3>1
  <2> QED BY <1>1, <1>3, <1>6, <2>1, <2>7, MicrocodeAssumption
<1> QED
  BY <1>5, <1>6

--------------------------------------------------------------------------------
\* A piece of a program: bytes one after another.
IsCode(s) == \E S : s \in Seq(S)

\* An instruction is as many bytes as its size.
LEMMA EmitLength ==
  ASSUME NEW insn, NEW size \in Nat
  PROVE  Emit(insn, size) \in Seq({insn, Operand}) /\ Len(Emit(insn, size)) = size
PROOF
<1>1. Emit(insn, size) \in [1 .. size -> {insn, Operand}]
  BY DEF Emit
<1> QED
  BY <1>1

\* The first byte of an instruction is its opcode.
LEMMA EmitCode ==
  ASSUME NEW insn, NEW size \in Nat \ {0}
  PROVE  /\ IsCode(Emit(insn, size)) /\ Len(Emit(insn, size)) = size
         /\ Emit(insn, size)[1] = insn
PROOF
<1>1. Emit(insn, size) \in [1 .. size -> {insn, Operand}]
  BY DEF Emit
<1>2. Emit(insn, size)[1] = insn
  BY DEF Emit
<1>3. Emit(insn, size) \in Seq({insn, Operand}) /\ Len(Emit(insn, size)) = size
  BY EmitLength
<1> QED
  BY <1>2, <1>3 DEF IsCode

\* Code behind code: each keeps its bytes and their order.
LEMMA JoinedCode ==
  ASSUME NEW s, NEW t, IsCode(s), IsCode(t)
  PROVE  /\ IsCode(s \o t) /\ Len(s) \in Nat /\ Len(t) \in Nat
         /\ Len(s \o t) = Len(s) + Len(t)
         /\ \A i \in 1 .. Len(s) : (s \o t)[i] = s[i]
         /\ \A i \in 1 .. Len(t) : (s \o t)[Len(s) + i] = t[i]
PROOF
<1>1. PICK S : s \in Seq(S)
  BY DEF IsCode
<1>2. PICK T : t \in Seq(T)
  BY DEF IsCode
<1> DEFINE U == S \cup T
<1>3. s \in Seq(U) /\ t \in Seq(U)
  BY <1>1, <1>2
<1> HIDE DEF U
<1>4. s \o t \in Seq(U) /\ Len(s) \in Nat /\ Len(t) \in Nat /\ Len(s \o t) = Len(s) + Len(t)
  BY <1>3
<1>5. \A i \in 1 .. Len(s) : (s \o t)[i] = s[i]
  BY <1>3, <1>4
<1>6. \A i \in 1 .. Len(t) : (s \o t)[Len(s) + i] = t[i]
  <2> SUFFICES ASSUME NEW i \in 1 .. Len(t) PROVE (s \o t)[Len(s) + i] = t[i]
    OBVIOUS
  <2> QED
    BY <1>3, <1>4
<1> QED
  BY <1>4, <1>5, <1>6 DEF IsCode

\* The code s stands in the program p, behind its first k bytes.
At(p, k, s) == \A i \in 1 .. Len(s) : k + i \in DOMAIN p /\ p[k + i] = s[i]

\* Where joined code stands, its parts stand one behind the other.
LEMMA AtParts ==
  ASSUME NEW p, NEW k \in Nat, NEW s, NEW t, IsCode(s), IsCode(t), At(p, k, s \o t)
  PROVE  At(p, k, s) /\ At(p, k + Len(s), t)
PROOF
<1>1. Len(s) \in Nat /\ Len(t) \in Nat /\ Len(s \o t) = Len(s) + Len(t)
  BY JoinedCode
<1>2. ASSUME NEW i \in 1 .. Len(s) PROVE k + i \in DOMAIN p /\ p[k + i] = s[i]
  <2>1. i \in 1 .. Len(s \o t) /\ (s \o t)[i] = s[i]
    BY <1>1, JoinedCode
  <2> QED
    BY <2>1 DEF At
<1>3. ASSUME NEW i \in 1 .. Len(t)
      PROVE k + Len(s) + i \in DOMAIN p /\ p[k + Len(s) + i] = t[i]
  <2> DEFINE j == Len(s) + i
  <2>1. j \in 1 .. Len(s \o t) /\ (s \o t)[j] = t[i] /\ k + Len(s) + i = k + j
    BY <1>1, JoinedCode
  <2> HIDE DEF j
  <2> QED
    BY <2>1 DEF At
<1> QED
  BY <1>2, <1>3 DEF At

\* A program stands at its own beginning.
LEMMA AtWhole ==
  ASSUME NEW p, IsCode(p)
  PROVE  At(p, 0, p)
PROOF
  BY DEF At, IsCode

--------------------------------------------------------------------------------
\* The sizes of the instructions, which the jumps of a program count on.
LEMMA ShortCodes ==
  /\ IsCode(LD) /\ Len(LD) = 1 /\ IsCode(ST) /\ Len(ST) = 1
  /\ IsCode(RMB) /\ Len(RMB) = 1 /\ IsCode(WMB) /\ Len(WMB) = 1
  /\ IsCode(LDP) /\ Len(LDP) = 2 /\ IsCode(STP) /\ Len(STP) = 2
  /\ IsCode(WFP) /\ Len(WFP) = 2 /\ IsCode(FLUSHP) /\ Len(FLUSHP) = 2
  /\ IsCode(SEV) /\ Len(SEV) = 2 /\ IsCode(END) /\ Len(END) = 1
  /\ \A reg, val : IsCode(MOV(reg, val)) /\ Len(MOV(reg, val)) = 6
  /\ \A n, m : IsCode(LP(n, m)) /\ Len(LP(n, m)) = 2
  /\ \A n, m : IsCode(LPEND(n, m)) /\ Len(LPEND(n, m)) = 2
PROOF
<1> DEFINE P(insn, n) == IsCode(Emit(insn, n)) /\ Len(Emit(insn, n)) = n
<1>0. \A insn : \A n \in Nat \ {0} : P(insn, n)
  BY EmitCode
<1>a. 1 \in Nat \ {0} /\ 2 \in Nat \ {0} /\ 6 \in Nat \ {0}
  OBVIOUS
<1> HIDE DEF P
<1>b. \A insn : P(insn, 1) /\ P(insn, 2) /\ P(insn, 6)
  BY <1>0, <1>a
<1>1. \A insn : IsCode(Emit(insn, 1)) /\ Len(Emit(insn, 1)) = 1
  BY <1>b DEF P
<1>2. \A insn : IsCode(Emit(insn, 2)) /\ Len(Emit(insn, 2)) = 2
  BY <1>b DEF P
<1>3. \A insn : IsCode(Emit(insn, 6)) /\ Len(Emit(insn, 6)) = 6
  BY <1>b DEF P
<1> QED
  BY <1>1, <1>2, <1>3
     DEF LD, ST, RMB, WMB, END, LDP, STP, WFP, FLUSHP, SEV, MOV, LP, LPEND

\* The opcodes of the instructions, with what the controller reads of them.
LEMMA FirstBytes ==
  /\ LD[1] = [op |-> "LD"] /\ ST[1] = [op |-> "ST"]
  /\ RMB[1] = [op |-> "RMB", size |-> 1] /\ WMB[1] = [op |-> "WMB", size |-> 1]
  /\ LDP[1] = [op |-> "LDP"] /\ STP[1] = [op |-> "STP"]
  /\ WFP[1] = [op |-> "WFP", size |-> 2] /\ FLUSHP[1] = [op |-> "FLUSHP", size |-> 2]
  /\ SEV[1] = [op |-> "SEV"]
  /\ \A reg, val : MOV(reg, val)[1] = [op |-> "MOV", reg |-> reg, val |-> val]
  /\ \A n, m : LP(n, m)[1] = [op |-> "LP", loop |-> n, cnt |-> (m - 1) % LoopMax]
  /\ \A n, m : LPEND(n, m)[1] = [op |-> "LPEND", loop |-> n, bjump |-> m % (JumpMax + 1)]
PROOF
<1>1. \A insn : Emit(insn, 1)[1] = insn /\ Emit(insn, 2)[1] = insn /\ Emit(insn, 6)[1] = insn
  BY EmitCode
<1> QED
  BY <1>1 DEF LD, ST, RMB, WMB, LDP, STP, WFP, FLUSHP, SEV, MOV, LP, LPEND

\* Where the instructions of a body begin, and which of its load and its store
\* (0 or 1 each) lie behind the controller that has come there.
Stages(type, lf) ==
  CASE type = "memtomem" ->
         IF lf THEN {<<0, 0, 0>>, <<1, 1, 0>>}
         ELSE {<<0, 0, 0>>, <<1, 1, 0>>, <<2, 1, 0>>, <<3, 1, 1>>}
    [] type = "devtomem" -> {<<0, 0, 0>>, <<2, 0, 0>>, <<4, 1, 0>>, <<5, 1, 1>>}
    [] type = "memtodev" -> {<<0, 0, 0>>, <<2, 0, 0>>, <<3, 1, 0>>, <<5, 1, 1>>}

\* The stage behind an instruction: another of the body, or its end.
Onward(type, lf, q, x, y) ==
  \/ <<q, x, y>> \in Stages(type, lf)
  \/ q = Len(Burst(type, lf)) /\ x = 1 /\ y = 1

Loads == {"LD", "LDP"}
Stores == {"ST", "STP"}
Waits == {"RMB", "WMB", "WFP", "FLUSHP"}

\* The length of two pieces of code.
LEMMA JoinedLength ==
  ASSUME NEW s, NEW t, IsCode(s), IsCode(t)
  PROVE  IsCode(s \o t) /\ Len(s \o t) = Len(s) + Len(t)
PROOF
  BY JoinedCode

\* The length of four pieces of code.
LEMMA FourPartsLength ==
  ASSUME NEW a, NEW b, NEW c, NEW d, IsCode(a), IsCode(b), IsCode(c), IsCode(d)
  PROVE  /\ IsCode(a \o b \o c \o d)
         /\ Len(a \o b \o c \o d) = Len(a) + Len(b) + Len(c) + Len(d)
PROOF
<1>1. IsCode(a \o b) /\ Len(a \o b) = Len(a) + Len(b)
  BY JoinedLength
<1>2. IsCode((a \o b) \o c) /\ Len((a \o b) \o c) = Len(a \o b) + Len(c)
  BY <1>1, JoinedLength
<1>3. /\ IsCode(((a \o b) \o c) \o d)
      /\ Len(((a \o b) \o c) \o d) = Len((a \o b) \o c) + Len(d)
  BY <1>2, JoinedLength
<1> QED
  BY <1>1, <1>2, <1>3

\* The body that moves a burst is at most 7 bytes, of any kind of request.
LEMMA BodyLength ==
  ASSUME NEW type \in Types, NEW lf \in BOOLEAN
  PROVE  /\ IsCode(Burst(type, lf))
         /\ Len(Burst(type, lf)) \in 1 .. 7
         /\ Len(Burst(type, lf)) = IF type = "memtomem" THEN IF lf THEN 2 ELSE 4 ELSE 7
PROOF
<1>0. /\ IsCode(LD) /\ IsCode(ST) /\ IsCode(RMB) /\ IsCode(WMB)
      /\ IsCode(LDP) /\ IsCode(STP) /\ IsCode(WFP) /\ IsCode(FLUSHP)
  BY ShortCodes
<1>a. /\ Len(LD) = 1 /\ Len(ST) = 1 /\ Len(RMB) = 1 /\ Len(WMB) = 1
      /\ Len(LDP) = 2 /\ Len(STP) = 2 /\ Len(WFP) = 2 /\ Len(FLUSHP) = 2
  BY ShortCodes
<1>1. CASE type = "memtomem" /\ lf
  <2>1. Burst(type, lf) = LD \o ST
    BY <1>1 DEF Burst
  <2>2. IsCode(LD \o ST) /\ Len(LD \o ST) = Len(LD) + Len(ST)
    BY <1>0, JoinedLength
  <2>3. Len(Burst(type, lf)) = 2
    BY <1>a, <2>1, <2>2
  <2>4. IsCode(Burst(type, lf)) /\ Len(Burst(type, lf)) \in 1 .. 7
    BY <2>1, <2>2, <2>3
  <2> QED
    BY <1>1, <2>3, <2>4
<1>2. CASE type = "memtomem" /\ ~lf
  <2>1. Burst(type, lf) = LD \o RMB \o ST \o WMB
    BY <1>2 DEF Burst
  <2>2. /\ IsCode(LD \o RMB \o ST \o WMB)
        /\ Len(LD \o RMB \o ST \o WMB) = Len(LD) + Len(RMB) + Len(ST) + Len(WMB)
    BY <1>0, FourPartsLength
  <2>3. Len(Burst(type, lf)) = 4
    BY <1>a, <2>1, <2>2
  <2>4. IsCode(Burst(type, lf)) /\ Len(Burst(type, lf)) \in 1 .. 7
    BY <2>1, <2>2, <2>3
  <2> QED
    BY <1>2, <2>3, <2>4
<1>3. CASE type = "devtomem"
  <2>1. Burst(type, lf) = WFP \o LDP \o ST \o FLUSHP
    BY <1>3 DEF Burst
  <2>2. /\ IsCode(WFP \o LDP \o ST \o FLUSHP)
        /\ Len(WFP \o LDP \o ST \o FLUSHP) = Len(WFP) + Len(LDP) + Len(ST) + Len(FLUSHP)
    BY <1>0, FourPartsLength
  <2>3. Len(Burst(type, lf)) = 7
    BY <1>a, <2>1, <2>2
  <2>4. IsCode(Burst(type, lf)) /\ Len(Burst(type, lf)) \in 1 .. 7
    BY <2>1, <2>2, <2>3
  <2> QED
    BY <1>3, <2>3, <2>4
<1>4. CASE type = "memtodev"
  <2>1. Burst(type, lf) = WFP \o LD \o STP \o FLUSHP
    BY <1>4 DEF Burst
  <2>2. /\ IsCode(WFP \o LD \o STP \o FLUSHP)
        /\ Len(WFP \o LD \o STP \o FLUSHP) = Len(WFP) + Len(LD) + Len(STP) + Len(FLUSHP)
    BY <1>0, FourPartsLength
  <2>3. Len(Burst(type, lf)) = 7
    BY <1>a, <2>1, <2>2
  <2>4. IsCode(Burst(type, lf)) /\ Len(Burst(type, lf)) \in 1 .. 7
    BY <2>1, <2>2, <2>3
  <2> QED
    BY <1>4, <2>3, <2>4
<1> QED
  BY <1>1, <1>2, <1>3, <1>4 DEF Types

\* The first bytes of two instructions in a row.
LEMMA TwoParts ==
  ASSUME NEW a, NEW b, IsCode(a), IsCode(b),
         NEW i \in 1 .. 2, NEW j \in 1 .. 2, Len(a) = i, Len(b) = j
  PROVE  (a \o b)[1] = a[1] /\ (a \o b)[i + 1] = b[1]
PROOF
<1>1. \A n \in 1 .. Len(a) : (a \o b)[n] = a[n]
  BY JoinedCode
<1>2. \A n \in 1 .. Len(b) : (a \o b)[Len(a) + n] = b[n]
  BY JoinedCode
<1>3. 1 \in 1 .. Len(a) /\ 1 \in 1 .. Len(b)
  OBVIOUS
<1> QED
  BY <1>1, <1>2, <1>3

\* The first bytes of four instructions in a row.
LEMMA FourParts ==
  ASSUME NEW a, NEW b, NEW c, NEW d, IsCode(a), IsCode(b), IsCode(c), IsCode(d),
         NEW i \in 1 .. 2, NEW j \in 1 .. 2, NEW k \in 1 .. 2,
         Len(a) = i, Len(b) = j, Len(c) = k, Len(d) \in 1 .. 2
  PROVE  LET s == a \o b \o c \o d IN
           s[1] = a[1] /\ s[i + 1] = b[1] /\ s[i + j + 1] = c[1] /\ s[i + j + k + 1] = d[1]
PROOF
<1> DEFINE ab == a \o b
           abc == ab \o c
<1>1. IsCode(ab) /\ Len(ab) = Len(a) + Len(b) /\ ab[1] = a[1] /\ ab[Len(a) + 1] = b[1]
  BY JoinedCode
<1> HIDE DEF ab
<1>2. /\ IsCode(abc) /\ Len(abc) = Len(ab) + Len(c)
      /\ abc[1] = ab[1] /\ abc[Len(a) + 1] = ab[Len(a) + 1] /\ abc[Len(ab) + 1] = c[1]
  BY <1>1, JoinedCode
<1> HIDE DEF abc
<1> DEFINE s == abc \o d
<1>3. /\ s[1] = abc[1] /\ s[Len(a) + 1] = abc[Len(a) + 1]
      /\ s[Len(ab) + 1] = abc[Len(ab) + 1] /\ s[Len(abc) + 1] = d[1]
  BY <1>1, <1>2, JoinedCode
<1> HIDE DEF s
<1>4. s[1] = a[1] /\ s[Len(a) + 1] = b[1] /\ s[Len(a) + Len(b) + 1] = c[1]
      /\ s[Len(a) + Len(b) + Len(c) + 1] = d[1]
  BY <1>1, <1>2, <1>3
<1> QED
  BY <1>4 DEF s, abc, ab

\* In a body the controller finds a load before anything is loaded, a store
\* behind the load, or a wait, and behind each of them the next stage.
LEMMA BodyStep ==
  ASSUME NEW type \in Types, NEW lf \in BOOLEAN, NEW q, NEW x, NEW y,
         <<q, x, y>> \in Stages(type, lf)
  PROVE  LET i == Burst(type, lf)[q + 1] IN
           /\ q \in 0 .. Len(Burst(type, lf)) - 1 /\ x \in {0, 1} /\ y \in {0, 1} /\ y <= x
           /\ i.op \in Loads \cup Stores \cup Waits
           /\ i.op \in Loads =>
                x = 0 /\ y = 0 /\ Onward(type, lf, q + (IF i.op = "LDP" THEN 2 ELSE 1), 1, 0)
           /\ i.op \in Stores =>
                x = 1 /\ y = 0 /\ Onward(type, lf, q + (IF i.op = "STP" THEN 2 ELSE 1), 1, 1)
           /\ i.op \in Waits => i.size \in 1 .. 2 /\ Onward(type, lf, q + i.size, x, y)
PROOF
<1>0. Len(Burst(type, lf)) = IF type = "memtomem" THEN IF lf THEN 2 ELSE 4 ELSE 7
  BY BodyLength
<1>1. CASE type = "memtomem" /\ lf
  <2> DEFINE s == Burst(type, lf)
  <2>1. s = LD \o ST
    BY <1>1 DEF Burst
  <2>a. s[1] = LD[1] /\ s[2] = ST[1]
    <3>1. IsCode(LD) /\ IsCode(ST) /\ Len(LD) = 1 /\ Len(ST) = 1
      BY ShortCodes
    <3>2. (LD \o ST)[1] = LD[1] /\ (LD \o ST)[2] = ST[1]
      BY <3>1, TwoParts
    <3> QED
      BY <2>1, <3>2
  <2>2. s[1] = [op |-> "LD"] /\ s[2] = [op |-> "ST"]
    <3> HIDE DEF s
    <3> QED BY <2>a, FirstBytes
  <2>3. Stages(type, lf) = {<<0, 0, 0>>, <<1, 1, 0>>}
    BY <1>1 DEF Stages
  <2>4. Len(s) = 2
    BY <1>0, <1>1
  <2>5. \/ <<q, x, y>> = <<0, 0, 0>>
        \/ <<q, x, y>> = <<1, 1, 0>>
    BY <2>3
  <2>6. Onward(type, lf, 1, 1, 0) /\ Onward(type, lf, 2, 1, 1)
    BY <2>3, <2>4 DEF Onward
  <2> HIDE DEF s
  <2> QED
    BY <2>2, <2>4, <2>5, <2>6 DEF s, Loads, Stores, Waits
<1>2. CASE type = "memtomem" /\ ~lf
  <2> DEFINE s == Burst(type, lf)
  <2>1. s = LD \o RMB \o ST \o WMB
    BY <1>2 DEF Burst
  <2>a. s[1] = LD[1] /\ s[2] = RMB[1] /\ s[3] = ST[1] /\ s[4] = WMB[1]
    <3>1. IsCode(LD) /\ IsCode(RMB) /\ IsCode(ST) /\ IsCode(WMB)
      BY ShortCodes
    <3>2. Len(LD) = 1 /\ Len(RMB) = 1 /\ Len(ST) = 1 /\ Len(WMB) = 1
      BY ShortCodes
    <3> DEFINE a == LD  b == RMB  c == ST  d == WMB
               i == 1  j == 1  k == 1
    <3>4. /\ IsCode(a) /\ IsCode(b) /\ IsCode(c) /\ IsCode(d)
          /\ Len(a) = i /\ Len(b) = j /\ Len(c) = k /\ Len(d) \in 1 .. 2
          /\ i \in 1 .. 2 /\ j \in 1 .. 2 /\ k \in 1 .. 2
      BY <3>1, <3>2
    <3>5. s = a \o b \o c \o d
      BY <2>1
    <3> HIDE DEF s, a, b, c, d, i, j, k
    <3>6. s[1] = a[1] /\ s[i + 1] = b[1] /\ s[i + j + 1] = c[1] /\ s[i + j + k + 1] = d[1]
      BY <3>4, <3>5, FourParts
    <3> QED
      BY <3>6 DEF a, b, c, d, i, j, k
  <2>2. /\ s[1] = [op |-> "LD"] /\ s[2] = [op |-> "RMB", size |-> 1]
        /\ s[3] = [op |-> "ST"] /\ s[4] = [op |-> "WMB", size |-> 1]
    <3> HIDE DEF s
    <3> QED BY <2>a, FirstBytes
  <2>3. Stages(type, lf) = {<<0, 0, 0>>, <<1, 1, 0>>, <<2, 1, 0>>, <<3, 1, 1>>}
    BY <1>2 DEF Stages
  <2> HIDE DEF s
  <2> QED
    BY <1>0, <1>2, <2>2, <2>3 DEF s, Onward, Loads, Stores, Waits
<1>3. CASE type = "devtomem"
  <2> DEFINE s == Burst(type, lf)
  <2>1. s = WFP \o LDP \o ST \o FLUSHP
    BY <1>3 DEF Burst
  <2>a. s[1] = WFP[1] /\ s[3] = LDP[1] /\ s[5] = ST[1] /\ s[6] = FLUSHP[1]
    <3>1. IsCode(WFP) /\ IsCode(LDP) /\ IsCode(ST) /\ IsCode(FLUSHP)
      BY ShortCodes
    <3>2. Len(WFP) = 2 /\ Len(LDP) = 2 /\ Len(ST) = 1 /\ Len(FLUSHP) = 2
      BY ShortCodes
    <3> DEFINE a == WFP  b == LDP  c == ST  d == FLUSHP
               i == 2  j == 2  k == 1
    <3>4. /\ IsCode(a) /\ IsCode(b) /\ IsCode(c) /\ IsCode(d)
          /\ Len(a) = i /\ Len(b) = j /\ Len(c) = k /\ Len(d) \in 1 .. 2
          /\ i \in 1 .. 2 /\ j \in 1 .. 2 /\ k \in 1 .. 2
      BY <3>1, <3>2
    <3>5. s = a \o b \o c \o d
      BY <2>1
    <3> HIDE DEF s, a, b, c, d, i, j, k
    <3>6. s[1] = a[1] /\ s[i + 1] = b[1] /\ s[i + j + 1] = c[1] /\ s[i + j + k + 1] = d[1]
      BY <3>4, <3>5, FourParts
    <3> QED
      BY <3>6 DEF a, b, c, d, i, j, k
  <2>2. /\ s[1] = [op |-> "WFP", size |-> 2] /\ s[3] = [op |-> "LDP"]
        /\ s[5] = [op |-> "ST"] /\ s[6] = [op |-> "FLUSHP", size |-> 2]
    <3> HIDE DEF s
    <3> QED BY <2>a, FirstBytes
  <2>3. Stages(type, lf) = {<<0, 0, 0>>, <<2, 0, 0>>, <<4, 1, 0>>, <<5, 1, 1>>}
    BY <1>3 DEF Stages
  <2> HIDE DEF s
  <2> QED
    BY <1>0, <1>3, <2>2, <2>3 DEF s, Onward, Loads, Stores, Waits
<1>4. CASE type = "memtodev"
  <2> DEFINE s == Burst(type, lf)
  <2>1. s = WFP \o LD \o STP \o FLUSHP
    BY <1>4 DEF Burst
  <2>a. s[1] = WFP[1] /\ s[3] = LD[1] /\ s[4] = STP[1] /\ s[6] = FLUSHP[1]
    <3>1. IsCode(WFP) /\ IsCode(LD) /\ IsCode(STP) /\ IsCode(FLUSHP)
      BY ShortCodes
    <3>2. Len(WFP) = 2 /\ Len(LD) = 1 /\ Len(STP) = 2 /\ Len(FLUSHP) = 2
      BY ShortCodes
    <3> DEFINE a == WFP  b == LD  c == STP  d == FLUSHP
               i == 2  j == 1  k == 2
    <3>4. /\ IsCode(a) /\ IsCode(b) /\ IsCode(c) /\ IsCode(d)
          /\ Len(a) = i /\ Len(b) = j /\ Len(c) = k /\ Len(d) \in 1 .. 2
          /\ i \in 1 .. 2 /\ j \in 1 .. 2 /\ k \in 1 .. 2
      BY <3>1, <3>2
    <3>5. s = a \o b \o c \o d
      BY <2>1
    <3> HIDE DEF s, a, b, c, d, i, j, k
    <3>6. s[1] = a[1] /\ s[i + 1] = b[1] /\ s[i + j + 1] = c[1] /\ s[i + j + k + 1] = d[1]
      BY <3>4, <3>5, FourParts
    <3> QED
      BY <3>6 DEF a, b, c, d, i, j, k
  <2>2. /\ s[1] = [op |-> "WFP", size |-> 2] /\ s[3] = [op |-> "LD"]
        /\ s[4] = [op |-> "STP"] /\ s[6] = [op |-> "FLUSHP", size |-> 2]
    <3> HIDE DEF s
    <3> QED BY <2>a, FirstBytes
  <2>3. Stages(type, lf) = {<<0, 0, 0>>, <<2, 0, 0>>, <<3, 1, 0>>, <<5, 1, 1>>}
    BY <1>4 DEF Stages
  <2> HIDE DEF s
  <2> QED
    BY <1>0, <1>4, <2>2, <2>3 DEF s, Onward, Loads, Stores, Waits
<1> QED
  BY <1>1, <1>2, <1>3, <1>4 DEF Types

\* A nest of loops moves at least one burst, so that _setup_loops ends, and no
\* more than there are; its counters fit their registers and its jumps their
\* operands, whatever the number of bursts and the kind of the request.
THEOREM LoopSound ==
  ASSUME NEW b \in Nat \ {0}, NEW type \in Types, NEW lf \in BOOLEAN
  PROVE  LET body == Burst(type, lf)  n == LoopCounts(b)  cyc == Unrolled(n, body) IN
           /\ Loop(b, body).bursts \in 1 .. b
           /\ n.lcnt1 \in 1 .. LoopMax /\ n.lcnt0 \in 0 .. LoopMax
           /\ cyc * Len(body) <= JumpMax
           /\ n.lcnt0 # 0 => cyc * Len(body) + 4 <= JumpMax
PROOF
<1>1. PICK size \in 1 .. 7 : Len(Burst(type, lf)) = size
  BY BodyLength
<1> QED
  BY <1>1, NestSound

--------------------------------------------------------------------------------
\* _setup_loops recurs on fewer bursts.
LEMMA LoopShrinks ==
  ASSUME NEW b \in Nat \ {0}, NEW body, Len(body) \in 1 .. 7
  PROVE  Loop(b, body).bursts \in 1 .. b
PROOF
<1>1. PICK size \in 1 .. 7 : Len(body) = size
  OBVIOUS
<1> QED
  BY <1>1, NestSound

\* What the recursion says of the loops for b bursts, given a table of smaller ones.
Unfold(body, f, b) ==
  IF b = 0 THEN << >>
  ELSE LET l == Loop(b, body) IN l.code \o f[b - l.bursts]

Table(body, m, g) == g = [b \in 0 .. m |-> Unfold(body, g, b)]

\* Two tables of the recursion say the same of the bursts they share: the
\* smallest number of which they did not would contradict the equation.
LEMMA TableAgrees ==
  ASSUME NEW body, Len(body) \in 1 .. 7,
         NEW m \in Nat, NEW k \in Nat, NEW g, NEW h,
         Table(body, m, g), Table(body, k, h), NEW b \in Nat, b <= m, b <= k
  PROVE  g[b] = h[b]
PROOF
<1> DEFINE S == {a \in 0 .. b : g[a] # h[a]}
<1> SUFFICES ASSUME S # {} PROVE FALSE
  OBVIOUS
<1>1. PICK a \in S : \A d \in S : a <= d
  <2>1. S \subseteq Nat
    OBVIOUS
  <2> HIDE DEF S
  <2> QED BY <2>1, LeastNat
<1>2. a \in 0 .. b /\ g[a] # h[a]
  OBVIOUS
<1>3. g[a] = Unfold(body, g, a) /\ h[a] = Unfold(body, h, a)
  <2>1. a \in 0 .. m /\ a \in 0 .. k
    BY <1>2
  <2> QED
    BY <2>1 DEF Table
<1>4. a # 0
  BY <1>2, <1>3 DEF Unfold
<1> DEFINE l == Loop(a, body)
<1>5. a - l.bursts \in 0 .. b /\ a - l.bursts < a
  <2>0. a \in Nat \ {0}
    BY <1>2, <1>4
  <2>1. l.bursts \in 1 .. a
    <3> HIDE DEF S
    <3> QED BY <2>0, LoopShrinks
  <2> HIDE DEF l
  <2> QED BY <1>2, <2>1
<1>6. g[a - l.bursts] = h[a - l.bursts]
  <2> HIDE DEF l
  <2>1. a - l.bursts \notin S
    BY <1>1, <1>2, <1>5
  <2> QED BY <1>5, <2>1
<1>7. Unfold(body, g, a) = Unfold(body, h, a)
  BY <1>4, <1>6 DEF Unfold
<1> QED
  BY <1>2, <1>3, <1>7

\* There is a table of the recursion up to any number of bursts.
LEMMA TableExists ==
  ASSUME NEW body, Len(body) \in 1 .. 7, NEW m \in Nat
  PROVE  \E g : Table(body, m, g)
PROOF
<1> DEFINE S == {k \in Nat : ~\E g : Table(body, k, g)}
<1> SUFFICES ASSUME S # {} PROVE FALSE
  OBVIOUS
<1>1. PICK k \in S : \A d \in S : k <= d
  <2>1. S \subseteq Nat
    OBVIOUS
  <2> HIDE DEF S
  <2> QED BY <2>1, LeastNat
<1>2. k \in Nat /\ ~\E g : Table(body, k, g)
  OBVIOUS
<1>3. CASE k = 0
  <2> DEFINE g == [b \in 0 .. 0 |-> << >>]
  <2>1. g = [b \in 0 .. 0 |-> Unfold(body, g, b)]
    <3>1. \A b \in 0 .. 0 : Unfold(body, g, b) = << >>
      BY DEF Unfold
    <3> QED
      BY <3>1
  <2> QED
    BY <1>2, <1>3, <2>1 DEF Table
<1>4. CASE k # 0
  <2>1. PICK f : Table(body, k - 1, f)
    <3>1. k - 1 \in Nat /\ k - 1 \notin S
      BY <1>1, <1>2, <1>4
    <3> QED BY <3>1
  <2> DEFINE g == [b \in 0 .. k |-> IF b = k THEN Unfold(body, f, k) ELSE f[b]]
  <2>2. \A b \in 0 .. k : g[b] = Unfold(body, g, b)
    <3> SUFFICES ASSUME NEW b \in 0 .. k PROVE g[b] = Unfold(body, g, b)
      OBVIOUS
    <3>1. g[b] = Unfold(body, f, b)
      <4>1. CASE b = k
        BY <4>1
      <4>2. CASE b # k
        <5>1. b \in 0 .. k - 1 /\ g[b] = f[b]
          BY <4>2, <1>2
        <5> QED BY <2>1, <5>1 DEF Table
      <4> QED BY <4>1, <4>2
    <3>2. Unfold(body, f, b) = Unfold(body, g, b)
      <4>1. CASE b = 0
        BY <4>1 DEF Unfold
      <4>2. CASE b # 0
        <5> DEFINE l == Loop(b, body)
        <5>0. b \in Nat \ {0}
          BY <4>2, <1>2
        <5>1. l.bursts \in 1 .. b
          <6> HIDE DEF S, g
          <6> QED BY <5>0, LoopShrinks
        <5>2. f[b - l.bursts] = g[b - l.bursts]
          <6> HIDE DEF l
          <6>1. b - l.bursts \in 0 .. k /\ b - l.bursts # k
            BY <5>1, <1>2
          <6> QED BY <6>1
        <5> HIDE DEF g
        <5> QED BY <4>2, <5>2 DEF Unfold
      <4> QED BY <4>1, <4>2
    <3> QED BY <3>1, <3>2
  <2>3. g = [b \in 0 .. k |-> Unfold(body, g, b)]
    <3>1. g = [b \in 0 .. k |-> g[b]]
      OBVIOUS
    <3> HIDE DEF g
    <3> QED BY <2>2, <3>1
  <2> HIDE DEF g
  <2> QED
    BY <1>2, <2>3 DEF Table
<1> QED
  BY <1>3, <1>4

\* The recursion of _setup_loops: the loops for b bursts are a nest and the
\* loops for the bursts that it leaves, whatever their number.
LEMMA LoopsEquation ==
  ASSUME NEW body, Len(body) \in 1 .. 7, NEW b \in Nat
  PROVE  SetupLoops(b, body) =
           IF b = 0 THEN << >>
           ELSE Loop(b, body).code \o SetupLoops(b - Loop(b, body).bursts, body)
PROOF
<1> DEFINE T(m) == CHOOSE g : Table(body, m, g)
           f == [a \in Nat |-> T(a)[a]]
<1>1. \A m \in Nat : Table(body, m, T(m))
  BY TableExists
<1>2. \A a \in Nat : f[a] = Unfold(body, f, a)
  <2> SUFFICES ASSUME NEW a \in Nat PROVE f[a] = Unfold(body, f, a)
    OBVIOUS
  <2>1. f[a] = T(a)[a]
    OBVIOUS
  <2>2. T(a)[a] = Unfold(body, T(a), a)
    <3> HIDE DEF T
    <3> QED BY <1>1 DEF Table
  <2>3. Unfold(body, T(a), a) = Unfold(body, f, a)
    <3>1. CASE a = 0
      BY <3>1 DEF Unfold
    <3>2. CASE a # 0
      <4> DEFINE d == a - Loop(a, body).bursts
      <4>1. d \in Nat /\ d <= a
        <5>1. Loop(a, body).bursts \in 1 .. a
          BY <3>2, LoopShrinks
        <5> QED BY <5>1
      <4> HIDE DEF d
      <4>2. T(a)[d] = T(d)[d]
        <5> HIDE DEF T, f
        <5> DEFINE g == T(a)
                   h == T(d)
        <5>1. Table(body, a, g) /\ Table(body, d, h) /\ d <= d
          BY <1>1, <4>1
        <5> HIDE DEF g, h
        <5>2. g[d] = h[d]
          BY <5>1, <4>1, TableAgrees
        <5> QED BY <5>2 DEF g, h
      <4>3. T(d)[d] = f[d]
        BY <4>1
      <4> HIDE DEF T, f
      <4> QED BY <3>2, <4>2, <4>3 DEF Unfold, d
    <3> QED BY <3>1, <3>2
  <2> QED BY <2>1, <2>2, <2>3
<1>3. f = [a \in Nat |-> Unfold(body, f, a)]
  <2>1. f = [a \in Nat |-> f[a]]
    OBVIOUS
  <2> HIDE DEF f
  <2> QED BY <1>2, <2>1
<1> DEFINE loops == CHOOSE g : g = [a \in Nat |-> Unfold(body, g, a)]
<1>4. loops = [a \in Nat |-> Unfold(body, loops, a)]
  <2> HIDE DEF f
  <2> QED BY <1>3
<1>5. \A a \in Nat : SetupLoops(a, body) = loops[a]
  BY DEF SetupLoops, Unfold
<1> HIDE DEF loops
<1>6. loops[b] = Unfold(body, loops, b)
  BY <1>4
<1>7. CASE b = 0
  BY <1>5, <1>6, <1>7 DEF Unfold
<1>8. CASE b # 0
  <2>1. Loop(b, body).bursts \in 1 .. b
    BY <1>8, LoopShrinks
  <2>2. b - Loop(b, body).bursts \in Nat
    BY <2>1
  <2> QED
    BY <1>5, <1>6, <1>8, <2>2 DEF Unfold
<1> QED
  BY <1>7, <1>8

--------------------------------------------------------------------------------
\* What division leaves of the k-th byte of the j-th copy.
LEMMA ModFact ==
  ASSUME NEW l \in 1 .. 7, NEW j \in Nat, NEW q \in 0 .. l - 1
  PROVE  (j * l + q) % l = q
PROOF
<1>1. l = 1 \/ l = 2 \/ l = 3 \/ l = 4 \/ l = 5 \/ l = 6 \/ l = 7
  OBVIOUS
<1>2. CASE l = 1
  BY <1>2
<1>3. CASE l = 2
  BY <1>3
<1>4. CASE l = 3
  BY <1>4
<1>5. CASE l = 4
  BY <1>5
<1>6. CASE l = 5
  BY <1>6
<1>7. CASE l = 6
  BY <1>7
<1>8. CASE l = 7
  BY <1>8
<1> QED
  BY <1>1, <1>2, <1>3, <1>4, <1>5, <1>6, <1>7, <1>8

\* The bytes of every copy of an unrolled body lie within it.
LEMMA CopyWithin ==
  ASSUME NEW l \in 1 .. 7, NEW n \in Nat, NEW j \in 0 .. n - 1, NEW q \in 0 .. l - 1
  PROVE  j * l + q + 1 \in 1 .. n * l
PROOF
<1>1. l * (j + 1) <= l * n /\ l * (j + 1) \in Nat
  BY ProductGrows
<1>2. l * (j + 1) = j * l + l /\ l * n = n * l /\ j * l \in Nat /\ n * l \in Nat
  OBVIOUS
<1> QED
  BY <1>1, <1>2

\* An unrolled body is its copies, one behind the other.
LEMMA RepeatedCode ==
  ASSUME NEW s, IsCode(s), NEW l \in 1 .. 7, Len(s) = l, NEW n \in Nat
  PROVE  /\ IsCode(Repeated(s, n)) /\ Len(Repeated(s, n)) = n * l
         /\ \A j \in 0 .. n - 1, q \in 0 .. l - 1 : Repeated(s, n)[j * l + q + 1] = s[q + 1]
PROOF
<1>1. PICK S : s \in Seq(S)
  BY DEF IsCode
<1> DEFINE r == Repeated(s, n)
<1>2. r = [i \in 1 .. n * l |-> s[((i - 1) % l) + 1]]
  BY DEF Repeated
<1>3. n * l \in Nat
  OBVIOUS
<1>4. \A i \in 1 .. n * l : s[((i - 1) % l) + 1] \in S
  <2> SUFFICES ASSUME NEW i \in 1 .. n * l PROVE s[((i - 1) % l) + 1] \in S
    OBVIOUS
  <2>1. (i - 1) % l \in 0 .. l - 1
    BY <1>3
  <2>2. ((i - 1) % l) + 1 \in 1 .. l
    BY <2>1
  <2> QED
    BY <1>1, <2>2
<1> HIDE DEF r
<1>5. r \in [1 .. n * l -> S]
  BY <1>2, <1>4
<1>6. r \in Seq(S) /\ Len(r) = n * l
  BY <1>3, <1>5
<1>7. ASSUME NEW j \in 0 .. n - 1, NEW q \in 0 .. l - 1
      PROVE  r[j * l + q + 1] = s[q + 1]
  <2> DEFINE i == j * l + q + 1
  <2>1. i \in 1 .. n * l
    BY CopyWithin
  <2>2. j * l \in Int /\ i - 1 = j * l + q
    OBVIOUS
  <2>3. (i - 1) % l = q
    <3>1. (j * l + q) % l = q
      BY ModFact
    <3> HIDE DEF i
    <3> QED
      BY <2>2, <3>1
  <2> HIDE DEF i
  <2>4. r[i] = s[((i - 1) % l) + 1]
    BY <1>2, <2>1
  <2>5. r[i] = s[q + 1]
    BY <2>3, <2>4
  <2> QED
    BY <2>5 DEF i
<1> QED
  BY <1>6, <1>7 DEF IsCode, r

--------------------------------------------------------------------------------
\* A nest of loops and its parts.
Copies(b, body) == Unrolled(LoopCounts(b), body)
Header(b) == IF LoopCounts(b).lcnt0 = 0 THEN 0 ELSE 2
Size(b, body) == Header(b) + 2 + Copies(b, body) * Len(body) + 2 + Header(b)
Inner(b, body) ==
  LP(1, LoopCounts(b).lcnt1) \o Repeated(body, Copies(b, body))
    \o LPEND(1, Copies(b, body) * Len(body))

\* The numbers of a nest of loops, with the copies of its body.
LEMMA CopiesSound ==
  ASSUME NEW b \in Nat \ {0}, NEW body, NEW l \in 1 .. 7, Len(body) = l
  PROVE  LET n == LoopCounts(b)  cyc == Copies(b, body) IN
           /\ n.lcnt1 \in 1 .. LoopMax /\ n.lcnt0 \in 0 .. LoopMax
           /\ cyc \in Nat \ {0} /\ cyc * l \in Nat
           /\ cyc * l <= JumpMax
           /\ n.lcnt0 # 0 => cyc * l + 4 <= JumpMax
           /\ Loop(b, body).bursts \in 1 .. b
           /\ Loop(b, body).bursts = (IF n.lcnt0 = 0 THEN 1 ELSE n.lcnt0) * (n.lcnt1 * cyc)
PROOF
<1> DEFINE n == LoopCounts(b)
           cyc == Copies(b, body)
<1>1. /\ n.lcnt1 \in 1 .. LoopMax /\ n.lcnt0 \in 0 .. LoopMax
      /\ cyc * l <= JumpMax
      /\ n.lcnt0 # 0 => cyc * l + 4 <= JumpMax
      /\ Loop(b, body).bursts \in 1 .. b
  BY NestSound DEF Copies
<1>2. n.cyc \in Nat \ {0}
  BY CountsSound
<1>3. n \in [lcnt0 : Nat, lcnt1 : Nat, cyc : Nat \ {0}]
  <2>1. n = [lcnt0 |-> n.lcnt0, lcnt1 |-> n.lcnt1, cyc |-> n.cyc]
    BY DEF LoopCounts
  <2> HIDE DEF n
  <2> QED BY <1>1, <1>2, <2>1, MicrocodeAssumption
<1>4. cyc \in 1 .. n.cyc
  <2> HIDE DEF n
  <2>1. Unrolled(n, body) \in 1 .. n.cyc
    BY <1>3, UnrolledSound
  <2> QED BY <2>1 DEF Copies, n
<1>5. Loop(b, body).bursts = IF n.lcnt0 = 0 THEN n.lcnt1 * cyc ELSE n.lcnt1 * cyc * n.lcnt0
  BY DEF Loop, Copies
<1> HIDE DEF n, cyc
<1>6. cyc \in Nat \ {0} /\ cyc * l \in Nat
  BY <1>2, <1>4
<1>7. Loop(b, body).bursts = (IF n.lcnt0 = 0 THEN 1 ELSE n.lcnt0) * (n.lcnt1 * cyc)
  <2>1. n.lcnt0 \in Nat /\ n.lcnt1 \in Nat /\ cyc \in Nat
    BY <1>1, <1>6, MicrocodeAssumption
  <2>2. CASE n.lcnt0 = 0
    BY <1>5, <2>1, <2>2
  <2>3. CASE n.lcnt0 # 0
    <3>1. n.lcnt1 * cyc * n.lcnt0 = n.lcnt0 * (n.lcnt1 * cyc)
      BY <2>1
    <3> QED BY <1>5, <2>3, <3>1
  <2> QED BY <2>2, <2>3
<1> QED
  BY <1>1, <1>6, <1>7 DEF n, cyc

\* The code of a nest is the inner loop, within the outer one if there is one.
LEMMA LoopCode ==
  ASSUME NEW b \in Nat \ {0}, NEW body
  PROVE  Loop(b, body).code = IF LoopCounts(b).lcnt0 = 0 THEN Inner(b, body)
                              ELSE LP(0, LoopCounts(b).lcnt0) \o Inner(b, body)
                                     \o LPEND(0, Len(Inner(b, body)))
PROOF
  BY DEF Loop, Inner, Copies

\* Where an inner loop stands, its head, its copies and its end stand.
LEMMA InnerCode ==
  ASSUME NEW b \in Nat \ {0}, NEW body, IsCode(body), NEW l \in 1 .. 7, Len(body) = l
  PROVE  /\ IsCode(Inner(b, body))
         /\ Len(Inner(b, body)) = 4 + Copies(b, body) * l
         /\ \A p : \A k \in Nat : At(p, k, Inner(b, body)) =>
              /\ At(p, k, LP(1, LoopCounts(b).lcnt1))
              /\ At(p, k + 2, Repeated(body, Copies(b, body)))
              /\ At(p, k + 2 + Copies(b, body) * l, LPEND(1, Copies(b, body) * l))
PROOF
<1> DEFINE v == LoopCounts(b).lcnt1
           cyc == Copies(b, body)
           x == LP(1, v)
           y == Repeated(body, cyc)
           z == LPEND(1, cyc * l)
<1>1. cyc \in Nat /\ cyc * l \in Nat
  BY CopiesSound
<1>2. Inner(b, body) = (x \o y) \o z
  BY DEF Inner
<1>3. IsCode(x) /\ Len(x) = 2 /\ IsCode(z) /\ Len(z) = 2
  BY ShortCodes
<1>4. IsCode(y) /\ Len(y) = cyc * l
  <2> HIDE DEF cyc
  <2> QED BY <1>1, RepeatedCode
<1> HIDE DEF x, y, z, cyc
<1>5. IsCode(x \o y) /\ Len(x \o y) = Len(x) + Len(y)
  BY <1>3, <1>4, JoinedLength
<1>6. IsCode((x \o y) \o z) /\ Len((x \o y) \o z) = Len(x \o y) + Len(z)
  BY <1>3, <1>5, JoinedLength
<1>7. ASSUME NEW p, NEW k \in Nat, At(p, k, (x \o y) \o z)
      PROVE  At(p, k, x) /\ At(p, k + 2, y) /\ At(p, k + 2 + cyc * l, z)
  <2>1. At(p, k, x \o y) /\ At(p, k + Len(x \o y), z)
    BY <1>3, <1>5, <1>7, AtParts
  <2>2. At(p, k, x) /\ At(p, k + Len(x), y)
    BY <1>3, <1>4, <2>1, AtParts
  <2>3. k + Len(x \o y) = k + 2 + cyc * l
    BY <1>1, <1>3, <1>4, <1>5
  <2> QED
    BY <1>3, <2>1, <2>2, <2>3
<1>8. Len(Inner(b, body)) = 4 + cyc * l
  BY <1>1, <1>2, <1>3, <1>4, <1>5, <1>6
<1> QED
  BY <1>2, <1>6, <1>7, <1>8 DEF x, y, z, cyc

\* Where a nest stands, its inner loop and the ends of its outer one stand.
LEMMA NestCode ==
  ASSUME NEW b \in Nat \ {0}, NEW body, IsCode(body), NEW l \in 1 .. 7, Len(body) = l
  PROVE  /\ IsCode(Loop(b, body).code) /\ Len(Loop(b, body).code) = Size(b, body)
         /\ Size(b, body) \in Nat /\ Header(b) \in {0, 2}
         /\ \A p : \A k \in Nat : At(p, k, Loop(b, body).code) =>
              /\ At(p, k + Header(b), Inner(b, body))
              /\ Header(b) = 2 => /\ At(p, k, LP(0, LoopCounts(b).lcnt0))
                                /\ At(p, k + 6 + Copies(b, body) * l,
                                      LPEND(0, 4 + Copies(b, body) * l))
PROOF
<1> DEFINE u == LoopCounts(b).lcnt0
           cyc == Copies(b, body)
           x == LP(0, u)
           y == Inner(b, body)
           z == LPEND(0, Len(y))
<1>1. cyc \in Nat /\ cyc * l \in Nat
  BY CopiesSound
<1>2. IsCode(x) /\ Len(x) = 2 /\ IsCode(z) /\ Len(z) = 2
  BY ShortCodes
<1>3. IsCode(y) /\ Len(y) = 4 + cyc * l
  BY InnerCode
<1>4. Loop(b, body).code = IF u = 0 THEN y ELSE (x \o y) \o z
  BY LoopCode
<1>5. Header(b) = IF u = 0 THEN 0 ELSE 2
  BY DEF Header
<1>6. Size(b, body) = Header(b) + 2 + cyc * l + 2 + Header(b)
  BY DEF Size
<1>z. z = LPEND(0, 4 + cyc * l)
  BY <1>3
<1> HIDE DEF x, y, z, cyc, u
<1>7. Size(b, body) \in Nat /\ Header(b) \in {0, 2}
  BY <1>1, <1>5, <1>6
<1>8. CASE u = 0
  <2>1. Loop(b, body).code = y /\ Header(b) = 0
    BY <1>4, <1>5, <1>8
  <2>2. Size(b, body) = 4 + cyc * l
    BY <1>1, <1>6, <2>1
  <2>3. \A p : \A k \in Nat : k + Header(b) = k
    BY <2>1
  <2> QED
    BY <1>3, <1>7, <2>1, <2>2, <2>3 DEF y
<1>9. CASE u # 0
  <2>1. Loop(b, body).code = (x \o y) \o z /\ Header(b) = 2
    BY <1>4, <1>5, <1>9
  <2>2. IsCode(x \o y) /\ Len(x \o y) = Len(x) + Len(y)
    BY <1>2, <1>3, JoinedLength
  <2>3. IsCode((x \o y) \o z) /\ Len((x \o y) \o z) = Len(x \o y) + Len(z)
    BY <1>2, <2>2, JoinedLength
  <2>4. Len((x \o y) \o z) = Size(b, body)
    BY <1>1, <1>2, <1>3, <1>6, <2>1, <2>2, <2>3
  <2>5. ASSUME NEW p, NEW k \in Nat, At(p, k, (x \o y) \o z)
        PROVE  At(p, k, x) /\ At(p, k + 2, y) /\ At(p, k + 6 + cyc * l, z)
    <3>1. At(p, k, x \o y) /\ At(p, k + Len(x \o y), z)
      BY <1>2, <2>2, <2>5, AtParts
    <3>2. At(p, k, x) /\ At(p, k + Len(x), y)
      BY <1>2, <1>3, <3>1, AtParts
    <3>3. k + Len(x \o y) = k + 6 + cyc * l
      BY <1>1, <1>2, <1>3, <2>2
    <3> QED
      BY <1>2, <3>1, <3>2, <3>3
  <2>6. \A p : \A k \in Nat : At(p, k, Loop(b, body).code) =>
           /\ At(p, k + Header(b), y)
           /\ At(p, k, x) /\ At(p, k + 6 + cyc * l, z)
    BY <2>1, <2>5
  <2>7. IsCode(Loop(b, body).code) /\ Len(Loop(b, body).code) = Size(b, body)
    BY <2>1, <2>3, <2>4
  <2> QED
    BY <1>7, <1>z, <2>6, <2>7 DEF x, y, cyc, u
<1> QED
  BY <1>8, <1>9

--------------------------------------------------------------------------------
\* The loops for any number of bursts are code: no recursion is cut off.
LEMMA LoopsCode ==
  ASSUME NEW body, IsCode(body), NEW l \in 1 .. 7, Len(body) = l, NEW b \in Nat
  PROVE  IsCode(SetupLoops(b, body))
PROOF
<1> DEFINE S == {a \in Nat : ~IsCode(SetupLoops(a, body))}
<1> SUFFICES ASSUME S # {} PROVE FALSE
  OBVIOUS
<1>1. PICK a \in S : \A d \in S : a <= d
  <2>1. S \subseteq Nat
    OBVIOUS
  <2> HIDE DEF S
  <2> QED BY <2>1, LeastNat
<1>2. a \in Nat /\ ~IsCode(SetupLoops(a, body))
  OBVIOUS
<1>0. Len(body) \in 1 .. 7
  OBVIOUS
<1>3. CASE a = 0
  <2>1. SetupLoops(a, body) = << >>
    BY <1>0, <1>2, <1>3, LoopsEquation
  <2>2. IsCode(<< >>)
    <3>1. << >> \in Seq({0})
      OBVIOUS
    <3> QED BY <3>1 DEF IsCode
  <2> QED
    BY <1>2, <2>1, <2>2
<1>4. CASE a # 0
  <2> DEFINE d == a - Loop(a, body).bursts
  <2>0. a \in Nat \ {0}
    BY <1>2, <1>4
  <2>1. Loop(a, body).bursts \in 1 .. a
    <3> HIDE DEF S
    <3> QED BY <2>0, CopiesSound
  <2>2. d \in Nat /\ d < a
    BY <1>2, <2>1
  <2>3. SetupLoops(a, body) = Loop(a, body).code \o SetupLoops(d, body)
    <3> HIDE DEF S
    <3> QED BY <1>0, <2>0, LoopsEquation
  <2> HIDE DEF d
  <2>4. IsCode(SetupLoops(d, body))
    <3>1. ~(a <= d)
      BY <1>2, <2>2
    <3>2. d \notin S
      <4> HIDE DEF S
      <4> QED BY <1>1, <3>1
    <3> QED BY <2>2, <3>2
  <2>5. IsCode(Loop(a, body).code)
    <3> HIDE DEF S
    <3> QED BY <2>0, NestCode
  <2>6. IsCode(Loop(a, body).code \o SetupLoops(d, body))
    BY <2>4, <2>5, JoinedLength
  <2> QED
    BY <1>2, <2>3, <2>6
<1> QED
  BY <1>3, <1>4

\* The loops for b bursts are ahead at k, and behind them the event.
Ahead(p, k, b, body) ==
  At(p, k, SetupLoops(b, body)) /\ At(p, k + Len(SetupLoops(b, body)), SEV)

\* Behind the first nest the loops for the bursts that it leaves are ahead.
LEMMA Peel ==
  ASSUME NEW p, NEW k \in Nat, NEW b \in Nat \ {0},
         NEW body, IsCode(body), NEW l \in 1 .. 7, Len(body) = l, Ahead(p, k, b, body)
  PROVE  /\ At(p, k, Loop(b, body).code)
         /\ k + Size(b, body) \in Nat
         /\ Ahead(p, k + Size(b, body), b - Loop(b, body).bursts, body)
PROOF
<1> DEFINE d == b - Loop(b, body).bursts
           x == Loop(b, body).code
           y == SetupLoops(d, body)
<1>1. d \in Nat
  <2>1. Loop(b, body).bursts \in 1 .. b
    BY CopiesSound
  <2> QED BY <2>1
<1>2. SetupLoops(b, body) = x \o y
  <2>1. Len(body) \in 1 .. 7 /\ b # 0
    OBVIOUS
  <2> QED BY <2>1, LoopsEquation
<1>3. IsCode(x) /\ Len(x) = Size(b, body) /\ Size(b, body) \in Nat
  BY NestCode
<1> HIDE DEF d
<1>4. IsCode(y)
  BY <1>1, LoopsCode
<1> HIDE DEF x, y
<1>5. Len(x \o y) = Len(x) + Len(y) /\ Len(y) \in Nat
  BY <1>3, <1>4, JoinedCode
<1>6. At(p, k, x \o y) /\ At(p, k + Len(x \o y), SEV)
  BY <1>2 DEF Ahead
<1>7. At(p, k, x) /\ At(p, k + Len(x), y)
  BY <1>3, <1>4, <1>6, AtParts
<1>8. k + Len(x \o y) = (k + Size(b, body)) + Len(y)
  BY <1>3, <1>5
<1>9. At(p, k + Size(b, body), y) /\ At(p, (k + Size(b, body)) + Len(y), SEV)
  BY <1>3, <1>6, <1>7, <1>8
<1> QED
  BY <1>3, <1>7, <1>9 DEF Ahead, x, y, d

--------------------------------------------------------------------------------
\* The requests dma330_submit_req does not refuse for their length.
Requests == {d \in Calls : Aligned(d)}

\* Bytes of a burst of the request, and the number of its bursts.
BytesOf(c) == BurstBytes(PrepareCCR(c))
BurstsOf(c) == c.bytes \div BytesOf(c)

\* What a client passes.
LEMMA CallType ==
  ASSUME NEW c \in Calls
  PROVE  c.type \in Types /\ c.bytes \in Nat \ {0} /\ c.align \in Widths
PROOF
<1>1. c \in [type : Types, bytes : Nat \ {0}, align : Widths]
  BY MicrocodeAssumption
<1> QED
  BY <1>1

\* A set of numbers up to a bound has a greatest one.
LEMMA GreatestIn ==
  ASSUME NEW n \in Nat, NEW S, S \subseteq 0 .. n, S # {}
  PROVE  Greatest(S) \in S
PROOF
<1> DEFINE T == {k \in Nat : n - k \in S}
<1>1. T \subseteq Nat /\ T # {}
  <2>1. PICK l \in S : TRUE
    OBVIOUS
  <2>2. n - l \in Nat /\ n - (n - l) = l
    OBVIOUS
  <2> QED
    BY <2>1, <2>2
<1>2. \E m \in T : \A k \in T : m <= k
  <2> HIDE DEF T
  <2> QED BY <1>1, LeastNat
<1>3. PICK m \in T : \A k \in T : m <= k
  BY <1>2
<1>4. n - m \in S
  OBVIOUS
<1>5. ASSUME NEW k \in S PROVE k <= n - m
  <2>1. n - k \in Nat /\ n - (n - k) = k
    OBVIOUS
  <2>2. n - k \in T
    BY <2>1
  <2>3. m <= n - k
    BY <1>3, <2>2
  <2> QED
    BY <2>3
<1> QED
  BY <1>4, <1>5 DEF Greatest

\* A beat has one of the widths, and that of a copy is no wider than the bus.
LEMMA BeatSizeType ==
  ASSUME NEW c \in Calls
  PROVE  BeatSize(c) \in Widths /\ (c.type = "memtomem" => BeatSize(c) <= BeatMax)
PROOF
<1>1. c.type \in Types /\ c.bytes \in Nat \ {0} /\ c.align \in Widths
  BY CallType
<1>2. CASE c.type # "memtomem"
  BY <1>1, <1>2 DEF BeatSize
<1>3. CASE c.type = "memtomem"
  <2> DEFINE fit(b) == b <= BeatMax /\ b <= c.align /\ c.bytes % b = 0
             S == {b \in Widths : fit(b)}
  <2>1. BeatSize(c) = Greatest(S)
    BY <1>3 DEF BeatSize
  <2>2. fit(1) /\ \A b \in S : b <= BeatMax
    BY <1>1, MicrocodeAssumption DEF Widths
  <2> HIDE DEF fit
  <2>3. 1 \in S /\ S \subseteq 0 .. 64 /\ S \subseteq Widths
    BY <2>2 DEF Widths
  <2> HIDE DEF S
  <2>4. Greatest(S) \in S
    BY <2>3, GreatestIn
  <2> QED
    BY <2>1, <2>2, <2>3, <2>4
<1> QED
  BY <1>2, <1>3

\* The length of a burst is a number of beats, as many as the MFIFO has room for.
LEMMA BurstLenType ==
  ASSUME NEW c \in Calls
  PROVE  LET fits == (BeatMax * Lines) \div BeatSize(c) IN
           /\ BurstLen(c) \in Int
           /\ fits >= 1 => BurstLen(c) \in 1 .. 16 /\ BurstLen(c) <= fits
PROOF
<1>1. BeatSize(c) \in Nat \ {0}
  BY BeatSizeType DEF Widths
<1> DEFINE fits  == (BeatMax * Lines) \div BeatSize(c)
           limit == IF fits > 16 THEN 16 ELSE fits
           even  == {l \in 2 .. limit : c.bytes % (l * BeatSize(c)) = 0}
<1>2. BurstLen(c) = IF limit <= 1 THEN limit ELSE IF even = {} THEN 1 ELSE Greatest(even)
  BY DEF BurstLen
<1>3. fits \in Int
  <2>1. BeatMax * Lines \in Nat
    BY MicrocodeAssumption DEF Widths
  <2> DEFINE room == BeatMax * Lines
  <2> HIDE DEF room
  <2>2. room \div BeatSize(c) \in Nat
    BY <1>1, <2>1, DivFact DEF room
  <2> QED
    BY <2>2 DEF room
<1> HIDE DEF fits
<1>4. limit \in Int /\ limit <= 16 /\ limit <= fits
  BY <1>3
<1>9. fits >= 1 => limit >= 1
  BY <1>3
<1> HIDE DEF limit
<1>5. even \subseteq 2 .. 16 /\ \A l \in even : l <= limit
  BY <1>4
<1> HIDE DEF even
<1>6. ASSUME even # {} PROVE Greatest(even) \in 2 .. 16 /\ Greatest(even) <= limit
  <2>1. even \subseteq 0 .. 16
    BY <1>5
  <2>2. Greatest(even) \in even
    BY <1>6, <2>1, GreatestIn
  <2> QED
    BY <1>5, <2>2
<1>7. BurstLen(c) \in Int
  BY <1>2, <1>4, <1>6
<1>8. ASSUME fits >= 1 PROVE BurstLen(c) \in 1 .. 16 /\ BurstLen(c) <= fits
  <2>1. limit >= 1
    BY <1>8, <1>9
  <2>2. CASE limit <= 1
    BY <1>2, <1>3, <1>4, <2>1, <2>2
  <2>3. CASE limit > 1 /\ even = {}
    BY <1>2, <1>3, <1>4, <2>3
  <2>4. CASE limit > 1 /\ even # {}
    BY <1>2, <1>3, <1>4, <1>6, <2>4
  <2> QED
    BY <1>4, <2>2, <2>3, <2>4
<1> QED
  BY <1>7, <1>8 DEF fits

\* A burst moves at least a byte.
LEMMA BytesOfType ==
  ASSUME NEW c \in Calls
  PROVE  BytesOf(c) \in Nat \ {0} /\ BurstsOf(c) \in Nat
PROOF
<1> DEFINE len == IF c.type = "memtomem" THEN BurstLen(c) ELSE 1
<1>1. len \in Int
  BY BurstLenType
<1>2. PrepareCCR(c) = [size |-> BeatSize(c), len |-> (len - 1) % 16]
  BY DEF PrepareCCR
<1> HIDE DEF len
<1> DEFINE m == (len - 1) % 16
<1>3. m \in Nat
  BY <1>1
<1>4. BytesOf(c) = BeatSize(c) * (m + 1)
  BY <1>2 DEF BytesOf, BurstBytes
<1> HIDE DEF m
<1>5. BytesOf(c) \in Nat \ {0}
  <2>1. BeatSize(c) \in Nat \ {0}
    BY BeatSizeType DEF Widths
  <2> DEFINE z == BeatSize(c)
  <2>2. z \in Nat \ {0} /\ BytesOf(c) = z * (m + 1)
    BY <1>4, <2>1
  <2> HIDE DEF z
  <2>3. z * (m + 1) \in Nat \ {0}
    BY <1>3, <2>2
  <2> QED
    BY <2>2, <2>3
<1>6. c.bytes \in Nat
  BY CallType
<1> QED
  BY <1>5, <1>6, DivFact DEF BurstsOf

\* The channel's part of the MFIFO has room for a burst: of a copy if there is such
\* a part, of a device if a beat is no wider than it.
LEMMA BurstFits ==
  ASSUME NEW c \in Calls, Roomy(c)
  PROVE  BytesOf(c) <= BeatMax * Lines
PROOF
<1> DEFINE room == BeatMax * Lines
           z == BeatSize(c)
           len == IF c.type = "memtomem" THEN BurstLen(c) ELSE 1
<1>1. room \in Nat /\ (c.type = "memtomem" => room >= BeatMax)
  <2>1. BeatMax \in Nat /\ Lines \in Nat
    BY MicrocodeAssumption DEF Widths
  <2>2. BeatMax * Lines \in Nat
    BY <2>1, ProductGrows
  <2>3. ASSUME c.type = "memtomem" PROVE BeatMax * 1 <= BeatMax * Lines
    <3>1. 1 \in Nat /\ 1 <= Lines
      BY <2>1, <2>3 DEF Roomy
    <3> QED BY <2>1, <3>1, ProductGrows
  <2> QED
    BY <2>1, <2>2, <2>3
<1>2. z \in Nat \ {0} /\ (c.type = "memtomem" => z <= BeatMax)
  BY BeatSizeType DEF Widths
<1>3. BeatMax \in Nat /\ c.align \in Nat
  BY CallType, MicrocodeAssumption DEF Widths
<1>4. c.type # "memtomem" => z = c.align
  BY DEF BeatSize
<1>5. z <= room
  <2> HIDE DEF room, z
  <2> QED BY <1>1, <1>2, <1>3, <1>4 DEF Roomy, room
<1> DEFINE fits == room \div z
<1>6. fits \in Nat /\ fits >= 1 /\ z * fits <= room
  <2> HIDE DEF room, z
  <2>1. z \in Nat \ {0}
    BY <1>2
  <2> QED BY <1>1, <1>5, <2>1, DivFact, DivPositive
<1>7. len \in 1 .. 16 /\ len <= fits
  <2>1. fits >= 1 => BurstLen(c) \in 1 .. 16 /\ BurstLen(c) <= fits
    BY BurstLenType
  <2> HIDE DEF fits
  <2> QED BY <1>6, <2>1
<1>8. BytesOf(c) = z * (((len - 1) % 16) + 1)
  BY DEF BytesOf, BurstBytes, PrepareCCR
<1> HIDE DEF len, fits, z
<1>9. ((len - 1) % 16) + 1 = len
  BY <1>7
<1>10. z * len <= z * fits
  BY <1>2, <1>6, <1>7, ProductGrows
<1>11. z * len \in Int /\ z * fits \in Int
  BY <1>2, <1>6, <1>7
<1> HIDE DEF room
<1> QED
  BY <1>1, <1>6, <1>8, <1>9, <1>10, <1>11 DEF room

\* The bursts of a request that is accepted are its bytes, all of them.
LEMMA WholeBursts ==
  ASSUME NEW c \in Requests
  PROVE  c.bytes = BurstsOf(c) * BytesOf(c)
PROOF
<1> DEFINE a == c.bytes
           m == BytesOf(c)
<1>1. m \in Nat \ {0} /\ a \in Nat
  BY BytesOfType, CallType DEF Requests
<1>2. a % m = 0
  BY DEF Requests, Aligned, BytesOf
<1>3. BurstsOf(c) = a \div m
  BY DEF BurstsOf
<1> HIDE DEF a, m
<1>4. a = m * (a \div m) + (a % m)
  BY <1>1
<1>5. a \div m \in Nat
  BY <1>1
<1>6. a = (a \div m) * m
  BY <1>1, <1>2, <1>4, <1>5
<1> QED
  BY <1>3, <1>6 DEF a, m

\* A program sets its registers, flushes the peripheral and goes on to the loops
\* for all the bursts of its request.
LEMMA ProgramCode ==
  ASSUME NEW c \in Requests, NEW lf \in BOOLEAN
  PROVE  LET p == Programs[lf][c] IN
           /\ IsCode(p)
           /\ At(p, 0, MOV("CCR", PrepareCCR(c)))
           /\ At(p, 6, MOV("SAR", "src")) /\ At(p, 12, MOV("DAR", "dst"))
           /\ At(p, 18, FLUSHP)
           /\ Ahead(p, 20, BurstsOf(c), Burst(c.type, lf))
PROOF
<1> DEFINE a == MOV("CCR", PrepareCCR(c))
           s == MOV("SAR", "src")
           d == MOV("DAR", "dst")
           f == FLUSHP
           w == SetupLoops(BurstsOf(c), Burst(c.type, lf))
           p == (((((a \o s) \o d) \o f) \o w) \o SEV) \o END
<1>1. Programs[lf][c] = p
  <2>1. Programs[lf][c] = Program(c, lf)
    BY DEF Programs, Requests
  <2>2. Program(c, lf) = p
    BY DEF Program, BurstsOf, BytesOf
  <2> QED
    BY <2>1, <2>2
<1>2. IsCode(a) /\ IsCode(s) /\ IsCode(d)
  BY ShortCodes
<1>3. Len(a) = 6 /\ Len(s) = 6 /\ Len(d) = 6
  BY ShortCodes
<1>4. IsCode(f) /\ Len(f) = 2
  BY ShortCodes
<1>5. IsCode(SEV) /\ IsCode(END)
  BY ShortCodes
<1>6. IsCode(w)
  <2>1. c \in Calls /\ c.type \in Types
    BY CallType DEF Requests
  <2>2. BurstsOf(c) \in Nat
    BY <2>1, BytesOfType
  <2> DEFINE body == Burst(c.type, lf)
  <2>3. IsCode(body) /\ Len(body) \in 1 .. 7
    BY <2>1, BodyLength
  <2> HIDE DEF body
  <2>4. IsCode(SetupLoops(BurstsOf(c), body))
    BY <2>2, <2>3, LoopsCode
  <2> QED
    BY <2>4 DEF body
<1> HIDE DEF a, s, d, f, w
<1> DEFINE p2 == a \o s
           p3 == p2 \o d
           p4 == p3 \o f
           p5 == p4 \o w
           p6 == p5 \o SEV
<1>7. IsCode(p2) /\ Len(p2) = Len(a) + Len(s)
  BY <1>2, JoinedLength
<1> HIDE DEF p2
<1>8. IsCode(p3) /\ Len(p3) = Len(p2) + Len(d)
  BY <1>2, <1>7, JoinedLength
<1> HIDE DEF p3
<1>9. IsCode(p4) /\ Len(p4) = Len(p3) + Len(f)
  BY <1>4, <1>8, JoinedLength
<1> HIDE DEF p4
<1>10. IsCode(p5) /\ Len(p5) = Len(p4) + Len(w)
  BY <1>6, <1>9, JoinedLength
<1> HIDE DEF p5
<1>11. IsCode(p6)
  BY <1>5, <1>10, JoinedLength
<1> HIDE DEF p6
<1>12. p = p6 \o END /\ IsCode(p)
  <2>1. IsCode(p6 \o END)
    BY <1>5, <1>11, JoinedLength
  <2> QED
    BY <2>1 DEF p6, p5, p4, p3, p2
<1> HIDE DEF p
<1>13. At(p, 0, p6)
  <2>1. At(p, 0, p6 \o END)
    BY <1>12, AtWhole
  <2> QED
    BY <1>5, <1>11, <2>1, AtParts
<1>14. At(p, 0, p5) /\ At(p, 0 + Len(p5), SEV)
  <2>1. At(p, 0, p5 \o SEV)
    BY <1>13 DEF p6
  <2> QED
    BY <1>5, <1>10, <2>1, AtParts
<1>15. At(p, 0, p4) /\ At(p, 0 + Len(p4), w)
  <2>1. At(p, 0, p4 \o w)
    BY <1>14 DEF p5
  <2> QED
    BY <1>6, <1>9, <2>1, AtParts
<1>16. At(p, 0, p3) /\ At(p, 0 + Len(p3), f)
  <2>1. At(p, 0, p3 \o f)
    BY <1>15 DEF p4
  <2> QED
    BY <1>4, <1>8, <2>1, AtParts
<1>17. At(p, 0, p2) /\ At(p, 0 + Len(p2), d)
  <2>1. At(p, 0, p2 \o d)
    BY <1>16 DEF p3
  <2> QED
    BY <1>2, <1>7, <2>1, AtParts
<1>18. At(p, 0, a) /\ At(p, 0 + Len(a), s)
  <2>1. At(p, 0, a \o s)
    BY <1>17 DEF p2
  <2> QED
    BY <1>2, <2>1, AtParts
<1>19. Len(a) = 6 /\ Len(p2) = 12 /\ Len(p3) = 18 /\ Len(p4) = 20
  BY <1>3, <1>4, <1>7, <1>8, <1>9
<1>20. Len(w) \in Nat
  BY <1>6, JoinedCode
<1>21. /\ 0 + Len(a) = 6 /\ 0 + Len(p2) = 12 /\ 0 + Len(p3) = 18 /\ 0 + Len(p4) = 20
       /\ 0 + Len(p5) = 20 + Len(w)
  BY <1>10, <1>19, <1>20
<1>22. At(p, 6, s) /\ At(p, 12, d) /\ At(p, 18, f) /\ At(p, 20, w) /\ At(p, 20 + Len(w), SEV)
  BY <1>14, <1>15, <1>16, <1>17, <1>18, <1>21
<1> QED
  BY <1>1, <1>12, <1>18, <1>22 DEF a, s, d, f, w, Ahead

\* The bytes of a program are numbered from 1, of any request.
LEMMA NumberedBytes ==
  ASSUME NEW c \in Requests, NEW lf \in BOOLEAN
  PROVE  /\ Len(Programs[lf][c]) \in Nat
         /\ DOMAIN Programs[lf][c] = 1 .. Len(Programs[lf][c])
PROOF
<1> DEFINE p == Programs[lf][c]
<1>1. IsCode(p)
  BY ProgramCode
<1> HIDE DEF p
<1>2. PICK S : p \in Seq(S)
  BY <1>1 DEF IsCode
<1> QED
  BY <1>2 DEF p

--------------------------------------------------------------------------------
\* The buffer.  What ProgramIntact needs besides is that a slot holds nothing but
\* a request that was accepted.
MemInv ==
  /\ DOMAIN mem = 0 .. 2 * HalfSize - 1
  /\ lockupFree \in BOOLEAN
  /\ req \in [Slots -> Requests \cup {NONE}]
  /\ lstenq \in Slots /\ running \in Slots \cup {-1}
  /\ ProgramIntact

\* A free slot is not taken for a request.
LEMMA NoneNoCall == NONE \notin Calls
PROOF
<1> SUFFICES ASSUME NONE \in Calls PROVE FALSE
  OBVIOUS
<1>1. NONE \in [type : Types, bytes : Nat \ {0}, align : Widths]
  BY MicrocodeAssumption
<1>2. NONE.type \in Types
  BY <1>1
<1> QED
  BY <1>2 DEF NONE, Types

\* At first nothing is hooked.
LEMMA InitMem == Init => MemInv
PROOF
<1> SUFFICES ASSUME Init PROVE MemInv
  OBVIOUS
<1>1. \A s \in Slots : req[s] = NONE
  BY DEF Init
<1> QED
  BY <1>1 DEF Init, MemInv, ProgramIntact, Slots

\* A submission writes the half of a slot that is free and no other.
LEMMA SubmitMem ==
  ASSUME MemInv, NEW c \in Calls, Submit(c)
  PROVE  MemInv'
PROOF
<1> DEFINE f == FreeSlot
           p == Programs[lockupFree][c]
<1>1. f \in Slots /\ req[f] = NONE
  BY DEF Submit, FreeSlot, Slots
<1>2. c \in Requests /\ lockupFree \in BOOLEAN
  BY DEF Submit, MemInv, Requests
<1>3. Len(p) \in Nat /\ DOMAIN p = 1 .. Len(p) /\ Len(p) <= HalfSize
  BY <1>2, NumberedBytes DEF Submit, FitsHalf
<1>4. HalfSize \in Nat
  BY MicrocodeAssumption
<1>5. /\ mem' = [a \in DOMAIN mem |-> IF a - Base(f) + 1 \in DOMAIN p
                                       THEN p[a - Base(f) + 1] ELSE mem[a]]
      /\ lockupFree' = lockupFree /\ running' = running /\ lstenq' = f
      /\ req' = [req EXCEPT ![f] = c]
  BY DEF Submit, Written, hwVars
<1>6. DOMAIN mem = 0 .. 2 * HalfSize - 1 /\ DOMAIN mem' = DOMAIN mem
  BY <1>5 DEF MemInv
<1> HIDE DEF f, p
<1>7. \A s \in Slots \ {f} : \A i : Base(s) + i - 1 \in Half(s) /\ i \in Nat
                                  => mem'[Base(s) + i - 1] = mem[Base(s) + i - 1]
  <2> SUFFICES ASSUME NEW s \in Slots \ {f}, NEW i \in Nat, Base(s) + i - 1 \in Half(s)
               PROVE  mem'[Base(s) + i - 1] = mem[Base(s) + i - 1]
    OBVIOUS
  <2> DEFINE a == Base(s) + i - 1
  <2>1. a \in Int /\ a \in DOMAIN mem
    BY <1>4, <1>6 DEF Half, Base, Slots
  <2>2. a - Base(f) + 1 \notin 1 .. Len(p)
    BY <1>1, <1>3, <1>4 DEF Half, Base, Slots
  <2> HIDE DEF a
  <2>3. mem'[a] = mem[a]
    BY <1>3, <1>5, <2>1, <2>2
  <2> QED
    BY <2>3 DEF a
<1>8. \A i \in DOMAIN p : Base(f) + i - 1 \in Half(f) /\ mem'[Base(f) + i - 1] = p[i]
  <2> SUFFICES ASSUME NEW i \in 1 .. Len(p)
               PROVE  Base(f) + i - 1 \in Half(f) /\ mem'[Base(f) + i - 1] = p[i]
    BY <1>3
  <2> DEFINE a == Base(f) + i - 1
  <2>1. a \in Half(f) /\ a \in DOMAIN mem /\ a - Base(f) + 1 = i
    BY <1>1, <1>3, <1>4, <1>6 DEF Half, Base, Slots
  <2> HIDE DEF a
  <2>2. mem'[a] = p[i]
    BY <1>3, <1>5, <2>1
  <2> QED
    BY <2>1, <2>2 DEF a
<1>9. ProgramIntact'
  <2> SUFFICES ASSUME NEW s \in Slots, req'[s] # NONE,
                      NEW i \in DOMAIN Programs[lockupFree'][req'[s]]
               PROVE  /\ Base(s) + i - 1 \in Half(s)
                      /\ mem'[Base(s) + i - 1] = Programs[lockupFree'][req'[s]][i]
    BY DEF ProgramIntact, Half, Base
  <2>1. CASE s = f
    <3>1. req'[s] = c
      BY <1>1, <1>5, <2>1 DEF MemInv
    <3> QED
      BY <1>5, <1>8, <2>1, <3>1 DEF p
  <2>2. CASE s # f
    <3>1. req'[s] = req[s] /\ req[s] \in Requests
      BY <1>5, <2>2 DEF MemInv
    <3>2. Base(s) + i - 1 \in Half(s) /\ mem[Base(s) + i - 1] = Programs[lockupFree][req[s]][i]
      BY <1>5, <3>1 DEF MemInv, ProgramIntact
    <3>3. i \in Nat
      BY <1>2, <1>5, <3>1, NumberedBytes
    <3> QED
      BY <1>5, <1>7, <2>2, <3>1, <3>2, <3>3
  <2> QED
    BY <2>1, <2>2
<1> QED
  BY <1>1, <1>2, <1>5, <1>6, <1>9 DEF MemInv

\* The end of a program leaves the half of the other slot alone.
LEMMA SevEndMem ==
  ASSUME MemInv, ExecSevEnd
  PROVE  MemInv'
PROOF
<1>1. /\ running \in Slots /\ running' = -1
      /\ req' = [req EXCEPT ![running] = NONE]
      /\ mem' = [a \in DOMAIN mem |-> IF a \in Half(running) THEN Junk ELSE mem[a]]
      /\ lockupFree' = lockupFree /\ lstenq' = lstenq
  BY DEF ExecSevEnd, Fetched, MemInv
<1>2. HalfSize \in Nat /\ DOMAIN mem = 0 .. 2 * HalfSize - 1
  BY MicrocodeAssumption DEF MemInv
<1>3. ProgramIntact'
  <2> SUFFICES ASSUME NEW s \in Slots, req'[s] # NONE,
                      NEW i \in DOMAIN Programs[lockupFree'][req'[s]]
               PROVE  /\ Base(s) + i - 1 \in Half(s)
                      /\ mem'[Base(s) + i - 1] = Programs[lockupFree'][req'[s]][i]
    BY DEF ProgramIntact, Half, Base
  <2>1. s # running /\ req'[s] = req[s]
    BY <1>1 DEF MemInv
  <2>2. Base(s) + i - 1 \in Half(s) /\ mem[Base(s) + i - 1] = Programs[lockupFree][req[s]][i]
    BY <1>1, <2>1 DEF MemInv, ProgramIntact
  <2> DEFINE a == Base(s) + i - 1
  <2>3. a \in Half(s) /\ mem[a] = Programs[lockupFree][req[s]][i]
    BY <2>2
  <2> HIDE DEF a
  <2>4. a \in DOMAIN mem /\ a \notin Half(running)
    BY <1>1, <1>2, <2>1, <2>3 DEF Half, Base, Slots
  <2>5. mem'[a] = mem[a]
    BY <1>1, <2>4
  <2> QED
    BY <1>1, <2>1, <2>2, <2>3, <2>5 DEF a
<1>4. req' \in [Slots -> Requests \cup {NONE}]
  BY <1>1 DEF MemInv
<1> QED
  BY <1>1, <1>2, <1>3, <1>4 DEF MemInv

\* Submissions and ends of programs are the steps that change the buffer.
LEMMA NextMem == MemInv /\ [Next]_vars => MemInv'
PROOF
<1> SUFFICES ASSUME MemInv, [Next]_vars PROVE MemInv'
  OBVIOUS
<1>1. ASSUME NEW c \in Calls, Submit(c) PROVE MemInv'
  BY <1>1, SubmitMem
<1>2. CASE ExecSevEnd
  BY <1>2, SevEndMem
<1>3. ASSUME UNCHANGED driverVars, running' \in Slots \cup {-1} PROVE MemInv'
  <2>1. ProgramIntact'
    BY <1>3 DEF MemInv, ProgramIntact, Half, Base, driverVars
  <2> QED
    BY <1>3, <2>1 DEF MemInv, driverVars
<1>4. CASE Trigger
  <2>1. running' \in Slots
    BY <1>4 DEF Trigger, SlotToRun, Slots, MemInv
  <2> QED
    BY <1>3, <1>4, <2>1 DEF Trigger
<1>5. CASE ExecMov \/ ExecLoad \/ ExecStore \/ ExecLoop \/ ExecLoopEnd \/ ExecWait
  <2>1. UNCHANGED <<driverVars, running>>
    BY <1>5 DEF ExecMov, ExecLoad, ExecStore, ExecLoop, ExecLoopEnd, ExecWait
  <2> QED
    BY <1>3, <2>1 DEF MemInv
<1>6. CASE UNCHANGED vars
  BY <1>3, <1>6 DEF vars, hwVars, MemInv
<1> QED
  BY <1>1, <1>2, <1>4, <1>5, <1>6 DEF Next, Exec

\* Whatever clients submit and however far the controller is, the program of a
\* hooked request lies in its own half of the buffer, as it was generated.
THEOREM ProgramIntactAlways == Spec => []ProgramIntact
PROOF
<1>1. MemInv => ProgramIntact
  BY DEF MemInv
<1> QED
  BY <1>1, InitMem, NextMem, PTL DEF Spec

--------------------------------------------------------------------------------
\* How far the controller is in the program of the request c: "left" bursts are
\* left to it, but for those of which it has begun to move the bytes.
Offset(k) == pc = Base(running) + k
Behind(c, left, x, y) ==
  /\ loaded = (BurstsOf(c) - left + x) * BytesOf(c)
  /\ stored = (BurstsOf(c) - left + y) * BytesOf(c)

\* A round of the inner loop in bursts, what the nest leaves to the loops behind
\* it, and what is left when the inner loop is done.
Round(b, body) == LoopCounts(b).lcnt1 * Copies(b, body)
Rest(b, body) == b - Loop(b, body).bursts
Outer(b, body) == (IF Header(b) = 0 THEN 0 ELSE lc[0]) * Round(b, body) + Rest(b, body)

\* Before the loops nothing is moved and the registers are set one by one.
InPrologue(c) ==
  \E k \in {0, 6, 12, 18} :
    Offset(k) /\ loaded = 0 /\ stored = 0 /\ (k # 0 => ccr = PrepareCCR(c))

\* Before the loops for b bursts, which begin at k: b bursts are left.  In the
\* nest at k the counters say how many: at the head of the inner loop ...
AtLoops(c, b, k) == Offset(k) /\ Behind(c, b, 0, 0)

AtInner(c, b, k, body) ==
  /\ Header(b) = 2 /\ Offset(k + 2)
  /\ Behind(c, Round(b, body) + Outer(b, body), 0, 0)

\* ... in the j-th copy of the body, at one of its stages ...
InBody(c, lf, b, k, body) ==
  \E j \in 0 .. Copies(b, body) - 1 : \E q \in Nat, x \in {0, 1}, y \in {0, 1} :
    /\ <<q, x, y>> \in Stages(c.type, lf)
    /\ Offset(k + Header(b) + 2 + j * Len(body) + q)
    /\ Behind(c, (Copies(b, body) - j) + lc[1] * Copies(b, body) + Outer(b, body), x, y)

\* ... behind the last copy, and at the end of the outer loop.
AtInnerEnd(c, b, k, body) ==
  /\ Offset(k + Header(b) + 2 + Copies(b, body) * Len(body))
  /\ Behind(c, lc[1] * Copies(b, body) + Outer(b, body), 0, 0)

AtOuterEnd(c, b, k, body) ==
  /\ Header(b) = 2 /\ Offset(k + 6 + Copies(b, body) * Len(body))
  /\ Behind(c, Outer(b, body), 0, 0)

\* In the loops: the loops for some number of bursts are ahead at some offset,
\* and the controller is before or within their first nest.
InLoops(c, lf) ==
  LET body == Burst(c.type, lf)  p == Programs[lf][c] IN
    /\ ccr = PrepareCCR(c)
    /\ \E b \in Nat, k \in Nat :
         /\ Ahead(p, k, b, body)
         /\ \/ AtLoops(c, b, k)
            \/ b # 0 /\ \/ AtInner(c, b, k, body)
                        \/ InBody(c, lf, b, k, body)
                        \/ AtInnerEnd(c, b, k, body)
                        \/ AtOuterEnd(c, b, k, body)

Located(c, lf) == InPrologue(c) \/ InLoops(c, lf)

\* The running program has come to a place that its bytes account for.
MoveInv ==
  /\ lc \in [{0, 1} -> Nat]
  /\ running # -1 => req[running] \in Requests /\ Located(req[running], lockupFree)

--------------------------------------------------------------------------------
\* What the controller fetches from its half of the buffer is the byte that was
\* generated, whatever the client has submitted to the other half.
LEMMA Fetching ==
  ASSUME MemInv, running # -1, NEW c \in Requests, req[running] = c,
         NEW k \in Nat, Offset(k), k + 1 \in DOMAIN Programs[lockupFree][c]
  PROVE  /\ pc \in DOMAIN mem /\ mem[pc] = Programs[lockupFree][c][k + 1]
         /\ pc - Base(running) + 1 = k + 1
PROOF
<1> DEFINE p == Programs[lockupFree][c]
<1>1. running \in Slots /\ c # NONE
  BY NoneNoCall DEF MemInv, Requests
<1>2. Base(running) + (k + 1) - 1 \in Half(running) /\ mem[Base(running) + (k + 1) - 1] = p[k + 1]
  <2>1. \A i \in DOMAIN p : Base(running) + i - 1 \in Half(running) /\ mem[Base(running) + i - 1] = p[i]
    BY <1>1 DEF MemInv, ProgramIntact
  <2> HIDE DEF p
  <2> QED
    BY <2>1 DEF p
<1> HIDE DEF p
<1>3. Base(running) \in Nat /\ HalfSize \in Nat /\ Half(running) \subseteq 0 .. 2 * HalfSize - 1
  BY <1>1, MicrocodeAssumption DEF Base, Slots, Half
<1>4. Base(running) + (k + 1) - 1 = pc /\ pc - Base(running) = k
  BY <1>3 DEF Offset
<1> QED
  BY <1>2, <1>3, <1>4 DEF MemInv, p

\* The opcode that is fetched decides what is executed.
LEMMA Decoding ==
  ASSUME Exec
  PROVE  /\ mem[pc].op = "MOV" => ExecMov
         /\ mem[pc].op = "LP" => ExecLoop
         /\ mem[pc].op = "LPEND" => ExecLoopEnd
         /\ mem[pc].op \in Loads => ExecLoad
         /\ mem[pc].op \in Stores => ExecStore
         /\ mem[pc].op \in Waits => ExecWait
         /\ mem[pc].op = "SEV" => ExecSevEnd
         /\ running # -1
PROOF
<1>1. CASE ExecMov
  <2>1. mem[pc].op = "MOV" /\ running # -1
    BY <1>1 DEF ExecMov, Fetched
  <2> QED BY <1>1, <2>1 DEF Loads, Stores, Waits
<1>2. CASE ExecLoad
  <2>1. mem[pc].op \in {"LD", "LDP"} /\ running # -1
    BY <1>2 DEF ExecLoad, Fetched
  <2> QED BY <1>2, <2>1 DEF Loads, Stores, Waits
<1>3. CASE ExecStore
  <2>1. mem[pc].op \in {"ST", "STP"} /\ running # -1
    BY <1>3 DEF ExecStore, Fetched
  <2> QED BY <1>3, <2>1 DEF Loads, Stores, Waits
<1>4. CASE ExecLoop
  <2>1. mem[pc].op = "LP" /\ running # -1
    BY <1>4 DEF ExecLoop, Fetched
  <2> QED BY <1>4, <2>1 DEF Loads, Stores, Waits
<1>5. CASE ExecLoopEnd
  <2>1. mem[pc].op = "LPEND" /\ running # -1
    BY <1>5 DEF ExecLoopEnd, Fetched
  <2> QED BY <1>5, <2>1 DEF Loads, Stores, Waits
<1>6. CASE ExecWait
  <2>1. mem[pc].op \in {"RMB", "WMB", "WFP", "FLUSHP"} /\ running # -1
    BY <1>6 DEF ExecWait, Fetched
  <2> QED BY <1>6, <2>1 DEF Loads, Stores, Waits
<1>7. CASE ExecSevEnd
  <2>1. mem[pc].op = "SEV" /\ running # -1
    BY <1>7 DEF ExecSevEnd, Fetched
  <2> QED BY <1>7, <2>1 DEF Loads, Stores, Waits
<1> QED
  BY <1>1, <1>2, <1>3, <1>4, <1>5, <1>6, <1>7 DEF Exec

\* The instruction at the beginning of a piece of code.
LEMMA AtFirst ==
  ASSUME NEW p, NEW k \in Nat, NEW s, IsCode(s), Len(s) \in Nat \ {0}, At(p, k, s)
  PROVE  k + 1 \in DOMAIN p /\ p[k + 1] = s[1]
PROOF
  BY DEF At

\* p stands for the program that runs; what stands at an offset of it is fetched.
Runs(c, lf) == running # -1 /\ req[running] = c /\ lockupFree = lf

\* At a piece of code of its program the controller fetches its first byte.
LEMMA FetchFirst ==
  ASSUME MemInv, NEW c \in Requests, NEW lf, Runs(c, lf), NEW k \in Nat, Offset(k),
         NEW s, IsCode(s), Len(s) \in Nat \ {0}, At(Programs[lf][c], k, s)
  PROVE  /\ pc \in DOMAIN mem /\ mem[pc] = s[1]
         /\ pc - Base(running) + 1 \in DOMAIN Programs[lf][c]
PROOF
<1>1. k + 1 \in DOMAIN Programs[lf][c] /\ Programs[lf][c][k + 1] = s[1]
  BY AtFirst
<1>2. /\ running # -1 /\ req[running] = c /\ lockupFree = lf
  BY DEF Runs
<1>3. /\ pc \in DOMAIN mem /\ mem[pc] = Programs[lf][c][k + 1]
      /\ pc - Base(running) + 1 = k + 1
  BY <1>1, <1>2, Fetching
<1> QED
  BY <1>1, <1>3

\* One burst more, one burst's bytes more.
LEMMA OneMore ==
  ASSUME NEW a \in Int, NEW m \in Nat
  PROVE  (a + 1) * m = a * m + m /\ a * m \in Int
PROOF OBVIOUS

\* A load has begun to move a burst.
LEMMA Loading ==
  ASSUME NEW c \in Requests, NEW left \in Int, Behind(c, left, 0, 0),
         loaded' = loaded + BytesOf(c), stored' = stored
  PROVE  Behind(c, left, 1, 0)'
PROOF
<1> DEFINE a == BurstsOf(c) - left
           m == BytesOf(c)
<1>1. a \in Int /\ m \in Nat
  BY BytesOfType DEF Requests
<1>2. a + 0 = a
  BY <1>1
<1>3. loaded = (a + 0) * m /\ stored = (a + 0) * m
  BY DEF Behind
<1>4. loaded' = loaded + m
  OBVIOUS
<1> HIDE DEF a, m
<1>5. loaded' = (a + 1) * m /\ stored' = (a + 0) * m
  BY <1>1, <1>2, <1>3, <1>4, OneMore
<1> QED
  BY <1>5 DEF Behind, a, m

\* A store ends it.
LEMMA Storing ==
  ASSUME NEW c \in Requests, NEW left \in Int, Behind(c, left, 1, 0),
         loaded' = loaded, stored' = stored + BytesOf(c)
  PROVE  Behind(c, left, 1, 1)'
PROOF
<1> DEFINE a == BurstsOf(c) - left
           m == BytesOf(c)
<1>1. a \in Int /\ m \in Nat
  BY BytesOfType DEF Requests
<1>2. a + 0 = a
  BY <1>1
<1>3. loaded = (a + 1) * m /\ stored = (a + 0) * m
  BY DEF Behind
<1>4. stored' = stored + m
  OBVIOUS
<1> HIDE DEF a, m
<1>5. loaded' = (a + 1) * m /\ stored' = (a + 1) * m
  BY <1>1, <1>2, <1>3, <1>4, OneMore
<1> QED
  BY <1>5 DEF Behind, a, m

\* Before a load nothing is on its way, before a store one burst.
LEMMA UnderWay ==
  ASSUME NEW c \in Requests, NEW left \in Int, NEW x \in {0, 1}, Behind(c, left, x, 0)
  PROVE  (x = 0 => loaded = stored) /\ (x = 1 => loaded = stored + BytesOf(c))
PROOF
<1> DEFINE a == BurstsOf(c) - left
           m == BytesOf(c)
<1>1. a \in Int /\ m \in Nat
  BY BytesOfType DEF Requests
<1>2. a + 0 = a
  BY <1>1
<1>3. loaded = (a + x) * m /\ stored = (a + 0) * m
  BY DEF Behind
<1> HIDE DEF a, m
<1>4. x = 1 => loaded = a * m + m
  BY <1>1, <1>3, OneMore
<1> QED
  BY <1>2, <1>3, <1>4 DEF m

\* An instruction that moves nothing leaves what is behind.
LEMMA Keeping ==
  ASSUME NEW c, NEW left, NEW x, NEW y, Behind(c, left, x, y),
         UNCHANGED <<loaded, stored>>
  PROVE  Behind(c, left, x, y)'
PROOF
  BY DEF Behind

\* A burst that is loaded and stored is one burst less that is left.
LEMMA BurstDone ==
  ASSUME NEW c \in Requests, NEW left \in Int, Behind(c, left, 1, 1)
  PROVE  Behind(c, left - 1, 0, 0)
PROOF
<1>1. BurstsOf(c) \in Int
  BY BytesOfType DEF Requests
<1>2. BurstsOf(c) - left + 1 = BurstsOf(c) - (left - 1) + 0
  BY <1>1
<1> QED
  BY <1>2 DEF Behind

\* No more is stored than was loaded, and no more loaded than was asked for.
Moved(c) ==
  loaded \in Int /\ stored \in Int /\ stored <= loaded /\ loaded <= c.bytes

\* With no bursts left all bytes are stored, and never are there too many.
LEMMA BehindBounds ==
  ASSUME NEW c \in Requests, NEW left \in Nat, NEW x \in {0, 1}, NEW y \in {0, 1},
         y <= x, x = 1 => left # 0, Behind(c, left, x, y)
  PROVE  Moved(c) /\ (left = 0 => stored = c.bytes)
PROOF
<1> DEFINE n == BurstsOf(c)
           m == BytesOf(c)
<1>1. n \in Nat /\ m \in Nat
  BY BytesOfType DEF Requests
<1>2. c.bytes = n * m
  BY WholeBursts
<1>3. loaded = (n - left + x) * m /\ stored = (n - left + y) * m
  BY DEF Behind
<1> HIDE DEF n, m
<1>4. n - left + x \in Int /\ n - left + y \in Int
  BY <1>1
<1>5. \A a, b \in Int : a <= b => a * m <= b * m
  <2> SUFFICES ASSUME NEW a \in Int, NEW b \in Int, a <= b PROVE a * m <= b * m
    OBVIOUS
  <2>1. (b - a) * m >= 0 /\ (b - a) * m = b * m - a * m /\ a * m \in Int /\ b * m \in Int
    BY <1>1
  <2> QED
    BY <2>1
<1>6. stored <= loaded
  <2>1. n - left + y <= n - left + x
    BY <1>1
  <2> QED
    BY <1>3, <1>4, <1>5, <2>1
<1>7. loaded <= n * m
  <2>1. n - left + x <= n
    BY <1>1
  <2> QED
    BY <1>1, <1>3, <1>4, <1>5, <2>1
<1>8. left = 0 => stored = n * m
  <2> SUFFICES ASSUME left = 0 PROVE stored = n * m
    OBVIOUS
  <2>1. n - left + y = n
    BY <1>1
  <2> QED
    BY <1>3, <2>1
<1>9. loaded \in Int /\ stored \in Int
  BY <1>1, <1>3, <1>4
<1> QED
  BY <1>2, <1>6, <1>7, <1>8, <1>9 DEF Moved

--------------------------------------------------------------------------------
\* A number that fits its field is not cut.
LEMMA SmallMod ==
  ASSUME NEW a \in Nat, NEW m \in Nat, a < m
  PROVE  a % m = a
PROOF OBVIOUS

\* What the counters of a nest amount to.
LEMMA NestNumbers ==
  ASSUME NEW b \in Nat \ {0}, NEW body, NEW l \in 1 .. 7, Len(body) = l
  PROVE  LET u == LoopCounts(b).lcnt0  v == LoopCounts(b).lcnt1
             cyc == Copies(b, body)  r == Round(b, body)  d == Rest(b, body)
         IN  /\ cyc \in Nat \ {0} /\ cyc * l \in Nat
             /\ r \in Nat /\ d \in Nat /\ Header(b) \in {0, 2}
             /\ v - 1 \in Nat /\ (v - 1) % LoopMax = v - 1
             /\ r = (v - 1) * cyc + cyc /\ (v - 1) * cyc \in Nat
             /\ (cyc * l) % (JumpMax + 1) = cyc * l
             /\ Header(b) = 0 => b = r + d
             /\ Header(b) = 2 => /\ u - 1 \in Nat /\ (u - 1) % LoopMax = u - 1
                                 /\ b = r + ((u - 1) * r + d) /\ (u - 1) * r \in Nat
                                 /\ (4 + cyc * l) % (JumpMax + 1) = 4 + cyc * l
PROOF
<1> DEFINE u == LoopCounts(b).lcnt0
           v == LoopCounts(b).lcnt1
           cyc == Copies(b, body)
           r == v * cyc
           d == b - Loop(b, body).bursts
           s == cyc * l
<1>1. /\ v \in 1 .. LoopMax /\ u \in 0 .. LoopMax
      /\ cyc \in Nat \ {0} /\ s \in Nat
      /\ s <= JumpMax
      /\ u # 0 => s + 4 <= JumpMax
      /\ Loop(b, body).bursts \in 1 .. b
      /\ Loop(b, body).bursts = (IF u = 0 THEN 1 ELSE u) * r
  BY CopiesSound
<1>2. Header(b) = IF u = 0 THEN 0 ELSE 2
  BY DEF Header
<1>3. Round(b, body) = r /\ Rest(b, body) = d
  BY DEF Round, Rest
<1>4. LoopMax \in Nat /\ JumpMax \in Nat
  BY MicrocodeAssumption
<1>d. d \in Nat /\ b = Loop(b, body).bursts + d
  <2>1. Loop(b, body).bursts \in 1 .. b
    BY CopiesSound
  <2> HIDE DEF u, v, cyc, r, s
  <2> QED
    BY <2>1
<1> HIDE DEF u, v, cyc, d, s
<1>5. v - 1 \in Nat /\ v - 1 < LoopMax
  BY <1>1, <1>4
<1>6. (v - 1) % LoopMax = v - 1
  BY <1>4, <1>5, SmallMod
<1>7. r = (v - 1) * cyc + cyc /\ (v - 1) * cyc \in Nat /\ r \in Nat
  BY <1>1, <1>5
<1> HIDE DEF r
<1>8. s % (JumpMax + 1) = s
  BY <1>1, <1>4, SmallMod
<1>9. Header(b) = 0 => b = r + d
  BY <1>1, <1>2, <1>7, <1>d
<1>10. ASSUME Header(b) = 2
       PROVE  /\ u - 1 \in Nat /\ (u - 1) % LoopMax = u - 1
              /\ b = r + ((u - 1) * r + d) /\ (u - 1) * r \in Nat
              /\ (4 + s) % (JumpMax + 1) = 4 + s
  <2>1. u # 0 /\ u \in Nat /\ u - 1 \in Nat /\ u - 1 < LoopMax
    BY <1>1, <1>2, <1>4, <1>10
  <2>2. (u - 1) % LoopMax = u - 1
    BY <1>4, <2>1, SmallMod
  <2>3. (4 + s) % (JumpMax + 1) = 4 + s
    BY <1>1, <1>4, <2>1, SmallMod
  <2>4. u * r = (u - 1) * r + r /\ (u - 1) * r \in Nat
    BY <1>7, <2>1
  <2>5. Loop(b, body).bursts = u * r
    BY <1>1, <2>1
  <2>6. b = r + ((u - 1) * r + d)
    BY <1>7, <1>d, <2>4, <2>5
  <2> QED
    BY <2>1, <2>2, <2>3, <2>4, <2>6
<1> QED
  BY <1>1, <1>2, <1>3, <1>5, <1>6, <1>7, <1>8, <1>9, <1>10, <1>d DEF u, v, cyc, s

\* The instructions of a nest, each at its offset.
LEMMA NestAt ==
  ASSUME NEW p, NEW k \in Nat, NEW b \in Nat \ {0},
         NEW body, IsCode(body), NEW l \in 1 .. 7, Len(body) = l, Ahead(p, k, b, body)
  PROVE  LET n == LoopCounts(b)  cyc == Copies(b, body)  h == Header(b) IN
           /\ At(p, k + h, LP(1, n.lcnt1))
           /\ At(p, k + h + 2, Repeated(body, cyc))
           /\ At(p, k + h + 2 + cyc * l, LPEND(1, cyc * l))
           /\ h = 2 => /\ At(p, k, LP(0, n.lcnt0))
                       /\ At(p, k + 6 + cyc * l, LPEND(0, 4 + cyc * l))
PROOF
<1>1. At(p, k, Loop(b, body).code)
  BY Peel
<1>2. /\ Header(b) \in {0, 2} /\ At(p, k + Header(b), Inner(b, body))
      /\ Header(b) = 2 => /\ At(p, k, LP(0, LoopCounts(b).lcnt0))
                          /\ At(p, k + 6 + Copies(b, body) * l,
                                LPEND(0, 4 + Copies(b, body) * l))
  BY <1>1, NestCode
<1>3. k + Header(b) \in Nat
  BY <1>2
<1>4. /\ At(p, k + Header(b), LP(1, LoopCounts(b).lcnt1))
      /\ At(p, k + Header(b) + 2, Repeated(body, Copies(b, body)))
      /\ At(p, k + Header(b) + 2 + Copies(b, body) * l, LPEND(1, Copies(b, body) * l))
  BY <1>2, <1>3, InnerCode
<1> QED
  BY <1>2, <1>4

\* What MovesExactly and NeverStuck ask for, of the request that runs: at a load
\* nothing is on its way, at a store one burst.
Observed(c, lf) ==
  /\ pc - Base(running) + 1 \in DOMAIN Programs[lf][c]
  /\ mem[pc] # Operand
  /\ Moved(c)
  /\ mem[pc].op = "SEV" => stored = c.bytes
  /\ mem[pc].op \in Loads \cup Stores => ccr = PrepareCCR(c)
  /\ mem[pc].op \in Loads => loaded = stored
  /\ mem[pc].op \in Stores => loaded = stored + BytesOf(c)

\* What an instruction does to the place of the controller.
Advanced(c, lf) ==
  \/ ExecSevEnd
  \/ UNCHANGED <<running, req, lockupFree>> /\ lc' \in [{0, 1} -> Nat] /\ Located(c, lf)'

\* The running controller, as all of the following lemmas find it.
Proceeds(c, lf) == MemInv /\ lc \in [{0, 1} -> Nat] /\ lf \in BOOLEAN /\ Runs(c, lf)

\* The types of what an instruction depends on.
LEMMA ProceedsFacts ==
  ASSUME NEW c \in Requests, NEW lf, Proceeds(c, lf)
  PROVE  /\ Base(running) \in Nat
         /\ c \in Calls /\ c.type \in Types /\ c.bytes \in Nat
         /\ BytesOf(c) \in Nat /\ BurstsOf(c) \in Nat
         /\ IsCode(Burst(c.type, lf)) /\ Len(Burst(c.type, lf)) \in 1 .. 7
PROOF
<1>1. running \in Slots
  BY DEF Proceeds, Runs, MemInv
<1>2. Base(running) \in Nat
  BY <1>1, MicrocodeAssumption DEF Base, Slots
<1>3. c \in Calls
  BY DEF Requests
<1>4. c.type \in Types /\ c.bytes \in Nat
  BY <1>3, CallType
<1>5. BytesOf(c) \in Nat /\ BurstsOf(c) \in Nat
  BY <1>3, BytesOfType
<1>6. IsCode(Burst(c.type, lf)) /\ Len(Burst(c.type, lf)) \in 1 .. 7
  BY <1>4, BodyLength DEF Proceeds
<1> QED
  BY <1>2, <1>3, <1>4, <1>5, <1>6

\* The program counter, from an offset to another.
LEMMA OffsetStep ==
  ASSUME Base(running) \in Int, NEW k \in Int, NEW d \in Int, Offset(k),
         pc' = pc + d, running' = running
  PROVE  Offset(k + d)'
PROOF
  BY DEF Offset, Base

\* An instruction that is read at its place.
LEMMA Reading ==
  ASSUME NEW c \in Requests, NEW lf, Proceeds(c, lf), NEW k \in Nat, Offset(k),
         NEW s, IsCode(s), Len(s) \in Nat \ {0}, At(Programs[lf][c], k, s), s[1].op # "operand"
  PROVE  mem[pc] = s[1] /\ mem[pc] # Operand /\ pc - Base(running) + 1 \in DOMAIN Programs[lf][c]
PROOF
<1>1. mem[pc] = s[1] /\ pc - Base(running) + 1 \in DOMAIN Programs[lf][c]
  BY FetchFirst DEF Proceeds
<1> QED
  BY <1>1 DEF Operand

\* In the prologue the registers are set, and the loops for all bursts follow.
LEMMA PrologueAdvance ==
  ASSUME NEW c \in Requests, NEW lf, Proceeds(c, lf), InPrologue(c)
  PROVE  Observed(c, lf) /\ (Exec => Advanced(c, lf))
PROOF
<1>1. PICK k \in {0, 6, 12, 18} :
        Offset(k) /\ loaded = 0 /\ stored = 0 /\ (k # 0 => ccr = PrepareCCR(c))
  BY DEF InPrologue
<1> DEFINE p == Programs[lf][c]
           body == Burst(c.type, lf)
<1>2. /\ Base(running) \in Nat /\ c.bytes \in Nat
      /\ BytesOf(c) \in Nat /\ BurstsOf(c) \in Nat
  BY ProceedsFacts
<1>3. /\ At(p, 0, MOV("CCR", PrepareCCR(c)))
      /\ At(p, 6, MOV("SAR", "src")) /\ At(p, 12, MOV("DAR", "dst"))
      /\ At(p, 18, FLUSHP) /\ Ahead(p, 20, BurstsOf(c), body)
  BY ProgramCode DEF Proceeds
<1>4. ASSUME NEW reg, NEW val, At(p, k, MOV(reg, val))
      PROVE  /\ mem[pc] = [op |-> "MOV", reg |-> reg, val |-> val] /\ mem[pc] # Operand
             /\ pc - Base(running) + 1 \in DOMAIN p
  <2> DEFINE s == MOV(reg, val)
  <2>1. IsCode(s) /\ Len(s) = 6 /\ s[1] = [op |-> "MOV", reg |-> reg, val |-> val]
    BY ShortCodes, FirstBytes
  <2> HIDE DEF s, p
  <2>2. Len(s) \in Nat \ {0} /\ s[1].op # "operand" /\ k \in Nat
    BY <2>1
  <2>3. At(p, k, s)
    BY <1>4 DEF s
  <2> QED
    BY <1>1, <2>1, <2>2, <2>3, Reading DEF p
<1>5. ASSUME NEW reg, NEW val, At(p, k, MOV(reg, val)), k # 18, (k = 0) <=> (reg = "CCR"),
             k = 0 => val = PrepareCCR(c)
      PROVE  Observed(c, lf) /\ (Exec => Advanced(c, lf))
  <2>1. /\ mem[pc] = [op |-> "MOV", reg |-> reg, val |-> val] /\ mem[pc] # Operand
        /\ pc - Base(running) + 1 \in DOMAIN p
    BY <1>4, <1>5
  <2>2. Observed(c, lf)
    BY <1>1, <1>2, <2>1 DEF Observed, Moved, Loads, Stores
  <2>3. ASSUME Exec PROVE Advanced(c, lf)
    <3>1. ExecMov
      BY <2>1, <2>3, Decoding
    <3>2. /\ ccr' = PrepareCCR(c) /\ pc' = pc + 6
          /\ UNCHANGED <<running, req, lockupFree, lc, loaded, stored>>
      BY <1>1, <1>5, <2>1, <3>1 DEF ExecMov, driverVars
    <3>3. Offset(k + 6)'
      BY <1>1, <1>2, <3>2, OffsetStep
    <3>4. k + 6 \in {0, 6, 12, 18}
      BY <1>1, <1>5
    <3>5. InPrologue(c)'
      BY <1>1, <3>2, <3>3, <3>4 DEF InPrologue
    <3>6. lc' \in [{0, 1} -> Nat]
      BY <3>2 DEF Proceeds
    <3> QED
      BY <3>2, <3>5, <3>6 DEF Advanced, Located
  <2> QED
    BY <2>2, <2>3
<1>6. CASE k = 0
  BY <1>3, <1>5, <1>6
<1>7. CASE k = 6
  BY <1>3, <1>5, <1>7
<1>8. CASE k = 12
  BY <1>3, <1>5, <1>8
<1>9. CASE k = 18
  <2> DEFINE i == [op |-> "FLUSHP", size |-> 2]
  <2>1. IsCode(FLUSHP) /\ Len(FLUSHP) = 2 /\ FLUSHP[1] = i
    BY ShortCodes, FirstBytes
  <2>2. Len(FLUSHP) \in Nat \ {0} /\ FLUSHP[1].op # "operand" /\ k \in Nat
    BY <2>1
  <2>3. mem[pc] = i /\ mem[pc] # Operand /\ pc - Base(running) + 1 \in DOMAIN p
    <3> HIDE DEF i, p
    <3>1. At(p, k, FLUSHP)
      BY <1>3, <1>9
    <3> QED
      BY <1>1, <2>1, <2>2, <3>1, Reading DEF p
  <2>4. Observed(c, lf)
    BY <1>1, <1>2, <2>3 DEF Observed, Moved, Loads, Stores
  <2>5. ASSUME Exec PROVE Advanced(c, lf)
    <3>1. ExecWait
      BY <2>3, <2>5, Decoding DEF Waits
    <3>2. /\ pc' = pc + 2
          /\ UNCHANGED <<running, req, lockupFree, lc, ccr, loaded, stored>>
      BY <2>3, <3>1 DEF ExecWait, driverVars
    <3>3. Offset(k + 2)'
      BY <1>1, <1>2, <3>2, OffsetStep
    <3>4. Offset(20)'
      BY <1>9, <3>3
    <3>5. Behind(c, BurstsOf(c), 0, 0)'
      <4>1. (BurstsOf(c) - BurstsOf(c) + 0) * BytesOf(c) = 0
        BY <1>2
      <4> QED
        BY <1>1, <3>2, <4>1 DEF Behind
    <3>6. AtLoops(c, BurstsOf(c), 20)'
      BY <3>4, <3>5 DEF AtLoops
    <3>7. ccr' = PrepareCCR(c)
      BY <1>1, <1>9, <3>2
    <3>8. InLoops(c, lf)'
      <4> HIDE DEF p, body
      <4>1. 20 \in Nat /\ BurstsOf(c) \in Nat
        BY <1>2
      <4> QED
        BY <1>3, <3>6, <3>7, <4>1 DEF InLoops, p, body
    <3>9. lc' \in [{0, 1} -> Nat]
      BY <3>2 DEF Proceeds
    <3> QED
      BY <3>2, <3>8, <3>9 DEF Advanced, Located
  <2> QED
    BY <2>4, <2>5
<1> QED
  BY <1>1, <1>6, <1>7, <1>8, <1>9

\* The nest of loops for b bursts is at k, and more of them behind it.
Nest(c, lf, b, k) ==
  /\ Proceeds(c, lf) /\ ccr = PrepareCCR(c)
  /\ Ahead(Programs[lf][c], k, b, Burst(c.type, lf))

\* What is left to the outer loop is a number of bursts.
LEMMA OuterType ==
  ASSUME NEW c \in Requests, NEW lf, Proceeds(c, lf), NEW b \in Nat \ {0}
  PROVE  Outer(b, Burst(c.type, lf)) \in Nat
PROOF
<1> DEFINE body == Burst(c.type, lf)
           o == IF Header(b) = 0 THEN 0 ELSE lc[0]
<1>1. Len(body) \in 1 .. 7
  BY ProceedsFacts
<1> HIDE DEF body
<1>2. Round(b, body) \in Nat /\ Rest(b, body) \in Nat
  BY <1>1, NestNumbers
<1>3. o \in Nat
  BY DEF Proceeds
<1> HIDE DEF o
<1>4. o * Round(b, body) + Rest(b, body) \in Nat
  BY <1>2, <1>3
<1> QED
  BY <1>4 DEF Outer, o, body

\* A place in the nest that the controller is in is a place in the loops.
LEMMA Locate ==
  ASSUME NEW c \in Requests, NEW lf, NEW b \in Nat, NEW k \in Nat,
         Nest(c, lf, b, k), ccr' = ccr,
         \/ AtLoops(c, b, k)'
         \/ b # 0 /\ \/ AtInner(c, b, k, Burst(c.type, lf))'
                     \/ InBody(c, lf, b, k, Burst(c.type, lf))'
                     \/ AtInnerEnd(c, b, k, Burst(c.type, lf))'
                     \/ AtOuterEnd(c, b, k, Burst(c.type, lf))'
  PROVE  Located(c, lf)'
PROOF
<1> DEFINE body == Burst(c.type, lf)
           p == Programs[lf][c]
<1>1. Ahead(p, k, b, body) /\ ccr' = PrepareCCR(c)
  BY DEF Nest
<1>2. InLoops(c, lf)'
  <2> HIDE DEF p
  <2> QED BY <1>1 DEF InLoops, p
<1> QED
  BY <1>2 DEF Located

\* The nest is left: the loops of the rest are ahead.
LEMMA LeaveNest ==
  ASSUME NEW c \in Requests, NEW lf, NEW b \in Nat \ {0}, NEW k \in Nat,
         Nest(c, lf, b, k), UNCHANGED <<ccr, running, loaded, stored>>,
         Behind(c, Rest(b, Burst(c.type, lf)), 0, 0),
         Offset(k + Size(b, Burst(c.type, lf)))'
  PROVE  Located(c, lf)'
PROOF
<1> DEFINE body == Burst(c.type, lf)
           p == Programs[lf][c]
           d == Rest(b, body)
           e == k + Size(b, body)
<1>1. Ahead(p, k, b, body) /\ ccr' = PrepareCCR(c)
  BY DEF Nest
<1>2. IsCode(body) /\ Len(body) \in 1 .. 7
  BY ProceedsFacts DEF Nest
<1> HIDE DEF body, p
<1>3. e \in Nat /\ Ahead(p, e, b - Loop(b, body).bursts, body)
  BY <1>1, <1>2, Peel
<1>4. Ahead(p, e, d, body)
  BY <1>3 DEF Rest
<1>5. d \in Nat
  BY <1>2, NestNumbers
<1>6. Offset(e)'
  BY DEF body
<1>7. Behind(c, d, 0, 0)'
  <2>1. Behind(c, d, 0, 0)
    BY DEF body
  <2> HIDE DEF d
  <2> QED
    BY <2>1, Keeping
<1> HIDE DEF d, e
<1>8. AtLoops(c, d, e)'
  BY <1>6, <1>7 DEF AtLoops
<1>9. InLoops(c, lf)'
  BY <1>1, <1>3, <1>4, <1>5, <1>8 DEF InLoops, p, body
<1> QED
  BY <1>9 DEF Located

\* What the controller reads at the head and at the ends of a nest.
LEMMA NestReading ==
  ASSUME NEW c \in Requests, NEW lf, NEW b \in Nat \ {0}, NEW k \in Nat, Nest(c, lf, b, k)
  PROVE  LET n == LoopCounts(b)  cyc == Copies(b, Burst(c.type, lf))
             l == Len(Burst(c.type, lf))  h == Header(b)
         IN  /\ Offset(k + h) => mem[pc] = LP(1, n.lcnt1)[1] /\ mem[pc] # Operand
                                 /\ pc - Base(running) + 1 \in DOMAIN Programs[lf][c]
             /\ Offset(k + h + 2 + cyc * l) =>
                  /\ mem[pc] = LPEND(1, cyc * l)[1] /\ mem[pc] # Operand
                  /\ pc - Base(running) + 1 \in DOMAIN Programs[lf][c]
             /\ h = 2 /\ Offset(k) =>
                  /\ mem[pc] = LP(0, n.lcnt0)[1] /\ mem[pc] # Operand
                  /\ pc - Base(running) + 1 \in DOMAIN Programs[lf][c]
             /\ h = 2 /\ Offset(k + 6 + cyc * l) =>
                  /\ mem[pc] = LPEND(0, 4 + cyc * l)[1] /\ mem[pc] # Operand
                  /\ pc - Base(running) + 1 \in DOMAIN Programs[lf][c]
PROOF
<1> DEFINE body == Burst(c.type, lf)
           p == Programs[lf][c]
           n == LoopCounts(b)
           cyc == Copies(b, body)
           l == Len(body)
           h == Header(b)
           s == cyc * l
           OK(i) == mem[pc] = i /\ mem[pc] # Operand /\ pc - Base(running) + 1 \in DOMAIN p
<1>1. IsCode(body) /\ l \in 1 .. 7
  BY ProceedsFacts DEF Nest
<1>2. Ahead(p, k, b, body) /\ Proceeds(c, lf)
  BY DEF Nest
<1>3. ASSUME NEW m \in Nat, NEW t, IsCode(t), Len(t) = 2, t[1].op # "operand",
             At(p, m, t), Offset(m)
      PROVE  OK(t[1])
  BY <1>2, <1>3, Reading
<1>4. ASSUME NEW i, NEW j
      PROVE  /\ IsCode(LP(i, j)) /\ Len(LP(i, j)) = 2 /\ LP(i, j)[1].op # "operand"
             /\ IsCode(LPEND(i, j)) /\ Len(LPEND(i, j)) = 2 /\ LPEND(i, j)[1].op # "operand"
  <2>1. /\ IsCode(LP(i, j)) /\ Len(LP(i, j)) = 2
        /\ IsCode(LPEND(i, j)) /\ Len(LPEND(i, j)) = 2
    BY ShortCodes
  <2>2. LP(i, j)[1] = [op |-> "LP", loop |-> i, cnt |-> (j - 1) % LoopMax]
    BY FirstBytes
  <2>3. LPEND(i, j)[1] = [op |-> "LPEND", loop |-> i, bjump |-> j % (JumpMax + 1)]
    BY FirstBytes
  <2>4. LP(i, j)[1].op # "operand" /\ LPEND(i, j)[1].op # "operand"
    BY <2>2, <2>3
  <2> QED
    BY <2>1, <2>4
<1> HIDE DEF body, p, l, OK
<1>5. /\ At(p, k + h, LP(1, n.lcnt1))
      /\ At(p, k + h + 2 + cyc * l, LPEND(1, cyc * l))
      /\ h = 2 => /\ At(p, k, LP(0, n.lcnt0))
                  /\ At(p, k + 6 + cyc * l, LPEND(0, 4 + cyc * l))
  BY <1>1, <1>2, NestAt DEF l
<1>6. s \in Nat /\ h \in {0, 2}
  BY <1>1, NestNumbers DEF l
<1> HIDE DEF n, cyc, h, s
<1>7. k + h \in Nat /\ k + h + 2 + s \in Nat /\ k + 6 + s \in Nat
  BY <1>6
<1>8. /\ Offset(k + h) => OK(LP(1, n.lcnt1)[1])
      /\ Offset(k + h + 2 + s) => OK(LPEND(1, s)[1])
  BY <1>3, <1>4, <1>5, <1>7 DEF s
<1>9. h = 2 /\ Offset(k) => OK(LP(0, n.lcnt0)[1])
  BY <1>3, <1>4, <1>5
<1>10. h = 2 /\ Offset(k + 6 + s) => OK(LPEND(0, 4 + s)[1])
  BY <1>3, <1>4, <1>5, <1>7 DEF s
<1> QED
  BY <1>8, <1>9, <1>10 DEF OK, s, n, cyc, h, l, body, p

\* An instruction of the loops moves no bytes.
LEMMA LoopInsn ==
  ASSUME NEW c \in Requests, NEW lf, Proceeds(c, lf), Exec
  PROVE  /\ \A n \in {0, 1}, m \in Int :
              mem[pc] = LP(n, m)[1] =>
                /\ lc' = [lc EXCEPT ![n] = (m - 1) % LoopMax] /\ pc' = pc + 2
                /\ UNCHANGED <<running, req, lockupFree, ccr, loaded, stored>>
         /\ \A n \in {0, 1}, m \in Int :
              mem[pc] = LPEND(n, m)[1] =>
                /\ IF lc[n] = 0 THEN pc' = pc + 2 /\ lc' = lc
                   ELSE pc' = pc - (m % (JumpMax + 1)) /\ lc' = [lc EXCEPT ![n] = @ - 1]
                /\ UNCHANGED <<running, req, lockupFree, ccr, loaded, stored>>
PROOF
<1>1. ASSUME NEW n \in {0, 1}, NEW m \in Int, mem[pc] = LP(n, m)[1]
      PROVE  /\ lc' = [lc EXCEPT ![n] = (m - 1) % LoopMax] /\ pc' = pc + 2
             /\ UNCHANGED <<running, req, lockupFree, ccr, loaded, stored>>
  <2>1. mem[pc] = [op |-> "LP", loop |-> n, cnt |-> (m - 1) % LoopMax]
    BY <1>1, FirstBytes
  <2>2. ExecLoop
    BY <2>1, Decoding
  <2>3. mem[pc].loop = n /\ mem[pc].cnt = (m - 1) % LoopMax
    BY <2>1
  <2> QED
    BY <2>2, <2>3 DEF ExecLoop, driverVars
<1>2. ASSUME NEW n \in {0, 1}, NEW m \in Int, mem[pc] = LPEND(n, m)[1]
      PROVE  /\ IF lc[n] = 0 THEN pc' = pc + 2 /\ lc' = lc
                ELSE pc' = pc - (m % (JumpMax + 1)) /\ lc' = [lc EXCEPT ![n] = @ - 1]
             /\ UNCHANGED <<running, req, lockupFree, ccr, loaded, stored>>
  <2>1. mem[pc] = [op |-> "LPEND", loop |-> n, bjump |-> m % (JumpMax + 1)]
    BY <1>2, FirstBytes
  <2>2. ExecLoopEnd
    BY <2>1, Decoding
  <2>3. mem[pc].loop = n /\ mem[pc].bjump = m % (JumpMax + 1)
    BY <2>1
  <2> QED
    BY <2>2, <2>3 DEF ExecLoopEnd, driverVars
<1> QED
  BY <1>1, <1>2

\* The inner loop is entered.
LEMMA EnterBody ==
  ASSUME NEW c \in Requests, NEW lf, NEW b \in Nat \ {0}, NEW k \in Nat, Nest(c, lf, b, k),
         Offset(k + Header(b)),
         Behind(c, Round(b, Burst(c.type, lf)) + Outer(b, Burst(c.type, lf)), 0, 0)
  PROVE  Observed(c, lf) /\ (Exec => Advanced(c, lf))
PROOF
<1> DEFINE body == Burst(c.type, lf)
           l == Len(body)
           v == LoopCounts(b).lcnt1
           cyc == Copies(b, body)
           h == Header(b)
           o == Outer(b, body)
           r == Round(b, body)
<1>1. Proceeds(c, lf) /\ IsCode(body) /\ l \in 1 .. 7 /\ Base(running) \in Nat
  BY ProceedsFacts DEF Nest
<1>2. /\ mem[pc] = LP(1, v)[1] /\ mem[pc] # Operand
      /\ pc - Base(running) + 1 \in DOMAIN Programs[lf][c]
  BY NestReading
<1>3. /\ cyc \in Nat \ {0} /\ r \in Nat /\ h \in {0, 2}
      /\ v - 1 \in Nat /\ (v - 1) % LoopMax = v - 1
      /\ r = (v - 1) * cyc + cyc /\ (v - 1) * cyc \in Nat
  BY <1>1, NestNumbers
<1>4. o \in Nat
  BY <1>1, OuterType
<1>5. v \in Int
  BY <1>1, CopiesSound
<1>7. lc \in [{0, 1} -> Nat]
  BY <1>1 DEF Proceeds
<1>10. Observed(c, lf)
  <2>1. mem[pc].op \notin Loads \cup Stores \cup {"SEV"}
    <3>1. mem[pc] = [op |-> "LP", loop |-> 1, cnt |-> (v - 1) % LoopMax]
      BY <1>2, FirstBytes
    <3> HIDE DEF v
    <3> QED BY <3>1 DEF Loads, Stores
  <2>2. r + o \in Nat /\ Behind(c, r + o, 0, 0)
    BY <1>3, <1>4
  <2> HIDE DEF r, o
  <2>3. Moved(c)
    BY <2>2, BehindBounds
  <2> QED
    BY <1>2, <2>1, <2>3 DEF Observed
<1>z. PICK z \in Nat : z = r + o
  <2>1. r + o \in Nat
    BY <1>3, <1>4
  <2> QED
    BY <2>1
<1>e. ASSUME Exec PROVE Advanced(c, lf)
  <2>6. /\ lc' = [lc EXCEPT ![1] = v - 1] /\ pc' = pc + 2
        /\ UNCHANGED <<running, req, lockupFree, ccr, loaded, stored>>
    <3> HIDE DEF v
    <3> QED BY <1>1, <1>2, <1>3, <1>5, <1>e, LoopInsn
  <2>8. lc' \in [{0, 1} -> Nat] /\ lc'[1] = v - 1 /\ lc'[0] = lc[0]
    <3> HIDE DEF v
    <3> QED BY <1>3, <2>6, <1>7
  <2>9. Outer(b, body)' = o
    BY <2>8 DEF Outer
  <2>11. Offset(k + h + 2)'
    <3>1. k + h \in Int
      BY <1>3
    <3> HIDE DEF h
    <3>2. Offset(k + h)
      BY DEF h
    <3> QED
      BY <1>1, <2>6, <3>1, <3>2, OffsetStep
  <2>12. Behind(c, z, 0, 0)'
    <3>1. Behind(c, z, 0, 0)
      BY <1>z
    <3> QED
      BY <2>6, <3>1, Keeping
  <2>y. z = (cyc - 0) + lc'[1] * cyc + Outer(b, body)'
    <3> HIDE DEF r, o, cyc, v
    <3> QED
      BY <1>z, <1>3, <1>4, <2>8, <2>9
  <2>13. <<0, 0, 0>> \in Stages(c.type, lf)
    <3>1. c.type \in Types
      BY <1>1, ProceedsFacts
    <3> QED
      BY <3>1 DEF Stages, Types
  <2>14. InBody(c, lf, b, k, body)'
    <3>1. 0 \in 0 .. cyc - 1 /\ 0 \in Nat /\ 0 \in {0, 1}
      BY <1>3
    <3>2. Offset(k + h + 2 + 0 * l + 0)'
      <4>1. k + h + 2 + 0 * l + 0 = k + h + 2
        BY <1>1, <1>3
      <4> HIDE DEF h, l
      <4> QED BY <2>11, <4>1
    <3>3. Behind(c, (cyc - 0) + lc[1] * cyc + Outer(b, body), 0, 0)'
      <4> HIDE DEF cyc, o
      <4> QED BY <2>y, <2>12 DEF Behind
    <3> HIDE DEF body
    <3> QED
      BY <2>13, <3>1, <3>2, <3>3 DEF InBody, h, cyc, l
  <2>15. Located(c, lf)'
    BY <2>6, <2>14, Locate
  <2> QED
    BY <2>6, <2>8, <2>15 DEF Advanced
<1> QED
  BY <1>10, <1>e

\* Before the loops for b bursts: the event if there are none, else a nest.
LEMMA AtLoopsAdvance ==
  ASSUME NEW c \in Requests, NEW lf, NEW b \in Nat, NEW k \in Nat, Nest(c, lf, b, k),
         AtLoops(c, b, k)
  PROVE  Observed(c, lf) /\ (Exec => Advanced(c, lf))
PROOF
<1> DEFINE body == Burst(c.type, lf)
           l == Len(body)
           u == LoopCounts(b).lcnt0
           h == Header(b)
           r == Round(b, body)
           d == Rest(b, body)
<1>1. Proceeds(c, lf) /\ IsCode(body) /\ l \in 1 .. 7 /\ Base(running) \in Nat
  BY ProceedsFacts DEF Nest
<1>2. Offset(k) /\ Behind(c, b, 0, 0)
  BY DEF AtLoops
<1>3. Moved(c) /\ (b = 0 => stored = c.bytes)
  BY <1>2, BehindBounds
<1>4. CASE b = 0
  <2>1. At(Programs[lf][c], k, SEV)
    <3>1. SetupLoops(b, body) = << >>
      BY <1>1, <1>4, LoopsEquation
    <3>2. k + Len(<< >>) = k
      OBVIOUS
    <3>3. At(Programs[lf][c], k + Len(SetupLoops(b, body)), SEV)
      BY DEF Nest, Ahead
    <3> QED
      BY <3>1, <3>2, <3>3
  <2>2. IsCode(SEV) /\ Len(SEV) = 2 /\ SEV[1] = [op |-> "SEV"]
    BY ShortCodes, FirstBytes
  <2>3. Len(SEV) \in Nat \ {0} /\ SEV[1].op # "operand"
    BY <2>2
  <2>4. /\ mem[pc] = SEV[1] /\ mem[pc] # Operand
        /\ pc - Base(running) + 1 \in DOMAIN Programs[lf][c]
    BY <1>1, <1>2, <2>1, <2>2, <2>3, Reading
  <2>5. mem[pc].op = "SEV"
    BY <2>2, <2>4
  <2>6. Exec => Advanced(c, lf)
    BY <2>5, Decoding DEF Advanced
  <2> QED
    BY <1>3, <1>4, <2>4, <2>5, <2>6 DEF Observed, Loads, Stores
<1>5. CASE b # 0 /\ h = 0
  <2>1. b \in Nat \ {0}
    BY <1>5
  <2>2. b = r + d /\ r \in Nat /\ d \in Nat
    BY <1>1, <1>5, <2>1, NestNumbers
  <2>3. Outer(b, body) = d
    <3>1. 0 * r + d = d
      BY <2>2
    <3> QED
      BY <1>5, <3>1 DEF Outer
  <2>4. Offset(k + h)
    <3>1. k + h = k
      BY <1>5
    <3> QED
      BY <1>2, <3>1
  <2>5. Behind(c, r + Outer(b, body), 0, 0)
    BY <1>2, <2>2, <2>3
  <2> QED
    BY <2>1, <2>4, <2>5, EnterBody
<1>6. CASE b # 0 /\ h # 0
  <2>1. b \in Nat \ {0}
    BY <1>6
  <2>2. /\ h = 2 /\ u - 1 \in Nat /\ (u - 1) % LoopMax = u - 1
        /\ b = r + ((u - 1) * r + d) /\ r \in Nat /\ d \in Nat
    <3>1. h \in {0, 2}
      BY <1>1, <2>1, NestNumbers
    <3> QED
      BY <1>1, <1>6, <2>1, <3>1, NestNumbers
  <2>3. /\ mem[pc] = LP(0, u)[1] /\ mem[pc] # Operand
        /\ pc - Base(running) + 1 \in DOMAIN Programs[lf][c]
    BY <1>2, <2>1, <2>2, NestReading
  <2>4. u \in Int
    BY <1>1, <2>1, CopiesSound
  <2>7. Observed(c, lf)
    <3>1. mem[pc].op \notin Loads \cup Stores \cup {"SEV"}
      <4>1. mem[pc] = [op |-> "LP", loop |-> 0, cnt |-> (u - 1) % LoopMax]
        BY <2>3, FirstBytes
      <4> HIDE DEF u
      <4> QED BY <4>1 DEF Loads, Stores
    <3> QED
      BY <1>3, <2>3, <3>1 DEF Observed
  <2>e. ASSUME Exec PROVE Advanced(c, lf)
    <3>5. /\ lc' = [lc EXCEPT ![0] = u - 1] /\ pc' = pc + 2
          /\ UNCHANGED <<running, req, lockupFree, ccr, loaded, stored>>
      <4> HIDE DEF u
      <4> QED BY <1>1, <2>2, <2>3, <2>4, <2>e, LoopInsn
    <3>6. lc' \in [{0, 1} -> Nat] /\ lc'[0] = u - 1
      <4>1. lc \in [{0, 1} -> Nat]
        BY <1>1 DEF Proceeds
      <4> HIDE DEF u
      <4> QED BY <2>2, <3>5, <4>1
    <3>8. Offset(k + 2)'
      BY <1>1, <1>2, <3>5, OffsetStep
    <3>9. Outer(b, body)' = (u - 1) * r + d
      BY <1>6, <3>6 DEF Outer
    <3>10. Behind(c, r + Outer(b, body), 0, 0)'
      <4>1. Behind(c, b, 0, 0)'
        BY <1>2, <3>5, Keeping
      <4> HIDE DEF r, d, u
      <4> QED
        BY <2>2, <3>9, <4>1 DEF Behind, r
    <3>11. AtInner(c, b, k, body)'
      BY <2>2, <3>8, <3>10 DEF AtInner
    <3>12. Located(c, lf)'
      BY <2>1, <3>5, <3>11, Locate
    <3> QED
      BY <3>5, <3>6, <3>12 DEF Advanced
  <2> QED
    BY <2>7, <2>e
<1> QED
  BY <1>4, <1>5, <1>6

\* At the head of the inner loop its counter is set anew for every round.
LEMMA AtInnerAdvance ==
  ASSUME NEW c \in Requests, NEW lf, NEW b \in Nat \ {0}, NEW k \in Nat, Nest(c, lf, b, k),
         AtInner(c, b, k, Burst(c.type, lf))
  PROVE  Observed(c, lf) /\ (Exec => Advanced(c, lf))
PROOF
<1>1. /\ Header(b) = 2 /\ Offset(k + 2)
      /\ Behind(c, Round(b, Burst(c.type, lf)) + Outer(b, Burst(c.type, lf)), 0, 0)
  BY DEF AtInner
<1>2. Offset(k + Header(b))
  BY <1>1
<1> QED
  BY <1>1, <1>2, EnterBody

\* Behind an instruction of a body there is the next, or the next copy of the
\* body, or the end of the inner loop.
LEMMA BodyOn ==
  ASSUME NEW c \in Requests, NEW lf, NEW b \in Nat \ {0}, NEW k \in Nat, Nest(c, lf, b, k),
         NEW j \in 0 .. Copies(b, Burst(c.type, lf)) - 1, NEW q \in Nat,
         NEW x \in {0, 1}, NEW y \in {0, 1}, NEW z \in Nat,
         z = (Copies(b, Burst(c.type, lf)) - j) + lc[1] * Copies(b, Burst(c.type, lf))
               + Outer(b, Burst(c.type, lf)),
         UNCHANGED <<running, ccr, lc>>,
         Offset(k + Header(b) + 2 + j * Len(Burst(c.type, lf)) + q)', Behind(c, z, x, y)',
         Onward(c.type, lf, q, x, y)
  PROVE  Located(c, lf)'
PROOF
<1> DEFINE body == Burst(c.type, lf)
           l == Len(body)
           cyc == Copies(b, body)
           h == Header(b)
<1>1. Proceeds(c, lf) /\ IsCode(body) /\ l \in 1 .. 7
  BY ProceedsFacts DEF Nest
<1>a. cyc \in Nat \ {0} /\ h \in {0, 2} /\ cyc * l \in Nat
  BY <1>1, NestNumbers
<1>j. j \in 0 .. cyc - 1
  OBVIOUS
<1>2. cyc \in Nat \ {0} /\ h \in {0, 2} /\ cyc * l \in Nat /\ j \in Nat /\ j * l \in Nat
  <2> HIDE DEF cyc, h, l
  <2> QED BY <1>a, <1>j, <1>1
<1>3. Outer(b, body)' = Outer(b, body) /\ Outer(b, body) \in Nat
  <2>1. Outer(b, body) \in Nat
    BY <1>1, OuterType
  <2> QED
    BY <2>1 DEF Outer
<1>4. lc'[1] = lc[1] /\ lc[1] * cyc \in Nat
  <2>1. lc[1] \in Nat
    BY <1>1 DEF Proceeds
  <2> HIDE DEF cyc
  <2> QED
    BY <1>2, <2>1
<1>z. z = (cyc - j) + lc[1] * cyc + Outer(b, body)
  OBVIOUS
<1>5. CASE <<q, x, y>> \in Stages(c.type, lf)
  <2>1. Behind(c, (cyc - j) + lc[1] * cyc + Outer(b, body), x, y)'
    <3> HIDE DEF cyc, body
    <3> QED BY <1>3, <1>4 DEF Behind, cyc, body
  <2>2. InBody(c, lf, b, k, body)'
    <3> HIDE DEF body
    <3> QED
      BY <1>5, <2>1 DEF InBody, cyc, body
  <2> QED
    BY <2>2, Locate
<1>6. CASE q = l /\ x = 1 /\ y = 1
  <2>1. Behind(c, z - 1, 0, 0)'
    <3>1. Behind(c, z, 1, 1)'
      BY <1>6
    <3>2. BurstsOf(c) \in Int
      BY <1>1, ProceedsFacts
    <3>3. BurstsOf(c) - z + 1 = BurstsOf(c) - (z - 1) + 0
      BY <3>2
    <3> QED
      BY <3>1, <3>3 DEF Behind
  <2>2. Offset(k + h + 2 + (j + 1) * l)'
    <3>1. Offset(k + h + 2 + j * l + l)'
      BY <1>6
    <3>2. k + h + 2 + j * l + l = k + h + 2 + (j + 1) * l
      <4>1. (j + 1) * l = j * l + l
        BY <1>1
      <4> HIDE DEF h, l
      <4> QED BY <1>1, <1>2, <4>1
    <3> HIDE DEF h, l
    <3> QED
      BY <3>1, <3>2
  <2>3. z - 1 = (cyc - (j + 1)) + lc[1] * cyc + Outer(b, body)
    <3> DEFINE w == lc[1] * cyc
               o == Outer(b, body)
    <3>1. w \in Nat /\ o \in Nat /\ z = (cyc - j) + w + o
      BY <1>3, <1>4, <1>z
    <3> HIDE DEF cyc, body, w, o
    <3>2. z - 1 = (cyc - (j + 1)) + w + o
      BY <1>2, <3>1
    <3> QED BY <3>2 DEF w, o
  <2>4. CASE j + 1 # cyc
    <3>1. j + 1 \in 0 .. cyc - 1
      <4> HIDE DEF cyc
      <4> QED BY <1>2, <2>4 DEF cyc
    <3>2. <<0, 0, 0>> \in Stages(c.type, lf)
      <4>1. c.type \in Types
        BY <1>1, ProceedsFacts
      <4> QED
        BY <4>1 DEF Stages, Types
    <3>3. Offset(k + h + 2 + (j + 1) * l + 0)'
      <4>1. k + h + 2 + (j + 1) * l + 0 = k + h + 2 + (j + 1) * l
        BY <1>1, <1>2
      <4> HIDE DEF h, l
      <4> QED BY <2>2, <4>1
    <3>4. Behind(c, (cyc - (j + 1)) + lc[1] * cyc + Outer(b, body), 0, 0)'
      <4> HIDE DEF cyc, body
      <4> QED BY <1>3, <1>4, <2>1, <2>3 DEF Behind
    <3>5. InBody(c, lf, b, k, body)'
      <4>1. 0 \in Nat /\ 0 \in {0, 1}
        OBVIOUS
      <4> HIDE DEF body
      <4> QED BY <3>1, <3>2, <3>3, <3>4, <4>1 DEF InBody, cyc, h, l
    <3> QED
      BY <3>5, Locate
  <2>5. CASE j + 1 = cyc
    <3>1. Behind(c, lc[1] * cyc + Outer(b, body), 0, 0)'
      <4>1. z - 1 = lc[1] * cyc + Outer(b, body)
        <5>1. cyc - (j + 1) = 0
          BY <1>2, <2>5
        <5> HIDE DEF cyc, body
        <5> QED BY <1>3, <1>4, <2>3, <5>1
      <4> HIDE DEF cyc, body
      <4> QED BY <1>3, <1>4, <2>1, <4>1 DEF Behind
    <3>2. Offset(k + h + 2 + cyc * l)'
      BY <2>2, <2>5
    <3>3. AtInnerEnd(c, b, k, body)'
      <4> HIDE DEF body
      <4> QED BY <3>1, <3>2 DEF AtInnerEnd, cyc, h, l
    <3> QED
      BY <3>3, Locate
  <2> QED
    BY <2>4, <2>5
<1> QED
  BY <1>5, <1>6 DEF Onward

\* In a body: what is loaded is stored before anything else is loaded.
LEMMA InBodyAdvance ==
  ASSUME NEW c \in Requests, NEW lf, NEW b \in Nat \ {0}, NEW k \in Nat, Nest(c, lf, b, k),
         InBody(c, lf, b, k, Burst(c.type, lf))
  PROVE  Observed(c, lf) /\ (Exec => Advanced(c, lf))
PROOF
<1> DEFINE body == Burst(c.type, lf)
           p == Programs[lf][c]
           l == Len(body)
           cyc == Copies(b, body)
           h == Header(b)
<1>1. Proceeds(c, lf) /\ IsCode(body) /\ l \in 1 .. 7 /\ Base(running) \in Nat /\ c.type \in Types
  BY ProceedsFacts DEF Nest
<1>2. cyc \in Nat \ {0} /\ h \in {0, 2}
  BY <1>1, NestNumbers
<1>3. PICK j \in 0 .. cyc - 1 : \E q \in Nat, x \in {0, 1}, y \in {0, 1} :
        /\ <<q, x, y>> \in Stages(c.type, lf)
        /\ Offset(k + h + 2 + j * l + q)
        /\ Behind(c, (cyc - j) + lc[1] * cyc + Outer(b, body), x, y)
  BY DEF InBody
<1>4. PICK q \in Nat, x \in {0, 1}, y \in {0, 1} :
        /\ <<q, x, y>> \in Stages(c.type, lf)
        /\ Offset(k + h + 2 + j * l + q)
        /\ Behind(c, (cyc - j) + lc[1] * cyc + Outer(b, body), x, y)
  BY <1>3
<1> DEFINE i == body[q + 1]
           m == k + h + 2 + j * l + q
<1>5. /\ q \in 0 .. l - 1 /\ y <= x
      /\ i.op \in Loads \cup Stores \cup Waits
      /\ i.op \in Loads =>
           x = 0 /\ y = 0 /\ Onward(c.type, lf, q + (IF i.op = "LDP" THEN 2 ELSE 1), 1, 0)
      /\ i.op \in Stores =>
           x = 1 /\ y = 0 /\ Onward(c.type, lf, q + (IF i.op = "STP" THEN 2 ELSE 1), 1, 1)
      /\ i.op \in Waits => i.size \in 1 .. 2 /\ Onward(c.type, lf, q + i.size, x, y)
  <2>1. lf \in BOOLEAN
    BY <1>1 DEF Proceeds
  <2> QED
    BY <1>1, <1>4, <2>1, BodyStep
<1>6. m \in Nat /\ m + 1 \in DOMAIN p /\ p[m + 1] = i
  <2> DEFINE e == j * l + q + 1
             f == k + h + 2
  <2>0. l \in 1 .. 7 /\ IsCode(body) /\ cyc \in Nat
    BY <1>1, <1>2
  <2>1. e \in 1 .. cyc * l
    <3> HIDE DEF cyc, l
    <3> QED BY <2>0, <1>5, CopyWithin
  <2>2. At(p, f, Repeated(body, cyc))
    <3>1. Ahead(p, k, b, body)
      BY DEF Nest
    <3> HIDE DEF p, body
    <3> QED BY <1>1, <3>1, NestAt DEF cyc, l, h
  <2>3. Len(Repeated(body, cyc)) = cyc * l /\ Repeated(body, cyc)[e] = body[q + 1]
    <3> HIDE DEF cyc, body
    <3>1. /\ Len(Repeated(body, cyc)) = cyc * l
          /\ \A jj \in 0 .. cyc - 1, qq \in 0 .. l - 1 :
                Repeated(body, cyc)[jj * l + qq + 1] = body[qq + 1]
      BY <2>0, RepeatedCode
    <3> QED BY <1>5, <3>1
  <2> HIDE DEF e, p
  <2>4. f + e \in DOMAIN p /\ p[f + e] = i
    BY <2>1, <2>2, <2>3 DEF At
  <2>5. f + e = m + 1 /\ m \in Nat
    <3>1. j * l \in Nat /\ h \in Nat
      BY <1>1, <1>2
    <3> HIDE DEF h, l
    <3> QED BY <3>1 DEF e
  <2> QED
    BY <2>4, <2>5
<1>7. mem[pc] = i /\ pc - Base(running) + 1 \in DOMAIN p
  <2>1. MemInv /\ running # -1 /\ req[running] = c /\ lockupFree = lf
    BY <1>1 DEF Proceeds, Runs
  <2>2. Offset(m)
    BY <1>4
  <2> HIDE DEF m, i
  <2> QED
    BY <1>6, <2>1, <2>2, Fetching
<1> HIDE DEF i
<1>8. i.op # "SEV" /\ i # Operand
  <2>1. i.op # "SEV" /\ i.op # "operand"
    BY <1>5 DEF Loads, Stores, Waits
  <2> QED
    BY <2>1 DEF Operand
<1>9. Outer(b, body) \in Nat /\ lc[1] * cyc \in Nat
  <2>1. Outer(b, body) \in Nat
    BY <1>1, OuterType
  <2>2. lc[1] \in Nat
    BY <1>1 DEF Proceeds
  <2> HIDE DEF cyc
  <2> QED
    BY <1>2, <2>1, <2>2
<1>10. PICK z \in Nat : z # 0 /\ z = (cyc - j) + lc[1] * cyc + Outer(b, body)
  <2> HIDE DEF cyc, body
  <2>1. (cyc - j) + lc[1] * cyc + Outer(b, body) \in Nat \ {0}
    BY <1>2, <1>9
  <2> QED
    BY <2>1
<1>11. Behind(c, z, x, y)
  BY <1>4, <1>10
<1>b. ccr = PrepareCCR(c)
  BY DEF Nest
<1>12. Observed(c, lf)
  <2>1. Moved(c)
    BY <1>5, <1>10, <1>11, BehindBounds
  <2>2. i.op \in Loads => loaded = stored
    BY <1>5, <1>11, UnderWay
  <2>3. i.op \in Stores => loaded = stored + BytesOf(c)
    BY <1>5, <1>11, UnderWay
  <2> QED
    BY <1>7, <1>8, <1>b, <2>1, <2>2, <2>3 DEF Observed
<1>13. ASSUME NEW d \in 1 .. 2, NEW x2 \in {0, 1}, NEW y2 \in {0, 1}, pc' = pc + d,
              UNCHANGED <<running, req, lockupFree, ccr, lc>>, Behind(c, z, x2, y2)',
              Onward(c.type, lf, q + d, x2, y2)
       PROVE  Advanced(c, lf)
  <2>1. Offset(m + d)'
    <3> HIDE DEF m
    <3>1. Offset(m)
      BY <1>4 DEF m
    <3> QED
      BY <1>1, <1>6, <1>13, <3>1, OffsetStep
  <2>2. m + d = k + h + 2 + j * l + (q + d)
    <3>1. j * l \in Nat /\ h \in Nat
      BY <1>1, <1>2
    <3> HIDE DEF h, l
    <3> QED BY <3>1
  <2>3. Offset(k + h + 2 + j * l + (q + d))'
    <3> HIDE DEF m, h, l
    <3> QED BY <2>1, <2>2
  <2>4. q + d \in Nat
    OBVIOUS
  <2> DEFINE q2 == q + d
  <2> HIDE DEF q2
  <2>5. q2 \in Nat /\ Offset(k + h + 2 + j * l + q2)' /\ Onward(c.type, lf, q2, x2, y2)
    BY <2>3, <2>4, <1>13 DEF q2
  <2>6. Located(c, lf)'
    BY <1>10, <1>13, <2>5, BodyOn
  <2>7. lc' \in [{0, 1} -> Nat]
    BY <1>1, <1>13 DEF Proceeds
  <2> QED
    BY <1>13, <2>6, <2>7 DEF Advanced
<1>e. ASSUME Exec PROVE Advanced(c, lf)
  <2>14. CASE i.op \in Loads
    <3>1. ExecLoad
      BY <1>7, <2>14, <1>e, Decoding
    <3>2. /\ loaded' = loaded + BytesOf(c) /\ stored' = stored
          /\ UNCHANGED <<running, req, lockupFree, ccr, lc>>
      BY <3>1, <1>b DEF ExecLoad, BytesOf, driverVars
    <3> DEFINE d == IF i.op = "LDP" THEN 2 ELSE 1
    <3>3. pc' = pc + d
      BY <1>7, <3>1 DEF ExecLoad, Fetched, Loads
    <3>4. Behind(c, z, 1, 0)'
      <4>1. Behind(c, z, 0, 0)
        BY <1>5, <1>11, <2>14
      <4> QED
        BY <3>2, <4>1, Loading
    <3>5. d \in 1 .. 2 /\ Onward(c.type, lf, q + d, 1, 0)
      BY <1>5, <2>14
    <3> HIDE DEF d
    <3>6. Advanced(c, lf)
      BY <1>13, <3>2, <3>3, <3>4, <3>5
    <3> QED
      BY <1>12, <3>6
  <2>15. CASE i.op \in Stores
    <3>1. ExecStore
      BY <1>7, <2>15, <1>e, Decoding
    <3>2. /\ stored' = stored + BytesOf(c) /\ loaded' = loaded
          /\ UNCHANGED <<running, req, lockupFree, ccr, lc>>
      BY <3>1, <1>b DEF ExecStore, BytesOf, driverVars
    <3> DEFINE d == IF i.op = "STP" THEN 2 ELSE 1
    <3>3. pc' = pc + d
      BY <1>7, <3>1 DEF ExecStore, Fetched, Stores
    <3>4. Behind(c, z, 1, 1)'
      <4>1. Behind(c, z, 1, 0)
        BY <1>5, <1>11, <2>15
      <4> QED
        BY <3>2, <4>1, Storing
    <3>5. d \in 1 .. 2 /\ Onward(c.type, lf, q + d, 1, 1)
      BY <1>5, <2>15
    <3> HIDE DEF d
    <3>6. Advanced(c, lf)
      BY <1>13, <3>2, <3>3, <3>4, <3>5
    <3> QED
      BY <1>12, <3>6
  <2>16. CASE i.op \in Waits
    <3>1. ExecWait
      BY <1>7, <2>16, <1>e, Decoding
    <3>2. UNCHANGED <<running, req, lockupFree, ccr, lc, loaded, stored>>
      BY <3>1 DEF ExecWait, driverVars
    <3>3. pc' = pc + i.size
      BY <1>7, <3>1 DEF ExecWait
    <3>4. Behind(c, z, x, y)'
      BY <1>11, <3>2, Keeping
    <3>5. i.size \in 1 .. 2 /\ Onward(c.type, lf, q + i.size, x, y)
      BY <1>5, <2>16
    <3>6. Advanced(c, lf)
      BY <1>13, <3>2, <3>3, <3>4, <3>5
    <3> QED
      BY <1>12, <3>6
  <2> QED
    BY <1>5, <2>14, <2>15, <2>16
<1> QED
  BY <1>12, <1>e

\* The end of the inner loop jumps to its body, or the loop is done.
LEMMA AtInnerEndAdvance ==
  ASSUME NEW c \in Requests, NEW lf, NEW b \in Nat \ {0}, NEW k \in Nat, Nest(c, lf, b, k),
         AtInnerEnd(c, b, k, Burst(c.type, lf))
  PROVE  Observed(c, lf) /\ (Exec => Advanced(c, lf))
PROOF
<1> DEFINE body == Burst(c.type, lf)
           l == Len(body)
           cyc == Copies(b, body)
           h == Header(b)
           s == cyc * l
           o == Outer(b, body)
           w == lc[1] * cyc
<1>1. Proceeds(c, lf) /\ IsCode(body) /\ l \in 1 .. 7 /\ Base(running) \in Nat /\ c.type \in Types
  BY ProceedsFacts DEF Nest
<1>2. Offset(k + h + 2 + s) /\ Behind(c, w + o, 0, 0)
  BY DEF AtInnerEnd
<1>3. /\ cyc \in Nat \ {0} /\ h \in {0, 2} /\ s \in Nat /\ s % (JumpMax + 1) = s
  BY <1>1, NestNumbers
<1>4. o \in Nat
  BY <1>1, OuterType
<1>5. lc \in [{0, 1} -> Nat]
  BY <1>1 DEF Proceeds
<1>6. w \in Nat
  <2> HIDE DEF cyc
  <2> QED BY <1>3, <1>5
<1>7. /\ mem[pc] = LPEND(1, s)[1] /\ mem[pc] # Operand
      /\ pc - Base(running) + 1 \in DOMAIN Programs[lf][c]
  BY <1>2, NestReading
<1>9. Observed(c, lf)
  <2>1. mem[pc].op \notin Loads \cup Stores \cup {"SEV"}
    <3>1. mem[pc] = [op |-> "LPEND", loop |-> 1, bjump |-> s % (JumpMax + 1)]
      BY <1>7, FirstBytes
    <3> HIDE DEF s
    <3> QED BY <3>1 DEF Loads, Stores
  <2> HIDE DEF w, o
  <2>2. w + o \in Nat
    BY <1>4, <1>6
  <2>3. Moved(c)
    BY <1>2, <2>2, BehindBounds
  <2> QED
    BY <1>7, <2>1, <2>3 DEF Observed
<1>m. k + h + 2 + s \in Int /\ k + h + 2 \in Int
  <2> HIDE DEF s, h
  <2> QED BY <1>3
<1>e. ASSUME Exec PROVE Advanced(c, lf)
  <2>8. /\ IF lc[1] = 0 THEN pc' = pc + 2 /\ lc' = lc
           ELSE pc' = pc - s /\ lc' = [lc EXCEPT ![1] = @ - 1]
        /\ UNCHANGED <<running, req, lockupFree, ccr, loaded, stored>>
    <3> HIDE DEF s
    <3>1. s \in Int
      BY <1>3
    <3> QED BY <1>1, <1>3, <1>7, <3>1, <1>e, LoopInsn
  <2>10. CASE lc[1] # 0
    <3>1. pc' = pc - s /\ lc' = [lc EXCEPT ![1] = @ - 1]
      BY <2>8, <2>10
    <3>2. lc' \in [{0, 1} -> Nat] /\ lc'[1] = lc[1] - 1 /\ lc'[0] = lc[0]
      <4> HIDE DEF s
      <4> QED BY <1>5, <2>10, <3>1
    <3>3. Outer(b, body)' = o
      BY <3>2 DEF Outer
    <3>4. PICK z \in Nat : z = w + o
      <4>1. w + o \in Nat
        BY <1>4, <1>6
      <4> QED BY <4>1
    <3>5. Behind(c, z, 0, 0)'
      <4>1. Behind(c, z, 0, 0)
        BY <1>2, <3>4
      <4> QED BY <2>8, <4>1, Keeping
    <3>6. z = (cyc - 0) + lc'[1] * cyc + Outer(b, body)'
      <4>1. lc[1] * cyc = cyc + (lc[1] - 1) * cyc
        <5> HIDE DEF cyc
        <5>1. lc[1] \in Int
          BY <1>5
        <5> QED BY <1>3, <5>1
      <4>2. (lc[1] - 1) * cyc \in Int
        <5> HIDE DEF cyc
        <5>1. lc[1] \in Int
          BY <1>5
        <5> QED BY <1>3, <5>1
      <4> HIDE DEF cyc, o
      <4> QED BY <1>3, <1>4, <3>2, <3>3, <3>4, <4>1, <4>2
    <3>7. Offset(k + h + 2)'
      <4> DEFINE f == k + h + 2
      <4>1. f \in Int /\ s \in Int
        BY <1>3, <1>m
      <4>2. Offset(f + s) /\ pc' = pc - s
        BY <1>2, <3>1
      <4> HIDE DEF f, s
      <4> QED BY <1>1, <2>8, <4>1, <4>2 DEF f, Offset, Base
    <3>8. <<0, 0, 0>> \in Stages(c.type, lf)
      BY <1>1 DEF Stages, Types
    <3>9. InBody(c, lf, b, k, body)'
      <4>1. 0 \in 0 .. cyc - 1 /\ 0 \in Nat /\ 0 \in {0, 1}
        BY <1>3
      <4>2. Offset(k + h + 2 + 0 * l + 0)'
        <5>1. k + h + 2 + 0 * l + 0 = k + h + 2
          BY <1>1, <1>3
        <5> HIDE DEF h, l
        <5> QED BY <3>7, <5>1
      <4>3. Behind(c, (cyc - 0) + lc[1] * cyc + Outer(b, body), 0, 0)'
        <5> HIDE DEF cyc, body
        <5> QED BY <3>5, <3>6 DEF Behind
      <4> HIDE DEF body
      <4> QED
        BY <3>8, <4>1, <4>2, <4>3 DEF InBody, h, cyc, l
    <3>10. Located(c, lf)'
      BY <2>8, <3>9, Locate
    <3> QED
      BY <2>8, <1>9, <3>2, <3>10 DEF Advanced
  <2>11. CASE lc[1] = 0
    <3>1. pc' = pc + 2 /\ lc' = lc
      BY <2>8, <2>11
    <3>2. Behind(c, o, 0, 0)
      <4>1. w + o = o
        BY <1>3, <1>4, <2>11
      <4> HIDE DEF w, o
      <4> QED BY <1>2, <4>1
    <3>3. Offset(k + h + 2 + s + 2)'
      <4> HIDE DEF h, s
      <4> QED BY <1>1, <1>2, <2>8, <1>m, <3>1, OffsetStep
    <3>4. CASE h = 2
      <4>1. k + h + 2 + s + 2 = k + 6 + s
        BY <1>3, <3>4
      <4>2. Offset(k + 6 + s)'
        <5> HIDE DEF h, s
        <5> QED BY <3>3, <4>1
      <4>3. PICK z \in Nat : z = o
        BY <1>4
      <4>4. Behind(c, z, 0, 0)'
        <5>1. Behind(c, z, 0, 0)
          BY <3>2, <4>3
        <5> QED BY <2>8, <5>1, Keeping
      <4>5. Outer(b, body)' = z
        BY <3>1, <4>3 DEF Outer
      <4>6. Behind(c, Outer(b, body), 0, 0)'
        BY <4>4, <4>5 DEF Behind
      <4>7. AtOuterEnd(c, b, k, body)'
        <5> HIDE DEF body
        <5> QED BY <3>4, <4>2, <4>6 DEF AtOuterEnd, s, h, cyc, l
      <4>8. Located(c, lf)'
        BY <2>8, <4>7, Locate
      <4> QED
        BY <1>5, <2>8, <1>9, <3>1, <4>8 DEF Advanced
    <3>5. CASE h = 0
      <4>1. o = Rest(b, body)
        <5>1. Rest(b, body) \in Nat /\ Round(b, body) \in Nat
          BY <1>1, NestNumbers
        <5>2. 0 * Round(b, body) + Rest(b, body) = Rest(b, body)
          BY <5>1
        <5> QED BY <3>5, <5>2 DEF Outer
      <4>2. k + h + 2 + s + 2 = k + Size(b, body)
        BY <1>3, <3>5 DEF Size
      <4>3. Offset(k + Size(b, body))'
        <5> HIDE DEF h, s
        <5> QED BY <3>3, <4>2
      <4>4. Behind(c, Rest(b, body), 0, 0)
        BY <3>2, <4>1
      <4>5. Located(c, lf)'
        BY <2>8, <4>3, <4>4, LeaveNest
      <4> QED
        BY <1>5, <2>8, <1>9, <3>1, <4>5 DEF Advanced
    <3> QED
      BY <1>3, <3>4, <3>5
  <2> QED
    BY <2>10, <2>11
<1> QED
  BY <1>9, <1>e

\* The end of the outer loop jumps to the inner one, or the nest is done.
LEMMA AtOuterEndAdvance ==
  ASSUME NEW c \in Requests, NEW lf, NEW b \in Nat \ {0}, NEW k \in Nat, Nest(c, lf, b, k),
         AtOuterEnd(c, b, k, Burst(c.type, lf))
  PROVE  Observed(c, lf) /\ (Exec => Advanced(c, lf))
PROOF
<1> DEFINE body == Burst(c.type, lf)
           l == Len(body)
           cyc == Copies(b, body)
           h == Header(b)
           s == cyc * l
           o == Outer(b, body)
           r == Round(b, body)
           d == Rest(b, body)
<1>1. Proceeds(c, lf) /\ IsCode(body) /\ l \in 1 .. 7 /\ Base(running) \in Nat
  BY ProceedsFacts DEF Nest
<1>2. h = 2 /\ Offset(k + 6 + s) /\ Behind(c, o, 0, 0)
  BY DEF AtOuterEnd
<1>3. s \in Nat /\ r \in Nat /\ d \in Nat /\ (4 + s) % (JumpMax + 1) = 4 + s
  BY <1>1, <1>2, NestNumbers
<1>4. o \in Nat /\ o = lc[0] * r + d
  <2>1. o \in Nat
    BY <1>1, OuterType
  <2> QED
    BY <1>2, <2>1 DEF Outer
<1>5. lc \in [{0, 1} -> Nat]
  BY <1>1 DEF Proceeds
<1>7. /\ mem[pc] = LPEND(0, 4 + s)[1] /\ mem[pc] # Operand
      /\ pc - Base(running) + 1 \in DOMAIN Programs[lf][c]
  BY <1>2, NestReading
<1>9. Observed(c, lf)
  <2>1. mem[pc].op \notin Loads \cup Stores \cup {"SEV"}
    <3>1. mem[pc] = [op |-> "LPEND", loop |-> 0, bjump |-> (4 + s) % (JumpMax + 1)]
      BY <1>7, FirstBytes
    <3> HIDE DEF s
    <3> QED BY <3>1 DEF Loads, Stores
  <2> HIDE DEF o
  <2>3. Moved(c)
    BY <1>2, <1>4, BehindBounds
  <2> QED
    BY <1>7, <2>1, <2>3 DEF Observed
<1>e. ASSUME Exec PROVE Advanced(c, lf)
  <2>8. /\ IF lc[0] = 0 THEN pc' = pc + 2 /\ lc' = lc
           ELSE pc' = pc - (4 + s) /\ lc' = [lc EXCEPT ![0] = @ - 1]
        /\ UNCHANGED <<running, req, lockupFree, ccr, loaded, stored>>
    <3> HIDE DEF s
    <3>1. 4 + s \in Int
      BY <1>3
    <3> QED BY <1>1, <1>3, <1>7, <3>1, <1>e, LoopInsn
  <2>10. CASE lc[0] # 0
    <3>1. pc' = pc - (4 + s) /\ lc' = [lc EXCEPT ![0] = @ - 1]
      BY <2>8, <2>10
    <3>2. lc' \in [{0, 1} -> Nat] /\ lc'[0] = lc[0] - 1
      <4> HIDE DEF s
      <4> QED BY <1>5, <2>10, <3>1
    <3>3. Outer(b, body)' = (lc[0] - 1) * r + d
      BY <1>2, <3>2 DEF Outer
    <3>4. r + ((lc[0] - 1) * r + d) = o
      <4>1. lc[0] \in Int
        BY <1>5
      <4>2. lc[0] * r = r + (lc[0] - 1) * r /\ (lc[0] - 1) * r \in Int
        <5> HIDE DEF r
        <5> QED BY <1>3, <4>1
      <4> HIDE DEF r, d, o
      <4> QED BY <1>3, <1>4, <4>2
    <3>5. Behind(c, r + Outer(b, body), 0, 0)'
      <4>1. PICK z \in Nat : z = o
        BY <1>4
      <4>2. Behind(c, z, 0, 0)'
        <5>1. Behind(c, z, 0, 0)
          BY <1>2, <4>1
        <5> QED BY <2>8, <5>1, Keeping
      <4>3. z = r + Outer(b, body)'
        BY <3>3, <3>4, <4>1
      <4> HIDE DEF o
      <4> QED BY <4>2, <4>3 DEF Behind
    <3>6. Offset(k + 2)'
      <4>1. s \in Int
        BY <1>3
      <4>2. Offset(k + 6 + s) /\ pc' = pc - (4 + s)
        BY <1>2, <3>1
      <4> HIDE DEF s
      <4> QED BY <1>1, <2>8, <4>1, <4>2 DEF Offset, Base
    <3>7. AtInner(c, b, k, body)'
      BY <1>2, <3>5, <3>6 DEF AtInner
    <3>8. Located(c, lf)'
      BY <2>8, <3>7, Locate
    <3> QED
      BY <2>8, <1>9, <3>2, <3>8 DEF Advanced
  <2>11. CASE lc[0] = 0
    <3>1. pc' = pc + 2 /\ lc' = lc
      BY <2>8, <2>11
    <3>2. o = d
      <4>1. 0 * r + d = d
        BY <1>3
      <4> QED BY <1>4, <2>11, <4>1
    <3>3. Offset(k + 6 + s + 2)'
      <4>1. k + 6 + s \in Int
        BY <1>3
      <4> HIDE DEF s
      <4> QED BY <1>1, <1>2, <2>8, <3>1, <4>1, OffsetStep
    <3>4. k + 6 + s + 2 = k + Size(b, body)
      BY <1>2, <1>3 DEF Size
    <3>5. Offset(k + Size(b, body))'
      <4> HIDE DEF s
      <4> QED BY <3>3, <3>4
    <3>6. Behind(c, Rest(b, body), 0, 0)
      BY <1>2, <3>2
    <3>7. Located(c, lf)'
      BY <2>8, <3>5, <3>6, LeaveNest
    <3> QED
      BY <1>5, <2>8, <1>9, <3>1, <3>7 DEF Advanced
  <2> QED
    BY <2>10, <2>11
<1> QED
  BY <1>9, <1>e

\* From wherever it is the controller goes on to the next place.
LEMMA LocatedAdvance ==
  ASSUME NEW c \in Requests, NEW lf, Proceeds(c, lf), Located(c, lf)
  PROVE  Observed(c, lf) /\ (Exec => Advanced(c, lf))
PROOF
<1>1. CASE InPrologue(c)
  BY <1>1, PrologueAdvance
<1>2. CASE InLoops(c, lf)
  <2> DEFINE body == Burst(c.type, lf)
             p == Programs[lf][c]
             There(b, k) ==
               /\ Ahead(p, k, b, body)
               /\ \/ AtLoops(c, b, k)
                  \/ b # 0 /\ \/ AtInner(c, b, k, body)
                              \/ InBody(c, lf, b, k, body)
                              \/ AtInnerEnd(c, b, k, body)
                              \/ AtOuterEnd(c, b, k, body)
  <2>1. ccr = PrepareCCR(c) /\ \E b \in Nat, k \in Nat : There(b, k)
    <3> HIDE DEF body, p
    <3> QED BY <1>2 DEF InLoops, body, p
  <2> HIDE DEF There
  <2>2. PICK b \in Nat, k \in Nat : There(b, k)
    BY <2>1
  <2>3. Nest(c, lf, b, k)
    BY <2>1, <2>2 DEF Nest, There
  <2>4. CASE AtLoops(c, b, k)
    BY <2>3, <2>4, AtLoopsAdvance
  <2>5. CASE b # 0 /\ AtInner(c, b, k, body)
    BY <2>3, <2>5, AtInnerAdvance
  <2>6. CASE b # 0 /\ InBody(c, lf, b, k, body)
    BY <2>3, <2>6, InBodyAdvance
  <2>7. CASE b # 0 /\ AtInnerEnd(c, b, k, body)
    BY <2>3, <2>7, AtInnerEndAdvance
  <2>8. CASE b # 0 /\ AtOuterEnd(c, b, k, body)
    BY <2>3, <2>8, AtOuterEndAdvance
  <2> QED
    BY <2>2, <2>4, <2>5, <2>6, <2>7, <2>8 DEF There
<1> QED
  BY <1>1, <1>2 DEF Located

\* At first nothing runs.
LEMMA InitMove == Init => MoveInv
PROOF
  BY DEF Init, MoveInv

\* A program is started at its beginning, and every instruction keeps the place.
LEMMA NextMove == MemInv /\ MoveInv /\ [Next]_vars => MoveInv'
PROOF
<1> SUFFICES ASSUME MemInv, MoveInv, [Next]_vars PROVE MoveInv'
  OBVIOUS
<1>1. ASSUME running # -1, UNCHANGED <<running, pc, ccr, lc, loaded, stored, lockupFree>>,
             req'[running] = req[running]
      PROVE  MoveInv'
  <2>0. /\ pc' = pc /\ running' = running /\ ccr' = ccr /\ lc' = lc
        /\ loaded' = loaded /\ stored' = stored
    BY <1>1
  <2>1. ASSUME NEW c, NEW lf, Located(c, lf) PROVE Located(c, lf)'
    <3>1. InPrologue(c) => InPrologue(c)'
      BY <2>0 DEF InPrologue, Offset, Base
    <3> DEFINE body == Burst(c.type, lf)
    <3>2. ASSUME NEW b, NEW k PROVE AtLoops(c, b, k) => AtLoops(c, b, k)'
      BY <2>0 DEF AtLoops, Offset, Base, Behind
    <3>3. ASSUME NEW b, NEW k PROVE AtInner(c, b, k, body) => AtInner(c, b, k, body)'
      BY <2>0 DEF AtInner, Offset, Base, Behind, Outer
    <3>4. ASSUME NEW b, NEW k PROVE InBody(c, lf, b, k, body) => InBody(c, lf, b, k, body)'
      <4> HIDE DEF body
      <4> QED BY <2>0 DEF InBody, Offset, Base, Behind, Outer
    <3>5. ASSUME NEW b, NEW k PROVE AtInnerEnd(c, b, k, body) => AtInnerEnd(c, b, k, body)'
      BY <2>0 DEF AtInnerEnd, Offset, Base, Behind, Outer
    <3>6. ASSUME NEW b, NEW k PROVE AtOuterEnd(c, b, k, body) => AtOuterEnd(c, b, k, body)'
      BY <2>0 DEF AtOuterEnd, Offset, Base, Behind, Outer
    <3>7. InLoops(c, lf) => InLoops(c, lf)'
      BY <2>0, <3>2, <3>3, <3>4, <3>5, <3>6 DEF InLoops
    <3> QED
      BY <2>1, <3>1, <3>7 DEF Located
  <2> QED
    BY <1>1, <2>1 DEF MoveInv
<1>2. ASSUME running' = -1, lc' \in [{0, 1} -> Nat] PROVE MoveInv'
  BY <1>2 DEF MoveInv
<1>3. ASSUME NEW d \in Calls, Submit(d) PROVE MoveInv'
  <2>1. UNCHANGED <<running, pc, ccr, lc, loaded, stored, lockupFree>>
    BY <1>3 DEF Submit, hwVars
  <2>2. CASE running = -1
    BY <1>2, <2>1, <2>2 DEF MoveInv
  <2>3. CASE running # -1
    <3>1. req[FreeSlot] = NONE /\ req' = [req EXCEPT ![FreeSlot] = d]
      BY <1>3 DEF Submit, FreeSlot, Slots
    <3>2. req[running] # NONE
      BY <2>3, NoneNoCall DEF MoveInv, Requests
    <3>3. req'[running] = req[running]
      BY <2>3, <3>1, <3>2 DEF MemInv
    <3> QED
      BY <1>1, <2>1, <2>3, <3>3
  <2> QED
    BY <2>2, <2>3
<1>4. CASE Trigger
  <2>1. PICK s \in Slots : s = SlotToRun
    BY DEF MemInv, SlotToRun, Slots
  <2>2. /\ running' = s /\ pc' = Base(s) /\ loaded' = 0 /\ stored' = 0
        /\ req[s] # NONE /\ req' = req /\ lc' = lc
    BY <1>4, <2>1 DEF Trigger, driverVars
  <2>3. req[s] \in Requests
    BY <2>2 DEF MemInv, Requests
  <2>4. Base(s) \in Nat
    BY MicrocodeAssumption DEF Base, Slots
  <2>5. Offset(0)'
    <3>1. Base(running') = Base(s) /\ Base(s) + 0 = Base(s)
      BY <2>2, <2>4
    <3> QED
      BY <2>2, <3>1 DEF Offset, Base
  <2>6. \A c : InPrologue(c)'
    BY <2>2, <2>5 DEF InPrologue
  <2> QED
    BY <2>2, <2>3, <2>6 DEF MoveInv, Located
<1>5. CASE Exec
  <2>1. running # -1
    BY <1>5, Decoding
  <2>2. PICK c \in Requests, lf \in BOOLEAN : c = req[running] /\ lf = lockupFree
    BY <2>1 DEF MoveInv, MemInv
  <2>3. Proceeds(c, lf) /\ Located(c, lf)
    BY <2>1, <2>2 DEF MoveInv, Proceeds, Runs
  <2>4. Advanced(c, lf)
    BY <1>5, <2>3, LocatedAdvance
  <2>5. CASE ExecSevEnd
    BY <1>2, <2>5 DEF ExecSevEnd, MoveInv
  <2>6. CASE UNCHANGED <<running, req, lockupFree>> /\ lc' \in [{0, 1} -> Nat] /\ Located(c, lf)'
    BY <2>2, <2>6 DEF MoveInv
  <2> QED
    BY <2>4, <2>5, <2>6 DEF Advanced
<1>6. CASE UNCHANGED vars
  <2>1. UNCHANGED <<running, pc, ccr, lc, loaded, stored, lockupFree, req>>
    BY <1>6 DEF vars, hwVars, driverVars
  <2>2. CASE running = -1
    BY <1>2, <2>1, <2>2 DEF MoveInv
  <2>3. CASE running # -1
    BY <1>1, <2>1, <2>3
  <2> QED
    BY <2>2, <2>3
<1> QED
  BY <1>3, <1>4, <1>5, <1>6 DEF Next

\* Whatever clients submit, and however the slots are used: the controller runs
\* the program of a request that is hooked, fetches an instruction and never an
\* operand, stores no more than it has loaded and loads no more than was asked
\* for; when it comes to the event, all the bytes of the request are stored.
\* For any number of bursts, any size of the loop counters and of the jumps.
THEOREM MovesExactlyAlways == Spec => []MovesExactly
PROOF
<1>1. Init => MemInv /\ MoveInv
  BY InitMem, InitMove
<1>2. (MemInv /\ MoveInv) /\ [Next]_vars => (MemInv /\ MoveInv)'
  BY NextMem, NextMove
<1>3. MemInv /\ MoveInv => MovesExactly
  <2> SUFFICES ASSUME MemInv, MoveInv, running # -1
               PROVE  /\ req[running] # NONE
                      /\ pc - Base(running) + 1 \in DOMAIN Programs[lockupFree][req[running]]
                      /\ mem[pc] # Operand
                      /\ stored <= loaded /\ loaded <= req[running].bytes
                      /\ Fetched("SEV") => stored = req[running].bytes
    BY DEF MovesExactly
  <2>1. PICK c \in Requests, lf \in BOOLEAN : c = req[running] /\ lf = lockupFree
    BY DEF MoveInv, MemInv
  <2>2. Proceeds(c, lf) /\ Located(c, lf)
    BY <2>1 DEF MoveInv, Proceeds, Runs
  <2>3. Observed(c, lf)
    BY <2>2, LocatedAdvance
  <2>4. c # NONE
    BY NoneNoCall DEF Requests
  <2> QED
    BY <2>1, <2>3, <2>4 DEF Observed, Moved, Fetched
<1> QED
  BY <1>1, <1>2, <1>3, PTL DEF Spec

\* A program that runs is never stuck at a load the MFIFO has no room for, nor at a
\* store with nothing to be stored, whatever bursts were chosen for its request.
\* For any width of the bus that the driver can read and any share of the MFIFO,
\* under the hypotheses that stand in NeverStuck as Roomy, and that the driver does not check:
\* for a copy that the share is not 0, for a device that it holds a beat.
THEOREM NeverStuckAlways == Spec => []NeverStuck
PROOF
<1>1. Init => MemInv /\ MoveInv
  BY InitMem, InitMove
<1>2. (MemInv /\ MoveInv) /\ [Next]_vars => (MemInv /\ MoveInv)'
  BY NextMem, NextMove
<1>3. MemInv /\ MoveInv => NeverStuck
  <2> SUFFICES ASSUME MemInv, MoveInv, running # -1, Roomy(req[running])
               PROVE  /\ Fetched("LD") \/ Fetched("LDP") =>
                           loaded + BurstBytes(ccr) - stored <= BeatMax * Lines
                      /\ Fetched("ST") \/ Fetched("STP") => stored + BurstBytes(ccr) <= loaded
    BY DEF NeverStuck
  <2>1. PICK c \in Requests, lf \in BOOLEAN : c = req[running] /\ lf = lockupFree
    BY DEF MoveInv, MemInv
  <2>2. Proceeds(c, lf) /\ Located(c, lf)
    BY <2>1 DEF MoveInv, Proceeds, Runs
  <2>3. Observed(c, lf)
    BY <2>2, LocatedAdvance
  <2>4. BytesOf(c) <= BeatMax * Lines /\ BytesOf(c) \in Nat
    BY <2>1, BurstFits, BytesOfType DEF Requests
  <2>5. stored \in Int /\ loaded \in Int
    BY <2>3 DEF Observed, Moved
  <2>6. BeatMax * Lines \in Int
    BY MicrocodeAssumption DEF Widths
  <2>7. ASSUME Fetched("LD") \/ Fetched("LDP")
        PROVE  loaded + BurstBytes(ccr) - stored <= BeatMax * Lines
    <3>1. BurstBytes(ccr) = BytesOf(c) /\ loaded = stored
      BY <2>3, <2>7 DEF Observed, Fetched, Loads, BytesOf
    <3> DEFINE room == BeatMax * Lines
    <3> HIDE DEF room
    <3> QED
      BY <2>4, <2>5, <2>6, <3>1 DEF room
  <2>8. ASSUME Fetched("ST") \/ Fetched("STP") PROVE stored + BurstBytes(ccr) <= loaded
    <3>1. BurstBytes(ccr) = BytesOf(c) /\ loaded = stored + BytesOf(c)
      BY <2>3, <2>8 DEF Observed, Fetched, Stores, BytesOf
    <3> QED
      BY <2>4, <2>5, <3>1
  <2> QED
    BY <2>7, <2>8
<1> QED
  BY <1>1, <1>2, <1>3, PTL DEF Spec
================================================================================
