----------------------------- MODULE DMA330_proofs -----------------------------
(***************************************************************************)
(* Proofs about DMA330, for any number of channels, threads, events and    *)
(* descriptors: what holds under every hazard, and, when the environment   *)
(* is orderly (Env = {}), that the channel layer keeps the rules of the    *)
(* core below it (CoreSpec) and is a DMA engine to its clients             *)
(* (EngineSpec).  Where SMP is not assumed to be FALSE, what several       *)
(* processors do to the links of desc_pool without a common lock is left   *)
(* out: DMA330 changes the pool atomically.                                *)
(***************************************************************************)
EXTENDS DMA330, DMA330Core_proofs, SequenceTheorems, FiniteSetTheorems

-----------------------------------------------------------------------------
(* The invariants                                                           *)

\* The descriptors on the lists of channel c.
Listed(c) == Range(prepped[c]) \cup Range(submitted[c]) \cup Range(work[c]) \cup Range(completed[c])

\* Every list holds a descriptor once, and no two lists share one.
OnceIn(c) ==
  /\ IsInjective(prepped[c]) /\ IsInjective(submitted[c])
  /\ IsInjective(work[c]) /\ IsInjective(completed[c])
  /\ Range(prepped[c]) \cap Range(submitted[c]) = {}
  /\ Range(prepped[c]) \cap Range(work[c]) = {}
  /\ Range(prepped[c]) \cap Range(completed[c]) = {}
  /\ Range(submitted[c]) \cap Range(work[c]) = {}
  /\ Range(submitted[c]) \cap Range(completed[c]) = {}
  /\ Range(work[c]) \cap Range(completed[c]) = {}
  /\ Range(pool) \cap Listed(c) = {}

Once ==
  /\ IsInjective(pool) /\ \A c \in Chans : OnceIn(c)
  /\ \A b, c \in Chans : b # c => Listed(b) \cap Listed(c) = {}
  /\ \A d \in Descs : d \in Range(pool) \/ \E c \in Chans : d \in Listed(c)

\* A channel that has no thread holds nothing and does nothing; an acquired
\* thread belongs to one channel.
Acquired ==
  /\ \A c \in Chans : thread[c] # -1 => ~free[thread[c]]
  /\ \A t \in Threads : ~free[t] => \E c \in Chans : thread[c] = t
  /\ \A b, c \in Chans : thread[b] = thread[c] /\ thread[c] # -1 => b = c
  /\ \A c \in Chans : thread[c] = -1 =>
       /\ Listed(c) = {}
       /\ ~scheduled[c] /\ control[c] = "none"
       /\ \A x \in Runners : pc[c][x] = "idle"

\* pch->lock is held by the runner that is inside dma330_tasklet or in the middle
\* of a command.
InTasklet(c, x) == pc[c][x] \in {"harvest", "fill", "hook", "start", "finish"}
Locking ==
  \A c \in Chans :
    /\ lock[c] = "soft" <=> InTasklet(c, "soft")
    /\ lock[c] = "client" <=> InTasklet(c, "client") \/ control[c] # "none"
    /\ control[c] # "none" => pc[c]["client"] \in {"idle", "callback"}

\* Until a BUG_ON fires a command has a thread, and so has a channel with a
\* request to hook.
HasThread ==
  ~oops => \A c \in Chans : thread[c] = -1 =>
             control[c] = "none" /\ \A x \in Runners : pc[c][x] # "hook"

\* What holds under every hazard.
BaseInv == TypeOK /\ OwnInv /\ Locking /\ HasThread /\ Once

\* What the list of a descriptor tells of its status.
StatusesOf(c) ==
  /\ \A d \in Range(prepped[c]) \cup Range(submitted[c]) : status[d] = "PREP"
  /\ \A d \in Range(work[c]) : status[d] # "FREE"
  /\ \A d \in Range(completed[c]) : status[d] = "DONE"
  /\ \A d \in Listed(c) : owner[d] = c
  /\ \A d \in Range(work[c]) \cup Range(completed[c]) : status[d] = "DONE" => d \in moved

Statuses ==
  /\ unfit = {}
  /\ \A d \in Range(pool) : status[d] = "FREE"
  /\ \A c \in Chans : StatusesOf(c)

\* What a thread has hooked is on the work_list of its channel.
HookedWork ==
  \A c \in Chans, i \in Slots :
    thread[c] # -1 /\ req[thread[c]][i] # NULL => req[thread[c]][i] \in Range(work[c])

\* From the moment its command is accepted nothing of the channel completes.
TerminatingOf(c) ==
  /\ control[c] \in {"none", "terminate", "terminated"}
  /\ control[c] # "none" => completed[c] = <<>>
  /\ control[c] = "terminated" =>
       /\ hw[thread[c]] = "stopped" /\ ev[thread[c]] \notin es
       /\ Range(work[c]) \cap Due = {}

Terminating == \A c \in Chans : TerminatingOf(c)

\* A chain a client has prepared is no longer than the driver makes them.
ChainBound == IF MaxSg > Periods THEN MaxSg ELSE Periods
ShortChains == \A c \in Chans : Len(prepped[c]) <= ChainBound

Layer    == Acquired /\ Statuses /\ HookedWork /\ Terminating /\ ShortChains
LayerInv == OrderlyInv /\ BaseInv /\ Layer

\* work_list is in the order of its states: finished, handed to the thread, not
\* yet handed over.
Sorted(c) ==
  \A i, j \in DOMAIN work[c] : i < j =>
    /\ status[work[c][j]] = "DONE" => status[work[c][i]] = "DONE"
    /\ status[work[c][j]] = "BUSY" => status[work[c][i]] # "PREP"

\* The thread carries out what is hooked in the order of work_list: of two requests
\* the one hooked last is behind the other and is not the one that runs.
Engaged(t) == hw[t] = "executing" \/ Pending(t)
InTurn(c) ==
  LET t == thread[c] IN
  t # -1 /\ QueueFull(t) =>
    /\ \A i, j \in DOMAIN work[c] :
         work[c][i] = req[t][1 - lstenq[t]] /\ work[c][j] = req[t][lstenq[t]] => i < j
    /\ Engaged(t) => running[t] = 1 - lstenq[t]

\* At most one callback of a channel is due, and for a request before those that
\* are still hooked.
DueFirst(c) ==
  /\ \A d, e \in Due : owner[d] = c /\ owner[e] = c => d = e
  /\ \A i, j \in DOMAIN work[c] :
       work[c][i] \in Due /\ (\E s \in Slots : req[thread[c]][s] = work[c][j]) => i < j

\* The cookies of transfers that are still due were given out, and are not yet
\* complete; while the channel is not cyclic they increase.
Increasing(f, l) == \A i, j \in DOMAIN l : i < j => f[l[i]] < f[l[j]]
StillDue(c, d) == completedCookie[c] < dcookie[d] /\ dcookie[d] <= cookie[c]
CookiesDue(c) ==
  /\ completedCookie[c] <= cookie[c]
  /\ \A d \in Range(work[c]) \cup Range(submitted[c]) : StillDue(c, d)
  /\ \A d \in Range(completed[c]) : IF cyclic[c] THEN StillDue(c, d) ELSE dcookie[d] = 0
  /\ ~cyclic[c] =>
       /\ Increasing(dcookie, work[c]) /\ Increasing(dcookie, submitted[c])
       /\ \A d \in Range(work[c]), e \in Range(submitted[c]) : dcookie[d] < dcookie[e]

InOrder(c) == Sorted(c) /\ InTurn(c) /\ DueFirst(c)
EngineInv  == LayerInv /\ ~oops /\ \A c \in Chans : InOrder(c) /\ CookiesDue(c)
-----------------------------------------------------------------------------
(* Sequences that hold nothing twice                                        *)

\* What is in the concatenation of two lists.
LEMMA ConcatOnce ==
  ASSUME NEW S, NEW a \in Seq(S), NEW b \in Seq(S)
  PROVE  /\ a \o b \in Seq(S)
         /\ Range(a \o b) = Range(a) \cup Range(b)
         /\ IsInjective(a \o b) <=>
              IsInjective(a) /\ IsInjective(b) /\ Range(a) \cap Range(b) = {}
<1> DEFINE ab == a \o b
<1>1. /\ ab \in Seq(S) /\ Len(ab) = Len(a) + Len(b)
      /\ \A i \in 1 .. Len(a) + Len(b) : ab[i] = IF i <= Len(a) THEN a[i] ELSE b[i - Len(a)]
  BY ConcatProperties
<1>2. /\ Len(a) \in Nat /\ Len(b) \in Nat
      /\ DOMAIN a = 1 .. Len(a) /\ DOMAIN b = 1 .. Len(b) /\ DOMAIN ab = 1 .. Len(a) + Len(b)
  BY <1>1, LenProperties
<1> HIDE DEF ab
<1>3. \A i \in DOMAIN a : i \in DOMAIN ab /\ ab[i] = a[i]
  BY <1>1, <1>2
<1>4. \A i \in DOMAIN b : i + Len(a) \in DOMAIN ab /\ ab[i + Len(a)] = b[i]
  BY <1>1, <1>2
<1>5. \A i \in DOMAIN ab : \/ i \in DOMAIN a /\ ab[i] = a[i]
                           \/ i - Len(a) \in DOMAIN b /\ ab[i] = b[i - Len(a)]
  BY <1>1, <1>2
<1>6. Range(ab) = Range(a) \cup Range(b)
  BY <1>3, <1>4, <1>5 DEF Range
<1>7. ASSUME IsInjective(ab)
      PROVE  IsInjective(a) /\ IsInjective(b) /\ Range(a) \cap Range(b) = {}
  <2>1. IsInjective(a)
    BY <1>3, <1>7 DEF IsInjective
  <2>2. ASSUME NEW i \in DOMAIN b, NEW j \in DOMAIN b, b[i] = b[j] PROVE i = j
    <3>1. i + Len(a) = j + Len(a)
      BY <1>4, <1>7, <2>2 DEF IsInjective
    <3> QED
      BY <1>2, <3>1
  <2>3. ASSUME NEW i \in DOMAIN a, NEW j \in DOMAIN b, a[i] = b[j] PROVE FALSE
    <3>1. i = j + Len(a)
      BY <1>3, <1>4, <1>7, <2>3 DEF IsInjective
    <3> QED
      BY <1>2, <3>1
  <2> QED
    BY <2>1, <2>2, <2>3 DEF IsInjective, Range
<1>8. ASSUME IsInjective(a), IsInjective(b), Range(a) \cap Range(b) = {}
      PROVE  IsInjective(ab)
  <2> SUFFICES ASSUME NEW i \in DOMAIN ab, NEW j \in DOMAIN ab, ab[i] = ab[j] PROVE i = j
    BY DEF IsInjective
  <2>0. i \in Nat /\ j \in Nat
    BY <1>2
  <2>1. \A m \in DOMAIN a, n \in DOMAIN b : a[m] # b[n]
    BY <1>8 DEF Range
  <2>2. CASE i \in DOMAIN a /\ ab[i] = a[i] /\ j \in DOMAIN a /\ ab[j] = a[j]
    BY <1>8, <2>2 DEF IsInjective
  <2>3. CASE i - Len(a) \in DOMAIN b /\ ab[i] = b[i - Len(a)]
             /\ j - Len(a) \in DOMAIN b /\ ab[j] = b[j - Len(a)]
    <3>1. i - Len(a) = j - Len(a)
      BY <1>8, <2>3 DEF IsInjective
    <3> QED
      BY <1>2, <2>0, <3>1
  <2> QED
    BY <1>5, <2>1, <2>2, <2>3
<1> QED
  BY <1>1, <1>6, <1>7, <1>8 DEF ab

\* A part of a list, and what is left when it ends the list.
LEMMA PartOnce ==
  ASSUME NEW S, NEW s \in Seq(S), NEW m \in 1 .. Len(s) + 1, NEW n \in 0 .. Len(s)
  PROVE  /\ SubSeq(s, m, n) \in Seq(S)
         /\ Len(SubSeq(s, m, n)) = IF m <= n THEN n - m + 1 ELSE 0
         /\ Range(SubSeq(s, m, n)) = {s[i] : i \in m .. n}
         /\ IsInjective(s) => IsInjective(SubSeq(s, m, n))
<1> DEFINE q == SubSeq(s, m, n)
<1>0. Len(s) \in Nat /\ DOMAIN s = 1 .. Len(s) /\ m \in Int /\ n \in Int
  BY LenProperties
<1>1. \A i \in m .. n : s[i] \in S
  BY <1>0, ElementOfSeq
<1>2. /\ q \in Seq(S) /\ Len(q) = IF m <= n THEN n - m + 1 ELSE 0
      /\ \A i \in 1 .. n - m + 1 : q[i] = s[m + i - 1]
  BY <1>0, <1>1, SubSeqProperties
<1> HIDE DEF q
<1>3. DOMAIN q = 1 .. n - m + 1
  BY <1>0, <1>2, LenProperties
<1>4. \A i \in DOMAIN q : m + i - 1 \in m .. n /\ m + i - 1 \in DOMAIN s /\ q[i] = s[m + i - 1]
  BY <1>0, <1>2, <1>3
<1>5. \A i \in m .. n : i - m + 1 \in DOMAIN q /\ q[i - m + 1] = s[i]
  BY <1>0, <1>2, <1>3
<1>6. Range(q) = {s[i] : i \in m .. n}
  <2>1. ASSUME NEW x \in Range(q) PROVE x \in {s[i] : i \in m .. n}
    <3>1. PICK i \in DOMAIN q : x = q[i]
      BY DEF Range
    <3> QED
      BY <1>4, <3>1
  <2>2. ASSUME NEW i \in m .. n PROVE s[i] \in Range(q)
    BY <1>5 DEF Range
  <2> QED
    BY <2>1, <2>2
<1>7. ASSUME IsInjective(s), NEW i \in DOMAIN q, NEW j \in DOMAIN q, q[i] = q[j] PROVE i = j
  <2>1. m + i - 1 = m + j - 1
    BY <1>4, <1>7 DEF IsInjective
  <2> QED
    BY <1>0, <1>3, <2>1
<1>8. IsInjective(s) => IsInjective(q)
  BY <1>7 DEF IsInjective
<1> QED
  BY <1>2, <1>6, <1>8 DEF q

\* A list cut in two.
LEMMA CutOnce ==
  ASSUME NEW S, NEW s \in Seq(S), IsInjective(s), NEW n \in 0 .. Len(s)
  PROVE  LET a == SubSeq(s, 1, n)
             b == SubSeq(s, n + 1, Len(s))
         IN  /\ a \in Seq(S) /\ b \in Seq(S) /\ Len(a) = n
             /\ IsInjective(a) /\ IsInjective(b)
             /\ Range(a) \cap Range(b) = {}
             /\ Range(a) \cup Range(b) = Range(s)
<1>0. Len(s) \in Nat /\ DOMAIN s = 1 .. Len(s) /\ n \in Nat
  BY LenProperties
<1>1. /\ SubSeq(s, 1, n) \in Seq(S) /\ Len(SubSeq(s, 1, n)) = n
      /\ Range(SubSeq(s, 1, n)) = {s[i] : i \in 1 .. n}
      /\ IsInjective(SubSeq(s, 1, n))
  BY <1>0, PartOnce
<1>2. /\ SubSeq(s, n + 1, Len(s)) \in Seq(S)
      /\ Range(SubSeq(s, n + 1, Len(s))) = {s[i] : i \in n + 1 .. Len(s)}
      /\ IsInjective(SubSeq(s, n + 1, Len(s)))
  BY <1>0, PartOnce
<1>3. {s[i] : i \in 1 .. n} \cap {s[i] : i \in n + 1 .. Len(s)} = {}
  BY <1>0 DEF IsInjective
<1>4. {s[i] : i \in 1 .. n} \cup {s[i] : i \in n + 1 .. Len(s)} = Range(s)
  BY <1>0 DEF Range
<1> QED
  BY <1>1, <1>2, <1>3, <1>4

\* A list without its i-th descriptor.
LEMMA RemoveOnce ==
  ASSUME NEW S, NEW s \in Seq(S), IsInjective(s), NEW i \in DOMAIN s
  PROVE  /\ RemoveAt(s, i) \in Seq(S) /\ IsInjective(RemoveAt(s, i))
         /\ s[i] \in S /\ s[i] \in Range(s)
         /\ Range(RemoveAt(s, i)) = Range(s) \ {s[i]}
<1>0. Len(s) \in Nat /\ DOMAIN s = 1 .. Len(s) /\ i \in 1 .. Len(s) /\ s[i] \in S
  BY LenProperties, ElementOfSeq
<1> DEFINE a == SubSeq(s, 1, i - 1)
           b == SubSeq(s, i + 1, Len(s))
<1>1. i - 1 \in 0 .. Len(s) /\ i + 1 \in 1 .. Len(s) + 1 /\ Len(s) \in 0 .. Len(s)
      /\ 1 \in 1 .. Len(s) + 1
  BY <1>0
<1>2. a \in Seq(S) /\ IsInjective(a) /\ Range(a) = {s[j] : j \in 1 .. i - 1}
  BY <1>1, PartOnce
<1>3. b \in Seq(S) /\ IsInjective(b) /\ Range(b) = {s[j] : j \in i + 1 .. Len(s)}
  BY <1>1, PartOnce
<1> HIDE DEF a, b
<1>4. Range(a) \cap Range(b) = {}
  BY <1>0, <1>2, <1>3 DEF IsInjective
<1>5. Range(a) \cup Range(b) = Range(s) \ {s[i]}
  <2>1. ASSUME NEW j \in DOMAIN s, j # i PROVE s[j] \in Range(a) \cup Range(b)
    <3>1. j \in 1 .. i - 1 \/ j \in i + 1 .. Len(s)
      BY <1>0, <2>1
    <3> QED
      BY <1>2, <1>3, <3>1
  <2>2. ASSUME NEW x \in Range(a) \cup Range(b) PROVE x \in Range(s) /\ x # s[i]
    <3>1. PICK j \in (1 .. i - 1) \cup (i + 1 .. Len(s)) : x = s[j]
      BY <1>2, <1>3
    <3>2. j \in DOMAIN s /\ j # i
      BY <1>0, <3>1
    <3> QED
      BY <3>1, <3>2 DEF Range, IsInjective
  <2>3. ASSUME NEW x \in Range(s), x # s[i] PROVE x \in Range(a) \cup Range(b)
    BY <2>1, <2>3 DEF Range
  <2> QED
    BY <2>2, <2>3
<1>6. a \o b \in Seq(S) /\ IsInjective(a \o b) /\ Range(a \o b) = Range(s) \ {s[i]}
  BY <1>2, <1>3, <1>4, <1>5, ConcatOnce
<1> QED
  BY <1>0, <1>6 DEF RemoveAt, a, b, Range

\* A list with a descriptor more.
LEMMA AppendOnce ==
  ASSUME NEW S, NEW s \in Seq(S), NEW d \in S
  PROVE  /\ Append(s, d) \in Seq(S)
         /\ Range(Append(s, d)) = Range(s) \cup {d}
         /\ IsInjective(Append(s, d)) <=> IsInjective(s) /\ d \notin Range(s)
<1> DEFINE one == <<d>>
<1>1. Append(s, d) = s \o one /\ one \in Seq(S)
  OBVIOUS
<1>2. DOMAIN one = {1} /\ one[1] = d
  OBVIOUS
<1> HIDE DEF one
<1>3. Range(one) = {d} /\ IsInjective(one)
  BY <1>2 DEF Range, IsInjective
<1> QED
  BY <1>1, <1>3, ConcatOnce

\* A list without its first descriptor.
LEMMA TailAt ==
  ASSUME NEW S, NEW s \in Seq(S), s # <<>>
  PROVE  /\ 1 \in DOMAIN s /\ Head(s) = s[1] /\ RemoveAt(s, 1) = Tail(s) /\ Tail(s) \in Seq(S)
         /\ DOMAIN Tail(s) = 1 .. Len(s) - 1 /\ Len(Tail(s)) = Len(s) - 1
         /\ \A i \in DOMAIN Tail(s) : i + 1 \in DOMAIN s /\ Tail(s)[i] = s[i + 1]
<1>0. Len(s) \in Nat \ {0} /\ DOMAIN s = 1 .. Len(s)
  BY LenProperties, EmptySeq
<1>1. Tail(s) = SubSeq(s, 2, Len(s)) /\ SubSeq(s, 1, 0) = <<>> /\ Head(s) = s[1]
  BY <1>0, TailIsSubSeq, SubSeqEmpty
<1>2. SubSeq(s, 2, Len(s)) \in Seq(S)
  BY <1>0, PartOnce
<1>3. RemoveAt(s, 1) = Tail(s)
  BY <1>1, <1>2, ConcatEmptySeq DEF RemoveAt
<1>4. Tail(s) \in Seq(S) /\ Len(Tail(s)) = Len(s) - 1
      /\ \A i \in 1 .. Len(s) - 1 : Tail(s)[i] = s[i + 1]
  BY <1>0, HeadTailProperties
<1>5. DOMAIN Tail(s) = 1 .. Len(s) - 1
  BY <1>4, LenProperties
<1> QED
  BY <1>0, <1>1, <1>3, <1>4, <1>5

LEMMA TailOnce ==
  ASSUME NEW S, NEW s \in Seq(S), IsInjective(s), s # <<>>
  PROVE  /\ Tail(s) \in Seq(S) /\ IsInjective(Tail(s))
         /\ Head(s) \in S /\ Head(s) \in Range(s)
         /\ Range(Tail(s)) = Range(s) \ {Head(s)}
<1>1. 1 \in DOMAIN s /\ Head(s) = s[1] /\ RemoveAt(s, 1) = Tail(s)
  BY TailAt
<1>2. /\ RemoveAt(s, 1) \in Seq(S) /\ IsInjective(RemoveAt(s, 1))
      /\ s[1] \in S /\ s[1] \in Range(s)
      /\ Range(RemoveAt(s, 1)) = Range(s) \ {s[1]}
  BY <1>1, RemoveOnce
<1> QED
  BY <1>1, <1>2

LEMMA RangeEmpty ==
  ASSUME NEW S, NEW s \in Seq(S)
  PROVE  /\ Range(s) \subseteq S
         /\ Range(s) = {} <=> s = <<>>
         /\ Range(<<>>) = {} /\ IsInjective(<<>>)
<1>1. Len(s) \in Nat /\ DOMAIN s = 1 .. Len(s) /\ s \in [1 .. Len(s) -> S]
  BY LenProperties
<1>2. s # <<>> => 1 \in DOMAIN s
  BY <1>1, EmptySeq
<1>3. DOMAIN <<>> = {}
  OBVIOUS
<1>4. Range(<<>>) = {} /\ IsInjective(<<>>)
  BY <1>3 DEF Range, IsInjective
<1>5. Range(s) \subseteq S
  BY <1>1 DEF Range
<1>6. s # <<>> => s[1] \in Range(s)
  BY <1>2 DEF Range
<1> QED
  BY <1>4, <1>5, <1>6

-----------------------------------------------------------------------------
(* Every hazard: the steps of the layer as steps of the core, and types     *)

\* The pool dma330_probe fills holds every descriptor once.
LEMMA FullPool ==
  LET s == SetToSeq(Descs) IN
  s \in Seq(Descs) /\ IsInjective(s) /\ Range(s) = Descs
<1> DEFINE n == Cardinality(Descs)
           s == SetToSeq(Descs)
<1>1. n \in Nat /\ ExistsBijection(1 .. n, Descs)
  BY ChannelAssumption, FS_CardinalityType
<1>2. \E f \in [1 .. n -> Descs] : IsInjective(f)
  BY <1>1 DEF ExistsBijection, Bijection, Injection
<1>3. s \in [1 .. n -> Descs] /\ IsInjective(s)
  BY <1>2 DEF SetToSeq
<1>4. s \in Injection(1 .. n, Descs)
  BY <1>3 DEF Injection
<1>5. Cardinality(1 .. n) = n /\ IsFiniteSet(1 .. n)
  BY <1>1, FS_Interval
<1>6. s \in Surjection(1 .. n, Descs)
  <2> HIDE DEF s, n
  <2>1. Cardinality(1 .. n) = Cardinality(Descs)
    BY <1>5 DEF n
  <2> QED
    BY <1>4, <2>1, ChannelAssumption, FS_Injection
<1>7. Range(s) = Descs
  <2> HIDE DEF s, n
  <2>1. s \in [1 .. n -> Descs] /\ \A d \in Descs : \E i \in 1 .. n : s[i] = d
    BY <1>6 DEF Surjection
  <2> QED
    BY <2>1 DEF Range
<1>8. s \in Seq(Descs)
  BY <1>1, <1>3, SeqDef
<1> QED
  BY <1>3, <1>7, <1>8

LEMMA ListTypes ==
  ASSUME TypeOK, NEW c \in Chans
  PROVE  /\ pool \in Seq(Descs) /\ prepped[c] \in Seq(Descs) /\ submitted[c] \in Seq(Descs)
         /\ work[c] \in Seq(Descs) /\ completed[c] \in Seq(Descs)
  BY DEF TypeOK

\* A step of the layer is one of the core, perhaps against its rules, or leaves it
\* alone.
LEMMA NextIsCall ==
  ASSUME TypeOK, HasThread, [Next]_vars
  PROVE  [AnyNext]_coreVars
<1> USE DEF AnyNext
<1>1. CASE UNCHANGED vars
  BY <1>1 DEF vars
<1>2. CASE Alive /\ \E c \in Chans : Client(c)
  <2>0. PICK c \in Chans : Client(c)
    BY <1>2
  <2>1. thread[c] # -1 => thread[c] \in Threads
    BY DEF TypeOK
  <2>2. CASE AllocChan(c)
    BY <2>2 DEF AllocChan, AnyCall
  <2>3. CASE FreeChan(c)
    BY <2>1, <2>3 DEF FreeChan, AnyCall
  <2>4. ASSUME NEW n \in Nat, Prep(c, n) PROVE AnyMark
    <3>1. n \in 0 .. Len(pool) /\ 1 \in 1 .. Len(pool) + 1
      BY <2>4, ListTypes, LenProperties DEF Prep
    <3>2. Range(Chain(n)) \in SUBSET Descs
      BY <3>1, ListTypes, PartOnce, RangeEmpty DEF Chain
    <3> QED
      BY <2>4, <3>2 DEF Prep, AnyMark
  <2>5. CASE PrepSg(c)
    BY <2>4, <2>5, ChannelAssumption DEF PrepSg
  <2>6. CASE PrepCyclic(c)
    BY <2>4, <2>6, ChannelAssumption DEF PrepCyclic
  <2>7. CASE TxSubmit(c) \/ IssuePending(c) \/ (\E cmd \in {"terminate", "pause"} : Command(c, cmd))
             \/ TxStatus(c)
    BY <2>7 DEF TxSubmit, IssuePending, Command, TxStatus
  <2>8. CASE Terminate(c) \/ Pause(c) \/ PauseRequest(c)
    <3>1. thread[c] \in Threads
      BY <1>2, <2>1, <2>8 DEF Terminate, Pause, PauseRequest, Passes, HasThread, Alive
    <3> QED
      BY <2>8, <3>1 DEF Terminate, Pause, PauseRequest, AnyCall
  <2>9. CASE TerminateAll(c)
    <3>1. thread[c] \in Threads
      BY <1>2, <2>1, <2>9 DEF TerminateAll, Passes, HasThread, Alive
    <3>2. Marked(c) \in Seq(Descs)
      BY ListTypes, ConcatProperties DEF Marked
    <3>3. Range(Marked(c)) \in SUBSET Descs
      BY <3>2, RangeEmpty
    <3> QED
      BY <2>9, <3>1, <3>3 DEF TerminateAll, AnyCall
  <2> QED
    BY <2>0, <2>2, <2>3, <2>5, <2>6, <2>7, <2>8, <2>9 DEF Client
<1>3. CASE Alive /\ \E c \in Chans : \E x \in Runners : Tasklet(c, x)
  <2>0. PICK c \in Chans, x \in Runners : Tasklet(c, x)
    BY <1>3
  <2>1. thread[c] # -1 => thread[c] \in Threads
    BY DEF TypeOK
  <2>2. CASE Enter(c, x) \/ Harvest(c, x) \/ FillQueue(c, x) \/ Resume(c, x)
    BY <2>2 DEF Enter, Harvest, FillQueue, Resume
  <2>3. CASE Hook(c, x)
    <3>1. thread[c] \in Threads
      BY <1>3, <2>1, <2>3 DEF Hook, At, HasThread, Alive
    <3>2. PICK i \in DOMAIN work[c] :
            \/ UNCHANGED coreVars
            \/ Mark({work[c][i]}, "DONE")
            \/ SubmitReq(thread[c], work[c][i])
      BY <2>3 DEF Hook
    <3>3. work[c][i] \in Descs
      BY ListTypes, LenProperties
    <3> QED
      BY <3>1, <3>2, <3>3 DEF AnyCall, AnyMark
  <2>4. CASE StartChan(c, x)
    BY <2>1, <2>4 DEF StartChan, AnyCall
  <2>5. CASE Finish(c, x)
    <3>1. \/ UNCHANGED coreVars
          \/ /\ completed[c] # <<>>
             /\ \E s \in {"FREE", "PREP"} : Mark({Head(completed[c])}, s)
      BY <2>5 DEF Finish
    <3>2. completed[c] # <<>> => Head(completed[c]) \in Descs
      BY ListTypes, HeadTailProperties
    <3> QED
      BY <3>1, <3>2 DEF AnyMark
  <2> QED
    BY <2>0, <2>2, <2>3, <2>4, <2>5 DEF Tasklet
<1>4. CASE Interrupt \/ Recovery
  BY <1>4 DEF Interrupt, Recovery, Update, Dotask
<1>5. CASE \E t \in Threads : Transfer(t) \/ Fault(t)
  BY <1>5 DEF Transfer, Fault, Controller
<1> QED
  BY <1>1, <1>2, <1>3, <1>4, <1>5 DEF Next


\* A step that leaves the lists of c alone, or those of every channel.
SameLists(c) == /\ prepped'[c] = prepped[c] /\ submitted'[c] = submitted[c]
                /\ work'[c] = work[c] /\ completed'[c] = completed[c]

\* The marked descriptors are those of three lists.
LEMMA MarkedType ==
  ASSUME TypeOK, NEW c \in Chans
  PROVE  /\ Marked(c) \in Seq(Descs)
         /\ Range(Marked(c)) = Range(submitted[c]) \cup Range(work[c]) \cup Range(completed[c])
<1>1. submitted[c] \in Seq(Descs) /\ work[c] \in Seq(Descs) /\ completed[c] \in Seq(Descs)
  BY ListTypes
<1> DEFINE due == submitted[c] \o work[c]
<1>2. due \in Seq(Descs) /\ Range(due) = Range(submitted[c]) \cup Range(work[c])
  BY <1>1, ConcatOnce
<1>3. Marked(c) = due \o completed[c]
  BY DEF Marked
<1> HIDE DEF due
<1>4. /\ due \o completed[c] \in Seq(Descs)
      /\ Range(due \o completed[c]) = Range(due) \cup Range(completed[c])
  BY <1>1, <1>2, ConcatOnce
<1> QED
  BY <1>2, <1>3, <1>4

\* The chain Prep takes off the pool, and the pool without it.
LEMMA ChainType ==
  ASSUME TypeOK, NEW n \in Nat, n <= Len(pool)
  PROVE  /\ Chain(n) \in Seq(Descs) /\ Range(Chain(n)) \subseteq Descs
         /\ SubSeq(pool, n + 1, Len(pool)) \in Seq(Descs)
         /\ Len(Chain(n)) = n /\ Range(Chain(n)) \subseteq Range(pool)
<1>1. pool \in Seq(Descs) /\ Len(pool) \in Nat
  BY LenProperties DEF TypeOK
<1>2. n \in 0 .. Len(pool) /\ 1 \in 1 .. Len(pool) + 1
      /\ n + 1 \in 1 .. Len(pool) + 1 /\ Len(pool) \in 0 .. Len(pool)
  BY <1>1
<1>3. /\ Chain(n) \in Seq(Descs) /\ Len(Chain(n)) = IF 1 <= n THEN n - 1 + 1 ELSE 0
      /\ Range(Chain(n)) = {pool[i] : i \in 1 .. n}
  BY <1>1, <1>2, PartOnce DEF Chain
<1>4. SubSeq(pool, n + 1, Len(pool)) \in Seq(Descs)
  BY <1>1, <1>2, PartOnce
<1>5. Range(Chain(n)) \subseteq Range(pool)
  <2>1. DOMAIN pool = 1 .. Len(pool) /\ 1 .. n \subseteq 1 .. Len(pool)
    BY <1>1, <1>2, LenProperties
  <2>2. {pool[i] : i \in 1 .. n} \subseteq {pool[i] : i \in DOMAIN pool}
    BY <2>1
  <2> QED
    BY <1>3, <2>2 DEF Range
<1> QED
  BY <1>3, <1>4, <1>5, RangeEmpty

\* A runner goes on.
Labels == {"idle", "entry", "harvest", "fill", "hook", "start", "finish", "callback"}
LEMMA GotoType ==
  ASSUME TypeOK, NEW c \in Chans, NEW x \in Runners, NEW l \in Labels, Goto(c, x, l)
  PROVE  /\ pc' \in [Chans -> [Runners -> Labels]]
         /\ pc'[c][x] = l
         /\ \A y \in Runners : y # x => pc'[c][y] = pc[c][y]
         /\ \A b \in Chans : b # c => pc'[b] = pc[b]
<1>1. pc \in [Chans -> [Runners -> Labels]]
  BY DEF TypeOK, Labels
<1>2. pc' = [pc EXCEPT ![c] = [pc[c] EXCEPT ![x] = l]]
  BY DEF Goto
<1> QED
  BY <1>1, <1>2

\* Taking a chain keeps the types.
LEMMA PrepTypes ==
  ASSUME TypeOK, CoreTypeOK', NEW c \in Chans, NEW n \in Nat, Prep(c, n),
         cyclic' \in [Chans -> BOOLEAN], unfit' \in SUBSET Descs
  PROVE  TypeOK'
<1>1. /\ Chain(n) \in Seq(Descs) /\ Range(Chain(n)) \subseteq Descs
      /\ SubSeq(pool, n + 1, Len(pool)) \in Seq(Descs)
  BY ChainType DEF Prep
<1>2. /\ pool' = SubSeq(pool, n + 1, Len(pool))
      /\ prepped' = [prepped EXCEPT ![c] = Chain(n)]
      /\ owner' = [d \in Descs |-> IF d \in Range(Chain(n)) THEN c ELSE owner[d]]
      /\ dcookie' = [d \in Descs |-> IF d \in Range(Chain(n)) THEN 0 ELSE dcookie[d]]
      /\ UNCHANGED <<submitted, work, completed, thread, paused, runVars, cookie,
                     completedCookie, oops>>
  BY DEF Prep
<1>3. pool' \in Seq(Descs) /\ prepped' \in [Chans -> Seq(Descs)]
  BY <1>1, <1>2 DEF TypeOK
<1>4. owner' \in [Descs -> Chans \cup {NULL}] /\ dcookie' \in [Descs -> Nat]
  BY <1>2 DEF TypeOK
<1> QED
  BY <1>2, <1>3, <1>4 DEF TypeOK, runVars

\* The calls of a client keep the types.
LEMMA ClientTypes ==
  ASSUME TypeOK, CoreTypeOK', NEW c \in Chans, Client(c)
  PROVE  TypeOK'
<1> USE DEF listVars, chanVars, runVars, cookieVars, txVars
<1>0. /\ prepped[c] \in Seq(Descs) /\ submitted[c] \in Seq(Descs)
      /\ work[c] \in Seq(Descs) /\ completed[c] \in Seq(Descs) /\ pool \in Seq(Descs)
  BY ListTypes
<1>1. CASE AllocChan(c)
  BY <1>1 DEF AllocChan, TypeOK
<1>2. CASE FreeChan(c)
  <2>1. pool \o work[c] \in Seq(Descs) /\ <<>> \in Seq(Descs)
    BY <1>0, ConcatOnce
  <2>2. pool' \in Seq(Descs) /\ work' \in [Chans -> Seq(Descs)]
    BY <1>2, <2>1 DEF FreeChan, TypeOK
  <2>3. thread' \in [Chans -> Threads \cup {-1}]
    BY <1>2 DEF FreeChan, TypeOK
  <2> QED
    BY <1>2, <2>2, <2>3 DEF FreeChan, TypeOK
<1>3. CASE PrepSg(c)
  <2>1. PICK n \in 1 .. MaxSg : Prep(c, n) /\ unfit' \subseteq (unfit \cup Range(Chain(n)))
    BY <1>3 DEF PrepSg
  <2>2. n \in Nat /\ Range(Chain(n)) \subseteq Descs
    BY <2>1, ChainType, ChannelAssumption DEF Prep
  <2>3. unfit' \in SUBSET Descs /\ cyclic' \in [Chans -> BOOLEAN]
    BY <1>3, <2>1, <2>2 DEF PrepSg, TypeOK
  <2> QED
    BY <2>1, <2>2, <2>3, PrepTypes
<1>4. CASE PrepCyclic(c)
  <2>1. Prep(c, Periods) /\ Periods \in Nat
    BY <1>4, ChannelAssumption DEF PrepCyclic
  <2>2. unfit' \in SUBSET Descs /\ cyclic' \in [Chans -> BOOLEAN]
    BY <1>4 DEF PrepCyclic, TypeOK
  <2> QED
    BY <2>1, <2>2, PrepTypes
<1>5. CASE TxSubmit(c)
  <2>1. /\ cookie' = [cookie EXCEPT ![c] = @ + Len(prepped[c])]
        /\ submitted' = [submitted EXCEPT ![c] = @ \o prepped[c]]
        /\ prepped' = [prepped EXCEPT ![c] = <<>>]
    BY <1>5 DEF TxSubmit
  <2>2. Len(prepped[c]) \in Nat /\ DOMAIN prepped[c] \subseteq Nat
    BY <1>0, LenProperties
  <2>3. cookie' \in [Chans -> Nat]
    BY <2>1, <2>2 DEF TypeOK
  <2>4. submitted[c] \o prepped[c] \in Seq(Descs) /\ <<>> \in Seq(Descs)
    BY <1>0, ConcatOnce
  <2>5. submitted' \in [Chans -> Seq(Descs)] /\ prepped' \in [Chans -> Seq(Descs)]
    BY <2>1, <2>4 DEF TypeOK
  <2>6. dcookie' \in [Descs -> Nat]
    <3> DEFINE at(d) == CHOOSE i \in DOMAIN prepped[c] : prepped[c][i] = d
    <3>1. \A d \in Descs : (\E i \in DOMAIN prepped[c] : prepped[c][i] = d) => at(d) \in Nat
      BY <2>2
    <3>2. dcookie' = [d \in Descs |-> IF \E i \in DOMAIN prepped[c] : prepped[c][i] = d
                                      THEN cookie[c] + at(d) ELSE dcookie[d]]
      BY <1>5 DEF TxSubmit
    <3> HIDE DEF at
    <3>3. dcookie \in [Descs -> Nat] /\ cookie[c] \in Nat
      BY DEF TypeOK
    <3> QED
      BY <3>1, <3>2, <3>3
  <2> QED
    BY <1>5, <2>3, <2>5, <2>6 DEF TxSubmit, TypeOK
<1>6. CASE IssuePending(c)
  <2>1. work[c] \o submitted[c] \in Seq(Descs) /\ <<>> \in Seq(Descs)
    BY <1>0, ConcatOnce
  <2>2. work' \in [Chans -> Seq(Descs)] /\ submitted' \in [Chans -> Seq(Descs)]
    BY <1>6, <2>1 DEF IssuePending, TypeOK
  <2>3. Goto(c, "client", "entry") /\ "client" \in Runners /\ "entry" \in Labels
    BY <1>6 DEF IssuePending, Runners, Labels, Goto
  <2>4. pc' \in [Chans -> [Runners -> Labels]]
    BY <2>3, GotoType
  <2> QED
    BY <1>6, <2>2, <2>4 DEF IssuePending, TypeOK, Labels
<1>7. CASE \E cmd \in {"terminate", "pause"} : Command(c, cmd)
  BY <1>7 DEF Command, TypeOK, Runners
<1>8. CASE Terminate(c) \/ Pause(c) \/ PauseRequest(c)
  BY <1>8 DEF Terminate, Pause, PauseRequest, Passes, TypeOK
<1>9. CASE TerminateAll(c)
  <2>1. pool \o Marked(c) \in Seq(Descs) /\ <<>> \in Seq(Descs)
    BY <1>0, MarkedType, ConcatOnce
  <2>2. pool' \in Seq(Descs) /\ submitted' \in [Chans -> Seq(Descs)]
        /\ work' \in [Chans -> Seq(Descs)] /\ completed' \in [Chans -> Seq(Descs)]
    BY <1>9, <2>1 DEF TerminateAll, TypeOK
  <2>3. completedCookie' \in [Chans -> Nat]
    <3>1. Marked(c) # <<>> => Last(Marked(c)) \in Descs
      BY MarkedType, LenProperties, ElementOfSeq, EmptySeq DEF Last
    <3> QED
      BY <1>9, <3>1 DEF TerminateAll, TypeOK
  <2>4. dcookie' \in [Descs -> Nat] /\ oops' \in BOOLEAN
    BY <1>9 DEF TerminateAll, TypeOK
  <2>5. UNCHANGED <<prepped, thread, cyclic, paused, cookie, owner, unfit, scheduled, pc>>
    BY <1>9 DEF TerminateAll, Passes
  <2>6. lock' \in [Chans -> Runners \cup {"open"}]
        /\ control' \in [Chans -> {"none", "terminate", "terminated", "pause", "paused"}]
    BY <1>9 DEF TerminateAll, Passes, TypeOK
  <2> QED
    BY <2>2, <2>3, <2>4, <2>5, <2>6 DEF TypeOK
<1>10. CASE TxStatus(c)
  BY <1>10 DEF TxStatus, TypeOK
<1> QED
  BY <1>1, <1>2, <1>3, <1>4, <1>5, <1>6, <1>7, <1>8, <1>9, <1>10 DEF Client

\* The tasklet keeps them.
LEMMA TaskletTypes ==
  ASSUME TypeOK, CoreTypeOK', NEW c \in Chans, NEW x \in Runners, Tasklet(c, x)
  PROVE  TypeOK'
<1> USE DEF listVars, chanVars, runVars, cookieVars, txVars, Goto
<1>0. /\ work[c] \in Seq(Descs) /\ completed[c] \in Seq(Descs) /\ pool \in Seq(Descs)
  BY ListTypes
<1>1. CASE Enter(c, x)
  BY <1>1 DEF Enter, TypeOK
<1>2. CASE Harvest(c, x)
  <2>1. ASSUME NEW i \in DOMAIN work[c]
        PROVE  /\ work[c][i] \in Descs /\ RemoveAt(work[c], i) \in Seq(Descs)
               /\ Append(completed[c], work[c][i]) \in Seq(Descs)
    <3>1. work[c][i] \in Descs /\ i \in 1 .. Len(work[c]) /\ Len(work[c]) \in Nat
      BY <1>0, <2>1, LenProperties, ElementOfSeq
    <3>2. i - 1 \in 0 .. Len(work[c]) /\ 1 \in 1 .. Len(work[c]) + 1
          /\ i + 1 \in 1 .. Len(work[c]) + 1 /\ Len(work[c]) \in 0 .. Len(work[c])
      BY <3>1
    <3>3. SubSeq(work[c], 1, i - 1) \in Seq(Descs)
          /\ SubSeq(work[c], i + 1, Len(work[c])) \in Seq(Descs)
      BY <1>0, <3>2, PartOnce
    <3> QED
      BY <1>0, <3>1, <3>3, ConcatOnce, AppendOnce DEF RemoveAt
  <2>2. CASE \E i \in DOMAIN work[c] :
               LET d == work[c][i] IN
               /\ IF cyclic[c]
                  THEN UNCHANGED <<completedCookie, dcookie, oops>>
                  ELSE /\ completedCookie' = [completedCookie EXCEPT ![c] = dcookie[d]]
                       /\ dcookie' = [dcookie EXCEPT ![d] = 0]
                       /\ oops' = (dcookie[d] = 0)
               /\ work' = [work EXCEPT ![c] = RemoveAt(@, i)]
               /\ completed' = [completed EXCEPT ![c] = Append(@, d)]
               /\ UNCHANGED pc
    <3>1. PICK i \in DOMAIN work[c] :
               LET d == work[c][i] IN
               /\ IF cyclic[c]
                  THEN UNCHANGED <<completedCookie, dcookie, oops>>
                  ELSE /\ completedCookie' = [completedCookie EXCEPT ![c] = dcookie[d]]
                       /\ dcookie' = [dcookie EXCEPT ![d] = 0]
                       /\ oops' = (dcookie[d] = 0)
               /\ work' = [work EXCEPT ![c] = RemoveAt(@, i)]
               /\ completed' = [completed EXCEPT ![c] = Append(@, d)]
               /\ UNCHANGED pc
      BY <2>2
    <3>2. work[c][i] \in Descs
      BY <2>1
    <3>3. work' \in [Chans -> Seq(Descs)] /\ completed' \in [Chans -> Seq(Descs)]
      BY <2>1, <3>1 DEF TypeOK
    <3>4. completedCookie' \in [Chans -> Nat] /\ dcookie' \in [Descs -> Nat] /\ oops' \in BOOLEAN
      <4>1. completedCookie \in [Chans -> Nat] /\ dcookie \in [Descs -> Nat] /\ oops \in BOOLEAN
        BY DEF TypeOK
      <4>2. CASE cyclic[c]
        BY <3>1, <4>1, <4>2
      <4>3. CASE ~cyclic[c]
        <5>1. completedCookie' = [completedCookie EXCEPT ![c] = dcookie[work[c][i]]]
              /\ dcookie' = [dcookie EXCEPT ![work[c][i]] = 0]
          BY <3>1, <4>3
        <5>2. oops' \in BOOLEAN
          BY <3>1, <4>3
        <5> QED
          BY <3>2, <4>1, <5>1, <5>2
      <4> QED
        BY <4>2, <4>3
    <3> QED
      BY <1>2, <3>1, <3>3, <3>4 DEF Harvest, TypeOK
  <2>3. CASE Goto(c, x, "fill") /\ UNCHANGED <<work, completed, completedCookie, dcookie, oops>>
    BY <1>2, <2>3 DEF Harvest, TypeOK
  <2> QED
    BY <1>2, <2>2, <2>3 DEF Harvest
<1>3. CASE FillQueue(c, x)
  BY <1>3 DEF FillQueue, TypeOK
<1>4. CASE Hook(c, x)
  <2>1. /\ \E l \in Labels : Goto(c, x, l)
        /\ scheduled' = scheduled \/ scheduled' = [scheduled EXCEPT ![c] = TRUE]
        /\ UNCHANGED <<listVars, chanVars, lock, control, cookieVars, txVars, oops>>
    BY <1>4 DEF Hook, Labels
  <2>2. pc' \in [Chans -> [Runners -> Labels]]
    BY <2>1, GotoType
  <2> QED
    BY <2>1, <2>2 DEF TypeOK, Labels
<1>5. CASE StartChan(c, x)
  BY <1>5 DEF StartChan, TypeOK
<1>6. CASE Finish(c, x)
  <2>1. /\ work' \in [Chans -> Seq(Descs)] /\ completed' \in [Chans -> Seq(Descs)]
        /\ pool' \in Seq(Descs)
    <3>1. completed[c] # <<>> => Head(completed[c]) \in Descs /\ Tail(completed[c]) \in Seq(Descs)
      BY <1>0, HeadTailProperties
    <3>2. completed[c] # <<>> => /\ Append(work[c], Head(completed[c])) \in Seq(Descs)
                                 /\ Append(pool, Head(completed[c])) \in Seq(Descs)
      BY <1>0, <3>1, AppendOnce
    <3>3. /\ work \in [Chans -> Seq(Descs)] /\ completed \in [Chans -> Seq(Descs)]
          /\ pool \in Seq(Descs)
      BY DEF TypeOK
    <3>4. CASE completed[c] = <<>>
      BY <1>6, <3>3, <3>4 DEF Finish
    <3>5. CASE completed[c] # <<>> /\ cyclic[c]
      BY <1>6, <3>1, <3>2, <3>3, <3>5 DEF Finish
    <3>6. CASE completed[c] # <<>> /\ ~cyclic[c]
      BY <1>6, <3>1, <3>2, <3>3, <3>6 DEF Finish
    <3> QED
      BY <3>4, <3>5, <3>6
  <2>2. /\ \E l \in Labels : Goto(c, x, l)
        /\ lock' = [lock EXCEPT ![c] = "open"]
        /\ UNCHANGED <<prepped, submitted, chanVars, scheduled, control, cookieVars, txVars, oops>>
    BY <1>6 DEF Finish, Labels
  <2>3. pc' \in [Chans -> [Runners -> Labels]]
    BY <2>2, GotoType
  <2> QED
    BY <2>1, <2>2, <2>3 DEF TypeOK, Labels
<1>7. CASE Resume(c, x)
  BY <1>7 DEF Resume, TypeOK
<1> QED
  BY <1>1, <1>2, <1>3, <1>4, <1>5, <1>6, <1>7 DEF Tasklet

\* What a core step may change of the layer.
LEMMA CoreStepLayer ==
  ASSUME Interrupt \/ Recovery \/ \E t \in Threads : Transfer(t) \/ Fault(t)
  PROVE  /\ UNCHANGED <<listVars, chanVars, lock, pc, control, cookieVars, txVars, oops>>
         /\ scheduled' = scheduled \/ \E c : scheduled' = [scheduled EXCEPT ![c] = TRUE]
  BY DEF Interrupt, Recovery, Transfer, Fault, layerVars, runVars, Notifies

LEMMA TypesStep == TypeOK /\ CoreTypeOK' /\ [Next]_vars => TypeOK'
<1> SUFFICES ASSUME TypeOK, CoreTypeOK', [Next]_vars PROVE TypeOK'
  OBVIOUS
<1> USE DEF listVars, chanVars, runVars, cookieVars, txVars
<1>1. CASE UNCHANGED vars
  BY <1>1 DEF vars, layerVars, TypeOK
<1>2. CASE Interrupt \/ Recovery \/ \E t \in Threads : Transfer(t) \/ Fault(t)
  BY <1>2, CoreStepLayer DEF TypeOK
<1> QED
  BY <1>1, <1>2, ClientTypes, TaskletTypes DEF Next

\* Who holds pch->lock.
LEMMA LockingStep == TypeOK /\ Locking /\ [Next]_vars => Locking'
<1> SUFFICES ASSUME TypeOK, Locking, [Next]_vars PROVE Locking'
  OBVIOUS
<1>1. ASSUME UNCHANGED <<lock, pc, control>> PROVE Locking'
  BY <1>1 DEF Locking, InTasklet
<1>2. CASE UNCHANGED vars
  BY <1>1, <1>2 DEF vars, layerVars, runVars
<1>3. CASE Interrupt \/ Recovery \/ \E t \in Threads : Transfer(t) \/ Fault(t)
  BY <1>1, <1>3, CoreStepLayer
<1>4. ASSUME NEW c \in Chans, Client(c) PROVE Locking'
  <2>0. /\ lock \in [Chans -> Runners \cup {"open"}]
        /\ control \in [Chans -> {"none", "terminate", "terminated", "pause", "paused"}]
    BY DEF TypeOK
  <2>1. CASE AllocChan(c) \/ FreeChan(c) \/ PrepSg(c) \/ PrepCyclic(c) \/ TxSubmit(c) \/ TxStatus(c)
    BY <1>1, <2>1 DEF AllocChan, FreeChan, PrepSg, PrepCyclic, Prep, TxSubmit, TxStatus, runVars
  <2>2. CASE IssuePending(c)
    <3>1. /\ lock[c] = "open" /\ pc[c]["client"] = "idle" /\ UNCHANGED <<lock, control>>
          /\ control[c] = "none" /\ Goto(c, "client", "entry")
          /\ "client" \in Runners /\ "soft" \in Runners /\ "entry" \in Labels
      BY <2>2 DEF IssuePending, CallsLocked, Calls, Goto, Runners, Labels
    <3>2. /\ pc'[c]["client"] = "entry" /\ pc'[c]["soft"] = pc[c]["soft"]
          /\ \A b \in Chans : b # c => pc'[b] = pc[b]
      BY <3>1, GotoType
    <3> QED
      BY <3>1, <3>2 DEF Locking, InTasklet
  <2>3. CASE \E cmd \in {"terminate", "pause"} : Command(c, cmd)
    BY <2>0, <2>3 DEF Command, CallsLocked, Calls, Locking, InTasklet
  <2>4. CASE \E from, to \in {"none", "terminate", "terminated", "pause", "paused"} :
               from # "none" /\ Passes(c, from, to)
    BY <2>0, <2>4 DEF Passes, Locking, InTasklet
  <2>5. CASE Terminate(c) \/ TerminateAll(c) \/ Pause(c) \/ PauseRequest(c)
    BY <2>4, <2>5 DEF Terminate, TerminateAll, Pause, PauseRequest
  <2> QED
    BY <1>4, <2>1, <2>2, <2>3, <2>5 DEF Client
<1>5. ASSUME NEW c \in Chans, NEW x \in Runners, Tasklet(c, x) PROVE Locking'
  <2>0. lock \in [Chans -> Runners \cup {"open"}] /\ x \in {"soft", "client"}
    BY DEF TypeOK, Runners
  <2>1. ASSUME NEW l \in Labels, Goto(c, x, l)
        PROVE  /\ pc'[c][x] = l /\ \A y \in {"soft", "client"} : y # x => pc'[c][y] = pc[c][y]
               /\ \A b \in Chans : b # c => pc'[b] = pc[b]
    BY <2>1, GotoType DEF Runners
  <2>2. CASE Enter(c, x) \/ Resume(c, x)
    <3>1. /\ lock[c] = "open" /\ lock' = [lock EXCEPT ![c] = x] /\ control' = control
          /\ \E l \in {"harvest", "finish"} : Goto(c, x, l)
      BY <2>2 DEF Enter, Resume
    <3>2. control[c] = "none"
      BY <3>1 DEF Locking
    <3> QED
      BY <2>0, <2>1, <3>1, <3>2 DEF Locking, InTasklet, Labels
  <2>3. CASE Harvest(c, x) \/ FillQueue(c, x) \/ Hook(c, x) \/ StartChan(c, x)
    <3>1. /\ InTasklet(c, x) /\ UNCHANGED <<lock, control>>
          /\ pc' = pc \/ \E l \in {"harvest", "fill", "hook", "start", "finish"} : Goto(c, x, l)
      BY <2>3 DEF Harvest, FillQueue, Hook, StartChan, At, InTasklet
    <3> QED
      BY <1>1, <2>1, <3>1 DEF Locking, InTasklet, Labels
  <2>4. CASE Finish(c, x)
    <3>1. /\ pc[c][x] = "finish" /\ lock' = [lock EXCEPT ![c] = "open"] /\ control' = control
          /\ \E l \in {"idle", "callback"} : Goto(c, x, l)
      BY <2>4 DEF Finish, At
    <3>2. lock[c] = x /\ control[c] = "none"
      BY <2>0, <3>1 DEF Locking, InTasklet
    <3> QED
      BY <2>0, <2>1, <3>1, <3>2 DEF Locking, InTasklet, Labels
  <2> QED
    BY <1>5, <2>2, <2>3, <2>4 DEF Tasklet
<1> QED
  BY <1>2, <1>3, <1>4, <1>5 DEF Next

\* A command and a request to hook have a thread.
LEMMA HasThreadStep == TypeOK /\ Locking /\ HasThread /\ [Next]_vars => HasThread'
<1> SUFFICES ASSUME TypeOK, Locking, HasThread, [Next]_vars PROVE HasThread'
  OBVIOUS
<1>1. ASSUME ~oops, NEW c \in Chans, \A b \in Chans : b # c => thread'[b] = thread[b]
             /\ control'[b] = control[b] /\ pc'[b] = pc[b],
             oops' \/ (thread'[c] = -1 => control'[c] = "none" /\ \A x \in Runners : pc'[c][x] # "hook")
      PROVE HasThread'
  BY <1>1 DEF HasThread
<1>2. CASE UNCHANGED <<thread, control, pc, oops>>
  BY <1>2 DEF HasThread
<1>3. CASE UNCHANGED vars
  BY <1>2, <1>3 DEF vars, layerVars, chanVars, runVars
<1>4. CASE Interrupt \/ Recovery \/ \E t \in Threads : Transfer(t) \/ Fault(t)
  BY <1>2, <1>4, CoreStepLayer DEF chanVars
<1>5. ASSUME ~oops, NEW c \in Chans, Client(c) PROVE HasThread'
  <2>0. /\ thread \in [Chans -> Threads \cup {-1}] /\ -1 \notin Threads
        /\ control \in [Chans -> {"none", "terminate", "terminated", "pause", "paused"}]
        /\ thread[c] = -1 => control[c] = "none" /\ \A x \in Runners : pc[c][x] # "hook"
    BY <1>5 DEF TypeOK, HasThread, Threads
  <2>1. CASE AllocChan(c)
    <3>1. thread'[c] # -1 /\ \A b \in Chans : b # c => thread'[b] = thread[b]
      BY <2>0, <2>1 DEF AllocChan
    <3> QED
      BY <1>1, <1>5, <2>1, <3>1 DEF AllocChan
  <2>2. CASE FreeChan(c)
    <3>1. lock[c] = "open" /\ UNCHANGED <<control, pc>>
          /\ thread' = [thread EXCEPT ![c] = -1]
      BY <2>2 DEF FreeChan, CallsLocked, runVars
    <3>2. control[c] = "none" /\ \A x \in Runners : pc[c][x] # "hook"
      BY <3>1 DEF Locking, InTasklet, Runners
    <3> QED
      BY <1>1, <1>5, <2>0, <3>1, <3>2
  <2>3. CASE PrepSg(c) \/ PrepCyclic(c) \/ TxSubmit(c) \/ TxStatus(c)
    BY <1>2, <2>3 DEF PrepSg, PrepCyclic, Prep, TxSubmit, TxStatus, runVars, chanVars
  <2>4. CASE IssuePending(c)
    <3>1. /\ Goto(c, "client", "entry") /\ thread[c] # -1 /\ UNCHANGED <<thread, control>>
          /\ "client" \in Runners /\ "entry" \in Labels
      BY <2>4 DEF IssuePending, chanVars, Goto, Runners, Labels
    <3>2. \A b \in Chans : b # c => pc'[b] = pc[b]
      BY <3>1, GotoType
    <3> QED
      BY <1>1, <1>5, <3>1, <3>2
  <2>5. CASE \E cmd \in {"terminate", "pause"} : Command(c, cmd)
    BY <1>1, <1>5, <2>0, <2>5 DEF Command, chanVars
  <2>6. CASE Terminate(c) \/ TerminateAll(c) \/ Pause(c) \/ PauseRequest(c)
    <3>1. /\ control[c] # "none" /\ UNCHANGED <<thread, pc>>
          /\ \E to : control' = [control EXCEPT ![c] = to]
      BY <2>6 DEF Terminate, TerminateAll, Pause, PauseRequest, Passes, chanVars
    <3> QED
      BY <1>1, <1>5, <2>0, <3>1
  <2> QED
    BY <1>5, <2>1, <2>2, <2>3, <2>4, <2>5, <2>6 DEF Client
<1>6. ASSUME ~oops, NEW c \in Chans, NEW x \in Runners, Tasklet(c, x) PROVE HasThread'
  <2>0. thread[c] = -1 => control[c] = "none" /\ \A y \in Runners : pc[c][y] # "hook"
    BY <1>6 DEF HasThread
  <2>1. ASSUME NEW l \in Labels \ {"hook"}, Goto(c, x, l), UNCHANGED <<thread, control>>
        PROVE  HasThread'
    <3>1. /\ pc'[c][x] = l /\ \A y \in Runners : y # x => pc'[c][y] = pc[c][y]
          /\ \A b \in Chans : b # c => pc'[b] = pc[b]
      BY <2>1, GotoType
    <3> QED
      BY <1>1, <1>6, <2>0, <2>1, <3>1
  <2>2. CASE Enter(c, x) \/ Resume(c, x) \/ StartChan(c, x) \/ Finish(c, x) \/ Hook(c, x)
    <3>1. UNCHANGED <<thread, control>> /\ \E l \in Labels \ {"hook"} : Goto(c, x, l)
      BY <2>2 DEF Enter, Resume, StartChan, Finish, Hook, chanVars, Labels
    <3> QED
      BY <2>1, <3>1
  <2>3. CASE Harvest(c, x)
    <3>1. UNCHANGED <<thread, control>> /\ (UNCHANGED pc \/ Goto(c, x, "fill"))
      BY <2>3 DEF Harvest, chanVars
    <3> QED
      BY <1>1, <1>6, <2>0, <2>1, <3>1 DEF Labels
  <2>4. CASE FillQueue(c, x)
    <3>1. /\ UNCHANGED <<thread, control>> /\ oops' = (thread[c] = -1 /\ ~NoneWith(work[c], "PREP"))
          /\ Goto(c, x, IF NoneWith(work[c], "PREP") \/ thread[c] \in resetChan THEN "start" ELSE "hook")
      BY <2>4 DEF FillQueue, chanVars
    <3>2. CASE NoneWith(work[c], "PREP") \/ thread[c] \in resetChan
      BY <2>1, <3>1, <3>2 DEF Labels
    <3>3. CASE ~NoneWith(work[c], "PREP") /\ thread[c] \notin resetChan
      <4>1. Goto(c, x, "hook") /\ "hook" \in Labels /\ (oops' \/ thread[c] # -1)
        BY <3>1, <3>3 DEF Labels
      <4>2. \A b \in Chans : b # c => pc'[b] = pc[b]
        BY <4>1, GotoType
      <4> QED
        BY <1>1, <1>6, <3>1, <4>1, <4>2
    <3> QED
      BY <3>2, <3>3
  <2> QED
    BY <1>6, <2>2, <2>3, <2>4 DEF Tasklet
<1> QED
  BY <1>3, <1>4, <1>5, <1>6 DEF Next, Alive

-----------------------------------------------------------------------------
(* Every hazard: a descriptor is in one place                               *)

\* Descriptors move between the pool and the lists of one channel.
LEMMA OnceMove ==
  ASSUME Once, NEW c \in Chans, \A b \in Chans : b # c => SameLists(b),
         IsInjective(pool'), OnceIn(c)',
         Range(pool)' \cup Listed(c)' = Range(pool) \cup Listed(c)
  PROVE  Once'
<1>1. \A b \in Chans : b # c => Listed(b)' = Listed(b) /\ Range(pool) \cap Listed(b) = {}
                               /\ Listed(b) \cap Listed(c) = {} /\ Listed(c) \cap Listed(b) = {}
  BY DEF SameLists, Listed, Once, OnceIn
<1>2. ASSUME NEW b \in Chans, b # c PROVE OnceIn(b)'
  <2>1. OnceIn(b) /\ SameLists(b)
    BY <1>2 DEF Once
  <2>2. Range(pool)' \cap Listed(b)' = {}
    BY <1>1, <1>2
  <2> QED
    BY <2>1, <2>2 DEF OnceIn, SameLists
<1>3. ASSUME NEW a \in Chans, NEW b \in Chans, a # b PROVE Listed(a)' \cap Listed(b)' = {}
  <2>1. Listed(a) \cap Listed(b) = {}
    BY <1>3 DEF Once
  <2>2. CASE a = c
    BY <1>1, <1>3, <2>2
  <2>3. CASE b = c
    BY <1>1, <1>3, <2>3
  <2> QED
    BY <1>1, <2>1, <2>2, <2>3
<1>4. ASSUME NEW d \in Descs PROVE d \in Range(pool)' \/ \E b \in Chans : d \in Listed(b)'
  <2>1. d \in Range(pool) \/ \E b \in Chans : d \in Listed(b)
    BY DEF Once
  <2> QED
    BY <1>1, <2>1
<1> QED
  BY <1>2, <1>3, <1>4 DEF Once

LEMMA OnceSame == Once /\ UNCHANGED listVars => Once'
  BY DEF listVars, Once, OnceIn, Listed

\* The lists of one channel and the pool, before a step.
LEMMA OnceNow ==
  ASSUME TypeOK, Once, NEW c \in Chans
  PROVE  /\ pool \in Seq(Descs) /\ prepped[c] \in Seq(Descs) /\ submitted[c] \in Seq(Descs)
         /\ work[c] \in Seq(Descs) /\ completed[c] \in Seq(Descs)
         /\ IsInjective(pool) /\ OnceIn(c)
         /\ Range(<<>>) = {} /\ IsInjective(<<>>)
  BY ListTypes, RangeEmpty DEF Once

\* Init: everything is in the pool.
LEMMA OnceInit == Init => Once
<1> SUFFICES ASSUME Init PROVE Once
  OBVIOUS
<1>1. IsInjective(pool) /\ Range(pool) = Descs
  BY FullPool DEF Init
<1>2. \A c \in Chans : prepped[c] = <<>> /\ submitted[c] = <<>> /\ work[c] = <<>> /\ completed[c] = <<>>
  BY DEF Init
<1>3. Range(<<>>) = {} /\ IsInjective(<<>>)
  BY RangeEmpty, <<>> \in Seq(Descs)
<1>4. \A c \in Chans : Listed(c) = {}
  BY <1>2, <1>3 DEF Listed
<1>5. \A c \in Chans : OnceIn(c)
  BY <1>2, <1>3, <1>4 DEF OnceIn
<1> QED
  BY <1>1, <1>4, <1>5 DEF Once

\* Taking a chain off the pool.
LEMMA PrepOnce ==
  ASSUME TypeOK, Once, NEW c \in Chans, NEW n \in Nat, Prep(c, n)
  PROVE  Once'
<1> DEFINE a == Chain(n)
           b == SubSeq(pool, n + 1, Len(pool))
<1>0. prepped[c] = <<>> /\ n \in 0 .. Len(pool)
  BY ListTypes, LenProperties DEF Prep
<1>1. /\ IsInjective(a) /\ IsInjective(b)
      /\ Range(a) \cap Range(b) = {}
      /\ Range(a) \cup Range(b) = Range(pool)
  BY <1>0, OnceNow, CutOnce DEF Chain
<1>2. pool' = b /\ prepped' = [prepped EXCEPT ![c] = a] /\ UNCHANGED <<submitted, work, completed>>
  BY DEF Prep
<1> HIDE DEF a, b
<1>3. prepped'[c] = a /\ \A e \in Chans : e # c => SameLists(e)
  BY <1>2 DEF TypeOK, SameLists
<1>4. /\ Listed(c)' = Range(a) \cup Range(submitted[c]) \cup Range(work[c]) \cup Range(completed[c])
      /\ Listed(c) = Range(submitted[c]) \cup Range(work[c]) \cup Range(completed[c])
  BY <1>0, <1>2, <1>3, OnceNow DEF Listed
<1>5. Range(pool) \cap Listed(c) = {} /\ OnceIn(c)
  BY OnceNow DEF OnceIn
<1>6. Range(pool)' \cup Listed(c)' = Range(pool) \cup Listed(c)
      /\ Range(pool)' \cap Listed(c)' = {}
  BY <1>1, <1>2, <1>4, <1>5
<1>7. /\ Range(a) \cap Range(submitted[c]) = {} /\ Range(a) \cap Range(work[c]) = {}
      /\ Range(a) \cap Range(completed[c]) = {}
  BY <1>1, <1>4, <1>5
<1>8. OnceIn(c)'
  BY <1>1, <1>2, <1>3, <1>5, <1>6, <1>7 DEF OnceIn
<1> QED
  BY <1>1, <1>2, <1>3, <1>6, <1>8, OnceMove

\* A client's calls.
LEMMA ClientOnce ==
  ASSUME TypeOK, Once, NEW c \in Chans, Client(c)
  PROVE  Once'
<1> DEFINE P == Range(pool)
           A == Range(prepped[c])
           S == Range(submitted[c])
           W == Range(work[c])
           C == Range(completed[c])
<1>0. /\ pool \in Seq(Descs) /\ prepped[c] \in Seq(Descs) /\ submitted[c] \in Seq(Descs)
      /\ work[c] \in Seq(Descs) /\ completed[c] \in Seq(Descs)
      /\ Range(<<>>) = {} /\ IsInjective(<<>>)
  BY OnceNow
<1>a. /\ A \cap S = {} /\ A \cap W = {} /\ A \cap C = {} /\ S \cap W = {} /\ S \cap C = {}
      /\ W \cap C = {} /\ P \cap A = {} /\ P \cap S = {} /\ P \cap W = {} /\ P \cap C = {}
  BY OnceNow DEF OnceIn, Listed
<1>b. /\ IsInjective(pool) /\ IsInjective(prepped[c]) /\ IsInjective(submitted[c])
      /\ IsInjective(work[c]) /\ IsInjective(completed[c])
  BY OnceNow DEF OnceIn
<1>c. Listed(c) = A \cup S \cup W \cup C
  BY DEF Listed
<1> HIDE DEF P, A, S, W, C
<1>1. CASE AllocChan(c) \/ TxStatus(c) \/ (\E cmd \in {"terminate", "pause"} : Command(c, cmd))
           \/ Terminate(c) \/ Pause(c) \/ PauseRequest(c)
  BY <1>1, OnceSame DEF AllocChan, TxStatus, Command, Terminate, Pause, PauseRequest
<1>2. CASE FreeChan(c)
  <2>1. UNCHANGED listVars
        \/ /\ pool' = pool \o work[c] /\ work' = [work EXCEPT ![c] = <<>>]
           /\ UNCHANGED <<prepped, submitted, completed>>
    BY <1>2 DEF FreeChan, listVars
  <2>2. CASE pool' = pool \o work[c] /\ work' = [work EXCEPT ![c] = <<>>]
             /\ UNCHANGED <<prepped, submitted, completed>>
    <3>1. work'[c] = <<>> /\ \A e \in Chans : e # c => SameLists(e)
      BY <2>2 DEF TypeOK, SameLists
    <3>2. Range(pool)' = P \cup W /\ IsInjective(pool')
      BY <1>0, <1>a, <1>b, <2>2, ConcatOnce DEF P, W
    <3>3. Listed(c)' = A \cup S \cup C
      BY <1>0, <2>2, <3>1 DEF Listed, A, S, C
    <3>4. OnceIn(c)'
      <4>1. Range(pool)' \cap Listed(c)' = {}
        BY <1>a, <3>2, <3>3
      <4> QED
        BY <1>0, <1>a, <1>b, <2>2, <3>1, <4>1 DEF OnceIn, A, S, C
    <3>5. Range(pool)' \cup Listed(c)' = P \cup Listed(c)
      BY <1>c, <3>2, <3>3
    <3> QED
      BY <3>1, <3>2, <3>4, <3>5, OnceMove DEF P
  <2> QED
    BY <2>1, <2>2, OnceSame
<1>3. CASE PrepSg(c) \/ PrepCyclic(c)
  <2>1. \E n \in Nat : Prep(c, n)
    BY <1>3, ChannelAssumption DEF PrepSg, PrepCyclic
  <2> QED
    BY <2>1, PrepOnce
<1>4. CASE TxSubmit(c)
  <2>1. /\ submitted' = [submitted EXCEPT ![c] = @ \o prepped[c]]
        /\ prepped' = [prepped EXCEPT ![c] = <<>>]
        /\ UNCHANGED <<pool, work, completed>>
    BY <1>4 DEF TxSubmit
  <2>2. submitted'[c] = submitted[c] \o prepped[c] /\ prepped'[c] = <<>>
        /\ \A e \in Chans : e # c => SameLists(e)
    BY <2>1 DEF TypeOK, SameLists
  <2>3. Range(submitted'[c]) = S \cup A /\ IsInjective(submitted'[c])
    BY <1>0, <1>a, <1>b, <2>2, ConcatOnce DEF A, S
  <2>4. Listed(c)' = S \cup A \cup W \cup C
    BY <1>0, <2>1, <2>2, <2>3 DEF Listed, W, C
  <2>5. OnceIn(c)'
    <3>1. Range(pool)' \cap Listed(c)' = {}
      BY <1>a, <2>1, <2>4 DEF P
    <3>2. Range(submitted'[c]) \cap W = {} /\ Range(submitted'[c]) \cap C = {}
      BY <1>a, <2>3
    <3> QED
      BY <1>0, <1>a, <1>b, <2>1, <2>2, <2>3, <3>1, <3>2 DEF OnceIn, W, C
  <2>6. Range(pool)' \cup Listed(c)' = P \cup Listed(c) /\ IsInjective(pool')
    BY <1>b, <1>c, <2>1, <2>4 DEF P
  <2> QED
    BY <2>2, <2>5, <2>6, OnceMove DEF P
<1>5. CASE IssuePending(c)
  <2>1. /\ work' = [work EXCEPT ![c] = @ \o submitted[c]]
        /\ submitted' = [submitted EXCEPT ![c] = <<>>]
        /\ UNCHANGED <<pool, prepped, completed>>
    BY <1>5 DEF IssuePending
  <2>2. work'[c] = work[c] \o submitted[c] /\ submitted'[c] = <<>>
        /\ \A e \in Chans : e # c => SameLists(e)
    BY <2>1 DEF TypeOK, SameLists
  <2>3. Range(work'[c]) = W \cup S /\ IsInjective(work'[c])
    BY <1>0, <1>a, <1>b, <2>2, ConcatOnce DEF W, S
  <2>4. Listed(c)' = A \cup S \cup W \cup C
    BY <1>0, <2>1, <2>2, <2>3 DEF Listed, A, C
  <2>5. OnceIn(c)'
    <3>1. Range(pool)' \cap Listed(c)' = {}
      BY <1>a, <2>1, <2>4 DEF P
    <3>2. A \cap Range(work'[c]) = {} /\ Range(work'[c]) \cap C = {}
      BY <1>a, <2>3
    <3> QED
      BY <1>0, <1>a, <1>b, <2>1, <2>2, <2>3, <3>1, <3>2 DEF OnceIn, A, C
  <2>6. Range(pool)' \cup Listed(c)' = P \cup Listed(c) /\ IsInjective(pool')
    BY <1>b, <1>c, <2>1, <2>4 DEF P
  <2> QED
    BY <2>2, <2>5, <2>6, OnceMove DEF P
<1>6. CASE TerminateAll(c)
  <2>1. /\ pool' = pool \o Marked(c)
        /\ submitted' = [submitted EXCEPT ![c] = <<>>]
        /\ work' = [work EXCEPT ![c] = <<>>]
        /\ completed' = [completed EXCEPT ![c] = <<>>]
        /\ UNCHANGED prepped
    BY <1>6 DEF TerminateAll
  <2>2. /\ submitted'[c] = <<>> /\ work'[c] = <<>> /\ completed'[c] = <<>>
        /\ \A e \in Chans : e # c => SameLists(e)
    BY <2>1 DEF TypeOK, SameLists
  <2>3. Marked(c) \in Seq(Descs) /\ Range(Marked(c)) = S \cup W \cup C /\ IsInjective(Marked(c))
    <3> DEFINE due == submitted[c] \o work[c]
    <3>1. due \in Seq(Descs) /\ Range(due) = S \cup W /\ IsInjective(due)
      BY <1>0, <1>a, <1>b, ConcatOnce DEF S, W
    <3>2. Marked(c) = due \o completed[c]
      BY DEF Marked
    <3> HIDE DEF due
    <3>3. Range(due) \cap C = {}
      BY <1>a, <3>1
    <3> QED
      BY <1>0, <1>b, <3>1, <3>2, <3>3, ConcatOnce DEF C
  <2>4. Range(pool)' = P \cup S \cup W \cup C /\ IsInjective(pool')
    <3>1. P \cap Range(Marked(c)) = {}
      BY <1>a, <2>3
    <3>2. Range(pool') = P \cup Range(Marked(c)) /\ IsInjective(pool')
      BY <1>0, <1>b, <2>1, <2>3, <3>1, ConcatOnce DEF P
    <3> QED
      BY <2>3, <3>2
  <2>5. Listed(c)' = A
    BY <1>0, <2>1, <2>2 DEF Listed, A
  <2>6. OnceIn(c)'
    <3>1. Range(pool)' \cap Listed(c)' = {}
      BY <1>a, <2>4, <2>5
    <3> QED
      BY <1>0, <1>b, <2>1, <2>2, <3>1 DEF OnceIn
  <2>7. Range(pool)' \cup Listed(c)' = P \cup Listed(c)
    BY <1>c, <2>4, <2>5
  <2> QED
    BY <2>2, <2>4, <2>6, <2>7, OnceMove DEF P
<1> QED
  BY <1>1, <1>2, <1>3, <1>4, <1>5, <1>6 DEF Client

\* The tasklet.
LEMMA TaskletOnce ==
  ASSUME TypeOK, Once, NEW c \in Chans, NEW x \in Runners, Tasklet(c, x)
  PROVE  Once'
<1> DEFINE P == Range(pool)
           A == Range(prepped[c])
           S == Range(submitted[c])
           W == Range(work[c])
           C == Range(completed[c])
<1>0. /\ pool \in Seq(Descs) /\ work[c] \in Seq(Descs) /\ completed[c] \in Seq(Descs)
      /\ IsInjective(pool) /\ IsInjective(work[c]) /\ IsInjective(completed[c])
  BY OnceNow DEF OnceIn
<1>a. /\ W \cap A = {} /\ W \cap S = {} /\ W \cap C = {} /\ W \cap P = {}
      /\ C \cap A = {} /\ C \cap S = {} /\ C \cap P = {} /\ P \cap A = {} /\ P \cap S = {}
      /\ A \cap S = {} /\ IsInjective(prepped[c]) /\ IsInjective(submitted[c])
  BY OnceNow DEF OnceIn, Listed
<1>c. Listed(c) = A \cup S \cup W \cup C
  BY DEF Listed
<1> HIDE DEF P, A, S, W, C
<1>1. CASE Enter(c, x) \/ FillQueue(c, x) \/ Hook(c, x) \/ StartChan(c, x) \/ Resume(c, x)
  BY <1>1, OnceSame DEF Enter, FillQueue, Hook, StartChan, Resume
<1>2. CASE Harvest(c, x)
  <2>1. \/ UNCHANGED listVars
        \/ /\ \E i \in DOMAIN work[c] :
                /\ work' = [work EXCEPT ![c] = RemoveAt(@, i)]
                /\ completed' = [completed EXCEPT ![c] = Append(@, work[c][i])]
           /\ UNCHANGED <<pool, prepped, submitted>>
    BY <1>2 DEF Harvest, listVars
  <2>2. ASSUME NEW i \in DOMAIN work[c],
               work' = [work EXCEPT ![c] = RemoveAt(@, i)],
               completed' = [completed EXCEPT ![c] = Append(@, work[c][i])],
               UNCHANGED <<pool, prepped, submitted>>
        PROVE  Once'
    <3> DEFINE d == work[c][i]
    <3>1. /\ work'[c] = RemoveAt(work[c], i) /\ completed'[c] = Append(completed[c], d)
          /\ \A e \in Chans : e # c => SameLists(e)
      BY <2>2 DEF TypeOK, SameLists
    <3>2. /\ d \in Descs /\ d \in W /\ IsInjective(work'[c]) /\ Range(work'[c]) = W \ {d}
      BY <1>0, <3>1, RemoveOnce DEF W
    <3> HIDE DEF d
    <3>3. d \notin C
      BY <1>a, <3>2
    <3>4. Range(completed'[c]) = C \cup {d} /\ IsInjective(completed'[c])
      BY <1>0, <3>1, <3>2, <3>3, AppendOnce DEF C
    <3>5. Listed(c)' = A \cup S \cup (W \ {d}) \cup C \cup {d}
      BY <2>2, <3>2, <3>4 DEF Listed, A, S
    <3>6. Range(pool)' = P
      BY <2>2 DEF P
    <3>7. Range(pool)' \cap Listed(c)' = {} /\ Range(pool)' \cup Listed(c)' = P \cup Listed(c)
      BY <1>a, <1>c, <3>2, <3>5, <3>6
    <3>8. OnceIn(c)'
      <4>1. /\ A \cap Range(work'[c]) = {} /\ S \cap Range(work'[c]) = {}
            /\ A \cap Range(completed'[c]) = {} /\ S \cap Range(completed'[c]) = {}
            /\ Range(work'[c]) \cap Range(completed'[c]) = {}
        BY <1>a, <3>2, <3>4
      <4> QED
        BY <1>a, <2>2, <3>2, <3>4, <3>7, <4>1 DEF OnceIn, A, S
    <3> QED
      BY <1>0, <2>2, <3>1, <3>7, <3>8, OnceMove DEF P
  <2> QED
    BY <2>1, <2>2, OnceSame
<1>3. CASE Finish(c, x)
  <2>1. CASE completed[c] = <<>>
    BY <1>3, <2>1, OnceSame DEF Finish, listVars
  <2>2. CASE completed[c] # <<>>
    <3> DEFINE d == Head(completed[c])
    <3>1. /\ completed'[c] = Tail(completed[c]) /\ UNCHANGED <<prepped, submitted>>
          /\ \A e \in Chans : e # c => completed'[e] = completed[e]
          /\ IF cyclic[c] THEN work' = [work EXCEPT ![c] = Append(@, d)] /\ UNCHANGED pool
                          ELSE pool' = Append(pool, d) /\ UNCHANGED work
      BY <1>3, <2>2 DEF Finish, TypeOK
    <3>2. d \in Descs /\ d \in C /\ IsInjective(completed'[c]) /\ Range(completed'[c]) = C \ {d}
      BY <1>0, <2>2, <3>1, TailOnce DEF C
    <3> HIDE DEF d
    <3>3. d \notin W /\ d \notin P /\ d \notin A /\ d \notin S
      BY <1>a, <3>2
    <3>4. CASE cyclic[c]
      <4>1. /\ work'[c] = Append(work[c], d) /\ pool' = pool
            /\ \A e \in Chans : e # c => SameLists(e)
        BY <3>1, <3>4 DEF SameLists, TypeOK
      <4>2. Range(work'[c]) = W \cup {d} /\ IsInjective(work'[c])
        BY <1>0, <3>2, <3>3, <4>1, AppendOnce DEF W
      <4>3. Listed(c)' = A \cup S \cup W \cup {d} \cup (C \ {d})
        BY <3>1, <3>2, <4>2 DEF Listed, A, S
      <4>4. Range(pool)' \cap Listed(c)' = {} /\ Range(pool)' \cup Listed(c)' = P \cup Listed(c)
        BY <1>a, <1>c, <3>2, <3>3, <4>1, <4>3 DEF P
      <4>5. OnceIn(c)'
        <5>1. /\ A \cap Range(work'[c]) = {} /\ S \cap Range(work'[c]) = {}
              /\ A \cap Range(completed'[c]) = {} /\ S \cap Range(completed'[c]) = {}
              /\ Range(work'[c]) \cap Range(completed'[c]) = {}
          BY <1>a, <3>2, <3>3, <4>2
        <5> QED
          BY <1>a, <3>1, <3>2, <4>2, <4>4, <5>1 DEF OnceIn, A, S
      <4> QED
        BY <1>0, <4>1, <4>4, <4>5, OnceMove DEF P
    <3>5. CASE ~cyclic[c]
      <4>1. pool' = Append(pool, d) /\ work' = work /\ \A e \in Chans : e # c => SameLists(e)
        BY <3>1, <3>5 DEF SameLists
      <4>2. Range(pool)' = P \cup {d} /\ IsInjective(pool')
        BY <1>0, <3>2, <3>3, <4>1, AppendOnce DEF P
      <4>3. Listed(c)' = A \cup S \cup W \cup (C \ {d})
        BY <3>1, <3>2, <4>1 DEF Listed, A, S, W
      <4>4. Range(pool)' \cap Listed(c)' = {} /\ Range(pool)' \cup Listed(c)' = P \cup Listed(c)
        BY <1>a, <1>c, <3>2, <3>3, <4>2, <4>3
      <4>5. OnceIn(c)'
        <5>1. /\ A \cap Range(completed'[c]) = {} /\ S \cap Range(completed'[c]) = {}
              /\ W \cap Range(completed'[c]) = {}
          BY <1>a, <3>2
        <5> QED
          BY <1>0, <1>a, <3>1, <3>2, <4>1, <4>4, <5>1 DEF OnceIn, A, S, W
      <4> QED
        BY <4>1, <4>2, <4>4, <4>5, OnceMove DEF P
    <3> QED
      BY <3>4, <3>5
  <2> QED
    BY <2>1, <2>2
<1> QED
  BY <1>1, <1>2, <1>3 DEF Tasklet

LEMMA OnceStep == TypeOK /\ Once /\ [Next]_vars => Once'
<1> SUFFICES ASSUME TypeOK, Once, [Next]_vars PROVE Once'
  OBVIOUS
<1>1. CASE UNCHANGED vars
  BY <1>1, OnceSame DEF vars, layerVars
<1>2. CASE Interrupt \/ Recovery \/ \E t \in Threads : Transfer(t) \/ Fault(t)
  BY <1>2, CoreStepLayer, OnceSame
<1> QED
  BY <1>1, <1>2, ClientOnce, TaskletOnce DEF Next

LEMMA BaseInit == Init => BaseInv
<1> SUFFICES ASSUME Init PROVE BaseInv
  OBVIOUS
<1>1. OwnInv /\ CoreTypeOK
  BY OwnInit DEF Init, OwnInv, TypeInv
<1>2. TypeOK
  <2>1. /\ pool \in Seq(Descs)
        /\ submitted \in [Chans -> Seq(Descs)] /\ work \in [Chans -> Seq(Descs)]
        /\ completed \in [Chans -> Seq(Descs)] /\ prepped \in [Chans -> Seq(Descs)]
    BY FullPool, <<>> \in Seq(Descs) DEF Init
  <2>2. /\ thread \in [Chans -> Threads \cup {-1}]
        /\ cyclic \in [Chans -> BOOLEAN] /\ paused \in [Chans -> BOOLEAN]
        /\ lock \in [Chans -> Runners \cup {"open"}] /\ scheduled \in [Chans -> BOOLEAN]
        /\ control \in [Chans -> {"none", "terminate", "terminated", "pause", "paused"}]
    BY DEF Init
  <2>3. pc \in [Chans -> [Runners -> {"idle", "entry", "harvest", "fill", "hook",
                                     "start", "finish", "callback"}]]
    BY DEF Init
  <2>4. /\ cookie \in [Chans -> Nat] /\ completedCookie \in [Chans -> Nat]
        /\ owner \in [Descs -> Chans \cup {NULL}] /\ dcookie \in [Descs -> Nat]
        /\ unfit \in SUBSET Descs /\ oops \in BOOLEAN
    BY DEF Init
  <2> QED
    BY <1>1, <2>1, <2>2, <2>3, <2>4 DEF TypeOK
<1>3. Locking
  BY DEF Init, Locking, InTasklet, Runners
<1>4. HasThread
  BY DEF Init, HasThread
<1> QED
  BY <1>1, <1>2, <1>3, <1>4, OnceInit DEF BaseInv

LEMMA BaseStep == BaseInv /\ [Next]_vars => BaseInv'
<1> SUFFICES ASSUME BaseInv, [Next]_vars PROVE BaseInv'
  OBVIOUS
<1>1. OwnInv'
  BY NextIsCall, OwnStep DEF BaseInv
<1>2. CoreTypeOK'
  BY <1>1 DEF OwnInv, TypeInv
<1> QED
  BY <1>1, <1>2, TypesStep, LockingStep, HasThreadStep, OnceStep DEF BaseInv

LEMMA BaseAlways == Spec => []BaseInv
  BY BaseInit, BaseStep, PTL DEF Spec

-----------------------------------------------------------------------------
\* Type correctness of the channel layer, under every hazard: no cookie, list,
\* program counter or thread number leaves its range.
THEOREM LayerTypeCorrect == Spec => []TypeOK
<1>1. BaseInv => TypeOK
  BY DEF BaseInv
<1> QED
  BY <1>1, BaseAlways, PTL

\* Threads, events and the masks of their interrupts are consistent below the
\* channels too, under every hazard, although clients break the rules of the core.
THEOREM LayerThreadsOwned == Spec => []ThreadsOwned
<1>1. BaseInv => ThreadsOwned
  BY DEF BaseInv, OwnInv, ThreadsOwned
<1> QED
  BY <1>1, BaseAlways, PTL

\* What a channel holds, as one list.
LEMMA HoldsOnce ==
  ASSUME TypeOK, Once, NEW c \in Chans
  PROVE  Range(Holds(c)) = Listed(c) /\ IsInjective(Holds(c))
<1> DEFINE p == prepped[c]
           s == submitted[c]
           w == work[c]
           f == completed[c]
           ps == p \o s
           psw == ps \o w
<1>0. /\ p \in Seq(Descs) /\ s \in Seq(Descs) /\ w \in Seq(Descs) /\ f \in Seq(Descs)
      /\ IsInjective(p) /\ IsInjective(s) /\ IsInjective(w) /\ IsInjective(f)
      /\ Range(p) \cap Range(s) = {} /\ Range(p) \cap Range(w) = {} /\ Range(p) \cap Range(f) = {}
      /\ Range(s) \cap Range(w) = {} /\ Range(s) \cap Range(f) = {} /\ Range(w) \cap Range(f) = {}
  BY OnceNow DEF OnceIn
<1>1. Holds(c) = psw \o f /\ Listed(c) = Range(p) \cup Range(s) \cup Range(w) \cup Range(f)
  BY DEF Holds, Listed
<1> HIDE DEF p, s, w, f
<1>2. ps \in Seq(Descs) /\ Range(ps) = Range(p) \cup Range(s) /\ IsInjective(ps)
  BY <1>0, ConcatOnce
<1> HIDE DEF ps
<1>3. psw \in Seq(Descs) /\ Range(psw) = Range(ps) \cup Range(w) /\ IsInjective(psw)
  <2>1. Range(ps) \cap Range(w) = {}
    BY <1>0, <1>2
  <2> QED
    BY <1>0, <1>2, <2>1, ConcatOnce
<1> HIDE DEF psw
<1>4. Range(psw) \cap Range(f) = {}
  BY <1>0, <1>2, <1>3
<1>5. Range(psw \o f) = Range(psw) \cup Range(f) /\ IsInjective(psw \o f)
  BY <1>0, <1>3, <1>4, ConcatOnce
<1> QED
  BY <1>1, <1>2, <1>3, <1>5

\* Under every hazard no descriptor leaks, and none is linked into two lists or
\* twice into one.  On one processor: there whoever changes desc_pool has
\* interrupts off, and pch->lock keeps out what pool_lock keeps out.
THEOREM EveryDescOnceAlways == ASSUME ~SMP PROVE Spec => []EveryDescOnce
<1>1. ASSUME TypeOK, Once PROVE EveryDescOnce
  <2>1. \A c \in Chans : Range(Holds(c)) = Listed(c) /\ IsInjective(Holds(c))
    BY <1>1, HoldsOnce
  <2>2. UNION {Range(Holds(c)) : c \in Chans} = UNION {Listed(c) : c \in Chans}
    BY <2>1
  <2>3. \A c \in Chans : Listed(c) \subseteq Descs /\ Range(pool) \cap Listed(c) = {}
    BY <1>1, ListTypes, RangeEmpty DEF Once, OnceIn, Listed
  <2>4. Range(pool) \subseteq Descs
    BY <1>1, RangeEmpty DEF TypeOK
  <2>5. Range(pool) \cup UNION {Listed(c) : c \in Chans} = Descs
    BY <1>1, <2>3, <2>4 DEF Once
  <2>6. Range(pool) \cap UNION {Listed(c) : c \in Chans} = {}
    BY <2>3
  <2>7. \A b, c \in Chans : b # c => Range(Holds(b)) \cap Range(Holds(c)) = {}
    BY <1>1, <2>1 DEF Once
  <2> QED
    BY <1>1, <2>1, <2>2, <2>5, <2>6, <2>7 DEF Once, EveryDescOnce
<1>2. BaseInv => EveryDescOnce
  BY <1>1 DEF BaseInv
<1> QED
  BY <1>2, BaseAlways, PTL

-----------------------------------------------------------------------------
(* An orderly environment: the layer keeps the rules of the core            *)

\* A descriptor is on the lists of one channel, and not in the pool.
LEMMA Apart ==
  ASSUME Once, NEW c \in Chans, NEW d \in Listed(c)
  PROVE  d \notin Range(pool) /\ \A b \in Chans : d \in Listed(b) => b = c
  BY DEF Once, OnceIn

\* A BUSY descriptor is on the work_list of its channel.
LEMMA BusyInWork ==
  ASSUME TypeOK, Once, Statuses, NEW d \in Descs, status[d] = "BUSY"
  PROVE  /\ owner[d] \in Chans /\ d \in Range(work[owner[d]]) /\ d \notin Range(pool)
         /\ \A b \in Chans : d \in Listed(b) => b = owner[d]
<1>1. d \notin Range(pool)
  BY DEF Statuses
<1>2. PICK c \in Chans : d \in Listed(c)
  BY <1>1 DEF Once
<1>3. owner[d] = c /\ d \in Range(work[c])
  BY <1>2 DEF Statuses, StatusesOf, Listed
<1> QED
  BY <1>1, <1>2, <1>3, Apart

\* The thread of a channel is acquired, and is no other channel's.
LEMMA ThreadOf ==
  ASSUME LayerInv, NEW c \in Chans, thread[c] # -1
  PROVE  /\ thread[c] \in Threads /\ ~free[thread[c]]
         /\ \A b \in Chans : b # c => thread[b] # thread[c]
  BY DEF LayerInv, BaseInv, Layer, TypeOK, Acquired

\* A channel that is at work has a thread.
LEMMA AtWork ==
  ASSUME LayerInv, NEW c \in Chans,
         \/ Listed(c) # {} \/ scheduled[c] \/ control[c] # "none"
         \/ \E x \in Runners : pc[c][x] # "idle"
  PROVE  thread[c] # -1
  BY DEF LayerInv, Layer, Acquired

\* What is hooked, and what is due, is on the work_list of a channel.
LEMMA HookedIn ==
  ASSUME LayerInv, NEW t \in Threads, NEW i \in Slots, req[t][i] # NULL
  PROVE  /\ req[t][i] \in Descs /\ status[req[t][i]] = "BUSY" /\ ~free[t]
         /\ \E c \in Chans : thread[c] = t /\ owner[req[t][i]] = c /\ req[t][i] \in Range(work[c])
<1>1. req[t][i] \in Descs /\ status[req[t][i]] = "BUSY" /\ ~free[t]
  BY DEF LayerInv, OrderlyInv, Orderly, OwnInv, TypeInv, CoreTypeOK, HookedBusy, FreeEmpty
<1>2. PICK c \in Chans : thread[c] = t
  BY <1>1 DEF LayerInv, Layer, Acquired
<1>3. t # -1
  BY DEF Threads
<1>4. req[t][i] \in Range(work[c])
  BY <1>2, <1>3 DEF LayerInv, Layer, HookedWork
<1>5. owner[req[t][i]] = c
  BY <1>4 DEF LayerInv, Layer, Statuses, StatusesOf, Listed
<1> QED
  BY <1>1, <1>2, <1>4, <1>5

LEMMA DueIn ==
  ASSUME LayerInv, NEW d \in Due
  PROVE  /\ d \in Descs /\ status[d] = "BUSY" /\ d \in moved
         /\ owner[d] \in Chans /\ d \in Range(work[owner[d]]) /\ thread[owner[d]] # -1
<1>1. d \in Descs /\ status[d] = "BUSY" /\ d \in moved
  BY DEF LayerInv, OrderlyInv, Orderly, OwnInv, TypeInv, CoreTypeOK, DueBusy, Due
<1>2. owner[d] \in Chans /\ d \in Range(work[owner[d]])
  BY <1>1, BusyInWork DEF LayerInv, BaseInv, Layer
<1>3. thread[owner[d]] # -1
  BY <1>2, AtWork DEF Listed
<1> QED
  BY <1>1, <1>2, <1>3

\* What DMA_TERMINATE_ALL lets go of is what the thread has hooked, and nobody
\* else has.
LEMMA TerminateRules ==
  ASSUME LayerInv, NEW c \in Chans, control[c] = "terminated"
  PROVE  /\ thread[c] \in Threads
         /\ Range(Marked(c)) \in SUBSET Descs
         /\ Hooked(thread[c]) \subseteq Range(Marked(c))
         /\ Range(Marked(c)) \cap Due = {}
         /\ \A u \in Threads \ {thread[c]} : Hooked(u) \cap Range(Marked(c)) = {}
<1>1. thread[c] # -1 /\ thread[c] \in Threads
  BY AtWork, ThreadOf
<1>2. /\ Range(Marked(c)) = Range(submitted[c]) \cup Range(work[c]) \cup Range(completed[c])
      /\ Range(Marked(c)) \in SUBSET Descs
  BY MarkedType, RangeEmpty DEF LayerInv, BaseInv
<1>3. Hooked(thread[c]) \subseteq Range(Marked(c))
  BY <1>1, <1>2 DEF Hooked, LayerInv, Layer, HookedWork
<1>4. ASSUME NEW d \in Due PROVE d \notin Range(Marked(c))
  <2>1. status[d] = "BUSY"
    BY DueIn
  <2>2. d \notin Range(submitted[c]) /\ d \notin Range(completed[c])
    BY <2>1 DEF LayerInv, Layer, Statuses, StatusesOf
  <2>3. d \notin Range(work[c])
    BY DEF LayerInv, Layer, Terminating, TerminatingOf
  <2> QED
    BY <1>2, <2>2, <2>3
<1>5. ASSUME NEW u \in Threads, u # thread[c], NEW d \in Hooked(u) PROVE d \notin Range(Marked(c))
  <2>1. PICK i \in Slots : d = req[u][i] /\ d # NULL
    BY DEF Hooked
  <2>2. PICK b \in Chans : thread[b] = u /\ d \in Range(work[b])
    BY <2>1, HookedIn
  <2>3. b # c /\ d \in Listed(b)
    BY <1>5, <2>2 DEF Listed
  <2>4. d \notin Listed(c)
    BY <2>3, Apart DEF LayerInv, BaseInv
  <2> QED
    BY <1>2, <2>4 DEF Listed
<1> QED
  BY <1>1, <1>2, <1>3, <1>4, <1>5

\* Every step of the layer keeps the rules of the core.
LEMMA KeepsRules ==
  ASSUME Env = {}, LayerInv, [Next]_vars
  PROVE  [CoreNext]_coreVars
<1>0. TypeOK /\ Once /\ Statuses
  BY DEF LayerInv, BaseInv, Layer
<1>1. CASE UNCHANGED vars
  BY <1>1 DEF vars
<1>2. CASE Alive /\ \E c \in Chans : Client(c)
  <2>0. PICK c \in Chans : Client(c)
    BY <1>2
  <2>1. crash = "no"
    BY <1>2 DEF Alive
  <2>2. CASE AllocChan(c)
    BY <2>1, <2>2 DEF AllocChan, Caller, CoreNext
  <2>3. CASE FreeChan(c)
    <3>1. thread[c] \in Threads
      BY <2>3, ThreadOf DEF FreeChan
    <3> QED
      BY <2>1, <2>3, <3>1 DEF FreeChan, Caller, CoreNext
  <2>4. ASSUME NEW n \in Nat, Prep(c, n) PROVE Recycle
    <3>1. n <= Len(pool)
      BY <2>4 DEF Prep
    <3>2. Range(Chain(n)) \subseteq Range(pool) /\ Range(Chain(n)) \subseteq Descs
      BY <1>0, <3>1, ChainType
    <3>4. \A d \in Range(Chain(n)) : status[d] # "BUSY"
      BY <1>0, <3>2 DEF Statuses
    <3> QED
      BY <2>4, <3>2, <3>4 DEF Prep, Recycle
  <2>5. CASE PrepSg(c) \/ PrepCyclic(c)
    BY <2>1, <2>4, <2>5, ChannelAssumption DEF PrepSg, PrepCyclic, CoreNext
  <2>6. CASE TxSubmit(c) \/ IssuePending(c) \/ (\E cmd \in {"terminate", "pause"} : Command(c, cmd))
             \/ TxStatus(c)
    BY <2>6 DEF TxSubmit, IssuePending, Command, TxStatus
  <2>7. CASE Terminate(c)
    <3>1. thread[c] \in Threads
      BY <2>7, AtWork, ThreadOf DEF Terminate, Passes
    <3> QED
      BY <2>1, <2>7, <3>1 DEF Terminate, Caller, CoreNext
  <2>8. CASE TerminateAll(c)
    <3>1. TerminateDetach(thread[c], Range(Marked(c))) /\ control[c] = "terminated"
      BY <2>8 DEF TerminateAll, Passes
    <3> QED
      BY <2>1, <3>1, TerminateRules DEF Caller, CoreNext
  <2>9. CASE Pause(c) \/ PauseRequest(c)
    BY <2>9 DEF Pause, PauseRequest, PauseStop, PauseDetach
  <2> QED
    BY <2>0, <2>2, <2>3, <2>5, <2>6, <2>7, <2>8, <2>9 DEF Client
<1>3. CASE Alive /\ \E c \in Chans : \E x \in Runners : Tasklet(c, x)
  <2>0. PICK c \in Chans, x \in Runners : Tasklet(c, x)
    BY <1>3
  <2>1. crash = "no"
    BY <1>3 DEF Alive
  <2>2. CASE Enter(c, x) \/ Harvest(c, x) \/ FillQueue(c, x) \/ Resume(c, x)
    BY <2>2 DEF Enter, Harvest, FillQueue, Resume
  <2>3. CASE Hook(c, x)
    <3>1. thread[c] \in Threads
      BY <2>3, AtWork, ThreadOf DEF Hook, At
    <3>2. PICK i \in DOMAIN work[c] : UNCHANGED coreVars \/ SubmitReq(thread[c], work[c][i])
      BY <1>0, <2>3 DEF Hook, Statuses
    <3>3. work[c][i] \in Descs
      BY <1>0, ListTypes, LenProperties
    <3> QED
      BY <2>1, <3>1, <3>2, <3>3 DEF Caller, CoreNext
  <2>4. CASE StartChan(c, x)
    <3>1. thread[c] \in Threads /\ thread[c] # -1
      BY <2>4, AtWork, ThreadOf DEF StartChan, At
    <3> QED
      BY <2>1, <2>4, <3>1 DEF StartChan, Caller, CoreNext
  <2>5. CASE Finish(c, x)
    <3>1. \/ UNCHANGED coreVars
          \/ /\ completed[c] # <<>>
             /\ \E s \in {"FREE", "PREP"} : Mark({Head(completed[c])}, s)
      BY <2>5 DEF Finish
    <3>2. completed[c] # <<>> => Head(completed[c]) \in Descs /\ Head(completed[c]) \in Range(completed[c])
      BY <1>0, OnceNow, TailOnce DEF OnceIn
    <3>3. completed[c] # <<>> => status[Head(completed[c])] # "BUSY"
      BY <1>0, <3>2 DEF Statuses, StatusesOf
    <3> QED
      BY <2>1, <3>1, <3>2, <3>3 DEF Recycle, CoreNext
  <2> QED
    BY <2>0, <2>2, <2>3, <2>4, <2>5 DEF Tasklet
<1>4. CASE Alive /\ (Interrupt \/ Recovery)
  BY <1>4 DEF Interrupt, Recovery, Update, Dotask, CoreNext, Alive
<1>5. CASE Alive /\ \E t \in Threads : Transfer(t) \/ Fault(t)
  BY <1>5 DEF Transfer, Fault, Controller, CoreNext, Alive
<1> QED
  BY <1>1, <1>2, <1>3, <1>4, <1>5 DEF Next

-----------------------------------------------------------------------------
(* An orderly environment: the lists of the layer and the threads below     *)

\* What the interrupt handler does when no thread has faulted.
LEMMA EventsStep ==
  ASSUME OrderlyInv, UpdateEvents
  PROVE  /\ es' = {} /\ Due = {} /\ Due' = {Finished(t) : t \in Notified}
         /\ UNCHANGED <<free, ev, lstenq, status, moved>>
         /\ \A t \in Notified : /\ t \in Threads /\ Pending(t) /\ running[t] \in Slots
                                /\ Finished(t) = req[t][running[t]] /\ Finished(t) # NULL
         /\ \A t \in Threads, i \in Slots :
              req'[t][i] = IF t \in Notified /\ i = running[t] THEN NULL ELSE req[t][i]
         /\ \A t \in Threads \ Notified : hw'[t] = hw[t] /\ running'[t] = running[t]
<1> USE DEF OrderlyInv, Orderly, OwnInv, TypeInv, CoreTypeOK
<1> DEFINE hwF == [t \in Threads |-> IF t \in Faulting THEN "stopped" ELSE hw[t]]
           reqN == [t \in Threads |-> IF t \in Notified THEN Detached(t) ELSE req[t]]
           Go == {t \in Notified : Starts(t, hwF[t], reqN[t])}
<1>1. /\ irqPc = "idle" /\ es' = es \ Cleared /\ req' = reqN
      /\ reqDone' = reqDone \cup {Finished(t) : t \in Notified}
      /\ \A t \in Threads \ Go : running'[t] = running[t] /\ hw'[t] = hwF[t]
      /\ UNCHANGED <<free, ev, lstenq, status, moved, irqDesc>>
  BY DEF UpdateEvents, descVars
<1>2. Faulting = {} /\ es' = {}
  BY <1>1 DEF NoFault, Cleared, RaisedOwned
<1>3. Due = {} /\ Due' = {Finished(t) : t \in Notified}
  BY <1>1 DEF CallbackLoop, Due
<1>4. ASSUME NEW t \in Notified
      PROVE  /\ t \in Threads /\ Pending(t) /\ running[t] \in Slots
             /\ Finished(t) = req[t][running[t]] /\ Finished(t) # NULL
  <2>1. t \in Threads /\ Pending(t)
    BY NotifiedPending DEF Notified
  <2>2. running[t] \in Slots /\ req[t][running[t]] \in moved
    BY <2>1 DEF RaisedHooked
  <2>3. req[t][running[t]] # NULL
    BY <2>2, CoreAssumption
  <2> QED
    BY <2>1, <2>2, <2>3 DEF Finished
<1>5. ASSUME NEW t \in Threads, NEW i \in Slots
      PROVE  req'[t][i] = IF t \in Notified /\ i = running[t] THEN NULL ELSE req[t][i]
  <2>1. CASE t \in Notified
    <3>1. req'[t] = [req[t] EXCEPT ![running[t]] = NULL]
      BY <1>1, <2>1 DEF Detached
    <3> QED
      BY <2>1, <3>1
  <2>2. CASE t \notin Notified
    BY <1>1, <2>2
  <2> QED
    BY <2>1, <2>2
<1>6. \A t \in Threads \ Notified : hw'[t] = hw[t] /\ running'[t] = running[t]
  BY <1>1, <1>2
<1> QED
  BY <1>1, <1>2, <1>3, <1>4, <1>5, <1>6

\* The statuses of a channel whose descriptors nothing happens to.
LEMMA StatusSame ==
  ASSUME NEW c \in Chans, StatusesOf(c), SameLists(c),
         \A d \in Listed(c) : status'[d] = status[d] /\ owner'[d] = owner[d]
                              /\ (d \in moved => d \in moved')
  PROVE  StatusesOf(c)'
<1>1. Listed(c)' = Listed(c)
  BY DEF SameLists, Listed
<1> QED
  BY <1>1 DEF StatusesOf, SameLists, Listed

\* The core's own steps: what they do to the layer ...
LEMMA CoreKeepsLayer ==
  ASSUME LayerInv,
         UNCHANGED <<listVars, chanVars, lock, pc, control, cookieVars, txVars, free>>,
         \/ scheduled' = scheduled
         \/ \E d \in Due : scheduled' = [scheduled EXCEPT ![owner[d]] = TRUE],
         \/ status' = status
         \/ \E d \in Due : status' = [status EXCEPT ![d] = "DONE"],
         moved \subseteq moved',
         \A t \in Threads, i \in Slots : req'[t][i] \in {req[t][i], NULL},
         \A c \in Chans : control[c] = "terminated" =>
           /\ hw'[thread[c]] = "stopped" /\ ev'[thread[c]] \notin es'
           /\ Range(work[c]) \cap Due' = {}
  PROVE  Layer'
<1> USE DEF listVars, chanVars, txVars
<1>0. \A c \in Chans : SameLists(c) /\ Listed(c)' = Listed(c)
  BY DEF SameLists, Listed
<1>1. Acquired'
  <2>1. Acquired
    BY DEF LayerInv, Layer
  <2>2. ASSUME NEW c \in Chans, thread[c] = -1 PROVE ~scheduled'[c]
    <3>1. ~scheduled[c] /\ scheduled \in [Chans -> BOOLEAN]
      BY <2>1, <2>2 DEF Acquired, LayerInv, BaseInv, TypeOK
    <3>2. \A d \in Due : owner[d] # c
      BY <2>2, DueIn
    <3> QED
      BY <3>1, <3>2
  <2>3. /\ \A c \in Chans : thread[c] # -1 => ~free[thread[c]]
        /\ \A t \in Threads : ~free[t] => \E c \in Chans : thread[c] = t
        /\ \A b, c \in Chans : thread[b] = thread[c] /\ thread[c] # -1 => b = c
    BY <2>1 DEF Acquired
  <2>4. \A c \in Chans : thread[c] = -1 =>
          Listed(c)' = {} /\ control[c] = "none" /\ \A x \in Runners : pc[c][x] = "idle"
    BY <1>0, <2>1 DEF Acquired
  <2> QED
    BY <2>2, <2>3, <2>4 DEF Acquired
<1>2. Statuses'
  <2>0. Statuses /\ Once
    BY DEF LayerInv, BaseInv, Layer
  <2>1. CASE status' = status
    BY <1>0, <2>0, <2>1, StatusSame DEF Statuses
  <2>2. ASSUME NEW e \in Due, status' = [status EXCEPT ![e] = "DONE"] PROVE Statuses'
    <3>1. /\ e \in Descs /\ owner[e] \in Chans /\ e \in Range(work[owner[e]]) /\ e \in moved
      BY DueIn
    <3>2. e \notin Range(pool) /\ \A b \in Chans : e \in Listed(b) => b = owner[e]
      BY <2>0, <3>1, Apart DEF Listed
    <3>3. /\ status \in [Descs -> {"FREE", "PREP", "BUSY", "DONE"}] /\ moved \in SUBSET Descs
          /\ Range(pool) \subseteq Descs /\ \A b \in Chans : Listed(b) \subseteq Descs
      BY ListTypes, RangeEmpty DEF LayerInv, BaseInv, TypeOK, CoreTypeOK, Listed
    <3>4. status'[e] = "DONE" /\ \A d \in Descs : d # e => status'[d] = status[d]
      BY <2>2, <3>1, <3>3
    <3>5. ASSUME NEW b \in Chans, b # owner[e] PROVE StatusesOf(b)'
      BY <1>0, <2>0, <3>2, <3>3, <3>4, <3>5, StatusSame DEF Statuses
    <3>6. StatusesOf(owner[e])'
      <4>1. StatusesOf(owner[e]) /\ OnceIn(owner[e]) /\ SameLists(owner[e])
        BY <1>0, <2>0, <3>1 DEF Statuses, Once
      <4>2. /\ e \notin Range(prepped[owner[e]]) /\ e \notin Range(submitted[owner[e]])
        BY <3>1, <4>1 DEF OnceIn
      <4> QED
        BY <3>1, <3>3, <3>4, <4>1, <4>2 DEF StatusesOf, SameLists, Listed
    <3>7. \A d \in Range(pool)' : status'[d] = "FREE"
      BY <2>0, <3>2, <3>3, <3>4 DEF Statuses
    <3> QED
      BY <2>0, <3>5, <3>6, <3>7 DEF Statuses
  <2> QED
    BY <2>1, <2>2
<1>3. HookedWork'
  <2> SUFFICES ASSUME NEW c \in Chans, NEW i \in Slots, thread[c] # -1, req'[thread[c]][i] # NULL
               PROVE  req'[thread[c]][i] \in Range(work[c])
    BY DEF HookedWork
  <2>1. req'[thread[c]][i] = req[thread[c]][i]
    BY ThreadOf
  <2> QED
    BY <2>1 DEF LayerInv, Layer, HookedWork
<1>4. Terminating'
  BY DEF LayerInv, Layer, Terminating, TerminatingOf
<1>5. ShortChains'
  BY DEF LayerInv, Layer, ShortChains
<1> QED
  BY <1>1, <1>2, <1>3, <1>4, <1>5 DEF Layer

\* ... while nothing is recovered, and nothing completes in DMA_TERMINATE_ALL.
LEMMA CoreLayer ==
  ASSUME Env = {}, LayerInv,
         Interrupt \/ Recovery \/ \E t \in Threads : Transfer(t) \/ Fault(t)
  PROVE  Layer'
<1>0. /\ OrderlyInv /\ CoreTypeOK /\ NoFault /\ CallbackLoop /\ EventsOwned /\ FreeStopped
      /\ Terminating
  BY DEF LayerInv, OrderlyInv, Orderly, OwnInv, TypeInv, Layer
<1>1. /\ UNCHANGED <<listVars, chanVars, lock, pc, control, cookieVars, txVars>>
  BY CoreStepLayer
<1>2. ASSUME NEW c \in Chans, control[c] = "terminated"
      PROVE  /\ thread[c] \in Threads /\ ~free[thread[c]]
             /\ hw[thread[c]] = "stopped" /\ ev[thread[c]] \notin es
             /\ Range(work[c]) \cap Due = {}
  BY <1>0, <1>2, AtWork, ThreadOf DEF Terminating, TerminatingOf
<1>3. CASE UpdateEvents /\ UNCHANGED scheduled
  <2>1. /\ es' = {} /\ Due' = {Finished(t) : t \in Notified} /\ UNCHANGED <<free, ev, status, moved>>
        /\ \A t \in Notified : /\ t \in Threads /\ Pending(t) /\ running[t] \in Slots
                               /\ Finished(t) = req[t][running[t]] /\ Finished(t) # NULL
        /\ \A t \in Threads, i \in Slots : req'[t][i] \in {req[t][i], NULL}
        /\ \A t \in Threads \ Notified : hw'[t] = hw[t]
    BY <1>0, <1>3, EventsStep
  <2>2. ASSUME NEW c \in Chans, control[c] = "terminated"
        PROVE  /\ hw'[thread[c]] = "stopped" /\ ev'[thread[c]] \notin es'
               /\ Range(work[c]) \cap Due' = {}
    <3>1. thread[c] \in Threads /\ thread[c] \notin Notified /\ hw[thread[c]] = "stopped"
      BY <1>2, <2>1, <2>2 DEF Pending
    <3>2. ASSUME NEW t \in Notified PROVE Finished(t) \notin Range(work[c])
      <4>1. t \in Threads /\ running[t] \in Slots /\ Finished(t) = req[t][running[t]]
            /\ Finished(t) # NULL
        BY <2>1
      <4>2. PICK b \in Chans : thread[b] = t /\ Finished(t) \in Range(work[b])
        BY <4>1, HookedIn
      <4>3. b # c
        BY <3>1, <4>2
      <4> QED
        BY <4>2, <4>3, Apart DEF Listed, LayerInv, BaseInv
    <3> QED
      BY <2>1, <3>1, <3>2
  <2> QED
    BY <1>1, <1>3, <2>1, <2>2, CoreKeepsLayer
<1>4. CASE (\/ UpdateCrash \/ (\E d \in Descs : UpdateList(d)) \/ UpdateExit) /\ UNCHANGED scheduled
  <2>1. Due' = Due /\ UNCHANGED <<free, ev, req, es, hw, status, moved>>
    BY <1>0, <1>4, CoreAssumption DEF UpdateCrash, UpdateList, UpdateExit, Due, CallbackLoop,
       threadVars, dmacVars, descVars, hwVars, irqVars
  <2>2. \A t \in Threads, i \in Slots : req'[t][i] \in {req[t][i], NULL}
    BY <2>1
  <2> QED
    BY <1>1, <1>2, <1>4, <2>1, <2>2, CoreKeepsLayer
<1>5. CASE UpdateRqcb /\ Notifies(irqDesc)
  <2>1. /\ irqDesc \in Due /\ status' = [status EXCEPT ![irqDesc] = "DONE"]
        /\ scheduled' = [scheduled EXCEPT ![owner[irqDesc]] = TRUE]
        /\ Due' \subseteq Due /\ UNCHANGED <<free, ev, req, es, hw, moved>>
    BY <1>0, <1>5 DEF UpdateRqcb, Rqcb, Notifies, CallbackLoop, Due, threadVars, dmacVars, hwVars
  <2>2. \A t \in Threads, i \in Slots : req'[t][i] \in {req[t][i], NULL}
    BY <2>1
  <2>3. \A c \in Chans : control[c] = "terminated" => Range(work[c]) \cap Due' = {}
    BY <1>2, <2>1
  <2> QED
    BY <1>1, <1>2, <2>1, <2>2, <2>3, CoreKeepsLayer
<1>6. CASE Recovery
  BY <1>0, <1>6 DEF Recovery, NoFault, DotaskBegin, DotaskRead, DotaskClear, DotaskRqcb
<1>7. ASSUME NEW t \in Threads, (HwSev(t) \/ HwEnd(t)) /\ UNCHANGED scheduled PROVE Layer'
  <2>1. /\ UNCHANGED <<free, ev, req, status>> /\ Due' = Due /\ moved \subseteq moved'
        /\ hw[t] # "stopped" /\ \A u \in Threads : u # t => hw'[u] = hw[u]
        /\ es' \subseteq es \cup {ev[t]}
    BY <1>0, <1>7 DEF HwSev, HwEnd, threadVars, dmacVars, descVars, irqVars, Due, CoreTypeOK
  <2>2. \A u \in Threads, i \in Slots : req'[u][i] \in {req[u][i], NULL}
    BY <2>1
  <2>3. ASSUME NEW c \in Chans, control[c] = "terminated"
        PROVE  hw'[thread[c]] = "stopped" /\ ev'[thread[c]] \notin es'
    <3>1. thread[c] # t /\ ~free[t] /\ ~free[thread[c]]
      BY <1>0, <1>2, <2>1, <2>3 DEF FreeStopped
    <3>2. ev[thread[c]] # ev[t]
      BY <1>0, <1>2, <2>3, <3>1, EventsDiffer
    <3> QED
      BY <1>2, <2>1, <2>3, <3>1, <3>2
  <2> QED
    BY <1>1, <1>2, <1>7, <2>1, <2>2, <2>3, CoreKeepsLayer
<1> QED
  BY <1>3, <1>4, <1>5, <1>6, <1>7 DEF Interrupt, Transfer, Fault, HwFault, layerVars, runVars

\* A step of channel c leaves the others as they are.
Elsewhere(c) ==
  \A b \in Chans : b # c =>
    /\ SameLists(b)
    /\ thread'[b] = thread[b] /\ scheduled'[b] = scheduled[b]
    /\ control'[b] = control[b] /\ pc'[b] = pc[b]

\* What is left to show of a channel that keeps its thread.
LEMMA StaysAcquired ==
  ASSUME LayerInv, NEW c \in Chans, Elsewhere(c), thread[c] # -1, UNCHANGED <<thread, free>>
  PROVE  Acquired'
<1>1. \A b \in Chans : thread[b] = -1 => b # c /\ Listed(b)' = Listed(b)
  BY DEF Elsewhere, SameLists, Listed
<1> QED
  BY <1>1 DEF Elsewhere, LayerInv, Layer, Acquired

\* ... of the statuses of its descriptors,
LEMMA StatusesAt ==
  ASSUME LayerInv, NEW c \in Chans, Elsewhere(c), unfit' = {}, StatusesOf(c)',
         \A d \in Range(pool)' : status'[d] = "FREE",
         \A b \in Chans : b # c => \A d \in Listed(b) :
           status'[d] = status[d] /\ owner'[d] = owner[d] /\ (d \in moved => d \in moved')
  PROVE  Statuses'
<1>1. \A b \in Chans : b # c => StatusesOf(b)'
  BY StatusSame DEF Elsewhere, LayerInv, Layer, Statuses
<1> QED
  BY <1>1 DEF Statuses

\* ... of what its thread has hooked,
LEMMA HookedAt ==
  ASSUME LayerInv, NEW c \in Chans, Elsewhere(c),
         \A t \in Threads : t # thread'[c] => req'[t] = req[t],
         \A i \in Slots : thread'[c] # -1 /\ req'[thread'[c]][i] # NULL
                            => req'[thread'[c]][i] \in Range(work'[c]),
         thread'[c] # -1 => \A b \in Chans : b # c => thread[b] # thread'[c]
  PROVE  HookedWork'
<1> SUFFICES ASSUME NEW b \in Chans, NEW i \in Slots, b # c,
                    thread'[b] # -1, req'[thread'[b]][i] # NULL
             PROVE  req'[thread'[b]][i] \in Range(work'[b])
  BY DEF HookedWork
<1>1. thread'[b] = thread[b] /\ work'[b] = work[b] /\ thread[b] \in Threads
  BY ThreadOf DEF Elsewhere, SameLists
<1>2. thread[b] # thread'[c]
  BY <1>1
<1> QED
  BY <1>1, <1>2 DEF LayerInv, Layer, HookedWork

\* ... of its command,
LEMMA TerminatingAt ==
  ASSUME LayerInv, NEW c \in Chans, Elsewhere(c), TerminatingOf(c)', Due' \subseteq Due,
         es' = es, \A t \in Threads : t # thread'[c] => hw'[t] = hw[t] /\ ev'[t] = ev[t],
         thread'[c] # -1 => \A b \in Chans : b # c => thread[b] # thread'[c]
  PROVE  Terminating'
<1> SUFFICES ASSUME NEW b \in Chans, b # c PROVE TerminatingOf(b)'
  BY DEF Terminating
<1>1. /\ control'[b] = control[b] /\ completed'[b] = completed[b] /\ work'[b] = work[b]
      /\ thread'[b] = thread[b]
  BY DEF Elsewhere, SameLists
<1>2. TerminatingOf(b)
  BY DEF LayerInv, Layer, Terminating
<1>3. CASE control[b] = "terminated"
  <2>1. thread[b] \in Threads /\ thread[b] # -1
    BY <1>3, AtWork, ThreadOf
  <2>2. thread[b] # thread'[c]
    BY <2>1
  <2> QED
    BY <1>1, <1>2, <2>1, <2>2 DEF TerminatingOf
<1>4. CASE control[b] # "terminated"
  BY <1>1, <1>2, <1>4 DEF TerminatingOf
<1> QED
  BY <1>3, <1>4

\* ... and of the chain it has prepared.
LEMMA ShortChainsAt ==
  ASSUME LayerInv, NEW c \in Chans, Elsewhere(c), Len(prepped'[c]) <= ChainBound
  PROVE  ShortChains'
  BY DEF Elsewhere, SameLists, LayerInv, Layer, ShortChains

\* The rest of the state stays as it is when the core does nothing.
LEMMA SameCore ==
  UNCHANGED coreVars => /\ UNCHANGED <<free, ev, req, lstenq, running, es, hw, hwDesc, status, moved>>
                        /\ Due' = Due
  BY DEF coreVars, threadVars, dmacVars, descVars, hwVars, irqVars, Due

\* A channel that is not in the middle of a command, while its client calls.
LEMMA AtRest ==
  ASSUME LayerInv, NEW c \in Chans, control[c] = "none", control' = control
  PROVE  TerminatingOf(c)'
  BY DEF TerminatingOf

\* Its thread is acquired, and given back.
LEMMA AllocLayer ==
  ASSUME LayerInv, NEW c \in Chans, AllocChan(c)
  PROVE  Layer'
<1>0. /\ CoreTypeOK /\ TypeOK /\ Acquired /\ Statuses /\ HookedWork /\ ShortChains
      /\ thread[c] = -1 /\ control[c] = "none"
  BY DEF LayerInv, BaseInv, TypeOK, Layer, AllocChan, CallsLocked, Calls
<1>1. PICK t \in Threads, e \in Events :
        RequestChannel(t, e) /\ thread' = [thread EXCEPT ![c] = t]
  BY DEF AllocChan
<1>2. /\ free[t] /\ free' = [free EXCEPT ![t] = FALSE] /\ ev' = [ev EXCEPT ![t] = e]
      /\ req' = [req EXCEPT ![t] = [i \in Slots |-> NULL]]
      /\ UNCHANGED <<status, moved, es, hw>> /\ Due' = Due
  BY <1>1 DEF RequestChannel, descVars, hwVars, irqVars, Due
<1>3. /\ UNCHANGED <<listVars, pc, control, owner, unfit>>
      /\ scheduled' = [scheduled EXCEPT ![c] = FALSE]
  BY DEF AllocChan, txVars
<1>4. Elsewhere(c) /\ SameLists(c) /\ thread'[c] = t
  BY <1>0, <1>1, <1>3 DEF Elsewhere, SameLists, listVars, TypeOK
<1>5. \A b \in Chans : thread[b] # t
  BY <1>0, <1>2 DEF Acquired, Threads
<1>6. t # -1
  BY DEF Threads
<1>7. Acquired'
  <2>1. \A u \in Threads : u # t => free'[u] = free[u]
    BY <1>0, <1>2 DEF CoreTypeOK
  <2>2. ~free'[t]
    BY <1>0, <1>2 DEF CoreTypeOK
  <2>3. \A b \in Chans : b # c => thread'[b] = thread[b] /\ Listed(b)' = Listed(b)
    BY <1>4 DEF Elsewhere, SameLists, Listed
  <2>4. \A b \in Chans : thread'[b] # -1 => ~free'[thread'[b]]
    <3> SUFFICES ASSUME NEW b \in Chans, thread'[b] # -1 PROVE ~free'[thread'[b]]
      OBVIOUS
    <3>1. CASE b = c
      BY <1>4, <2>2, <3>1
    <3>2. CASE b # c
      <4>1. thread'[b] = thread[b] /\ thread[b] # -1
        BY <2>3, <3>2
      <4>2. thread[b] \in Threads /\ ~free[thread[b]] /\ thread[b] # t
        BY <1>5, <4>1, ThreadOf
      <4> QED
        BY <2>1, <4>1, <4>2
    <3> QED
      BY <3>1, <3>2
  <2>5. \A u \in Threads : ~free'[u] => \E b \in Chans : thread'[b] = u
    BY <1>0, <1>4, <1>6, <2>1, <2>3 DEF Acquired, Threads
  <2>6. \A a, b \in Chans : thread'[a] = thread'[b] /\ thread'[b] # -1 => a = b
    BY <1>0, <1>4, <1>5, <2>3 DEF Acquired
  <2>7. \A b \in Chans : thread'[b] = -1 =>
          /\ Listed(b)' = {} /\ ~scheduled'[b] /\ control'[b] = "none"
          /\ \A x \in Runners : pc'[b][x] = "idle"
    BY <1>0, <1>4, <1>6, <2>3 DEF Acquired, Elsewhere
  <2> QED
    BY <2>4, <2>5, <2>6, <2>7 DEF Acquired
<1>8. Statuses'
  BY <1>0, <1>2, <1>3 DEF Statuses, StatusesOf, listVars, Listed
<1>9. HookedWork'
  BY <1>0, <1>2, <1>4, <1>5, HookedAt DEF CoreTypeOK
<1>10. Terminating'
  <2>1. TerminatingOf(c)'
    BY <1>0, <1>3, AtRest
  <2> QED
    BY <1>0, <1>2, <1>4, <1>5, <2>1, TerminatingAt DEF CoreTypeOK
<1>11. ShortChains'
  BY <1>0, <1>3 DEF ShortChains, listVars
<1> QED
  BY <1>7, <1>8, <1>9, <1>10, <1>11 DEF Layer

LEMMA FreeLayer ==
  ASSUME Env = {}, LayerInv, NEW c \in Chans, FreeChan(c)
  PROVE  Layer'
<1>0. /\ CoreTypeOK /\ TypeOK /\ Acquired /\ Statuses /\ HookedWork /\ Terminating /\ ShortChains
      /\ thread[c] # -1 /\ control[c] = "none" /\ lock[c] = "open"
  BY DEF LayerInv, BaseInv, TypeOK, Layer, FreeChan, CallsLocked, Calls
<1> DEFINE t == thread[c]
<1>1. t \in Threads /\ ~free[t] /\ \A b \in Chans : b # c => thread[b] # t
  BY <1>0, ThreadOf
<1>2. /\ prepped[c] = <<>> /\ submitted[c] = <<>> /\ work[c] = <<>> /\ completed[c] = <<>>
      /\ ~scheduled[c] /\ pc[c]["soft"] = "idle" /\ pc[c]["client"] = "idle"
      /\ thread' = [thread EXCEPT ![c] = -1]
      /\ UNCHANGED <<prepped, submitted, completed, scheduled, control, pc, owner, unfit>>
  BY DEF FreeChan, TaskletKilled, runVars, txVars
<1>3. UNCHANGED <<pool, work>>
  <2>1. pool \o <<>> = pool
    BY ConcatEmptySeq DEF LayerInv, BaseInv, TypeOK
  <2>2. [work EXCEPT ![c] = <<>>] = work
    BY <1>0, <1>2 DEF TypeOK
  <2> QED
    BY <1>2, <2>1, <2>2 DEF FreeChan
<1>4. ReleaseChannel(t) /\ QueueEmpty(t)
  BY DEF FreeChan, ReleaseChannel
<1>5. /\ free' = [free EXCEPT ![t] = TRUE] /\ UNCHANGED <<ev, req, es, status, moved>> /\ Due' = Due
      /\ \A u \in Threads : u # t => hw'[u] = hw[u]
  BY <1>1, <1>4 DEF ReleaseChannel, Stop, ToStop, descVars, irqVars, Due
<1>6. Elsewhere(c) /\ SameLists(c) /\ thread'[c] = -1
  BY <1>0, <1>2, <1>3 DEF Elsewhere, SameLists, TypeOK
<1> HIDE DEF t
<1>7. Acquired'
  <2>1. free'[t] /\ \A u \in Threads : u # t => free'[u] = free[u]
    BY <1>0, <1>1, <1>5 DEF CoreTypeOK
  <2>2. \A b \in Chans : b # c => thread'[b] = thread[b] /\ Listed(b)' = Listed(b)
    BY <1>6 DEF Elsewhere, SameLists, Listed
  <2>3. \A b \in Chans : thread'[b] # -1 => ~free'[thread'[b]]
    <3> SUFFICES ASSUME NEW b \in Chans, thread'[b] # -1 PROVE ~free'[thread'[b]]
      OBVIOUS
    <3>1. b # c /\ thread'[b] = thread[b] /\ thread[b] # -1
      BY <1>6, <2>2
    <3>2. thread[b] \in Threads /\ ~free[thread[b]] /\ thread[b] # t
      BY <1>1, <3>1, ThreadOf
    <3> QED
      BY <2>1, <3>1, <3>2
  <2>4. \A u \in Threads : ~free'[u] => \E b \in Chans : thread'[b] = u
    <3> SUFFICES ASSUME NEW u \in Threads, ~free'[u] PROVE \E b \in Chans : thread'[b] = u
      OBVIOUS
    <3>1. u # t /\ ~free[u]
      BY <2>1
    <3>2. PICK b \in Chans : thread[b] = u
      BY <1>0, <3>1 DEF Acquired
    <3> QED
      BY <2>2, <3>1, <3>2 DEF t
  <2>5. \A a, b \in Chans : thread'[a] = thread'[b] /\ thread'[b] # -1 => a = b
    BY <1>0, <1>6, <2>2 DEF Acquired
  <2>6. Listed(c)' = {} /\ \A x \in Runners : pc'[c][x] = "idle"
    <3>1. Range(<<>>) = {}
      BY RangeEmpty, <<>> \in Seq(Descs)
    <3> QED
      BY <1>2, <1>3, <3>1 DEF Listed, Runners
  <2>7. \A b \in Chans : thread'[b] = -1 =>
          /\ Listed(b)' = {} /\ ~scheduled'[b] /\ control'[b] = "none"
          /\ \A x \in Runners : pc'[b][x] = "idle"
    BY <1>0, <1>2, <2>2, <2>6 DEF Acquired
  <2> QED
    BY <2>3, <2>4, <2>5, <2>7 DEF Acquired
<1>8. Statuses'
  BY <1>0, <1>2, <1>3, <1>5 DEF Statuses, StatusesOf, Listed
<1>9. HookedWork'
  BY <1>5, <1>6, HookedAt
<1>10. Terminating'
  <2> SUFFICES ASSUME NEW b \in Chans PROVE TerminatingOf(b)'
    BY DEF Terminating
  <2>1. CASE b = c
    BY <1>0, <1>2, <2>1 DEF TerminatingOf
  <2>2. CASE b # c
    <3>1. /\ control'[b] = control[b] /\ completed'[b] = completed[b] /\ work'[b] = work[b]
          /\ thread'[b] = thread[b] /\ TerminatingOf(b)
      BY <1>0, <1>6, <2>2 DEF Elsewhere, SameLists, Terminating
    <3>2. control[b] = "terminated" => thread[b] \in Threads /\ thread[b] # t
      BY <1>1, <2>2, AtWork, ThreadOf
    <3> QED
      BY <1>5, <3>1, <3>2 DEF TerminatingOf
  <2> QED
    BY <2>1, <2>2
<1>11. ShortChains'
  BY <1>0, <1>2 DEF ShortChains
<1> QED
  BY <1>7, <1>8, <1>9, <1>10, <1>11 DEF Layer

\* A chain is taken off the pool.
LEMMA PrepLayer ==
  ASSUME LayerInv, NEW c \in Chans, NEW n \in Nat, Prep(c, n), n <= ChainBound, unfit' = {}
  PROVE  Layer'
<1> DEFINE a == Chain(n)
           b == SubSeq(pool, n + 1, Len(pool))
<1>0. /\ CoreTypeOK /\ TypeOK /\ Statuses /\ Once /\ thread[c] # -1 /\ control[c] = "none"
      /\ prepped[c] = <<>> /\ n \in 0 .. Len(pool)
  BY ListTypes, LenProperties DEF LayerInv, BaseInv, TypeOK, Layer, Prep, Calls
<1>1. /\ Range(a) \cup Range(b) = Range(pool) /\ Range(a) \cap Range(b) = {} /\ Len(a) = n
      /\ Range(a) \subseteq Descs
  BY <1>0, OnceNow, CutOnce, ChainType DEF Chain, Prep
<1>2. /\ pool' = b /\ prepped' = [prepped EXCEPT ![c] = a]
      /\ status' = [d \in Descs |-> IF d \in Range(a) THEN "PREP" ELSE status[d]]
      /\ moved' = moved \ Range(a)
      /\ owner' = [d \in Descs |-> IF d \in Range(a) THEN c ELSE owner[d]]
      /\ UNCHANGED <<submitted, work, completed, thread, scheduled, control, pc>>
      /\ UNCHANGED <<free, ev, req, es, hw>> /\ Due' = Due
  BY DEF Prep, Mark, runVars, threadVars, dmacVars, hwVars, irqVars, Due
<1> HIDE DEF a, b
<1>3. Elsewhere(c) /\ prepped'[c] = a
  BY <1>0, <1>2 DEF Elsewhere, SameLists, TypeOK
<1>4. Acquired'
  BY <1>0, <1>2, <1>3, StaysAcquired
<1>5. \A e \in Chans : Listed(e) \subseteq Descs /\ Listed(e) \cap Range(a) = {}
  BY <1>0, <1>1, ListTypes, RangeEmpty DEF Once, OnceIn, Listed
<1>6. \A e \in Chans : \A d \in Listed(e) :
        status'[d] = status[d] /\ owner'[d] = owner[d] /\ (d \in moved => d \in moved')
  BY <1>2, <1>5
<1>7. StatusesOf(c)'
  <2>1. \A d \in Range(a) : status'[d] = "PREP" /\ owner'[d] = c
    BY <1>1, <1>2
  <2>2. StatusesOf(c)
    BY <1>0 DEF Statuses
  <2> QED
    BY <1>2, <1>3, <1>6, <2>1, <2>2 DEF StatusesOf, Listed
<1>8. \A d \in Range(pool)' : status'[d] = "FREE"
  BY <1>0, <1>1, <1>2, RangeEmpty DEF Statuses, TypeOK
<1>9. Statuses'
  BY <1>3, <1>6, <1>7, <1>8, StatusesAt
<1>10. HookedWork'
  BY <1>2 DEF LayerInv, Layer, HookedWork
<1>11. Terminating'
  BY <1>2 DEF LayerInv, Layer, Terminating, TerminatingOf
<1>12. ShortChains'
  BY <1>1, <1>3, ShortChainsAt
<1> QED
  BY <1>4, <1>9, <1>10, <1>11, <1>12 DEF Layer

\* The chain is submitted, and issued.
LEMMA QueueLayer ==
  ASSUME LayerInv, NEW c \in Chans, TxSubmit(c) \/ IssuePending(c)
  PROVE  Layer'
<1>0. /\ CoreTypeOK /\ TypeOK /\ Once /\ Statuses /\ control[c] = "none"
      /\ prepped[c] \in Seq(Descs) /\ submitted[c] \in Seq(Descs) /\ work[c] \in Seq(Descs)
      /\ Range(<<>>) = {}
  BY OnceNow DEF LayerInv, BaseInv, TypeOK, Layer, TxSubmit, IssuePending, CallsLocked, Calls
<1>1. /\ UNCHANGED <<coreVars, pool, completed, thread, scheduled, control, owner, unfit>>
      /\ \A b \in Chans : b # c => pc'[b] = pc[b]
  BY <1>0 DEF TxSubmit, IssuePending, chanVars, runVars, txVars, TypeOK
<1>2. UNCHANGED <<free, ev, req, es, hw, status, moved>> /\ Due' = Due
  BY <1>1, SameCore
<1>3. Elsewhere(c)
  BY <1>0, <1>1 DEF Elsewhere, SameLists, TxSubmit, IssuePending, TypeOK
<1>4. thread[c] # -1
  <2>1. CASE TxSubmit(c)
    <3>1. Range(prepped[c]) # {}
      BY <1>0, <2>1, RangeEmpty DEF TxSubmit
    <3> QED
      BY <3>1, AtWork DEF Listed
  <2>2. CASE IssuePending(c)
    BY <2>2 DEF IssuePending
  <2> QED
    BY <2>1, <2>2
<1>5. /\ Range(prepped'[c]) \subseteq Range(prepped[c])
      /\ Range(submitted'[c]) \subseteq Range(submitted[c]) \cup Range(prepped[c])
      /\ Range(work'[c]) \subseteq Range(work[c]) \cup Range(submitted[c])
      /\ Range(work[c]) \subseteq Range(work'[c])
      /\ Len(prepped'[c]) <= ChainBound
  <2>0. Len(prepped[c]) <= ChainBound /\ ChainBound \in Nat
    BY ChannelAssumption DEF LayerInv, Layer, ShortChains, ChainBound
  <2>1. CASE TxSubmit(c)
    <3>1. submitted'[c] = submitted[c] \o prepped[c] /\ prepped'[c] = <<>> /\ work' = work
      BY <1>0, <2>1 DEF TxSubmit, TypeOK
    <3>2. Range(submitted'[c]) = Range(submitted[c]) \cup Range(prepped[c])
      BY <1>0, <3>1, ConcatOnce
    <3>3. Len(<<>>) = 0
      OBVIOUS
    <3> QED
      BY <1>0, <2>0, <3>1, <3>2, <3>3
  <2>2. CASE IssuePending(c)
    <3>1. work'[c] = work[c] \o submitted[c] /\ submitted'[c] = <<>> /\ prepped' = prepped
      BY <1>0, <2>2 DEF IssuePending, TypeOK
    <3>2. Range(work'[c]) = Range(work[c]) \cup Range(submitted[c])
      BY <1>0, <3>1, ConcatOnce
    <3> QED
      BY <1>0, <2>0, <3>1, <3>2
  <2> QED
    BY <2>1, <2>2
<1>6. Acquired'
  BY <1>1, <1>2, <1>3, <1>4, StaysAcquired
<1>7. Statuses'
  <2>1. StatusesOf(c)
    BY <1>0 DEF Statuses
  <2>2. StatusesOf(c)'
    BY <1>1, <1>2, <1>5, <2>1 DEF StatusesOf, Listed
  <2> QED
    BY <1>0, <1>1, <1>2, <1>3, <2>2, StatusesAt DEF Statuses
<1>8. HookedWork'
  <2> SUFFICES ASSUME NEW b \in Chans, NEW i \in Slots, thread[b] # -1, req[thread[b]][i] # NULL
               PROVE  req[thread[b]][i] \in Range(work'[b])
    BY <1>1, <1>2 DEF HookedWork
  <2>1. req[thread[b]][i] \in Range(work[b])
    BY DEF LayerInv, Layer, HookedWork
  <2> QED
    BY <1>3, <1>5, <2>1 DEF Elsewhere, SameLists
<1>9. Terminating'
  <2>1. TerminatingOf(c)'
    BY <1>0, <1>1, AtRest
  <2>2. \A b \in Chans : b # c => thread[b] # thread[c]
    BY <1>4, ThreadOf
  <2> QED
    BY <1>1, <1>2, <1>3, <2>1, <2>2, TerminatingAt
<1>10. ShortChains'
  BY <1>3, <1>5, ShortChainsAt
<1> QED
  BY <1>6, <1>7, <1>8, <1>9, <1>10 DEF Layer

\* Commands and their parts.
LEMMA CommandLayer ==
  ASSUME Env = {}, LayerInv, NEW c \in Chans,
         (\E cmd \in {"terminate", "pause"} : Command(c, cmd)) \/ Terminate(c) \/ TxStatus(c)
  PROVE  Layer'
<1>0. /\ CoreTypeOK /\ TypeOK /\ Statuses /\ HookedWork /\ Terminating /\ ShortChains /\ CallbackLoop
  BY DEF LayerInv, BaseInv, TypeOK, Layer, OrderlyInv, Orderly
<1>1. UNCHANGED <<listVars, thread, owner, unfit, scheduled, pc>>
  BY DEF Command, Terminate, TxStatus, Passes, chanVars, txVars, runVars
<1>2. /\ UNCHANGED <<free, ev, req, es, status, moved>> /\ Due' = Due
      /\ \A t \in Threads : t # thread[c] => hw'[t] = hw[t]
  <2>1. CASE UNCHANGED coreVars
    BY <2>1, SameCore
  <2>2. CASE Terminate(c)
    BY <2>2 DEF Terminate, TerminateStop, Stop, ToStop, threadVars, dmacVars, descVars, irqVars, Due
  <2> QED
    BY <2>1, <2>2 DEF Command, TxStatus
<1>3. thread[c] # -1 /\ thread[c] \in Threads
  <2>1. thread[c] # -1
    BY AtWork DEF Command, Terminate, TxStatus, Passes
  <2> QED
    BY <2>1, ThreadOf
<1>4. Elsewhere(c)
  BY <1>0, <1>1 DEF Elsewhere, SameLists, listVars, Command, Terminate, TxStatus, Passes, runVars, TypeOK
<1>5. Acquired'
  BY <1>1, <1>2, <1>3, <1>4, StaysAcquired
<1>6. Statuses' /\ HookedWork' /\ ShortChains'
  BY <1>0, <1>1, <1>2 DEF Statuses, StatusesOf, Listed, HookedWork, ShortChains, listVars
<1>7. Terminating'
  <2>1. TerminatingOf(c)'
    <3>0. TerminatingOf(c)
      BY <1>0 DEF Terminating
    <3>1. CASE \E cmd \in {"terminate", "pause"} : Command(c, cmd)
      <4>1. control'[c] = "terminate" /\ completed[c] = <<>>
        BY <1>0, <3>1 DEF Command, TypeOK
      <4> QED
        BY <1>1, <1>2, <4>1 DEF TerminatingOf, listVars
    <3>2. CASE Terminate(c)
      <4>1. /\ control[c] = "terminate" /\ control'[c] = "terminated" /\ Stop({thread[c]})
            /\ Quiet(thread[c])
        BY <1>0, <3>2 DEF Terminate, Passes, TerminateStop, TypeOK
      <4>2. hw'[thread[c]] = "stopped" /\ ev[thread[c]] \notin es /\ Due = {}
        BY <1>0, <1>3, <4>1 DEF Stop, ToStop, Quiet, CallbackLoop, Due
      <4> QED
        BY <1>1, <1>2, <3>0, <4>1, <4>2 DEF TerminatingOf, listVars
    <3>3. CASE TxStatus(c)
      <4>1. control[c] = "none" /\ control' = control
        BY <3>3 DEF TxStatus, Calls, runVars
      <4> QED
        BY <4>1, AtRest
    <3> QED
      BY <3>1, <3>2, <3>3
  <2>2. \A b \in Chans : b # c => thread[b] # thread[c]
    BY <1>3, ThreadOf
  <2> QED
    BY <1>1, <1>2, <1>4, <2>1, <2>2, TerminatingAt
<1> QED
  BY <1>5, <1>6, <1>7 DEF Layer

\* DMA_TERMINATE_ALL gives everything back.
LEMMA TerminateAllLayer ==
  ASSUME LayerInv, NEW c \in Chans, TerminateAll(c)
  PROVE  Layer'
<1> DEFINE t == thread[c]
           D == Range(Marked(c))
<1>0. /\ CoreTypeOK /\ TypeOK /\ Once /\ Statuses /\ control[c] = "terminated" /\ Range(<<>>) = {}
  BY OnceNow DEF LayerInv, BaseInv, TypeOK, Layer, TerminateAll, Passes
<1>1. t \in Threads /\ t # -1 /\ \A b \in Chans : b # c => thread[b] # t
  BY <1>0, AtWork, ThreadOf
<1>2. D = Range(submitted[c]) \cup Range(work[c]) \cup Range(completed[c]) /\ D \subseteq Descs
  BY <1>0, MarkedType, RangeEmpty
<1>3. /\ req' = [req EXCEPT ![t] = [i \in Slots |-> NULL]]
      /\ status' = [d \in Descs |-> IF d \in D THEN "FREE" ELSE status[d]]
      /\ moved' = moved \ D /\ UNCHANGED <<free, ev, es, hw>> /\ Due' = Due
      /\ pool' = pool \o Marked(c)
      /\ submitted' = [submitted EXCEPT ![c] = <<>>]
      /\ work' = [work EXCEPT ![c] = <<>>]
      /\ completed' = [completed EXCEPT ![c] = <<>>]
      /\ control' = [control EXCEPT ![c] = "none"]
      /\ UNCHANGED <<prepped, thread, scheduled, pc, owner, unfit>>
  BY DEF TerminateAll, TerminateDetach, Passes, dmacVars, hwVars, irqVars, Due, chanVars, txVars
<1> HIDE DEF D, t
<1>4. Elsewhere(c) /\ submitted'[c] = <<>> /\ work'[c] = <<>> /\ completed'[c] = <<>> /\ control'[c] = "none"
  BY <1>0, <1>3 DEF Elsewhere, SameLists, TypeOK
<1>5. Acquired'
  BY <1>1, <1>3, <1>4, StaysAcquired DEF t
<1>6. \A b \in Chans : b # c => \A d \in Listed(b) : d \notin D /\ d \in Descs
  <2> SUFFICES ASSUME NEW b \in Chans, b # c, NEW d \in Listed(b) PROVE d \notin D /\ d \in Descs
    OBVIOUS
  <2>1. d \in Descs
    BY <1>0, ListTypes, RangeEmpty DEF Listed
  <2>2. d \notin Listed(c)
    BY <1>0, Apart
  <2> QED
    BY <1>2, <2>1, <2>2 DEF Listed
<1>7. StatusesOf(c)'
  <2>1. StatusesOf(c) /\ OnceIn(c)
    BY <1>0 DEF Statuses, Once
  <2>2. Range(prepped[c]) \cap D = {} /\ Range(prepped[c]) \subseteq Descs
    BY <1>0, <1>2, <2>1, ListTypes, RangeEmpty DEF OnceIn
  <2> QED
    BY <1>0, <1>3, <1>4, <2>1, <2>2 DEF StatusesOf, Listed
<1>8. \A d \in Range(pool)' : status'[d] = "FREE"
  <2>1. Range(pool)' = Range(pool) \cup D
    BY <1>0, <1>3, MarkedType, ConcatOnce DEF D, TypeOK
  <2>2. Range(pool) \subseteq Descs
    BY <1>0, RangeEmpty DEF TypeOK
  <2> QED
    BY <1>0, <1>2, <1>3, <2>1, <2>2 DEF Statuses
<1>9. Statuses'
  BY <1>0, <1>3, <1>4, <1>6, <1>7, <1>8, StatusesAt DEF Statuses
<1>10. HookedWork'
  BY <1>0, <1>1, <1>3, <1>4, HookedAt DEF CoreTypeOK, t
<1>11. Terminating'
  <2>1. TerminatingOf(c)'
    BY <1>4 DEF TerminatingOf
  <2> QED
    BY <1>1, <1>3, <1>4, <2>1, TerminatingAt DEF t
<1>12. ShortChains'
  BY <1>3 DEF LayerInv, Layer, ShortChains
<1> QED
  BY <1>5, <1>9, <1>10, <1>11, <1>12 DEF Layer

LEMMA ClientLayer ==
  ASSUME Env = {}, LayerInv, NEW c \in Chans, Client(c)
  PROVE  Layer'
<1>1. CASE PrepSg(c)
  <2>1. PICK n \in 1 .. MaxSg : Prep(c, n) /\ unfit' = unfit \ Range(Chain(n))
    BY <1>1 DEF PrepSg
  <2>2. n \in Nat /\ n <= ChainBound /\ unfit' = {}
    BY <2>1, ChannelAssumption DEF ChainBound, LayerInv, Layer, Statuses
  <2> QED
    BY <2>1, <2>2, PrepLayer
<1>2. CASE PrepCyclic(c)
  <2>1. Prep(c, Periods) /\ unfit' = {} /\ Periods \in Nat /\ Periods <= ChainBound
    BY <1>2, ChannelAssumption DEF PrepCyclic, ChainBound, LayerInv, Layer, Statuses
  <2> QED
    BY <2>1, PrepLayer
<1>3. ~Pause(c) /\ ~PauseRequest(c)
  BY DEF Pause, PauseRequest, PauseStop, PauseDetach
<1> QED
  BY <1>1, <1>2, <1>3, AllocLayer, FreeLayer, QueueLayer, CommandLayer, TerminateAllLayer DEF Client

\* What every step of a tasklet has in common.
LEMMA TaskletRuns ==
  ASSUME Env = {}, LayerInv, NEW c \in Chans, NEW x \in Runners, Tasklet(c, x)
  PROVE  /\ thread[c] \in Threads /\ thread[c] # -1 /\ ~free[thread[c]]
         /\ \A b \in Chans : b # c => thread[b] # thread[c]
         /\ control[c] = "none" /\ Elsewhere(c)
         /\ UNCHANGED <<thread, free, control, ev, es, prepped, submitted, cyclic, owner, unfit, cookie>>
         /\ Due' = Due
         /\ \A t \in Threads : t # thread[c] => hw'[t] = hw[t] /\ req'[t] = req[t]
<1>0. /\ TypeOK /\ CoreTypeOK /\ Locking /\ Statuses
  BY DEF LayerInv, BaseInv, TypeOK, Layer
<1>1. \/ scheduled[c] \/ pc[c][x] # "idle"
  BY DEF Tasklet, Enter, Harvest, FillQueue, Hook, StartChan, Finish, Resume, At
<1>2. thread[c] # -1 /\ thread[c] \in Threads /\ ~free[thread[c]]
      /\ \A b \in Chans : b # c => thread[b] # thread[c]
  BY <1>1, AtWork, ThreadOf
<1>3. control[c] = "none"
  <2>1. lock[c] = "open" \/ InTasklet(c, x)
    BY DEF Tasklet, Enter, Harvest, FillQueue, Hook, StartChan, Finish, Resume, At, InTasklet
  <2>2. x = "soft" \/ x = "client"
    BY DEF Runners
  <2> QED
    BY <1>0, <2>1, <2>2 DEF Locking, InTasklet
<1>4. UNCHANGED <<thread, control, prepped, submitted, cyclic, owner, unfit, cookie>>
  BY DEF Tasklet, Enter, Harvest, FillQueue, Hook, StartChan, Finish, Resume,
         listVars, chanVars, cookieVars, txVars
<1>5. Elsewhere(c)
  <2>1. ASSUME NEW b \in Chans, b # c
        PROVE  work'[b] = work[b] /\ completed'[b] = completed[b]
    BY <1>0, <2>1 DEF Tasklet, Enter, Harvest, FillQueue, Hook, StartChan, Finish, Resume,
         listVars, TypeOK
  <2>2. ASSUME NEW b \in Chans, b # c PROVE scheduled'[b] = scheduled[b]
    BY <1>0, <2>2 DEF Tasklet, Enter, Harvest, FillQueue, Hook, StartChan, Finish, Resume, TypeOK
  <2>3. pc' = pc \/ \E l : Goto(c, x, l)
    BY DEF Tasklet, Enter, Harvest, FillQueue, Hook, StartChan, Finish, Resume
  <2>4. \A b \in Chans : b # c => pc'[b] = pc[b]
    BY <1>0, <2>3 DEF Goto, TypeOK
  <2> QED
    BY <1>4, <2>1, <2>2, <2>4 DEF Elsewhere, SameLists
<1>6. \/ UNCHANGED coreVars
      \/ \E D \in SUBSET Descs, s \in {"FREE", "PREP", "DONE"} : Mark(D, s)
      \/ \E d : SubmitReq(thread[c], d)
      \/ StartThread(thread[c])
  <2>1. CASE Hook(c, x)
    BY <1>0, <2>1 DEF Hook, Statuses
  <2>2. CASE Finish(c, x)
    <3>1. completed[c] # <<>> => {Head(completed[c])} \in SUBSET Descs
      BY <1>0, ListTypes, HeadTailProperties
    <3> QED
      BY <2>2, <3>1 DEF Finish
  <2> QED
    BY <2>1, <2>2 DEF Tasklet, Enter, Harvest, FillQueue, StartChan, Resume
<1>7. /\ UNCHANGED <<free, ev, es>> /\ Due' = Due
      /\ \A t \in Threads : t # thread[c] => hw'[t] = hw[t] /\ req'[t] = req[t]
  <2>1. CASE UNCHANGED coreVars
    BY <2>1, SameCore
  <2>2. ASSUME NEW D \in SUBSET Descs, NEW s, Mark(D, s)
        PROVE UNCHANGED <<free, ev, es, hw, req>> /\ Due' = Due
    BY <2>2 DEF Mark, threadVars, dmacVars, hwVars, irqVars, Due
  <2>3. ASSUME NEW d, SubmitReq(thread[c], d)
        PROVE /\ UNCHANGED <<free, ev, es, hw>> /\ Due' = Due
              /\ \A t \in Threads : t # thread[c] => req'[t] = req[t]
    BY <1>0, <1>2, <2>3 DEF SubmitReq, dmacVars, hwVars, irqVars, Due, CoreTypeOK
  <2>4. CASE StartThread(thread[c])
    BY <1>0, <1>2, <2>4 DEF StartThread, Start, dmacVars, irqVars, Due, CoreTypeOK
  <2> QED
    BY <1>6, <2>1, <2>2, <2>3, <2>4
<1> QED
  BY <1>2, <1>3, <1>4, <1>5, <1>7

\* The first of a list that has a status is one of the list.
LEMMA FirstIn ==
  ASSUME TypeOK, NEW c \in Chans, NEW i \in DOMAIN work[c]
  PROVE  work[c][i] \in Descs /\ work[c][i] \in Range(work[c]) /\ i \in 1 .. Len(work[c])
         /\ Len(work[c]) \in Nat
<1>1. work[c] \in Seq(Descs)
  BY ListTypes
<1> QED
  BY <1>1, LenProperties, ElementOfSeq DEF Range

\* A ripe descriptor is picked up.
LEMMA HarvestLayer ==
  ASSUME Env = {}, LayerInv, NEW c \in Chans, NEW x \in Runners, Tasklet(c, x), Harvest(c, x)
  PROVE  Statuses' /\ HookedWork'
<1>0. /\ TypeOK /\ CoreTypeOK /\ Once /\ Statuses /\ HookedWork /\ HookedBusy
      /\ Elsewhere(c) /\ thread[c] # -1 /\ thread[c] \in Threads
      /\ UNCHANGED <<thread, prepped, submitted, owner, unfit>>
  BY TaskletRuns DEF LayerInv, BaseInv, TypeOK, Layer, OrderlyInv, Orderly
<1>1. UNCHANGED <<coreVars, pool>>
  BY DEF Harvest
<1>2. UNCHANGED <<req, status, moved>>
  BY <1>1, SameCore
<1>3. CASE UNCHANGED <<work, completed>>
  BY <1>0, <1>1, <1>2, <1>3 DEF Statuses, StatusesOf, Listed, HookedWork
<1>4. ASSUME NEW i \in DOMAIN work[c], FirstWith(work[c], "DONE", i),
             work' = [work EXCEPT ![c] = RemoveAt(@, i)],
             completed' = [completed EXCEPT ![c] = Append(@, work[c][i])]
      PROVE  Statuses' /\ HookedWork'
  <2> DEFINE d == work[c][i]
  <2>1. status[d] = "DONE" /\ d \in Descs /\ d \in Range(work[c])
    BY <1>0, <1>4, FirstIn DEF FirstWith
  <2>2. work'[c] = RemoveAt(work[c], i) /\ completed'[c] = Append(completed[c], d)
    BY <1>0, <1>4 DEF TypeOK
  <2>3. Range(work'[c]) = Range(work[c]) \ {d}
    BY <1>0, <1>4, <2>2, OnceNow, RemoveOnce DEF OnceIn
  <2>4. Range(completed'[c]) = Range(completed[c]) \cup {d}
    BY <1>0, <2>1, <2>2, OnceNow, AppendOnce
  <2> HIDE DEF d
  <2>5. StatusesOf(c)'
    <3>1. StatusesOf(c)
      BY <1>0 DEF Statuses
    <3> QED
      BY <1>0, <1>2, <2>1, <2>3, <2>4, <3>1 DEF StatusesOf, Listed
  <2>6. Statuses'
    BY <1>0, <1>1, <1>2, <2>5, StatusesAt DEF Statuses
  <2>7. ASSUME NEW j \in Slots, req[thread[c]][j] # NULL
        PROVE  req[thread[c]][j] \in Range(work'[c])
    <3>1. req[thread[c]][j] # d
      BY <1>0, <2>1, <2>7 DEF HookedBusy
    <3> QED
      BY <1>0, <2>3, <2>7, <3>1 DEF HookedWork
  <2>8. \A b \in Chans : b # c => thread[b] # thread[c]
    BY <1>0, ThreadOf
  <2>9. HookedWork'
    BY <1>0, <1>2, <2>7, <2>8, HookedAt
  <2> QED
    BY <2>6, <2>9
<1> QED
  BY <1>3, <1>4 DEF Harvest

\* A request is hooked.
LEMMA HookLayer ==
  ASSUME Env = {}, LayerInv, NEW c \in Chans, NEW x \in Runners, Tasklet(c, x), Hook(c, x)
  PROVE  Statuses' /\ HookedWork'
<1>0. /\ TypeOK /\ CoreTypeOK /\ Once /\ Statuses /\ HookedWork
      /\ Elsewhere(c) /\ thread[c] # -1 /\ thread[c] \in Threads
      /\ UNCHANGED <<thread, prepped, submitted, owner, unfit>>
      /\ \A b \in Chans : b # c => thread[b] # thread[c]
      /\ \A t \in Threads : t # thread[c] => req'[t] = req[t]
  BY TaskletRuns DEF LayerInv, BaseInv, TypeOK, Layer
<1>1. UNCHANGED listVars
  BY DEF Hook
<1>2. CASE UNCHANGED coreVars
  <2>1. UNCHANGED <<req, status, moved>>
    BY <1>2, SameCore
  <2> QED
    BY <1>0, <1>1, <2>1 DEF Statuses, StatusesOf, Listed, HookedWork, listVars
<1>3. ASSUME NEW i \in DOMAIN work[c], FirstWith(work[c], "PREP", i), SubmitReq(thread[c], work[c][i])
      PROVE  Statuses' /\ HookedWork'
  <2> DEFINE d == work[c][i]
  <2>1. d \in Descs /\ d \in Range(work[c])
    BY <1>0, FirstIn
  <2>2. /\ status' = [status EXCEPT ![d] = "BUSY"] /\ moved' = moved
        /\ req' = [req EXCEPT ![thread[c]][FreeSlot(thread[c])] = d]
    BY <1>3 DEF SubmitReq
  <2> HIDE DEF d
  <2>3. status'[d] = "BUSY" /\ \A e \in Descs : e # d => status'[e] = status[e]
    BY <1>0, <2>1, <2>2 DEF CoreTypeOK
  <2>4. d \notin Range(pool) /\ \A b \in Chans : b # c => d \notin Listed(b)
    BY <1>0, <2>1, Apart DEF Listed
  <2>5. Range(pool) \subseteq Descs /\ \A b \in Chans : Listed(b) \subseteq Descs
    BY <1>0, ListTypes, RangeEmpty DEF Listed, TypeOK
  <2>6. StatusesOf(c)'
    <3>1. StatusesOf(c) /\ OnceIn(c)
      BY <1>0 DEF Statuses, Once
    <3>2. d \notin Range(prepped[c]) /\ d \notin Range(submitted[c]) /\ d \notin Range(completed[c])
      BY <2>1, <3>1 DEF OnceIn
    <3> QED
      BY <1>0, <1>1, <2>2, <2>3, <2>5, <3>1, <3>2 DEF StatusesOf, Listed, listVars
  <2>7. Statuses'
    <3>1. unfit' = {} /\ \A e \in Range(pool)' : status'[e] = "FREE"
      BY <1>0, <1>1, <2>3, <2>4, <2>5 DEF Statuses, listVars
    <3> QED
      BY <1>0, <2>2, <2>3, <2>4, <2>5, <2>6, <3>1, StatusesAt
  <2>8. ASSUME NEW j \in Slots, req'[thread[c]][j] # NULL
        PROVE  req'[thread[c]][j] \in Range(work'[c])
    <3>1. req'[thread[c]][j] = d \/ req'[thread[c]][j] = req[thread[c]][j]
      BY <1>0, <2>2 DEF CoreTypeOK, FreeSlot, Slots
    <3> QED
      BY <1>0, <1>1, <2>1, <2>8, <3>1 DEF HookedWork, listVars
  <2>9. HookedWork'
    BY <1>0, <2>8, HookedAt
  <2> QED
    BY <2>7, <2>9
<1> QED
  BY <1>0, <1>2, <1>3 DEF Hook, Statuses

\* A completed descriptor is recycled.
LEMMA FinishLayer ==
  ASSUME Env = {}, LayerInv, NEW c \in Chans, NEW x \in Runners, Tasklet(c, x), Finish(c, x)
  PROVE  Statuses' /\ HookedWork'
<1>0. /\ TypeOK /\ CoreTypeOK /\ Once /\ Statuses /\ HookedWork
      /\ Elsewhere(c) /\ thread[c] # -1
      /\ UNCHANGED <<thread, prepped, submitted, owner, unfit>>
      /\ \A b \in Chans : b # c => thread[b] # thread[c]
      /\ \A t \in Threads : t # thread[c] => req'[t] = req[t]
  BY TaskletRuns DEF LayerInv, BaseInv, TypeOK, Layer
<1>1. CASE completed[c] = <<>>
  <2>1. UNCHANGED <<req, status, moved, pool, work, completed>>
    BY <1>1, SameCore DEF Finish
  <2> QED
    BY <1>0, <2>1 DEF Statuses, StatusesOf, Listed, HookedWork
<1>2. CASE completed[c] # <<>>
  <2> DEFINE d == Head(completed[c])
  <2>1. d \in Descs /\ d \in Range(completed[c]) /\ Range(Tail(completed[c])) = Range(completed[c]) \ {d}
    BY <1>0, <1>2, OnceNow, TailOnce DEF OnceIn
  <2>2. /\ completed'[c] = Tail(completed[c])
        /\ IF cyclic[c] THEN Mark({d}, "PREP") /\ work' = [work EXCEPT ![c] = Append(@, d)] /\ pool' = pool
                        ELSE Mark({d}, "FREE") /\ pool' = Append(pool, d) /\ work' = work
    BY <1>0, <1>2 DEF Finish, TypeOK
  <2> HIDE DEF d
  <2>3. /\ req' = req /\ moved' = moved \ {d}
        /\ status' = [e \in Descs |-> IF e \in {d} THEN IF cyclic[c] THEN "PREP" ELSE "FREE"
                                      ELSE status[e]]
    BY <2>2 DEF Mark, threadVars
  <2>4. status'[d] = (IF cyclic[c] THEN "PREP" ELSE "FREE")
        /\ \A e \in Descs : e # d => status'[e] = status[e]
    BY <2>1, <2>3
  <2>5. d \notin Range(pool) /\ \A b \in Chans : b # c => d \notin Listed(b)
    BY <1>0, <2>1, Apart DEF Listed
  <2>6. Range(pool) \subseteq Descs /\ \A b \in Chans : Listed(b) \subseteq Descs
    BY <1>0, ListTypes, RangeEmpty DEF Listed, TypeOK
  <2>7. /\ Range(work'[c]) = IF cyclic[c] THEN Range(work[c]) \cup {d} ELSE Range(work[c])
        /\ Range(pool)' = IF cyclic[c] THEN Range(pool) ELSE Range(pool) \cup {d}
    <3>1. work[c] \in Seq(Descs) /\ pool \in Seq(Descs) /\ work \in [Chans -> Seq(Descs)]
      BY <1>0 DEF TypeOK
    <3>2. /\ Range(Append(work[c], d)) = Range(work[c]) \cup {d}
          /\ Range(Append(pool, d)) = Range(pool) \cup {d}
      BY <2>1, <3>1, AppendOnce
    <3>3. CASE cyclic[c]
      BY <2>2, <3>1, <3>2, <3>3
    <3>4. CASE ~cyclic[c]
      BY <2>2, <3>1, <3>2, <3>4
    <3> QED
      BY <3>3, <3>4
  <2>8. StatusesOf(c)'
    <3>1. StatusesOf(c) /\ OnceIn(c)
      BY <1>0 DEF Statuses, Once
    <3>2. d \notin Range(prepped[c]) /\ d \notin Range(submitted[c]) /\ d \notin Range(work[c])
      BY <2>1, <3>1 DEF OnceIn
    <3>3. /\ Range(prepped[c]) \subseteq Descs /\ Range(submitted[c]) \subseteq Descs
          /\ Range(work[c]) \subseteq Descs /\ Range(completed[c]) \subseteq Descs
      BY <2>6 DEF Listed
    <3>4. \A e \in Range(prepped[c]) \cup Range(submitted[c]) : status'[e] = "PREP"
      BY <2>4, <3>1, <3>2, <3>3 DEF StatusesOf
    <3>5. \A e \in Range(work'[c]) : status'[e] # "FREE" /\ (status'[e] = "DONE" => e \in moved')
      BY <2>3, <2>4, <2>7, <3>1, <3>2, <3>3 DEF StatusesOf
    <3>6. \A e \in Range(completed'[c]) : status'[e] = "DONE" /\ e \in moved'
      BY <2>1, <2>2, <2>3, <2>4, <3>1, <3>3 DEF StatusesOf
    <3>7. \A e \in Listed(c)' : owner'[e] = c
      BY <1>0, <2>1, <2>2, <2>7, <3>1 DEF StatusesOf, Listed
    <3> QED
      BY <1>0, <3>4, <3>5, <3>6, <3>7 DEF StatusesOf
  <2>9. Statuses'
    <3>1. unfit' = {} /\ \A e \in Range(pool)' : status'[e] = "FREE"
      BY <1>0, <2>4, <2>5, <2>6, <2>7 DEF Statuses
    <3> QED
      BY <1>0, <2>3, <2>4, <2>5, <2>6, <2>8, <3>1, StatusesAt
  <2>10. HookedWork'
    <3>1. \A i \in Slots : req[thread[c]][i] # NULL => req[thread[c]][i] \in Range(work'[c])
      BY <1>0, <2>7 DEF HookedWork
    <3> QED
      BY <1>0, <2>3, <3>1, HookedAt
  <2> QED
    BY <2>9, <2>10
<1> QED
  BY <1>1, <1>2

LEMMA TaskletLayer ==
  ASSUME Env = {}, LayerInv, NEW c \in Chans, NEW x \in Runners, Tasklet(c, x)
  PROVE  Layer'
<1>0. /\ thread[c] # -1 /\ control[c] = "none" /\ Elsewhere(c)
      /\ UNCHANGED <<thread, free, control, ev, es, prepped, submitted, owner, unfit>> /\ Due' = Due
      /\ \A b \in Chans : b # c => thread[b] # thread[c]
      /\ \A t \in Threads : t # thread[c] => hw'[t] = hw[t] /\ req'[t] = req[t]
  BY TaskletRuns
<1>1. Acquired'
  BY <1>0, StaysAcquired
<1>2. Statuses' /\ HookedWork'
  <2>1. CASE Enter(c, x) \/ FillQueue(c, x) \/ Resume(c, x)
    <3>1. UNCHANGED <<listVars, req, status, moved>>
      BY <2>1, SameCore DEF Enter, FillQueue, Resume
    <3> QED
      BY <1>0, <3>1 DEF LayerInv, Layer, Statuses, StatusesOf, Listed, HookedWork, listVars
  <2>2. CASE StartChan(c, x)
    <3>1. UNCHANGED <<listVars, req, status, moved>>
      BY <1>0, <2>2 DEF StartChan, StartThread, descVars
    <3> QED
      BY <1>0, <3>1 DEF LayerInv, Layer, Statuses, StatusesOf, Listed, HookedWork, listVars
  <2> QED
    BY <2>1, <2>2, HarvestLayer, HookLayer, FinishLayer DEF Tasklet
<1>3. Terminating'
  <2>1. TerminatingOf(c)'
    BY <1>0, AtRest
  <2> QED
    BY <1>0, <2>1, TerminatingAt
<1>4. ShortChains'
  BY <1>0 DEF LayerInv, Layer, ShortChains
<1> QED
  BY <1>1, <1>2, <1>3, <1>4 DEF Layer

LEMMA LayerInit == Init => LayerInv
<1> SUFFICES ASSUME Init PROVE LayerInv
  OBVIOUS
<1>1. OrderlyInv /\ BaseInv
  BY OrderlyInit, BaseInit DEF Init
<1>2. /\ \A c \in Chans : /\ prepped[c] = <<>> /\ submitted[c] = <<>> /\ work[c] = <<>>
                          /\ completed[c] = <<>> /\ thread[c] = -1 /\ control[c] = "none"
      /\ Range(<<>>) = {} /\ Range(pool) = Descs /\ Len(<<>>) = 0
  BY FullPool, RangeEmpty, <<>> \in Seq(Descs) DEF Init
<1>3. \A c \in Chans : Listed(c) = {}
  BY <1>2 DEF Listed
<1>4. Acquired
  BY <1>3 DEF Init, CoreInit, Acquired
<1>5. Statuses
  BY <1>2, <1>3 DEF Init, CoreInit, Statuses, StatusesOf
<1>6. HookedWork /\ Terminating
  BY <1>2 DEF HookedWork, Terminating, TerminatingOf
<1>7. ShortChains
  BY <1>2, ChannelAssumption DEF ShortChains, ChainBound
<1> QED
  BY <1>1, <1>4, <1>5, <1>6, <1>7 DEF LayerInv, Layer

LEMMA LayerStep ==
  ASSUME Env = {}
  PROVE  LayerInv /\ [Next]_vars => LayerInv'
<1> SUFFICES ASSUME LayerInv, [Next]_vars PROVE LayerInv'
  OBVIOUS
<1>1. OrderlyInv'
  BY KeepsRules, OrderlyStep DEF LayerInv
<1>2. BaseInv'
  BY BaseStep DEF LayerInv
<1>3. Layer'
  <2>1. CASE UNCHANGED vars
    <3>1. UNCHANGED <<free, ev, req, es, hw, status, moved>> /\ Due' = Due
      BY <2>1, SameCore DEF vars
    <3>2. UNCHANGED <<listVars, thread, control, scheduled, pc, owner, unfit>>
      BY <2>1 DEF vars, layerVars, chanVars, runVars, txVars
    <3> QED
      BY <3>1, <3>2 DEF LayerInv, Layer, Acquired, Statuses, StatusesOf, HookedWork, Terminating,
         TerminatingOf, ShortChains, Listed, listVars
  <2> QED
    BY <2>1, ClientLayer, TaskletLayer, CoreLayer DEF Next
<1> QED
  BY <1>1, <1>2, <1>3 DEF LayerInv

LEMMA LayerAlways == ASSUME Env = {} PROVE Spec => []LayerInv
<1>1. LayerInv /\ [Next]_vars => LayerInv'
  BY LayerStep
<1> QED
  BY LayerInit, <1>1, PTL DEF Spec

-----------------------------------------------------------------------------
\* The layer implements the environment the core was proved in: in an orderly
\* environment its clients and tasklets keep the rules of Caller and Recycle,
\* however they interleave.
THEOREM ImplementsCore == ASSUME Env = {} PROVE Spec => CoreSpec
<1>1. Init => CoreInit
  BY DEF Init
<1>2. LayerInv /\ [Next]_vars => [CoreNext]_coreVars
  BY KeepsRules
<1> QED
  BY <1>1, <1>2, LayerAlways, PTL DEF Spec, CoreSpec

\* No client is told of the end of a transfer whose data was not moved.
THEOREM DoneMeansTransferredAlways == ASSUME Env = {} PROVE Spec => []DoneMeansTransferred
<1>1. LayerInv => DoneMeansTransferred
  BY DEF LayerInv, Layer, Statuses, StatusesOf, DoneMeansTransferred
<1> QED
  BY <1>1, LayerAlways, PTL

-----------------------------------------------------------------------------
(* An orderly environment: the order of a channel's transfers               *)

\* The indices of work_list, and what it holds.
LEMMA WorkList ==
  ASSUME LayerInv, NEW c \in Chans
  PROVE  /\ work[c] \in Seq(Descs) /\ DOMAIN work[c] = 1 .. Len(work[c]) /\ Len(work[c]) \in Nat
         /\ IsInjective(work[c]) /\ NULL \notin Descs
         /\ \A i \in DOMAIN work[c] : work[c][i] \in Descs /\ work[c][i] \in Range(work[c])
         /\ thread[c] = -1 => DOMAIN work[c] = {}
<1>1. work[c] \in Seq(Descs) /\ IsInjective(work[c])
  BY OnceNow DEF LayerInv, BaseInv, OnceIn
<1>2. DOMAIN work[c] = 1 .. Len(work[c]) /\ Len(work[c]) \in Nat
      /\ \A i \in DOMAIN work[c] : work[c][i] \in Descs /\ work[c][i] \in Range(work[c])
  BY <1>1, LenProperties, ElementOfSeq DEF Range
<1>3. thread[c] = -1 => DOMAIN work[c] = {}
  BY <1>2, AtWork DEF Listed
<1> QED
  BY <1>1, <1>2, <1>3, CoreAssumption

\* Requests that are hooked or due are BUSY.
LEMMA BusyOnes ==
  ASSUME LayerInv
  PROVE  /\ \A d \in Due : status[d] = "BUSY"
         /\ \A c \in Chans, i \in Slots : thread[c] # -1 /\ req[thread[c]][i] # NULL
              => status[req[thread[c]][i]] = "BUSY" /\ req[thread[c]][i] \in Range(work[c])
<1>1. \A d \in Due : status[d] = "BUSY"
  BY DueIn
<1>2. ASSUME NEW c \in Chans, NEW i \in Slots, thread[c] # -1, req[thread[c]][i] # NULL
      PROVE  status[req[thread[c]][i]] = "BUSY" /\ req[thread[c]][i] \in Range(work[c])
  BY <1>2, ThreadOf, HookedIn DEF LayerInv, Layer, HookedWork
<1> QED
  BY <1>1, <1>2

\* work_list after a step that takes its first k descriptors off, or adds some that
\* have yet to be hooked to its end.
Follows(c, k) ==
  \A i \in DOMAIN work'[c] :
    \/ i + k \in DOMAIN work[c] /\ work'[c][i] = work[c][i + k]
    \/ i + k \notin DOMAIN work[c] /\ status'[work'[c][i]] = "PREP"

\* What such a step asks of the thread of the channel.
Settles(c) ==
  thread[c] # -1 =>
    /\ \A i \in Slots : req'[thread[c]][i] \in {req[thread[c]][i], NULL}
    /\ QueueFull(thread[c])' =>
         /\ lstenq'[thread[c]] = lstenq[thread[c]]
         /\ Engaged(thread[c])' => /\ Engaged(thread[c])
                                   /\ running'[thread[c]] = running[thread[c]]

\* BUSY descriptors are where they were.
LEMMA BusyFollows ==
  ASSUME LayerInv, NEW c \in Chans, NEW k \in Nat, work'[c] \in Seq(Descs), Follows(c, k),
         \A d \in Range(work'[c]) : status[d] = "BUSY" => status'[d] = "BUSY",
         NEW i \in DOMAIN work'[c], status[work'[c][i]] = "BUSY"
  PROVE  i + k \in DOMAIN work[c] /\ work'[c][i] = work[c][i + k]
<1>1. work'[c][i] \in Range(work'[c])
  BY DEF Range
<1> QED
  BY <1>1 DEF Follows

\* The channel keeps its order,
LEMMA SortedFollows ==
  ASSUME LayerInv, NEW c \in Chans, NEW k \in Nat, work'[c] \in Seq(Descs), Follows(c, k),
         \A d \in Range(work[c]) \cap Range(work'[c]) : status'[d] = status[d], Sorted(c)
  PROVE  Sorted(c)'
<1> SUFFICES ASSUME NEW i \in DOMAIN work'[c], NEW j \in DOMAIN work'[c], i < j,
                    status'[work'[c][j]] # "PREP"
             PROVE  /\ status'[work'[c][j]] = "DONE" => status'[work'[c][i]] = "DONE"
                    /\ status'[work'[c][j]] = "BUSY" => status'[work'[c][i]] # "PREP"
  BY DEF Sorted
<1>1. /\ DOMAIN work[c] = 1 .. Len(work[c]) /\ Len(work[c]) \in Nat
      /\ i \in Nat \ {0} /\ j \in Nat
  BY WorkList, LenProperties
<1>2. j + k \in DOMAIN work[c] /\ work'[c][j] = work[c][j + k]
  BY DEF Follows
<1>3. i + k \in DOMAIN work[c] /\ i + k < j + k
  BY <1>1, <1>2
<1>4. work'[c][i] = work[c][i + k]
  BY <1>3 DEF Follows
<1>5. \A l \in {i, j} : status'[work'[c][l]] = status[work[c][l + k]]
  BY <1>2, <1>3, <1>4 DEF Range
<1> QED
  BY <1>2, <1>3, <1>5 DEF Sorted

\* ... the turns of its thread,
LEMMA TurnFollows ==
  ASSUME LayerInv, NEW c \in Chans, NEW k \in Nat, work'[c] \in Seq(Descs), Follows(c, k),
         \A d \in Range(work'[c]) : status[d] = "BUSY" => status'[d] = "BUSY",
         thread'[c] = thread[c], Settles(c), InTurn(c)
  PROVE  InTurn(c)'
<1> DEFINE t == thread[c]
<1> SUFFICES ASSUME t # -1, QueueFull(t)'
             PROVE  /\ \A i, j \in DOMAIN work'[c] :
                         work'[c][i] = req'[t][1 - lstenq'[t]] /\ work'[c][j] = req'[t][lstenq'[t]] => i < j
                    /\ Engaged(t)' => running'[t] = 1 - lstenq'[t]
  BY DEF InTurn
<1>1. t \in Threads /\ lstenq[t] \in Slots /\ 1 - lstenq[t] \in Slots
  <2>1. t \in Threads /\ lstenq \in [Threads -> Slots]
    BY ThreadOf DEF LayerInv, BaseInv, TypeOK, CoreTypeOK
  <2> QED
    BY <2>1 DEF Slots
<1>2. \A i \in Slots : req'[t][i] = req[t][i] /\ req[t][i] # NULL
  BY DEF QueueFull, Slots, Settles
<1>3. QueueFull(t) /\ lstenq'[t] = lstenq[t]
  BY <1>2 DEF QueueFull, Slots, Settles
<1>4. \A i \in Slots : status[req[t][i]] = "BUSY"
  BY <1>2, BusyOnes
<1>5. ASSUME NEW i \in DOMAIN work'[c], NEW j \in DOMAIN work'[c],
             work'[c][i] = req[t][1 - lstenq[t]], work'[c][j] = req[t][lstenq[t]]
      PROVE  i < j
  <2>1. /\ i + k \in DOMAIN work[c] /\ work'[c][i] = work[c][i + k]
        /\ j + k \in DOMAIN work[c] /\ work'[c][j] = work[c][j + k]
    BY <1>1, <1>4, <1>5, BusyFollows
  <2>2. i + k < j + k
    BY <1>3, <1>5, <2>1 DEF InTurn
  <2>3. i \in Nat /\ j \in Nat
    BY LenProperties
  <2> QED
    BY <2>2, <2>3
<1>6. Engaged(t)' => running'[t] = 1 - lstenq[t]
  BY <1>3 DEF InTurn, Settles
<1> QED
  BY <1>1, <1>2, <1>3, <1>5, <1>6

\* ... and what is due before what is hooked.
LEMMA DueFollows ==
  ASSUME LayerInv, NEW c \in Chans, NEW k \in Nat, work'[c] \in Seq(Descs), Follows(c, k),
         \A d \in Range(work'[c]) : status[d] = "BUSY" => status'[d] = "BUSY",
         thread'[c] = thread[c], Settles(c),
         Due' \subseteq Due, \A d \in Due : owner'[d] = owner[d], DueFirst(c)
  PROVE  DueFirst(c)'
<1>1. ASSUME NEW i \in DOMAIN work'[c], NEW j \in DOMAIN work'[c], work'[c][i] \in Due',
             NEW s \in Slots, req'[thread[c]][s] = work'[c][j]
      PROVE  i < j
  <2>0. work'[c][i] \in Due
    BY <1>1
  <2>1. i + k \in DOMAIN work[c] /\ work'[c][i] = work[c][i + k]
    BY <2>0, BusyOnes, BusyFollows
  <2>2. thread[c] # -1 /\ work'[c][j] # NULL
    <3>1. work'[c][j] \in Descs
      BY ElementOfSeq, LenProperties
    <3> QED
      BY <2>1, <3>1, WorkList
  <2>3. req[thread[c]][s] = work'[c][j]
    BY <1>1, <2>2 DEF Settles
  <2>4. j + k \in DOMAIN work[c] /\ work'[c][j] = work[c][j + k]
    <3>1. status[work'[c][j]] = "BUSY"
      BY <2>2, <2>3, BusyOnes
    <3> QED
      BY <3>1, BusyFollows
  <2>5. i + k < j + k
    BY <2>0, <2>1, <2>3, <2>4 DEF DueFirst
  <2>6. i \in Nat /\ j \in Nat
    BY LenProperties
  <2> QED
    BY <2>5, <2>6
<1>2. \A d, e \in Due' : owner'[d] = c /\ owner'[e] = c => d = e
  BY DEF DueFirst
<1> QED
  BY <1>1, <1>2 DEF DueFirst

LEMMA OrderFollows ==
  ASSUME LayerInv, NEW c \in Chans, NEW k \in Nat, work'[c] \in Seq(Descs), Follows(c, k),
         \A d \in Range(work[c]) \cap Range(work'[c]) : status'[d] = status[d],
         \A d \in Range(work'[c]) : status[d] = "BUSY" => status'[d] = "BUSY",
         thread'[c] = thread[c], Settles(c),
         Due' \subseteq Due, \A d \in Due : owner'[d] = owner[d], InOrder(c)
  PROVE  InOrder(c)'
<1>1. Sorted(c)'
  BY SortedFollows DEF InOrder
<1>2. InTurn(c)'
  BY TurnFollows DEF InOrder
<1>3. DueFirst(c)'
  BY DueFollows DEF InOrder
<1> QED
  BY <1>1, <1>2, <1>3 DEF InOrder

\* A list that stays as it is,
LEMMA SameFollows ==
  ASSUME LayerInv, NEW c \in Chans, work'[c] = work[c]
  PROVE  work'[c] \in Seq(Descs) /\ Follows(c, 0)
<1>1. work[c] \in Seq(Descs) /\ \A i \in DOMAIN work[c] : i + 0 = i
  BY WorkList
<1> QED
  BY <1>1 DEF Follows

\* ... to which l is added,
LEMMA ConcatFollows ==
  ASSUME LayerInv, NEW c \in Chans, NEW l \in Seq(Descs), work'[c] = work[c] \o l,
         \A d \in Range(l) : status'[d] = "PREP"
  PROVE  work'[c] \in Seq(Descs) /\ Follows(c, 0)
<1>1. /\ work[c] \in Seq(Descs) /\ DOMAIN work[c] = 1 .. Len(work[c]) /\ Len(work[c]) \in Nat
  BY WorkList
<1>2. /\ work'[c] \in Seq(Descs)
      /\ DOMAIN l = 1 .. Len(l) /\ Len(l) \in Nat
      /\ DOMAIN work'[c] = 1 .. Len(work[c]) + Len(l)
      /\ \A i \in 1 .. Len(work[c]) + Len(l) :
           work'[c][i] = IF i <= Len(work[c]) THEN work[c][i] ELSE l[i - Len(work[c])]
  BY <1>1, ConcatProperties, LenProperties
<1>3. ASSUME NEW i \in DOMAIN work'[c]
      PROVE  \/ i + 0 \in DOMAIN work[c] /\ work'[c][i] = work[c][i + 0]
             \/ i + 0 \notin DOMAIN work[c] /\ status'[work'[c][i]] = "PREP"
  <2>0. i + 0 = i
    BY <1>2
  <2>1. CASE i <= Len(work[c])
    BY <1>1, <1>2, <2>0, <2>1
  <2>2. CASE i > Len(work[c])
    <3>1. i - Len(work[c]) \in DOMAIN l /\ work'[c][i] = l[i - Len(work[c])]
      BY <1>1, <1>2, <2>2
    <3>2. work'[c][i] \in Range(l) /\ i \notin DOMAIN work[c]
      BY <1>1, <2>2, <3>1 DEF Range
    <3> QED
      BY <2>0, <3>2
  <2> QED
    BY <1>1, <1>2, <2>1, <2>2
<1> QED
  BY <1>2, <1>3 DEF Follows

\* ... and whose first is picked up.
LEMMA TailFollows ==
  ASSUME LayerInv, NEW c \in Chans, work[c] # <<>>, work'[c] = Tail(work[c])
  PROVE  work'[c] \in Seq(Descs) /\ Follows(c, 1)
<1>1. work[c] \in Seq(Descs)
  BY WorkList
<1> QED
  BY <1>1, TailAt DEF Follows

-----------------------------------------------------------------------------
(* An orderly environment: what a channel does leaves the others alone      *)

\* Nothing happens to channel c, to its descriptors and to its thread.
ThreadKept(t) ==
  /\ free'[t] = free[t] /\ ev'[t] = ev[t] /\ req'[t] = req[t]
  /\ lstenq'[t] = lstenq[t] /\ running'[t] = running[t] /\ hw'[t] = hw[t]
DescKept(d) ==
  /\ status'[d] = status[d] /\ owner'[d] = owner[d] /\ dcookie'[d] = dcookie[d]
  /\ d \in moved' <=> d \in moved
Kept(c) ==
  /\ SameLists(c) /\ thread'[c] = thread[c] /\ cyclic'[c] = cyclic[c]
  /\ cookie'[c] = cookie[c] /\ completedCookie'[c] = completedCookie[c]
  /\ \A d \in Listed(c) : DescKept(d)
  /\ thread[c] # -1 => ThreadKept(thread[c])

\* What clients and tasklets ask of the core.
LEMMA CoreCalls ==
  ASSUME Env = {}, LayerInv, NEW c \in Chans, Client(c) \/ \E x \in Runners : Tasklet(c, x)
  PROVE  \/ UNCHANGED coreVars
         \/ \E D, s : Mark(D, s)
         \/ \E t \in Threads, e \in Events : RequestChannel(t, e)
         \/ /\ thread[c] \in Threads
            /\ \/ ReleaseChannel(thread[c]) \/ TerminateStop(thread[c]) \/ StartThread(thread[c])
               \/ \E D : TerminateDetach(thread[c], D)
               \/ \E d : SubmitReq(thread[c], d)
<1>1. thread[c] # -1 => thread[c] \in Threads
  BY ThreadOf
<1>2. CASE Client(c)
  <2>1. CASE PrepSg(c) \/ PrepCyclic(c)
    <3>1. \E n : Prep(c, n)
      BY <2>1 DEF PrepSg, PrepCyclic
    <3> QED
      BY <3>1 DEF Prep
  <2>2. control[c] # "none" => thread[c] # -1
    BY AtWork
  <2>3. CASE Terminate(c) \/ TerminateAll(c)
    BY <1>1, <2>2, <2>3 DEF Terminate, TerminateAll, Passes
  <2>4. ~Pause(c) /\ ~PauseRequest(c)
    BY DEF Pause, PauseRequest, PauseStop, PauseDetach
  <2> QED
    BY <1>1, <1>2, <2>1, <2>3, <2>4 DEF Client, AllocChan, FreeChan, TxSubmit, IssuePending,
       Command, TxStatus
<1>3. ASSUME NEW x \in Runners, Tasklet(c, x)
      PROVE  \/ UNCHANGED coreVars \/ \E D, s : Mark(D, s)
             \/ thread[c] \in Threads /\ (StartThread(thread[c]) \/ \E d : SubmitReq(thread[c], d))
  <2>1. thread[c] \in Threads
    BY <1>3, TaskletRuns
  <2> QED
    BY <1>3, <2>1 DEF Tasklet, Enter, Harvest, FillQueue, Hook, StartChan, Finish, Resume
<1> QED
  BY <1>2, <1>3

LEMMA OtherThreads ==
  ASSUME Env = {}, LayerInv, NEW c \in Chans, Client(c) \/ \E x \in Runners : Tasklet(c, x)
  PROVE  /\ es' = es /\ Due' = Due
         /\ \A b \in Chans : b # c /\ thread[b] # -1 => ThreadKept(thread[b])
<1>0. CoreTypeOK
  BY DEF LayerInv, BaseInv, TypeOK
<1>1. \A b \in Chans : thread[b] # -1 =>
        thread[b] \in Threads /\ ~free[thread[b]] /\ (b # c => thread[b] # thread[c])
  BY ThreadOf
<1>2. CASE UNCHANGED coreVars
  BY <1>2, SameCore DEF ThreadKept
<1>3. ASSUME NEW D, NEW s, Mark(D, s)
      PROVE  /\ es' = es /\ Due' = Due /\ \A t \in Threads : ThreadKept(t)
  BY <1>3 DEF Mark, threadVars, dmacVars, hwVars, irqVars, Due, ThreadKept
<1>4. ASSUME NEW t \in Threads, NEW e \in Events, RequestChannel(t, e)
      PROVE  /\ es' = es /\ Due' = Due /\ \A u \in Threads : ~free[u] => ThreadKept(u)
  BY <1>0, <1>4 DEF RequestChannel, hwVars, irqVars, Due, ThreadKept, CoreTypeOK
<1>5. ASSUME NEW t \in Threads,
             \/ ReleaseChannel(t) \/ TerminateStop(t) \/ StartThread(t)
             \/ (\E D : TerminateDetach(t, D)) \/ \E d : SubmitReq(t, d)
      PROVE  /\ es' = es /\ Due' = Due /\ \A u \in Threads : u # t => ThreadKept(u)
  <2>1. CASE ReleaseChannel(t)
    BY <1>0, <2>1 DEF ReleaseChannel, Stop, ToStop, EventFreed, irqVars, Due, ThreadKept, CoreTypeOK
  <2>2. CASE TerminateStop(t)
    BY <1>0, <2>2 DEF TerminateStop, Stop, ToStop, threadVars, dmacVars, irqVars, Due, ThreadKept
  <2>3. CASE StartThread(t)
    BY <1>0, <2>3 DEF StartThread, Start, dmacVars, irqVars, Due, ThreadKept, CoreTypeOK
  <2>4. CASE \E D : TerminateDetach(t, D)
    BY <1>0, <2>4 DEF TerminateDetach, dmacVars, hwVars, irqVars, Due, ThreadKept, CoreTypeOK
  <2>5. CASE \E d : SubmitReq(t, d)
    BY <1>0, <2>5 DEF SubmitReq, dmacVars, hwVars, irqVars, Due, ThreadKept, CoreTypeOK
  <2> QED
    BY <1>5, <2>1, <2>2, <2>3, <2>4, <2>5
<1> QED
  BY <1>1, <1>2, <1>3, <1>4, <1>5, CoreCalls

\* The lists, and the numbers, of the other channels.
LEMMA OtherLists ==
  ASSUME Env = {}, LayerInv, NEW c \in Chans, Client(c) \/ \E x \in Runners : Tasklet(c, x),
         NEW b \in Chans, b # c
  PROVE  /\ SameLists(b) /\ thread'[b] = thread[b] /\ cyclic'[b] = cyclic[b]
         /\ cookie'[b] = cookie[b] /\ completedCookie'[b] = completedCookie[b]
<1>0. TypeOK
  BY DEF LayerInv, BaseInv
<1>1. CASE Client(c)
  <2>1. ~Pause(c) /\ ~PauseRequest(c)
    BY DEF Pause, PauseRequest, PauseStop, PauseDetach
  <2>2. CASE AllocChan(c) \/ FreeChan(c) \/ TxSubmit(c) \/ IssuePending(c)
    BY <1>0, <2>2 DEF AllocChan, FreeChan, TxSubmit, IssuePending, listVars, chanVars, cookieVars,
       SameLists, TypeOK
  <2>3. CASE PrepSg(c) \/ PrepCyclic(c)
    BY <1>0, <2>3 DEF PrepSg, PrepCyclic, Prep, SameLists, TypeOK
  <2>4. CASE (\E cmd \in {"terminate", "pause"} : Command(c, cmd)) \/ Terminate(c) \/ TxStatus(c)
    BY <1>0, <2>4 DEF Command, Terminate, TxStatus, listVars, chanVars, cookieVars, SameLists
  <2>5. CASE TerminateAll(c)
    <3>1. completedCookie'[b] = completedCookie[b]
      BY <1>0, <2>5 DEF TerminateAll, TypeOK
    <3>2. SameLists(b) /\ thread'[b] = thread[b] /\ cyclic'[b] = cyclic[b] /\ cookie'[b] = cookie[b]
      BY <1>0, <2>5 DEF TerminateAll, chanVars, SameLists, TypeOK
    <3> QED
      BY <3>1, <3>2
  <2> QED
    BY <1>1, <2>1, <2>2, <2>3, <2>4, <2>5 DEF Client
<1>2. ASSUME NEW x \in Runners, Tasklet(c, x)
      PROVE  /\ SameLists(b) /\ thread'[b] = thread[b] /\ cyclic'[b] = cyclic[b]
             /\ cookie'[b] = cookie[b] /\ completedCookie'[b] = completedCookie[b]
  <2>1. Elsewhere(c) /\ UNCHANGED <<cyclic, cookie>>
    BY <1>2, TaskletRuns
  <2>2. completedCookie'[b] = completedCookie[b]
    BY <1>0, <1>2 DEF Tasklet, Enter, Harvest, FillQueue, Hook, StartChan, Finish, Resume,
       cookieVars, TypeOK
  <2> QED
    BY <2>1, <2>2 DEF Elsewhere
<1> QED
  BY <1>1, <1>2

\* Clients and tasklets change descriptors of the pool and of their channel.
LEMMA OtherDescs ==
  ASSUME Env = {}, LayerInv, NEW c \in Chans, Client(c) \/ \E x \in Runners : Tasklet(c, x),
         NEW d \in Descs, d \notin Range(pool), d \notin Listed(c)
  PROVE  DescKept(d)
<1>0. TypeOK /\ CoreTypeOK
  BY DEF LayerInv, BaseInv, TypeOK
<1>1. CASE UNCHANGED <<coreVars, cookieVars, txVars>>
  BY <1>1, SameCore DEF cookieVars, txVars, DescKept
<1>2. CASE \E n \in Nat : Prep(c, n)
  <2>1. PICK n \in Nat : Prep(c, n)
    BY <1>2
  <2>2. d \notin Range(Chain(n))
    BY <1>0, <2>1, ChainType DEF Prep
  <2> QED
    BY <2>1, <2>2 DEF Prep, Mark, DescKept
<1>3. CASE TerminateAll(c)
  <2>1. d \notin Range(Marked(c))
    BY <1>0, MarkedType DEF Listed
  <2> QED
    BY <1>3, <2>1 DEF TerminateAll, TerminateDetach, txVars, DescKept
<1>4. CASE TxSubmit(c)
  <2>1. ~ \E i \in DOMAIN prepped[c] : prepped[c][i] = d
    BY DEF Listed, Range
  <2>2. UNCHANGED <<status, moved, owner>>
    BY <1>4, SameCore DEF TxSubmit, txVars
  <2> QED
    BY <1>4, <2>1, <2>2 DEF TxSubmit, DescKept
<1>5. CASE AllocChan(c) \/ FreeChan(c) \/ Terminate(c)
  BY <1>5 DEF AllocChan, FreeChan, Terminate, RequestChannel, ReleaseChannel, TerminateStop,
     descVars, cookieVars, txVars, DescKept
<1>6. ASSUME NEW x \in Runners, Harvest(c, x) PROVE DescKept(d)
  <2>1. \A i \in DOMAIN work[c] : work[c][i] # d
    BY DEF Listed, Range
  <2>2. UNCHANGED <<status, moved, owner>>
    BY <1>6, SameCore DEF Harvest, txVars
  <2>3. dcookie'[d] = dcookie[d]
    BY <1>0, <1>6, <2>1 DEF Harvest, TypeOK
  <2> QED
    BY <2>2, <2>3 DEF DescKept
<1>7. ASSUME NEW x \in Runners, Hook(c, x) PROVE DescKept(d)
  <2>1. \A i \in DOMAIN work[c] : work[c][i] # d
    BY DEF Listed, Range
  <2>2. UNCHANGED <<owner, dcookie>>
    BY <1>7 DEF Hook, cookieVars, txVars
  <2>3. PICK i \in DOMAIN work[c] : \/ UNCHANGED coreVars
                                    \/ Mark({work[c][i]}, "DONE")
                                    \/ SubmitReq(thread[c], work[c][i])
    BY <1>7 DEF Hook
  <2>4. status'[d] = status[d] /\ (d \in moved' <=> d \in moved)
    BY <1>0, <2>1, <2>3, SameCore DEF Mark, SubmitReq, CoreTypeOK
  <2> QED
    BY <2>2, <2>4 DEF DescKept
<1>8. ASSUME NEW x \in Runners, StartChan(c, x) PROVE DescKept(d)
  BY <1>8, SameCore DEF StartChan, StartThread, descVars, cookieVars, txVars, DescKept
<1>9. ASSUME NEW x \in Runners, Finish(c, x) PROVE DescKept(d)
  <2>1. UNCHANGED <<owner, dcookie>>
    BY <1>9 DEF Finish, cookieVars, txVars
  <2>2. CASE completed[c] = <<>>
    BY <1>9, <2>1, <2>2, SameCore DEF Finish, DescKept
  <2>3. CASE completed[c] # <<>>
    <3>1. Head(completed[c]) # d
      BY <1>0, <2>3, ListTypes, TailAt DEF Listed, Range
    <3>2. \E s : Mark({Head(completed[c])}, s)
      BY <1>9, <2>3 DEF Finish
    <3> QED
      BY <2>1, <3>1, <3>2 DEF Mark, DescKept
  <2> QED
    BY <2>2, <2>3
<1>10. CASE Client(c)
  <2>1. PrepSg(c) \/ PrepCyclic(c) => \E n \in Nat : Prep(c, n)
    BY ChannelAssumption DEF PrepSg, PrepCyclic
  <2>2. ~Pause(c) /\ ~PauseRequest(c)
    BY DEF Pause, PauseRequest, PauseStop, PauseDetach
  <2>3. IssuePending(c) \/ (\E cmd \in {"terminate", "pause"} : Command(c, cmd)) \/ TxStatus(c)
          => UNCHANGED <<coreVars, cookieVars, txVars>>
    BY DEF IssuePending, Command, TxStatus
  <2> QED
    BY <1>1, <1>2, <1>3, <1>4, <1>5, <1>10, <2>1, <2>2, <2>3 DEF Client
<1>11. ASSUME NEW x \in Runners, Tasklet(c, x) PROVE DescKept(d)
  <2>1. Enter(c, x) \/ FillQueue(c, x) \/ Resume(c, x) => UNCHANGED <<coreVars, cookieVars, txVars>>
    BY DEF Enter, FillQueue, Resume
  <2> QED
    BY <1>1, <1>6, <1>7, <1>8, <1>9, <1>11, <2>1 DEF Tasklet
<1> QED
  BY <1>10, <1>11

LEMMA OthersKept ==
  ASSUME Env = {}, LayerInv, NEW c \in Chans, Client(c) \/ \E x \in Runners : Tasklet(c, x)
  PROVE  /\ es' = es /\ Due' = Due
         /\ \A b \in Chans : b # c => Kept(b)
         /\ \A d \in Due : owner'[d] = owner[d]
<1>1. \A b \in Chans : b # c => \A d \in Listed(b) : DescKept(d)
  <2> SUFFICES ASSUME NEW b \in Chans, b # c, NEW d \in Listed(b) PROVE DescKept(d)
    OBVIOUS
  <2>1. d \in Descs
    BY ListTypes, RangeEmpty DEF LayerInv, BaseInv, Listed
  <2>2. d \notin Range(pool) /\ d \notin Listed(c)
    BY Apart DEF LayerInv, BaseInv
  <2> QED
    BY <2>1, <2>2, OtherDescs
<1>2. ASSUME NEW d \in Due PROVE owner'[d] = owner[d]
  <2>1. d \in Descs /\ owner[d] \in Chans /\ d \in Listed(owner[d])
    BY DueIn DEF Listed
  <2>2. CASE owner[d] # c
    BY <1>1, <2>1, <2>2 DEF DescKept
  <2>3. CASE owner[d] = c
    <3>1. d \notin Range(pool)
      BY <2>1, Apart DEF LayerInv, BaseInv
    <3>2. owner' = owner \/ \E n \in Nat : Prep(c, n)
      <4>1. CASE PrepSg(c) \/ PrepCyclic(c)
        BY <4>1, ChannelAssumption DEF PrepSg, PrepCyclic
      <4>2. CASE Client(c) /\ ~PrepSg(c) /\ ~PrepCyclic(c)
        BY <4>2 DEF Client, AllocChan, FreeChan, TxSubmit, IssuePending, Command, Terminate,
           TerminateAll, Pause, PauseRequest, TxStatus, txVars
      <4> QED
        BY <4>1, <4>2, TaskletRuns
    <3>3. ASSUME NEW n \in Nat, Prep(c, n) PROVE owner'[d] = owner[d]
      <4>1. d \notin Range(Chain(n))
        BY <3>1, <3>3, ChainType DEF Prep, LayerInv, BaseInv
      <4> QED
        BY <2>1, <3>3, <4>1 DEF Prep
    <3> QED
      BY <3>2, <3>3
  <2> QED
    BY <2>2, <2>3
<1> QED
  BY <1>1, <1>2, OtherThreads, OtherLists DEF Kept

\* Such a channel keeps its order and its cookies.
LEMMA OrderKept ==
  ASSUME LayerInv, NEW c \in Chans, Kept(c), es' = es, Due' \subseteq Due,
         \A d \in Due : owner'[d] = owner[d], InOrder(c)
  PROVE  InOrder(c)'
<1>1. work'[c] \in Seq(Descs) /\ Follows(c, 0) /\ work'[c] = work[c]
  BY SameFollows DEF Kept, SameLists
<1>2. \A d \in Range(work[c]) : status'[d] = status[d]
  BY DEF Kept, DescKept, Listed
<1>3. Settles(c)
  BY DEF Settles, Kept, ThreadKept, Engaged, Pending
<1> QED
  BY <1>1, <1>2, <1>3, OrderFollows DEF Kept

LEMMA SameNumbers ==
  ASSUME NEW f, NEW g, NEW l, \A d \in Range(l) : g[d] = f[d], Increasing(f, l)
  PROVE  Increasing(g, l)
  BY DEF Increasing, Range

\* A channel whose lists and numbers stay keeps its cookies.
LEMMA CookiesSame ==
  ASSUME NEW c \in Chans, CookiesDue(c),
         submitted'[c] = submitted[c], work'[c] = work[c], completed'[c] = completed[c],
         cyclic'[c] = cyclic[c], cookie'[c] = cookie[c], completedCookie'[c] = completedCookie[c],
         \A d \in Range(submitted[c]) \cup Range(work[c]) \cup Range(completed[c]) : dcookie'[d] = dcookie[d]
  PROVE  CookiesDue(c)'
<1>1. \A d \in Range(submitted[c]) \cup Range(work[c]) \cup Range(completed[c]) : StillDue(c, d)' <=> StillDue(c, d)
  BY DEF StillDue
<1>2. ~cyclic[c] => Increasing(dcookie', work[c]) /\ Increasing(dcookie', submitted[c])
  BY SameNumbers DEF CookiesDue
<1> QED
  BY <1>1, <1>2 DEF CookiesDue

LEMMA CookiesKept ==
  ASSUME NEW c \in Chans, Kept(c), CookiesDue(c)
  PROVE  CookiesDue(c)'
  BY CookiesSame DEF Kept, SameLists, Listed, DescKept

-----------------------------------------------------------------------------
(* An orderly environment: a channel's own steps keep its order             *)

\* A step that leaves the core alone settles nothing.
LEMMA SettlesCore ==
  ASSUME NEW c \in Chans, UNCHANGED coreVars, thread'[c] = thread[c]
  PROVE  Settles(c) /\ Due' = Due /\ status' = status
  BY SameCore DEF Settles, QueueFull, Engaged, Pending

\* A channel without work is in order.
LEMMA EmptyOrder ==
  ASSUME LayerInv, NEW c \in Chans, InOrder(c), work'[c] = <<>>,
         Due' = Due, \A d \in Due : owner'[d] = owner[d],
         thread'[c] # -1 => ~QueueFull(thread[c])'
  PROVE  InOrder(c)'
  BY DEF InOrder, Sorted, InTurn, DueFirst

\* Requests are prepared, submitted and issued.
LEMMA QueueOrder ==
  ASSUME Env = {}, LayerInv, NEW c \in Chans, InOrder(c),
         PrepSg(c) \/ PrepCyclic(c) \/ TxSubmit(c) \/ IssuePending(c)
  PROVE  InOrder(c)'
<1>0. /\ TypeOK /\ Due' = Due /\ (\A d \in Due : owner'[d] = owner[d])
      /\ work[c] \in Seq(Descs)
  BY OthersKept, ListTypes DEF Client, LayerInv, BaseInv
<1>1. CASE PrepSg(c) \/ PrepCyclic(c)
  <2>1. PICK n \in Nat : Prep(c, n)
    BY <1>1, ChannelAssumption DEF PrepSg, PrepCyclic
  <2>2. work'[c] = work[c] /\ thread'[c] = thread[c]
    BY <2>1 DEF Prep
  <2>3. Settles(c)
    BY <2>1, <2>2 DEF Prep, Mark, threadVars, hwVars, Settles, QueueFull, Engaged, Pending
  <2>4. \A d \in Range(work[c]) : status'[d] = status[d]
    <3>1. Range(Chain(n)) \subseteq Range(pool)
      BY <1>0, <2>1, ChainType DEF Prep
    <3>2. \A d \in Range(work[c]) : d \in Descs /\ d \notin Range(pool)
      BY <1>0, Apart, RangeEmpty DEF LayerInv, BaseInv, Listed
    <3> QED
      BY <2>1, <3>1, <3>2 DEF Prep, Mark
  <2> QED
    BY <1>0, <2>2, <2>3, <2>4, SameFollows, OrderFollows
<1>2. CASE TxSubmit(c)
  <2>1. work'[c] = work[c] /\ thread'[c] = thread[c] /\ UNCHANGED coreVars
    BY <1>2 DEF TxSubmit, chanVars
  <2> QED
    BY <1>0, <2>1, SettlesCore, SameFollows, OrderFollows
<1>3. CASE IssuePending(c)
  <2>1. work'[c] = work[c] \o submitted[c] /\ thread'[c] = thread[c] /\ UNCHANGED coreVars
    BY <1>0, <1>3 DEF IssuePending, chanVars, TypeOK
  <2>2. Settles(c) /\ status' = status
    BY <2>1, SettlesCore
  <2>3. \A d \in Range(submitted[c]) : status'[d] = "PREP"
    BY <2>2 DEF LayerInv, Layer, Statuses, StatusesOf
  <2>4. work'[c] \in Seq(Descs) /\ Follows(c, 0)
    BY <1>0, <2>1, <2>3, ListTypes, ConcatFollows
  <2> QED
    BY <1>0, <2>1, <2>2, <2>4, OrderFollows
<1> QED
  BY <1>1, <1>2, <1>3

LEMMA ClientOrder ==
  ASSUME Env = {}, LayerInv, NEW c \in Chans, InOrder(c), Client(c)
  PROVE  InOrder(c)'
<1>0. /\ TypeOK /\ CoreTypeOK /\ Due' = Due /\ (\A d \in Due : owner'[d] = owner[d])
  BY OthersKept DEF LayerInv, BaseInv, TypeOK
<1>1. CASE AllocChan(c)
  <2>1. PICK t \in Threads, e \in Events : RequestChannel(t, e) /\ thread'[c] = t
    BY <1>0, <1>1 DEF AllocChan, TypeOK
  <2>2. work'[c] = <<>>
    <3>1. Listed(c) = {} /\ work' = work
      BY <1>1 DEF AllocChan, listVars, LayerInv, Layer, Acquired
    <3>2. work[c] \in Seq(Descs) /\ Range(work[c]) = {}
      BY <1>0, <3>1, ListTypes DEF Listed
    <3> QED
      BY <3>1, <3>2, RangeEmpty
  <2>3. ~QueueFull(thread[c])'
    BY <1>0, <2>1 DEF RequestChannel, QueueFull, Slots, CoreTypeOK
  <2> QED
    BY <1>0, <2>2, <2>3, EmptyOrder
<1>2. CASE FreeChan(c)
  <2>1. work'[c] = <<>> /\ thread'[c] = -1
    BY <1>0, <1>2 DEF FreeChan, TypeOK
  <2> QED
    BY <1>0, <2>1, EmptyOrder
<1>3. CASE TerminateAll(c)
  <2>1. work'[c] = <<>> /\ thread'[c] = thread[c] /\ thread[c] \in Threads
    BY <1>0, <1>3, TerminateRules DEF TerminateAll, Passes, chanVars, TypeOK
  <2>2. req'[thread[c]] = [i \in Slots |-> NULL]
    BY <1>0, <1>3, <2>1 DEF TerminateAll, TerminateDetach, CoreTypeOK
  <2>3. ~QueueFull(thread[c])'
    BY <2>1, <2>2 DEF QueueFull, Slots
  <2> QED
    BY <1>0, <2>1, <2>3, EmptyOrder
<1>4. CASE (\E cmd \in {"terminate", "pause"} : Command(c, cmd)) \/ TxStatus(c)
  <2>1. work'[c] = work[c] /\ thread'[c] = thread[c] /\ UNCHANGED coreVars
    BY <1>4 DEF Command, TxStatus, listVars, chanVars
  <2> QED
    BY <1>0, <2>1, SettlesCore, SameFollows, OrderFollows
<1>5. CASE Terminate(c)
  <2>1. /\ work'[c] = work[c] /\ thread'[c] = thread[c] /\ thread[c] # -1 /\ thread[c] \in Threads
    <3>1. control[c] # "none"
      BY <1>5 DEF Terminate, Passes
    <3> QED
      BY <1>5, <3>1, AtWork, ThreadOf DEF Terminate, listVars, chanVars
  <2>2. /\ UNCHANGED <<free, ev, req, lstenq, running, es, status>>
        /\ hw'[thread[c]] = "stopped"
    BY <1>0, <1>5, <2>1 DEF Terminate, TerminateStop, Stop, ToStop, threadVars, descVars, CoreTypeOK
  <2>3. Settles(c)
    BY <2>1, <2>2 DEF Settles, QueueFull, Engaged, Pending
  <2> QED
    BY <1>0, <2>1, <2>2, <2>3, SameFollows, OrderFollows
<1>6. ~Pause(c) /\ ~PauseRequest(c)
  BY DEF Pause, PauseRequest, PauseStop, PauseDetach
<1> QED
  BY <1>1, <1>2, <1>3, <1>4, <1>5, <1>6, QueueOrder DEF Client

\* The first of the list that is finished is its head.
LEMMA RipeFirst ==
  ASSUME LayerInv, NEW c \in Chans, Sorted(c), NEW i \in DOMAIN work[c], FirstWith(work[c], "DONE", i)
  PROVE  /\ i = 1 /\ work[c] # <<>> /\ work[c][i] = Head(work[c]) /\ RemoveAt(work[c], i) = Tail(work[c])
<1>1. /\ work[c] \in Seq(Descs) /\ DOMAIN work[c] = 1 .. Len(work[c]) /\ Len(work[c]) \in Nat
  BY WorkList
<1>2. i = 1
  <2> SUFFICES ASSUME i # 1 PROVE FALSE
    OBVIOUS
  <2>1. 1 \in DOMAIN work[c] /\ 1 < i /\ 1 \in 1 .. i - 1
    BY <1>1
  <2> QED
    BY <2>1 DEF Sorted, FirstWith
<1>3. work[c] # <<>>
  BY <1>1
<1> QED
  BY <1>1, <1>2, <1>3, TailAt

LEMMA HarvestOrder ==
  ASSUME Env = {}, LayerInv, NEW c \in Chans, NEW x \in Runners, Tasklet(c, x), InOrder(c), Harvest(c, x)
  PROVE  InOrder(c)'
<1>0. /\ TypeOK /\ thread'[c] = thread[c] /\ UNCHANGED <<coreVars, owner>>
  BY TaskletRuns DEF LayerInv, BaseInv, Harvest
<1>1. Settles(c) /\ Due' = Due /\ status' = status
  BY <1>0, SettlesCore
<1>2. CASE work' = work
  BY <1>0, <1>1, <1>2, SameFollows, OrderFollows
<1>3. ASSUME NEW i \in DOMAIN work[c], FirstWith(work[c], "DONE", i),
             work' = [work EXCEPT ![c] = RemoveAt(@, i)]
      PROVE  InOrder(c)'
  <2>1. work[c] # <<>> /\ work'[c] = Tail(work[c])
    BY <1>0, <1>3, RipeFirst DEF InOrder, TypeOK
  <2>2. work'[c] \in Seq(Descs) /\ Follows(c, 1)
    BY <2>1, TailFollows
  <2> QED
    BY <1>0, <1>1, <2>2, OrderFollows
<1> QED
  BY <1>2, <1>3 DEF Harvest

\* A recycled descriptor of a cyclic channel goes to the end of the list.
LEMMA FinishOrder ==
  ASSUME Env = {}, LayerInv, NEW c \in Chans, NEW x \in Runners, Tasklet(c, x), InOrder(c), Finish(c, x)
  PROVE  InOrder(c)'
<1>0. /\ TypeOK /\ thread'[c] = thread[c] /\ UNCHANGED owner /\ Due' = Due /\ work[c] \in Seq(Descs)
  BY TaskletRuns, ListTypes DEF LayerInv, BaseInv
<1>1. CASE completed[c] = <<>>
  <2>1. UNCHANGED coreVars /\ work'[c] = work[c]
    BY <1>1 DEF Finish
  <2> QED
    BY <1>0, <2>1, SettlesCore, SameFollows, OrderFollows
<1>2. CASE completed[c] # <<>>
  <2> DEFINE d == Head(completed[c])
  <2>1. d \in Descs /\ d \in Range(completed[c])
    BY <1>0, <1>2, OnceNow, TailOnce DEF OnceIn, LayerInv, BaseInv
  <2>2. \A e \in Range(work[c]) : e # d /\ e \in Descs
    <3>1. Range(work[c]) \cap Range(completed[c]) = {}
      BY <1>0, OnceNow DEF OnceIn, LayerInv, BaseInv
    <3> QED
      BY <1>0, <2>1, <3>1, RangeEmpty
  <2>3. /\ Mark({d}, IF cyclic[c] THEN "PREP" ELSE "FREE")
        /\ work'[c] = IF cyclic[c] THEN Append(work[c], d) ELSE work[c]
    BY <1>0, <1>2 DEF Finish, TypeOK
  <2> HIDE DEF d
  <2>4. /\ status'[d] = (IF cyclic[c] THEN "PREP" ELSE "FREE")
        /\ \A e \in Range(work[c]) : status'[e] = status[e]
        /\ UNCHANGED <<threadVars, hwVars>>
    BY <2>1, <2>2, <2>3 DEF Mark
  <2>5. Settles(c)
    BY <1>0, <2>4 DEF threadVars, hwVars, Settles, QueueFull, Engaged, Pending
  <2>6. status[d] # "BUSY"
    BY <2>1 DEF LayerInv, Layer, Statuses, StatusesOf
  <2>7. CASE cyclic[c]
    <3>1. <<d>> \in Seq(Descs) /\ work'[c] = work[c] \o <<d>> /\ Range(<<d>>) = {d}
      BY <1>0, <2>1, <2>3, <2>7, AppendIsConcat DEF Range
    <3>2. work'[c] \in Seq(Descs) /\ Follows(c, 0)
      BY <2>4, <2>7, <3>1, ConcatFollows
    <3>3. \A e \in Range(work'[c]) : status[e] = "BUSY" => status'[e] = "BUSY"
      <4>1. Range(work'[c]) = Range(work[c]) \cup {d}
        BY <1>0, <3>1, ConcatOnce
      <4> QED
        BY <2>4, <2>6, <4>1
    <3> QED
      BY <1>0, <2>4, <2>5, <3>2, <3>3, OrderFollows
  <2>8. CASE ~cyclic[c]
    BY <1>0, <2>3, <2>4, <2>5, <2>8, SameFollows, OrderFollows
  <2> QED
    BY <2>7, <2>8
<1> QED
  BY <1>1, <1>2

\* The thread is made sure to run: with both slots full it takes the older request.
LEMMA StartOrder ==
  ASSUME Env = {}, LayerInv, NEW c \in Chans, NEW x \in Runners, Tasklet(c, x), InOrder(c), StartChan(c, x)
  PROVE  InOrder(c)'
<1>0. /\ TypeOK /\ CoreTypeOK /\ thread'[c] = thread[c] /\ thread[c] \in Threads /\ thread[c] # -1
      /\ UNCHANGED owner /\ Due' = Due /\ work' = work
      /\ StartThread(thread[c])
  BY TaskletRuns DEF LayerInv, BaseInv, TypeOK, StartChan, listVars
<1> DEFINE t == thread[c]
<1>1. /\ UNCHANGED <<free, ev, req, lstenq, es, status>> /\ Start(t)
  BY <1>0 DEF StartThread, descVars
<1>2. Sorted(c)'
  BY <1>0, <1>1 DEF InOrder, Sorted
<1>3. InTurn(c)'
  <2> SUFFICES ASSUME QueueFull(t), Engaged(t)' PROVE running'[t] = 1 - lstenq[t]
    BY <1>0, <1>1 DEF InOrder, InTurn, QueueFull
  <2>1. lstenq[t] \in Slots /\ 1 - lstenq[t] \in Slots
    <3>1. lstenq[t] \in Slots
      BY <1>0 DEF CoreTypeOK
    <3> QED
      BY <3>1 DEF Slots
  <2>2. CASE Starts(t, hw[t], req[t])
    <3>1. running'[t] = SlotToRun(t, req[t])
      BY <1>0, <1>1, <2>2 DEF Start, CoreTypeOK
    <3> QED
      BY <2>1, <3>1 DEF SlotToRun, QueueFull, Slots
  <2>3. CASE ~Starts(t, hw[t], req[t])
    <3>1. running'[t] = running[t] /\ (hw'[t] = "executing" => hw[t] = "executing")
      BY <1>0, <1>1, <2>3 DEF Start, CoreTypeOK
    <3>2. Engaged(t)
      BY <1>0, <1>1, <3>1 DEF Engaged, Pending
    <3> QED
      BY <1>0, <3>1, <3>2 DEF InOrder, InTurn
  <2> QED
    BY <2>2, <2>3
<1>4. DueFirst(c)'
  BY <1>0, <1>1 DEF InOrder, DueFirst
<1> QED
  BY <1>2, <1>3, <1>4 DEF InOrder

\* A request is hooked behind the one that is hooked already, and behind what is due.
LEMMA HookOrder ==
  ASSUME Env = {}, LayerInv, NEW c \in Chans, NEW x \in Runners, Tasklet(c, x), InOrder(c), Hook(c, x)
  PROVE  InOrder(c)'
<1>0. /\ TypeOK /\ CoreTypeOK /\ thread'[c] = thread[c] /\ thread[c] \in Threads /\ thread[c] # -1
      /\ UNCHANGED owner /\ Due' = Due /\ work' = work
  BY TaskletRuns DEF LayerInv, BaseInv, TypeOK, Hook, listVars
<1> DEFINE t == thread[c]
<1>1. CASE UNCHANGED coreVars
  BY <1>0, <1>1, SettlesCore, SameFollows, OrderFollows
<1>2. ASSUME NEW n \in DOMAIN work[c], FirstWith(work[c], "PREP", n), SubmitReq(t, work[c][n])
      PROVE  InOrder(c)'
  <2> DEFINE d == work[c][n]
             f == FreeSlot(t)
  <2>1. /\ d \in Descs /\ d # NULL /\ status[d] = "PREP" /\ DOMAIN work[c] = 1 .. Len(work[c])
        /\ n \in 1 .. Len(work[c]) /\ Len(work[c]) \in Nat
        /\ \A j \in 1 .. n - 1 : status[work[c][j]] # "PREP"
    BY <1>2, WorkList DEF FirstWith
  <2>2. /\ ~QueueFull(t) /\ f \in Slots /\ req[t][f] = NULL
        /\ lstenq'[t] = f /\ status' = [status EXCEPT ![d] = "BUSY"]
        /\ req'[t][f] = d /\ (\A s \in Slots : s # f => req'[t][s] = req[t][s])
        /\ UNCHANGED <<free, ev, running, hw, es>>
    BY <1>0, <1>2 DEF SubmitReq, FreeSlot, QueueFull, Slots, hwVars, CoreTypeOK
  <2>3. status'[d] = "BUSY" /\ \A e \in Descs : e # d => status'[e] = status[e]
    BY <1>0, <2>1, <2>2 DEF CoreTypeOK
  <2>4. \A i \in DOMAIN work[c] : work[c][i] \in Descs /\ (work[c][i] = d => i = n)
    BY <1>2, WorkList DEF IsInjective
  <2>5. \A i \in DOMAIN work[c] : status[work[c][i]] \in {"BUSY", "DONE"} => i < n
    <3> SUFFICES ASSUME NEW i \in DOMAIN work[c], status[work[c][i]] \in {"BUSY", "DONE"}, n < i
                 PROVE  FALSE
      BY <2>1
    <3> QED
      BY <1>2, <2>1 DEF InOrder, Sorted
  <2>6. \A i \in DOMAIN work[c] : i < n => status[work[c][i]] \in {"BUSY", "DONE"}
    <3> SUFFICES ASSUME NEW i \in DOMAIN work[c], i < n PROVE status[work[c][i]] \in {"BUSY", "DONE"}
      OBVIOUS
    <3>1. status[work[c][i]] # "PREP"
      BY <2>1
    <3>2. work[c][i] \in Range(work[c])
      BY WorkList
    <3>3. status[work[c][i]] # "FREE"
      BY <3>2 DEF LayerInv, Layer, Statuses, StatusesOf
    <3> QED
      BY <1>0, <2>4, <3>1, <3>3 DEF CoreTypeOK
  <2> HIDE DEF d, f
  <2>7. Sorted(c)'
    <3> SUFFICES ASSUME NEW i \in DOMAIN work[c], NEW j \in DOMAIN work[c], i < j
                 PROVE  /\ status'[work[c][j]] = "DONE" => status'[work[c][i]] = "DONE"
                        /\ status'[work[c][j]] = "BUSY" => status'[work[c][i]] # "PREP"
      BY <1>0 DEF Sorted
    <3>0. /\ i \in Nat /\ j \in Nat /\ work[c][n] = d
          /\ status[work[c][j]] = "DONE" => status[work[c][i]] = "DONE"
          /\ status[work[c][j]] = "BUSY" => status[work[c][i]] # "PREP"
      BY <2>1 DEF InOrder, Sorted, d
    <3>1. CASE j = n
      BY <2>1, <2>3, <2>4, <2>6, <3>0, <3>1
    <3>2. CASE j # n /\ i = n
      <4>1. status[work[c][j]] \notin {"BUSY", "DONE"}
        BY <2>5, <2>1, <3>0, <3>2
      <4>2. status'[work[c][j]] = status[work[c][j]]
        BY <2>3, <2>4, <3>2
      <4> QED
        BY <4>1, <4>2
    <3>3. CASE j # n /\ i # n
      <4>1. status'[work[c][j]] = status[work[c][j]] /\ status'[work[c][i]] = status[work[c][i]]
        BY <2>3, <2>4, <3>3
      <4> QED
        BY <3>0, <4>1
    <3> QED
      BY <3>1, <3>2, <3>3
  <2>8. 1 - f \in Slots /\ 1 - f # f
    BY <2>2 DEF Slots
  <2>9. InTurn(c)'
    <3> SUFFICES ASSUME QueueFull(t)'
                 PROVE  /\ \A i, j \in DOMAIN work[c] :
                             work[c][i] = req'[t][1 - f] /\ work[c][j] = req'[t][f] => i < j
                        /\ Engaged(t)' => running'[t] = 1 - f
      BY <1>0, <2>2 DEF InTurn
    <3>1. req[t][1 - f] = req'[t][1 - f] /\ req[t][1 - f] # NULL
      BY <1>0, <2>2, <2>8 DEF QueueFull, Slots
    <3>2. status[req[t][1 - f]] = "BUSY"
      BY <1>0, <2>8, <3>1, BusyOnes
    <3>3. \A i, j \in DOMAIN work[c] : work[c][i] = req'[t][1 - f] /\ work[c][j] = req'[t][f] => i < j
      BY <2>2, <2>4, <2>5, <3>1, <3>2
    <3>4. Engaged(t)' => running'[t] = 1 - f
      <4> SUFFICES ASSUME Engaged(t) PROVE running[t] = 1 - f
        BY <1>0, <2>2 DEF Engaged, Pending
      <4>1. running[t] # -1 /\ req[t][running[t]] # NULL
        <5>1. CASE hw[t] = "executing"
          BY <1>0, <5>1, CoreAssumption DEF LayerInv, OrderlyInv, Orderly, ExecutesHooked,
             OwnInv, TypeInv, ExecutesRequest
        <5>2. CASE Pending(t)
          BY <1>0, <5>2, CoreAssumption DEF LayerInv, OrderlyInv, Orderly, RaisedHooked, CoreTypeOK
        <5> QED
          BY <5>1, <5>2 DEF Engaged
      <4>2. running[t] \in Slots /\ running[t] # f
        BY <1>0, <2>2, <4>1 DEF CoreTypeOK
      <4> QED
        BY <2>2, <4>2 DEF Slots
    <3> QED
      BY <3>3, <3>4
  <2>10. DueFirst(c)'
    <3>1. ASSUME NEW i \in DOMAIN work[c], NEW j \in DOMAIN work[c], work[c][i] \in Due,
                 NEW s \in Slots, req'[t][s] = work[c][j]
          PROVE  i < j
      <4>1. CASE s = f
        <5>1. status[work[c][i]] = "BUSY"
          BY <3>1, BusyOnes
        <5>2. j = n
          BY <2>2, <2>4, <3>1, <4>1
        <5> QED
          BY <2>5, <5>1, <5>2
      <4>2. CASE s # f
        BY <2>2, <3>1, <4>2 DEF InOrder, DueFirst
      <4> QED
        BY <4>1, <4>2
    <3>2. \A e, g \in Due' : owner'[e] = c /\ owner'[g] = c => e = g
      BY <1>0 DEF InOrder, DueFirst
    <3> QED
      BY <1>0, <3>1, <3>2 DEF DueFirst
  <2> QED
    BY <2>7, <2>9, <2>10 DEF InOrder
<1> QED
  BY <1>0, <1>1, <1>2 DEF Hook, LayerInv, Layer, Statuses

LEMMA TaskletOrder ==
  ASSUME Env = {}, LayerInv, NEW c \in Chans, NEW x \in Runners, InOrder(c), Tasklet(c, x)
  PROVE  InOrder(c)'
<1>1. CASE Enter(c, x) \/ FillQueue(c, x) \/ Resume(c, x)
  <2>1. /\ work'[c] = work[c] /\ thread'[c] = thread[c] /\ UNCHANGED <<coreVars, owner>>
    BY <1>1, TaskletRuns DEF Enter, FillQueue, Resume, listVars
  <2> QED
    BY <2>1, SettlesCore, SameFollows, OrderFollows
<1> QED
  BY <1>1, HarvestOrder, HookOrder, StartOrder, FinishOrder DEF Tasklet

-----------------------------------------------------------------------------
(* An orderly environment: the steps of the core keep the order             *)

\* What the core's own steps leave alone.
LEMMA CoreStepKeeps ==
  ASSUME Interrupt \/ Recovery \/ \E t \in Threads : Transfer(t) \/ Fault(t), NEW c \in Chans
  PROVE  /\ UNCHANGED <<prepped, submitted, work, completed, thread, cyclic, owner, dcookie, cookie,
                        completedCookie, oops>>
         /\ SameLists(c)
<1>1. UNCHANGED <<listVars, chanVars, cookieVars, txVars, oops>>
  BY CoreStepLayer
<1> QED
  BY <1>1 DEF listVars, chanVars, cookieVars, txVars, SameLists

\* A step after which no more is engaged, due or hooked than before.
LEMMA CalmOrder ==
  ASSUME LayerInv, NEW c \in Chans, InOrder(c), UNCHANGED <<work, thread, owner>>,
         UNCHANGED <<req, lstenq, running, free, ev, status>>, Due' \subseteq Due,
         \A t \in Threads : Engaged(t)' => Engaged(t)
  PROVE  InOrder(c)'
<1>1. work'[c] \in Seq(Descs) /\ Follows(c, 0)
  BY SameFollows
<1>2. thread[c] # -1 => thread[c] \in Threads
  BY ThreadOf
<1>3. Settles(c)
  BY <1>2 DEF Settles, QueueFull
<1> QED
  BY <1>1, <1>3, OrderFollows

\* The interrupt handler detaches the request that ran: it was hooked before the
\* other one.
LEMMA EventsOrder ==
  ASSUME LayerInv, NEW c \in Chans, InOrder(c), UpdateEvents, UNCHANGED <<work, thread, owner>>
  PROVE  InOrder(c)'
<1>0. /\ OrderlyInv /\ CoreTypeOK
  BY DEF LayerInv, BaseInv, TypeOK
<1>1. /\ es' = {} /\ Due = {} /\ Due' = {Finished(t) : t \in Notified}
      /\ UNCHANGED <<free, ev, lstenq, status, moved>>
      /\ \A t \in Notified : /\ t \in Threads /\ Pending(t) /\ running[t] \in Slots
                             /\ Finished(t) = req[t][running[t]] /\ Finished(t) # NULL
      /\ \A t \in Threads, i \in Slots :
           req'[t][i] = IF t \in Notified /\ i = running[t] THEN NULL ELSE req[t][i]
      /\ \A t \in Threads \ Notified : hw'[t] = hw[t] /\ running'[t] = running[t]
  BY <1>0, EventsStep
<1>2. work'[c] \in Seq(Descs) /\ Follows(c, 0) /\ (thread[c] # -1 => thread[c] \in Threads)
  BY SameFollows, ThreadOf
<1>3. Settles(c)
  <2> SUFFICES ASSUME thread[c] # -1
               PROVE  /\ \A i \in Slots : req'[thread[c]][i] \in {req[thread[c]][i], NULL}
                      /\ QueueFull(thread[c])' /\ Engaged(thread[c])' =>
                           Engaged(thread[c]) /\ running'[thread[c]] = running[thread[c]]
    BY <1>1 DEF Settles
  <2>1. QueueFull(thread[c])' => thread[c] \notin Notified
    BY <1>1, <1>2 DEF QueueFull, Slots
  <2>2. thread[c] \notin Notified /\ Engaged(thread[c])' => Engaged(thread[c])
    BY <1>1, <1>2 DEF Engaged, Pending
  <2> QED
    BY <1>1, <1>2, <2>1, <2>2
<1>4. Sorted(c)' /\ InTurn(c)'
  BY <1>1, <1>2, <1>3, SortedFollows, TurnFollows DEF InOrder
<1>5. DueFirst(c)'
  <2>1. \A t \in Notified : owner[Finished(t)] = c => thread[c] = t
    BY <1>1, HookedIn
  <2>2. \A d, e \in Due' : owner'[d] = c /\ owner'[e] = c => d = e
    BY <1>1, <2>1
  <2>3. ASSUME NEW i \in DOMAIN work[c], NEW j \in DOMAIN work[c], work[c][i] \in Due',
               NEW s \in Slots, req'[thread[c]][s] = work[c][j]
        PROVE  i < j
    <3>1. PICK t \in Notified : work[c][i] = Finished(t)
      BY <1>1, <2>3
    <3>2. /\ work[c][i] \in Range(work[c]) /\ work[c][j] \in Descs /\ NULL \notin Descs
      BY WorkList
    <3>3. thread[c] = t /\ t \in Threads /\ t # -1
      <4>1. owner[work[c][i]] = c
        BY <3>2 DEF LayerInv, Layer, Statuses, StatusesOf, Listed
      <4> QED
        BY <1>1, <2>1, <3>1, <4>1, WorkList
    <3>4. s # running[t] /\ req[t][s] = work[c][j] /\ req[t][s] # NULL
      BY <1>1, <2>3, <3>1, <3>2, <3>3
    <3>5. running[t] \in Slots /\ req[t][running[t]] = work[c][i] /\ req[t][running[t]] # NULL /\ Engaged(t)
      BY <1>1, <3>1 DEF Engaged
    <3>6. QueueFull(t) /\ lstenq[t] \in Slots
      BY <1>0, <3>3, <3>4, <3>5 DEF QueueFull, Slots, CoreTypeOK
    <3>7. running[t] = 1 - lstenq[t]
      BY <3>3, <3>5, <3>6 DEF InOrder, InTurn
    <3>8. s = lstenq[t]
      BY <3>4, <3>5, <3>6, <3>7 DEF Slots
    <3> QED
      BY <3>3, <3>4, <3>5, <3>6, <3>7, <3>8 DEF InOrder, InTurn
  <2> QED
    BY <2>2, <2>3 DEF DueFirst
<1> QED
  BY <1>4, <1>5 DEF InOrder

\* A callback: what is before it on the list has been called back.
LEMMA CallbackOrder ==
  ASSUME LayerInv, NEW c \in Chans, InOrder(c), UpdateRqcb, UNCHANGED <<work, thread, owner>>
  PROVE  InOrder(c)'
<1>0. /\ CoreTypeOK /\ Statuses /\ Once
  BY DEF LayerInv, BaseInv, TypeOK, Layer
<1> DEFINE d == irqDesc
<1>1. /\ d \in Due /\ status' = [status EXCEPT ![d] = "DONE"] /\ Due' \subseteq Due
      /\ UNCHANGED <<free, ev, req, lstenq, running, hw, es>>
  BY DEF UpdateRqcb, Rqcb, Due, threadVars, dmacVars, hwVars, LayerInv, OrderlyInv, Orderly, CallbackLoop
<1>2. d \in Descs /\ owner[d] \in Chans
  BY <1>1, DueIn
<1> HIDE DEF d
<1>3. status'[d] = "DONE" /\ \A e \in Descs : e # d => status'[e] = status[e]
  BY <1>0, <1>1, <1>2 DEF CoreTypeOK
<1>4. /\ \A i \in DOMAIN work[c] : work[c][i] \in Descs /\ work[c][i] \in Range(work[c]) /\ i \in Nat
      /\ \A i, j \in DOMAIN work[c] : work[c][i] = work[c][j] => i = j
  BY WorkList DEF IsInjective
<1>5. ASSUME NEW i \in DOMAIN work[c], NEW j \in DOMAIN work[c], i < j, work[c][j] = d
      PROVE  status[work[c][i]] = "DONE"
  <2> DEFINE e == work[c][i]
  <2>1. e # d /\ e \in Descs /\ owner[e] = c /\ owner[d] = c /\ status[d] = "BUSY"
    <3>1. e # d
      BY <1>4, <1>5
    <3>2. e \in Listed(c) /\ d \in Listed(c)
      BY <1>4, <1>5 DEF Listed
    <3> QED
      BY <1>0, <1>1, <1>4, <3>1, <3>2, BusyOnes DEF Statuses, StatusesOf
  <2>2. status[e] # "PREP" /\ status[e] # "FREE"
    BY <1>0, <1>4, <1>5, <2>1 DEF InOrder, Sorted, Statuses, StatusesOf
  <2>3. status[e] # "BUSY"
    <3> SUFFICES ASSUME status[e] = "BUSY" PROVE FALSE
      OBVIOUS
    <3>1. e \notin Due
      BY <1>1, <2>1 DEF InOrder, DueFirst
    <3>2. PICK t \in Threads, s \in Slots : req[t][s] = e
      BY <2>1, <3>1 DEF LayerInv, OrderlyInv, Orderly, BusyInSlot
    <3>3. e # NULL
      BY <2>1, WorkList
    <3>4. thread[c] = t
      BY <2>1, <3>2, <3>3, HookedIn
    <3>5. j < i
      BY <1>1, <1>5, <3>2, <3>4 DEF InOrder, DueFirst
    <3> QED
      BY <1>4, <1>5, <3>5
  <2> QED
    BY <1>0, <2>1, <2>2, <2>3 DEF CoreTypeOK
<1>6. Sorted(c)'
  <2> SUFFICES ASSUME NEW i \in DOMAIN work[c], NEW j \in DOMAIN work[c], i < j
               PROVE  /\ status'[work[c][j]] = "DONE" => status'[work[c][i]] = "DONE"
                      /\ status'[work[c][j]] = "BUSY" => status'[work[c][i]] # "PREP"
    BY DEF Sorted
  <2>1. /\ status[work[c][j]] = "DONE" => status[work[c][i]] = "DONE"
        /\ status[work[c][j]] = "BUSY" => status[work[c][i]] # "PREP"
    BY DEF InOrder, Sorted
  <2>2. CASE work[c][j] = d
    BY <1>3, <1>4, <1>5, <2>2
  <2>3. CASE work[c][j] # d
    BY <1>3, <1>4, <2>1, <2>3
  <2> QED
    BY <2>2, <2>3
<1>7. InTurn(c)'
  BY <1>1 DEF InOrder, InTurn, QueueFull, Engaged, Pending
<1>8. DueFirst(c)'
  BY <1>1 DEF InOrder, DueFirst
<1> QED
  BY <1>6, <1>7, <1>8 DEF InOrder

LEMMA CoreOrder ==
  ASSUME Env = {}, LayerInv, NEW c \in Chans, InOrder(c),
         Interrupt \/ Recovery \/ \E t \in Threads : Transfer(t) \/ Fault(t)
  PROVE  InOrder(c)'
<1>0. /\ OrderlyInv /\ CoreTypeOK /\ NoFault /\ CallbackLoop
      /\ UNCHANGED <<work, thread, owner>>
  BY CoreStepKeeps DEF LayerInv, OrderlyInv, Orderly, OwnInv, TypeInv
<1>1. CASE UpdateCrash \/ (\E d \in Descs : UpdateList(d)) \/ UpdateExit
  <2>1. Due' = Due /\ UNCHANGED <<threadVars, descVars, hwVars>>
    BY <1>0, <1>1, CoreAssumption DEF UpdateCrash, UpdateList, UpdateExit, Due, CallbackLoop,
       dmacVars, irqVars
  <2> QED
    BY <1>0, <2>1, CalmOrder DEF threadVars, descVars, hwVars, Engaged, Pending
<1>2. CASE Recovery
  BY <1>0, <1>2 DEF Recovery, NoFault, DotaskBegin, DotaskRead, DotaskClear, DotaskRqcb
<1>3. ASSUME NEW t \in Threads, HwSev(t) \/ HwEnd(t) PROVE InOrder(c)'
  <2>1. UNCHANGED <<threadVars, status>> /\ Due' = Due
    BY <1>3 DEF HwSev, HwEnd, dmacVars, descVars, irqVars, Due
  <2>2. \A u \in Threads : u # t => hw'[u] = hw[u]
    BY <1>0, <1>3 DEF HwSev, HwEnd, CoreTypeOK
  <2>3. \A u \in Threads : u # t /\ Pending(u)' => Pending(u)
    <3> SUFFICES ASSUME NEW u \in Threads, u # t, Pending(u)' PROVE Pending(u)
      OBVIOUS
    <3>1. ~free[u] /\ ev[u] \in es \cup {ev[t]}
      BY <1>3, <2>1 DEF HwSev, HwEnd, Pending, threadVars, hwVars
    <3>2. ~free[t]
      BY <1>0, <1>3 DEF OrderlyInv, OwnInv, FreeStopped, HwSev, HwEnd
    <3>3. ev[u] # ev[t]
      BY <1>0, <3>1, <3>2, EventsDiffer DEF OrderlyInv, OwnInv
    <3> QED
      BY <3>1, <3>3 DEF Pending
  <2>4. Engaged(t)' => Engaged(t)
    <3>1. CASE HwSev(t)
      BY <3>1 DEF HwSev, Engaged
    <3>2. CASE HwEnd(t)
      BY <1>0, <2>1, <3>2 DEF HwEnd, Engaged, Pending, threadVars, CoreTypeOK
    <3> QED
      BY <1>3, <3>1, <3>2
  <2>5. \A u \in Threads : Engaged(u)' => Engaged(u)
    BY <2>2, <2>3, <2>4 DEF Engaged
  <2> QED
    BY <1>0, <2>1, <2>5, CalmOrder DEF threadVars
<1> QED
  BY <1>0, <1>1, <1>2, <1>3, EventsOrder, CallbackOrder DEF Interrupt, Transfer, Fault, HwFault

-----------------------------------------------------------------------------
(* An orderly environment: the cookies                                      *)

\* The numbers of two lists, one after the other.
LEMMA IncreasingConcat ==
  ASSUME NEW f, NEW a \in Seq(Descs), NEW b \in Seq(Descs), Increasing(f, a), Increasing(f, b),
         \A d \in Range(a), e \in Range(b) : f[d] < f[e]
  PROVE  Increasing(f, a \o b)
<1> DEFINE n == Len(a)
<1>1. /\ DOMAIN a = 1 .. n /\ DOMAIN b = 1 .. Len(b) /\ n \in Nat /\ Len(b) \in Nat
      /\ DOMAIN (a \o b) = 1 .. n + Len(b)
      /\ \A i \in 1 .. n + Len(b) : (a \o b)[i] = IF i <= n THEN a[i] ELSE b[i - n]
  BY ConcatProperties, LenProperties
<1> HIDE DEF n
<1> SUFFICES ASSUME NEW i \in DOMAIN (a \o b), NEW j \in DOMAIN (a \o b), i < j
             PROVE  f[(a \o b)[i]] < f[(a \o b)[j]]
  BY DEF Increasing
<1>2. CASE j <= n
  BY <1>1, <1>2 DEF Increasing
<1>3. CASE i > n
  <2>1. i - n \in DOMAIN b /\ j - n \in DOMAIN b /\ i - n < j - n
    BY <1>1, <1>3
  <2>2. (a \o b)[i] = b[i - n] /\ (a \o b)[j] = b[j - n]
    BY <1>1, <1>3
  <2> QED
    BY <2>1, <2>2 DEF Increasing
<1>4. CASE i <= n /\ j > n
  <2>1. i \in DOMAIN a /\ j - n \in DOMAIN b
    BY <1>1, <1>4
  <2>2. (a \o b)[i] = a[i] /\ (a \o b)[j] = b[j - n]
    BY <1>1, <1>4
  <2>3. a[i] \in Range(a) /\ b[j - n] \in Range(b)
    BY <2>1 DEF Range
  <2> QED
    BY <2>2, <2>3
<1> QED
  BY <1>1, <1>2, <1>3, <1>4

\* A channel with no transfer has no cookie that is due.
LEMMA NoCookies ==
  ASSUME NEW c \in Chans, submitted'[c] = <<>>, work'[c] = <<>>, completed'[c] = <<>>,
         completedCookie'[c] <= cookie'[c]
  PROVE  CookiesDue(c)'
<1>1. Range(<<>>) = {}
  BY RangeEmpty, <<>> \in Seq(Descs)
<1>2. Increasing(dcookie', <<>>)
  BY DEF Increasing
<1> QED
  BY <1>1, <1>2 DEF CookiesDue

\* The cookies of what a channel holds are numbers.
LEMMA CookieTypes ==
  ASSUME LayerInv, NEW c \in Chans
  PROVE  /\ TypeOK /\ cookie[c] \in Nat /\ completedCookie[c] \in Nat
         /\ prepped[c] \in Seq(Descs) /\ submitted[c] \in Seq(Descs)
         /\ work[c] \in Seq(Descs) /\ completed[c] \in Seq(Descs)
         /\ Listed(c) \subseteq Descs /\ \A d \in Descs : dcookie[d] \in Nat
<1>1. TypeOK
  BY DEF LayerInv, BaseInv
<1>2. /\ prepped[c] \in Seq(Descs) /\ submitted[c] \in Seq(Descs)
      /\ work[c] \in Seq(Descs) /\ completed[c] \in Seq(Descs)
  BY <1>1, ListTypes
<1>3. Listed(c) \subseteq Descs
  BY <1>2, RangeEmpty DEF Listed
<1> QED
  BY <1>1, <1>2, <1>3 DEF TypeOK

\* The cookies a chain gets when it is submitted.
LEMMA Numbered ==
  ASSUME LayerInv, NEW c \in Chans, TxSubmit(c)
  PROVE  /\ \A i \in DOMAIN prepped[c] : dcookie'[prepped[c][i]] = cookie[c] + i
         /\ \A d \in Descs : d \notin Range(prepped[c]) => dcookie'[d] = dcookie[d]
         /\ cookie'[c] = cookie[c] + Len(prepped[c])
         /\ submitted'[c] = submitted[c] \o prepped[c] /\ prepped'[c] = <<>>
<1>0. TypeOK /\ OnceIn(c) /\ prepped[c] \in Seq(Descs)
  BY OnceNow DEF LayerInv, BaseInv
<1>1. ASSUME NEW i \in DOMAIN prepped[c] PROVE dcookie'[prepped[c][i]] = cookie[c] + i
  <2> DEFINE d == prepped[c][i]
  <2>1. d \in Descs
    BY <1>0, LenProperties, ElementOfSeq
  <2>2. dcookie'[d] = cookie[c] + (CHOOSE j \in DOMAIN prepped[c] : prepped[c][j] = d)
    BY <2>1 DEF TxSubmit
  <2>3. (CHOOSE j \in DOMAIN prepped[c] : prepped[c][j] = d) = i
    BY <1>0 DEF OnceIn, IsInjective
  <2> QED
    BY <2>2, <2>3
<1>2. \A d \in Descs : d \notin Range(prepped[c]) => dcookie'[d] = dcookie[d]
  BY DEF TxSubmit, Range
<1> QED
  BY <1>0, <1>1, <1>2 DEF TxSubmit, TypeOK

LEMMA SubmitCookies ==
  ASSUME LayerInv, NEW c \in Chans, CookiesDue(c), TxSubmit(c)
  PROVE  CookiesDue(c)'
<1> DEFINE p == prepped[c]
           S == Range(submitted[c])
           W == Range(work[c])
           F == Range(completed[c])
<1>0. /\ cookie[c] \in Nat /\ completedCookie[c] \in Nat /\ p \in Seq(Descs)
      /\ submitted[c] \in Seq(Descs) /\ Listed(c) \subseteq Descs /\ \A d \in Descs : dcookie[d] \in Nat
      /\ OnceIn(c) /\ Len(p) \in Nat /\ DOMAIN p = 1 .. Len(p)
  BY CookieTypes, OnceNow, LenProperties DEF LayerInv, BaseInv
<1>1. /\ \A i \in DOMAIN p : dcookie'[p[i]] = cookie[c] + i
      /\ \A d \in Descs : d \notin Range(p) => dcookie'[d] = dcookie[d]
      /\ cookie'[c] = cookie[c] + Len(p) /\ submitted'[c] = submitted[c] \o p
  BY Numbered
<1>2. UNCHANGED <<work, completed, cyclic, completedCookie>>
  BY DEF TxSubmit, chanVars
<1>3. \A d \in S \cup W \cup F : d \in Descs /\ d \notin Range(p) /\ dcookie'[d] = dcookie[d]
  BY <1>0, <1>1 DEF OnceIn, Listed
<1>4. \A d \in Range(p) : cookie[c] < dcookie'[d] /\ dcookie'[d] <= cookie'[c]
  BY <1>0, <1>1 DEF Range
<1>5. completedCookie[c] <= cookie[c] /\ cookie[c] <= cookie'[c] /\ cookie'[c] \in Nat
  BY <1>0, <1>1 DEF CookiesDue
<1>6. Range(submitted'[c]) = S \cup Range(p)
  BY <1>0, <1>1, ConcatOnce
<1>7. \A d \in S \cup W : StillDue(c, d)'
  BY <1>0, <1>2, <1>3, <1>5 DEF CookiesDue, StillDue
<1>8. \A d \in Range(p) : StillDue(c, d)'
  <2> SUFFICES ASSUME NEW d \in Range(p) PROVE StillDue(c, d)'
    OBVIOUS
  <2>1. dcookie'[d] \in Nat
    BY <1>0, <1>1 DEF Range
  <2> QED
    BY <1>0, <1>2, <1>4, <1>5, <2>1 DEF StillDue
<1>9. \A d \in F : IF cyclic[c] THEN StillDue(c, d)' ELSE dcookie'[d] = 0
  BY <1>0, <1>2, <1>3, <1>5 DEF CookiesDue, StillDue
<1>10. ASSUME ~cyclic[c]
       PROVE  /\ Increasing(dcookie', work[c]) /\ Increasing(dcookie', submitted'[c])
              /\ \A d \in W, e \in Range(submitted'[c]) : dcookie'[d] < dcookie'[e]
  <2>1. Increasing(dcookie', work[c]) /\ Increasing(dcookie', submitted[c])
    BY <1>3, <1>10, SameNumbers DEF CookiesDue
  <2>2. Increasing(dcookie', p)
    BY <1>0, <1>1 DEF Increasing
  <2>3. \A d \in S \cup W : dcookie'[d] \in Nat /\ dcookie'[d] <= cookie[c]
    BY <1>3, <1>0 DEF CookiesDue, StillDue
  <2>4. \A d \in S \cup W, e \in Range(p) : dcookie'[d] < dcookie'[e]
    <3> SUFFICES ASSUME NEW d \in S \cup W, NEW e \in Range(p) PROVE dcookie'[d] < dcookie'[e]
      OBVIOUS
    <3>1. dcookie'[e] \in Nat /\ cookie[c] < dcookie'[e]
      BY <1>0, <1>1, <1>4 DEF Range
    <3> QED
      BY <1>0, <2>3, <3>1
  <2>5. Increasing(dcookie', submitted'[c])
    BY <1>0, <1>1, <2>1, <2>2, <2>4, IncreasingConcat
  <2> QED
    BY <1>3, <1>6, <1>10, <2>1, <2>4, <2>5 DEF CookiesDue
<1> HIDE DEF p, S, W, F
<1>11. completedCookie'[c] <= cookie'[c]
  BY <1>0, <1>2, <1>5
<1> QED
  BY <1>2, <1>6, <1>7, <1>8, <1>9, <1>10, <1>11 DEF CookiesDue, S, W, F

LEMMA IssueCookies ==
  ASSUME LayerInv, NEW c \in Chans, CookiesDue(c), IssuePending(c)
  PROVE  CookiesDue(c)'
<1>0. /\ TypeOK /\ submitted[c] \in Seq(Descs) /\ work[c] \in Seq(Descs)
  BY CookieTypes
<1>1. /\ work'[c] = work[c] \o submitted[c] /\ submitted'[c] = <<>>
      /\ UNCHANGED <<completed, cyclic, cookie, completedCookie, dcookie>>
  BY <1>0 DEF IssuePending, chanVars, cookieVars, TypeOK
<1>2. Range(work'[c]) = Range(work[c]) \cup Range(submitted[c]) /\ Range(<<>>) = {}
  BY <1>0, <1>1, ConcatOnce, RangeEmpty
<1>3. ~cyclic[c] => Increasing(dcookie, work'[c])
  BY <1>0, <1>1, IncreasingConcat DEF CookiesDue
<1>4. Increasing(dcookie, <<>>)
  BY DEF Increasing
<1>5. \A d : StillDue(c, d)' <=> StillDue(c, d)
  BY <1>1 DEF StillDue
<1> QED
  BY <1>1, <1>2, <1>3, <1>4, <1>5 DEF CookiesDue

\* The first transfer becomes the last one complete.
LEMMA HarvestCookies ==
  ASSUME Env = {}, LayerInv, NEW c \in Chans, NEW x \in Runners, Tasklet(c, x), Harvest(c, x),
         InOrder(c), CookiesDue(c), ~oops
  PROVE  CookiesDue(c)' /\ ~oops'
<1>0. /\ TypeOK /\ work[c] \in Seq(Descs) /\ submitted[c] \in Seq(Descs) /\ completed[c] \in Seq(Descs)
      /\ cookie[c] \in Nat /\ completedCookie[c] \in Nat /\ Listed(c) \subseteq Descs
      /\ (\A d \in Descs : dcookie[d] \in Nat) /\ OnceIn(c)
  BY CookieTypes, OnceNow DEF LayerInv, BaseInv
<1>1. UNCHANGED <<submitted, cyclic, cookie>>
  BY TaskletRuns DEF Harvest
<1>2. CASE UNCHANGED <<work, completed, completedCookie, dcookie, oops>>
  BY <1>1, <1>2, CookiesSame
<1>3. ASSUME NEW i \in DOMAIN work[c], FirstWith(work[c], "DONE", i),
             IF cyclic[c]
             THEN UNCHANGED <<completedCookie, dcookie, oops>>
             ELSE /\ completedCookie' = [completedCookie EXCEPT ![c] = dcookie[work[c][i]]]
                  /\ dcookie' = [dcookie EXCEPT ![work[c][i]] = 0]
                  /\ oops' = (dcookie[work[c][i]] = 0),
             work' = [work EXCEPT ![c] = RemoveAt(@, i)],
             completed' = [completed EXCEPT ![c] = Append(@, work[c][i])]
      PROVE  CookiesDue(c)' /\ ~oops'
  <2> DEFINE d == work[c][i]
             W == Range(work[c])
             S == Range(submitted[c])
             F == Range(completed[c])
  <2>1. /\ i = 1 /\ work[c] # <<>> /\ d = Head(work[c])
        /\ work'[c] = Tail(work[c]) /\ completed'[c] = Append(completed[c], d)
    BY <1>0, <1>3, RipeFirst DEF InOrder, TypeOK
  <2>2. /\ d \in Descs /\ d \in W /\ d \notin S /\ d \notin F
        /\ Range(work'[c]) = W \ {d} /\ Range(completed'[c]) = F \cup {d}
    BY <1>0, <2>1, TailOnce, AppendOnce DEF OnceIn
  <2>3. W \cup S \cup F \subseteq Descs
    BY <1>0 DEF Listed
  <2>4. StillDue(c, d)
    BY <2>2 DEF CookiesDue
  <2>5. CASE cyclic[c]
    <3>1. UNCHANGED <<completedCookie, dcookie, oops>>
      BY <1>3, <2>5
    <3>2. \A e : StillDue(c, e)' <=> StillDue(c, e)
      BY <1>1, <3>1 DEF StillDue
    <3> QED
      BY <1>1, <2>2, <2>4, <2>5, <3>1, <3>2 DEF CookiesDue
  <2>6. CASE ~cyclic[c]
    <3> HIDE DEF d
    <3>1. /\ completedCookie'[c] = dcookie[d] /\ dcookie'[d] = 0 /\ oops' = (dcookie[d] = 0)
          /\ \A e \in Descs : e # d => dcookie'[e] = dcookie[e]
      <4>1. /\ completedCookie \in [Chans -> Nat] /\ dcookie \in [Descs -> Nat]
            /\ completedCookie' = [completedCookie EXCEPT ![c] = dcookie[d]]
            /\ dcookie' = [dcookie EXCEPT ![d] = 0] /\ oops' = (dcookie[d] = 0)
        BY <1>0, <1>3, <2>6 DEF TypeOK, d
      <4> QED
        BY <2>2, <4>1
    <3>2. ~oops'
      <4>1. dcookie[d] # 0
        BY <1>0, <2>2, <2>4 DEF StillDue
      <4> QED
        BY <3>1, <4>1
    <3>3. Increasing(dcookie, work[c])
      BY <2>6 DEF CookiesDue
    <3>4. /\ DOMAIN Tail(work[c]) = 1 .. Len(work[c]) - 1 /\ Len(work[c]) \in Nat
          /\ 1 \in DOMAIN work[c] /\ d = work[c][1]
          /\ \A j \in DOMAIN Tail(work[c]) : j + 1 \in DOMAIN work[c] /\ Tail(work[c])[j] = work[c][j + 1]
      BY <1>0, <2>1, TailAt, LenProperties
    <3>5. \A e \in W \ {d} : dcookie[d] < dcookie[e]
      <4> SUFFICES ASSUME NEW j \in DOMAIN Tail(work[c]) PROVE dcookie[d] < dcookie[Tail(work[c])[j]]
        BY <2>1, <2>2 DEF Range
      <4>1. j + 1 \in DOMAIN work[c] /\ 1 < j + 1
        BY <3>4
      <4> QED
        BY <3>3, <3>4, <4>1 DEF Increasing
    <3>6. \A e \in S : dcookie[d] < dcookie[e]
      BY <2>2, <2>6 DEF CookiesDue
    <3>7. \A e \in (W \ {d}) \cup S : e \in Descs /\ e # d /\ dcookie'[e] = dcookie[e]
      BY <2>2, <2>3, <3>1
    <3>8. Increasing(dcookie', Tail(work[c]))
      <4>1. Increasing(dcookie, Tail(work[c]))
        <5> SUFFICES ASSUME NEW j \in DOMAIN Tail(work[c]), NEW k \in DOMAIN Tail(work[c]), j < k
                     PROVE  dcookie[Tail(work[c])[j]] < dcookie[Tail(work[c])[k]]
          BY DEF Increasing
        <5>1. j + 1 \in DOMAIN work[c] /\ k + 1 \in DOMAIN work[c] /\ j + 1 < k + 1
          BY <3>4
        <5> QED
          BY <3>3, <3>4, <5>1 DEF Increasing
      <4>2. Range(Tail(work[c])) = W \ {d}
        BY <2>1, <2>2
      <4> QED
        BY <3>7, <4>1, <4>2, SameNumbers
    <3>9. Increasing(dcookie', submitted[c])
      BY <2>6, <3>7, SameNumbers DEF CookiesDue
    <3>10. \A e \in (W \ {d}) \cup S : StillDue(c, e)'
      <4> SUFFICES ASSUME NEW e \in (W \ {d}) \cup S PROVE StillDue(c, e)'
        OBVIOUS
      <4>1. dcookie[e] <= cookie[c] /\ dcookie[d] < dcookie[e]
        BY <3>5, <3>6 DEF CookiesDue, StillDue
      <4> QED
        BY <1>1, <3>1, <3>7, <4>1 DEF StillDue
    <3>11. \A e \in F \cup {d} : dcookie'[e] = 0
      BY <2>2, <2>3, <2>6, <3>1 DEF CookiesDue
    <3>12. completedCookie'[c] <= cookie'[c]
      BY <1>1, <2>4, <3>1 DEF StillDue
    <3>13. \A e \in W \ {d}, g \in S : dcookie'[e] < dcookie'[g]
      BY <2>6, <3>7 DEF CookiesDue
    <3>14. Range(work'[c]) = W \ {d} /\ Range(completed'[c]) = F \cup {d} /\ Range(submitted'[c]) = S
           /\ submitted'[c] = submitted[c] /\ work'[c] = Tail(work[c]) /\ ~cyclic'[c]
      BY <1>1, <2>1, <2>2, <2>6 DEF d
    <3> HIDE DEF W, S, F
    <3> QED
      BY <3>2, <3>8, <3>9, <3>10, <3>11, <3>12, <3>13, <3>14 DEF CookiesDue
  <2> QED
    BY <2>5, <2>6
<1> QED
  BY <1>2, <1>3 DEF Harvest

LEMMA FinishCookies ==
  ASSUME Env = {}, LayerInv, NEW c \in Chans, NEW x \in Runners, Tasklet(c, x), Finish(c, x), CookiesDue(c)
  PROVE  CookiesDue(c)'
<1>0. /\ TypeOK /\ work[c] \in Seq(Descs) /\ completed[c] \in Seq(Descs) /\ OnceIn(c)
  BY CookieTypes, OnceNow DEF LayerInv, BaseInv
<1>1. UNCHANGED <<submitted, cyclic, cookie, completedCookie, dcookie>>
  BY TaskletRuns DEF Finish, cookieVars
<1>2. CASE UNCHANGED <<work, completed>>
  BY <1>1, <1>2, CookiesSame
<1>3. CASE completed[c] # <<>>
  <2> DEFINE d == Head(completed[c])
  <2>1. d \in Descs /\ d \in Range(completed[c]) /\ Range(Tail(completed[c])) = Range(completed[c]) \ {d}
    BY <1>0, <1>3, TailOnce DEF OnceIn
  <2>2. /\ completed'[c] = Tail(completed[c])
        /\ work'[c] = IF cyclic[c] THEN Append(work[c], d) ELSE work[c]
    BY <1>0, <1>3 DEF Finish, TypeOK
  <2>3. Range(Append(work[c], d)) = Range(work[c]) \cup {d}
    BY <1>0, <2>1, AppendOnce
  <2>4. \A e : StillDue(c, e)' <=> StillDue(c, e)
    BY <1>1 DEF StillDue
  <2> HIDE DEF d
  <2>5. CASE cyclic[c]
    BY <1>1, <2>1, <2>2, <2>3, <2>4, <2>5 DEF CookiesDue
  <2>6. CASE ~cyclic[c]
    BY <1>1, <2>1, <2>2, <2>4, <2>6 DEF CookiesDue
  <2> QED
    BY <2>5, <2>6
<1> QED
  BY <1>2, <1>3 DEF Finish

LEMMA TaskletCookies ==
  ASSUME Env = {}, LayerInv, NEW c \in Chans, NEW x \in Runners, Tasklet(c, x),
         InOrder(c), CookiesDue(c), ~oops
  PROVE  CookiesDue(c)' /\ ~oops'
<1>0. thread[c] # -1 /\ TypeOK
  BY TaskletRuns DEF LayerInv, BaseInv
<1>1. CASE Enter(c, x) \/ FillQueue(c, x) \/ Hook(c, x) \/ StartChan(c, x) \/ Resume(c, x)
  <2>1. UNCHANGED <<listVars, chanVars, cookieVars>>
    BY <1>1 DEF Enter, FillQueue, Hook, StartChan, Resume
  <2>2. ~oops'
    <3>1. CASE FillQueue(c, x)
      BY <1>0, <3>1 DEF FillQueue
    <3>2. CASE StartChan(c, x)
      BY <1>0, <3>2 DEF StartChan
    <3>3. CASE Enter(c, x) \/ Hook(c, x) \/ Resume(c, x)
      BY <3>3 DEF Enter, Hook, Resume
    <3> QED
      BY <1>1, <3>1, <3>2, <3>3
  <2> QED
    BY <2>1, <2>2, CookiesSame DEF listVars, chanVars, cookieVars
<1>2. CASE Finish(c, x)
  BY <1>2, FinishCookies DEF Finish
<1> QED
  BY <1>1, <1>2, HarvestCookies DEF Tasklet

\* Everything is dropped: no cookie the channel has given out is due any more.
LEMMA TerminateAllCookies ==
  ASSUME LayerInv, NEW c \in Chans, CookiesDue(c), TerminateAll(c)
  PROVE  /\ CookiesDue(c)' /\ ~oops'
         /\ completedCookie[c] <= completedCookie'[c] /\ completedCookie'[c] <= cookie[c]
<1> DEFINE m == Marked(c)
<1>0. /\ TypeOK /\ cookie[c] \in Nat /\ completedCookie[c] \in Nat
      /\ (\A d \in Descs : dcookie[d] \in Nat) /\ completedCookie \in [Chans -> Nat]
      /\ m \in Seq(Descs) /\ Range(m) \subseteq Descs
      /\ Range(m) = Range(submitted[c]) \cup Range(work[c]) \cup Range(completed[c])
  BY CookieTypes, MarkedType, RangeEmpty DEF TypeOK
<1>1. Range(completed[c]) = {}
  <2>1. completed[c] = <<>>
    BY DEF TerminateAll, Passes, LayerInv, Layer, Terminating, TerminatingOf
  <2> QED
    BY <2>1, RangeEmpty, <<>> \in Seq(Descs)
<1>2. \A d \in Range(m) : StillDue(c, d)
  BY <1>0, <1>1 DEF CookiesDue
<1> HIDE DEF m
<1>3. ~oops'
  BY <1>0, <1>2 DEF TerminateAll, StillDue, m
<1>4. completedCookie[c] <= completedCookie'[c] /\ completedCookie'[c] <= cookie[c]
  <2>1. CASE m = <<>>
    BY <1>0, <2>1 DEF TerminateAll, CookiesDue, m
  <2>2. CASE m # <<>>
    <3>1. Last(m) \in Range(m)
      BY <1>0, <2>2, LenProperties, EmptySeq DEF Last, Range
    <3>2. completedCookie'[c] = dcookie[Last(m)]
      BY <1>0, <2>2 DEF TerminateAll, m
    <3> QED
      BY <1>0, <1>2, <3>1, <3>2 DEF StillDue
  <2> QED
    BY <2>1, <2>2
<1>5. cookie' = cookie /\ submitted'[c] = <<>> /\ work'[c] = <<>> /\ completed'[c] = <<>>
  BY <1>0 DEF TerminateAll, TypeOK
<1> QED
  BY <1>3, <1>4, <1>5, NoCookies

LEMMA ClientCookies ==
  ASSUME Env = {}, LayerInv, NEW c \in Chans, Client(c), CookiesDue(c), ~oops
  PROVE  CookiesDue(c)' /\ ~oops'
<1>0. /\ TypeOK /\ work[c] \in Seq(Descs) /\ submitted[c] \in Seq(Descs) /\ completed[c] \in Seq(Descs)
      /\ Listed(c) \subseteq Descs /\ cookie[c] \in Nat
  BY CookieTypes
<1>1. CASE AllocChan(c)
  <2>1. Listed(c) = {} /\ UNCHANGED <<work, submitted, completed>>
    BY <1>1 DEF AllocChan, listVars, LayerInv, Layer, Acquired
  <2>2. work[c] = <<>> /\ submitted[c] = <<>> /\ completed[c] = <<>>
    BY <1>0, <2>1, RangeEmpty DEF Listed
  <2>3. completedCookie'[c] <= cookie'[c] /\ ~oops'
    BY <1>0, <1>1 DEF AllocChan, TypeOK
  <2> QED
    BY <2>1, <2>2, <2>3, NoCookies
<1>2. CASE FreeChan(c)
  <2>1. work'[c] = <<>> /\ submitted'[c] = <<>> /\ completed'[c] = <<>>
    BY <1>0, <1>2 DEF FreeChan, TypeOK
  <2>2. completedCookie'[c] <= cookie'[c] /\ ~oops'
    BY <1>2 DEF FreeChan, cookieVars, CookiesDue
  <2> QED
    BY <2>1, <2>2, NoCookies
<1>3. ASSUME NEW n \in Nat, Prep(c, n) PROVE \A d \in Listed(c) : dcookie'[d] = dcookie[d]
  <2> SUFFICES ASSUME NEW d \in Listed(c) PROVE dcookie'[d] = dcookie[d]
    OBVIOUS
  <2>1. d \notin Range(pool) /\ d \in Descs
    BY <1>0, Apart DEF LayerInv, BaseInv
  <2>2. d \notin Range(Chain(n))
    BY <1>0, <1>3, <2>1, ChainType DEF Prep
  <2> QED
    BY <1>3, <2>1, <2>2 DEF Prep
<1>4. CASE PrepSg(c)
  <2>1. PICK n \in Nat : Prep(c, n)
    BY <1>4 DEF PrepSg
  <2>2. UNCHANGED <<submitted, work, completed, cyclic, cookie, completedCookie, oops>>
    BY <1>4, <2>1 DEF PrepSg, Prep
  <2> QED
    BY <1>3, <2>1, <2>2, CookiesSame DEF Listed
<1>5. CASE PrepCyclic(c)
  <2>1. work'[c] = <<>> /\ submitted'[c] = <<>> /\ completed'[c] = <<>>
        /\ UNCHANGED <<cookie, completedCookie, oops>>
    BY <1>5 DEF PrepCyclic, Prep
  <2> QED
    BY <2>1, NoCookies DEF CookiesDue
<1>6. CASE (\E cmd \in {"terminate", "pause"} : Command(c, cmd)) \/ Terminate(c) \/ TxStatus(c)
  <2>1. UNCHANGED <<submitted, work, completed, cyclic, cookie, completedCookie, dcookie, oops>>
    BY <1>6 DEF Command, Terminate, TxStatus, listVars, chanVars, cookieVars
  <2> QED
    BY <2>1, CookiesSame
<1>7. ~Pause(c) /\ ~PauseRequest(c)
  BY DEF Pause, PauseRequest, PauseStop, PauseDetach
<1>8. TxSubmit(c) \/ IssuePending(c) => oops' = oops
  BY DEF TxSubmit, IssuePending
<1> QED
  BY <1>1, <1>2, <1>4, <1>5, <1>6, <1>7, <1>8, SubmitCookies, IssueCookies, TerminateAllCookies DEF Client

-----------------------------------------------------------------------------
(* An orderly environment: the invariant of the channels                    *)

LEMMA EngineInit == Init => EngineInv
<1> SUFFICES ASSUME Init PROVE EngineInv
  OBVIOUS
<1>1. LayerInv /\ ~oops
  BY LayerInit DEF Init
<1>2. Range(<<>>) = {}
  BY RangeEmpty, <<>> \in Seq(Descs)
<1>3. ASSUME NEW c \in Chans PROVE InOrder(c) /\ CookiesDue(c)
  <2>1. /\ work[c] = <<>> /\ submitted[c] = <<>> /\ completed[c] = <<>> /\ thread[c] = -1
        /\ cookie[c] = 0 /\ completedCookie[c] = 0 /\ Due = {}
    BY CoreAssumption DEF Init, CoreInit, Due
  <2>2. InOrder(c)
    BY <2>1 DEF InOrder, Sorted, InTurn, DueFirst
  <2>3. CookiesDue(c)
    BY <1>2, <2>1 DEF CookiesDue, Increasing
  <2> QED
    BY <2>2, <2>3
<1> QED
  BY <1>1, <1>3 DEF EngineInv

LEMMA EngineStep ==
  ASSUME Env = {}
  PROVE  EngineInv /\ [Next]_vars => EngineInv'
<1> SUFFICES ASSUME EngineInv, [Next]_vars PROVE EngineInv'
  OBVIOUS
<1>0. LayerInv /\ ~oops /\ \A c \in Chans : InOrder(c) /\ CookiesDue(c)
  BY DEF EngineInv
<1>1. LayerInv'
  BY <1>0, LayerStep
<1>2. ASSUME NEW c \in Chans, Client(c) \/ \E x \in Runners : Tasklet(c, x)
      PROVE  ~oops' /\ \A b \in Chans : InOrder(b)' /\ CookiesDue(b)'
  <2>1. \A b \in Chans : b # c => InOrder(b)' /\ CookiesDue(b)'
    BY <1>0, <1>2, OthersKept, OrderKept, CookiesKept
  <2>2. InOrder(c)'
    BY <1>0, <1>2, ClientOrder, TaskletOrder
  <2>3. CookiesDue(c)' /\ ~oops'
    BY <1>0, <1>2, ClientCookies, TaskletCookies
  <2> QED
    BY <2>1, <2>2, <2>3
<1>3. CASE Interrupt \/ Recovery \/ \E t \in Threads : Transfer(t) \/ Fault(t)
  <2>1. \A c \in Chans : InOrder(c)'
    BY <1>0, <1>3, CoreOrder
  <2>2. ASSUME NEW c \in Chans
        PROVE  UNCHANGED <<submitted, work, completed, cyclic, cookie, completedCookie, dcookie, oops>>
    BY <1>3, CoreStepKeeps
  <2>3. \A c \in Chans : CookiesDue(c)'
    BY <1>0, <2>2, CookiesSame
  <2>4. oops' = oops
    BY <1>3, CoreStepLayer
  <2> QED
    BY <1>0, <1>1, <2>1, <2>3, <2>4 DEF EngineInv
<1>4. CASE UNCHANGED vars
  <2>1. /\ UNCHANGED <<coreVars, listVars, chanVars, cookieVars, txVars, oops>>
    BY <1>4 DEF vars, layerVars
  <2>2. \A c \in Chans : Kept(c) /\ es' = es /\ Due' = Due /\ owner' = owner
    BY <2>1, SameCore DEF Kept, SameLists, DescKept, ThreadKept, listVars, chanVars, cookieVars, txVars
  <2>3. \A c \in Chans : InOrder(c)' /\ CookiesDue(c)'
    BY <1>0, <2>2, OrderKept, CookiesKept
  <2> QED
    BY <1>0, <1>1, <2>1, <2>3 DEF EngineInv
<1>5. EngineInv' <=> LayerInv' /\ ~oops' /\ \A c \in Chans : InOrder(c)' /\ CookiesDue(c)'
  BY DEF EngineInv
<1> QED
  BY <1>1, <1>2, <1>3, <1>4, <1>5 DEF Next

LEMMA EngineAlways == ASSUME Env = {} PROVE Spec => []EngineInv
<1>1. EngineInv /\ [Next]_vars => EngineInv'
  BY EngineStep
<1> QED
  BY EngineInit, <1>1, PTL DEF Spec

\* In an orderly environment no path reaches a BUG_ON of the cookie helpers, or a
\* thread that was given back.
THEOREM NoOopsAlways == ASSUME Env = {} PROVE Spec => []NoOops
<1>1. EngineInv => NoOops
  BY DEF EngineInv, NoOops
<1> QED
  BY <1>1, EngineAlways, PTL

-----------------------------------------------------------------------------
(* An orderly environment: a channel is one of a DMA engine                 *)

\* A list as the engine sees it.
Transfers(f, l) == [i \in DOMAIN l |-> [item |-> l[i], cookie |-> f[l[i]]]]
TransferSet == [item : Descs, cookie : Nat]

LEMMA TransfersType ==
  ASSUME NEW f \in [Descs -> Nat], NEW a \in Seq(Descs)
  PROVE  /\ Transfers(f, a) \in Seq(TransferSet) /\ Len(Transfers(f, a)) = Len(a)
         /\ DOMAIN Transfers(f, a) = DOMAIN a /\ DOMAIN a = 1 .. Len(a) /\ Len(a) \in Nat
         /\ \A i \in DOMAIN a : Transfers(f, a)[i] = [item |-> a[i], cookie |-> f[a[i]]]
<1>1. DOMAIN a = 1 .. Len(a) /\ Len(a) \in Nat /\ \A i \in 1 .. Len(a) : a[i] \in Descs
  BY LenProperties, ElementOfSeq
<1>2. Transfers(f, a) = [i \in 1 .. Len(a) |-> [item |-> a[i], cookie |-> f[a[i]]]]
  BY <1>1 DEF Transfers
<1>3. \A i \in 1 .. Len(a) : [item |-> a[i], cookie |-> f[a[i]]] \in TransferSet
  BY <1>1 DEF TransferSet
<1>4. Transfers(f, a) \in [1 .. Len(a) -> TransferSet]
  BY <1>2, <1>3
<1>5. Transfers(f, a) \in Seq(TransferSet)
  BY <1>1, <1>4
<1>6. Len(Transfers(f, a)) = Len(a)
  BY <1>1, <1>4, <1>5, LenProperties
<1> QED
  BY <1>1, <1>2, <1>5, <1>6

\* It is empty if the list is,
LEMMA TransfersEmpty ==
  ASSUME NEW f \in [Descs -> Nat]
  PROVE  Transfers(f, <<>>) = <<>>
<1>1. <<>> \in Seq(Descs) /\ Len(<<>>) = 0
  BY EmptySeq
<1>2. Transfers(f, <<>>) \in Seq(TransferSet) /\ Len(Transfers(f, <<>>)) = 0
  BY <1>1, TransfersType
<1> QED
  BY <1>2, EmptySeq

\* ... grows with it,
LEMMA TransfersConcat ==
  ASSUME NEW f \in [Descs -> Nat], NEW a \in Seq(Descs), NEW b \in Seq(Descs)
  PROVE  Transfers(f, a \o b) = Transfers(f, a) \o Transfers(f, b)
<1> DEFINE A == Transfers(f, a)
           B == Transfers(f, b)
           C == Transfers(f, a \o b)
<1>1. /\ a \o b \in Seq(Descs) /\ Len(a \o b) = Len(a) + Len(b)
      /\ \A i \in 1 .. Len(a) + Len(b) : (a \o b)[i] = IF i <= Len(a) THEN a[i] ELSE b[i - Len(a)]
  BY ConcatProperties
<1>2. /\ A \in Seq(TransferSet) /\ Len(A) = Len(a) /\ Len(a) \in Nat
      /\ \A i \in 1 .. Len(a) : A[i] = [item |-> a[i], cookie |-> f[a[i]]]
  BY TransfersType
<1>3. /\ B \in Seq(TransferSet) /\ Len(B) = Len(b) /\ Len(b) \in Nat
      /\ \A i \in 1 .. Len(b) : B[i] = [item |-> b[i], cookie |-> f[b[i]]]
  BY TransfersType
<1>4. /\ C \in Seq(TransferSet) /\ Len(C) = Len(a) + Len(b)
      /\ \A i \in 1 .. Len(a) + Len(b) : C[i] = [item |-> (a \o b)[i], cookie |-> f[(a \o b)[i]]]
  BY <1>1, TransfersType
<1> HIDE DEF A, B, C
<1>5. /\ A \o B \in Seq(TransferSet) /\ Len(A \o B) = Len(a) + Len(b)
      /\ \A i \in 1 .. Len(a) + Len(b) : (A \o B)[i] = IF i <= Len(a) THEN A[i] ELSE B[i - Len(a)]
  <2>1. /\ A \o B \in Seq(TransferSet) /\ Len(A \o B) = Len(A) + Len(B)
        /\ \A i \in 1 .. Len(A) + Len(B) : (A \o B)[i] = IF i <= Len(A) THEN A[i] ELSE B[i - Len(A)]
    <3>1. A \in Seq(TransferSet) /\ B \in Seq(TransferSet)
      BY <1>2, <1>3
    <3> QED
      BY ONLY <3>1, ConcatProperties
  <2> QED
    BY <1>2, <1>3, <2>1
<1>6. ASSUME NEW i \in 1 .. Len(a) + Len(b) PROVE C[i] = (A \o B)[i]
  <2>1. CASE i <= Len(a)
    BY <1>1, <1>2, <1>4, <1>5, <2>1
  <2>2. CASE i > Len(a)
    <3>1. i - Len(a) \in 1 .. Len(b)
      BY <1>2, <1>3, <2>2
    <3>2. (a \o b)[i] = b[i - Len(a)] /\ (A \o B)[i] = B[i - Len(a)]
      BY <1>1, <1>2, <1>5, <2>2
    <3> QED
      BY <1>3, <1>4, <3>1, <3>2
  <2> QED
    BY <1>2, <1>3, <2>1, <2>2
<1> QED
  BY <1>4, <1>5, <1>6, SeqEqual DEF A, B, C

\* ... by one transfer,
LEMMA TransfersAppend ==
  ASSUME NEW f \in [Descs -> Nat], NEW a \in Seq(Descs), NEW d \in Descs
  PROVE  Transfers(f, Append(a, d)) = Append(Transfers(f, a), [item |-> d, cookie |-> f[d]])
<1> DEFINE A == Transfers(f, a)
           C == Transfers(f, Append(a, d))
           r == [item |-> d, cookie |-> f[d]]
<1>1. /\ Append(a, d) \in Seq(Descs) /\ Len(Append(a, d)) = Len(a) + 1
      /\ \A i \in 1 .. Len(a) : Append(a, d)[i] = a[i]
      /\ Append(a, d)[Len(a) + 1] = d
  BY AppendProperties
<1>2. /\ A \in Seq(TransferSet) /\ Len(A) = Len(a) /\ Len(a) \in Nat
      /\ \A i \in 1 .. Len(a) : A[i] = [item |-> a[i], cookie |-> f[a[i]]]
  BY TransfersType
<1>3. /\ C \in Seq(TransferSet) /\ Len(C) = Len(a) + 1
      /\ \A i \in 1 .. Len(a) + 1 : C[i] = [item |-> Append(a, d)[i], cookie |-> f[Append(a, d)[i]]]
  BY <1>1, TransfersType
<1>4. r \in TransferSet
  BY DEF TransferSet
<1> HIDE DEF A, C, r
<1>5. /\ Append(A, r) \in Seq(TransferSet) /\ Len(Append(A, r)) = Len(a) + 1
      /\ \A i \in 1 .. Len(a) : Append(A, r)[i] = A[i]
      /\ Append(A, r)[Len(a) + 1] = r
  <2>1. /\ Append(A, r) \in Seq(TransferSet) /\ Len(Append(A, r)) = Len(A) + 1
        /\ \A i \in 1 .. Len(A) : Append(A, r)[i] = A[i]
        /\ Append(A, r)[Len(A) + 1] = r
    BY <1>2, <1>4, AppendProperties
  <2> QED
    BY <1>2, <2>1
<1>6. ASSUME NEW i \in 1 .. Len(a) + 1 PROVE C[i] = Append(A, r)[i]
  <2>1. CASE i \in 1 .. Len(a)
    BY <1>1, <1>2, <1>3, <1>5, <2>1
  <2>2. CASE i = Len(a) + 1
    BY <1>1, <1>3, <1>5, <2>2 DEF r
  <2> QED
    BY <1>2, <2>1, <2>2
<1> QED
  BY <1>3, <1>5, <1>6, SeqEqual DEF A, C, r

\* ... and loses its first with it.
LEMMA TransfersTail ==
  ASSUME NEW f \in [Descs -> Nat], NEW a \in Seq(Descs), a # <<>>
  PROVE  /\ Transfers(f, a) # <<>>
         /\ Head(Transfers(f, a)) = [item |-> Head(a), cookie |-> f[Head(a)]]
         /\ Transfers(f, Tail(a)) = Tail(Transfers(f, a))
<1> DEFINE A == Transfers(f, a)
           C == Transfers(f, Tail(a))
<1>1. /\ 1 \in DOMAIN a /\ Head(a) = a[1] /\ Tail(a) \in Seq(Descs) /\ Len(Tail(a)) = Len(a) - 1
      /\ DOMAIN Tail(a) = 1 .. Len(a) - 1
      /\ \A i \in DOMAIN Tail(a) : i + 1 \in DOMAIN a /\ Tail(a)[i] = a[i + 1]
  BY TailAt
<1>2. /\ A \in Seq(TransferSet) /\ Len(A) = Len(a) /\ Len(a) \in Nat /\ DOMAIN A = DOMAIN a
      /\ \A i \in DOMAIN a : A[i] = [item |-> a[i], cookie |-> f[a[i]]]
  BY TransfersType
<1>3. /\ C \in Seq(TransferSet) /\ Len(C) = Len(a) - 1
      /\ \A i \in DOMAIN Tail(a) : C[i] = [item |-> Tail(a)[i], cookie |-> f[Tail(a)[i]]]
  BY <1>1, TransfersType
<1> HIDE DEF A, C
<1>4. A # <<>>
  BY <1>1, <1>2
<1>5. /\ Head(A) = A[1] /\ Tail(A) \in Seq(TransferSet) /\ Len(Tail(A)) = Len(a) - 1
      /\ \A i \in DOMAIN Tail(a) : Tail(A)[i] = A[i + 1]
  BY <1>1, <1>2, <1>4, TailAt
<1>6. ASSUME NEW i \in 1 .. Len(a) - 1 PROVE C[i] = Tail(A)[i]
  <2>1. i \in DOMAIN Tail(a) /\ i + 1 \in DOMAIN a /\ Tail(a)[i] = a[i + 1]
    BY <1>1
  <2>2. A[i + 1] = [item |-> Tail(a)[i], cookie |-> f[Tail(a)[i]]]
    BY <1>2, <2>1
  <2> QED
    BY <1>3, <1>5, <2>1, <2>2
<1>7. C = Tail(A)
  BY <1>3, <1>5, <1>6, SeqEqual
<1>8. Head(A) = [item |-> Head(a), cookie |-> f[Head(a)]]
  BY <1>1, <1>2, <1>5
<1> QED
  BY <1>4, <1>7, <1>8 DEF A, C

\* Only the cookies of what it holds matter.
LEMMA TransfersSame ==
  ASSUME NEW f, NEW g, NEW l, \A d \in Range(l) : g[d] = f[d]
  PROVE  Transfers(g, l) = Transfers(f, l)
  BY DEF Transfers, Range

\* The channel the engine sees, before a step and after it.
LEMMA ChannelNow ==
  ASSUME NEW c
  PROVE  /\ EngineChannel(c) =
              [waiting |-> Transfers(dcookie, submitted[c]), active |-> Transfers(dcookie, work[c]),
               moved |-> moved \cap Range(work[c]), finished |-> Transfers(dcookie, completed[c]),
               cyclic |-> cyclic[c], given |-> cookie[c], done |-> completedCookie[c]]
         /\ EngineChannel(c)' =
              [waiting |-> Transfers(dcookie', submitted'[c]), active |-> Transfers(dcookie', work'[c]),
               moved |-> moved' \cap Range(work'[c]), finished |-> Transfers(dcookie', completed'[c]),
               cyclic |-> cyclic'[c], given |-> cookie'[c], done |-> completedCookie'[c]]
  BY DEF EngineChannel, Transfers

\* The engine sees nothing of a step that leaves the channel's lists, their cookies
\* and their data alone.
LEMMA NothingSeen ==
  ASSUME NEW c \in Chans,
         submitted'[c] = submitted[c], work'[c] = work[c], completed'[c] = completed[c],
         cyclic'[c] = cyclic[c], cookie'[c] = cookie[c], completedCookie'[c] = completedCookie[c],
         \A d \in Range(submitted[c]) \cup Range(work[c]) \cup Range(completed[c]) : dcookie'[d] = dcookie[d],
         \A d \in Range(work[c]) : d \in moved' <=> d \in moved
  PROVE  EngineChannel(c)' = EngineChannel(c)
<1>1. /\ Transfers(dcookie', submitted[c]) = Transfers(dcookie, submitted[c])
      /\ Transfers(dcookie', work[c]) = Transfers(dcookie, work[c])
      /\ Transfers(dcookie', completed[c]) = Transfers(dcookie, completed[c])
  BY TransfersSame
<1>2. moved' \cap Range(work[c]) = moved \cap Range(work[c])
  OBVIOUS
<1> QED
  BY <1>1, <1>2, ChannelNow

\* The data of the first transfer that is due is moved: the request a thread carries
\* out is the first of its channel's that was not moved.
LEMMA SevMoves ==
  ASSUME EngineInv, NEW c \in Chans, NEW t \in Threads, HwSev(t), UNCHANGED layerVars
  PROVE  Engine(c)!Move \/ EngineChannel(c)' = EngineChannel(c)
<1> DEFINE d == hwDesc[t]
<1>0. /\ LayerInv /\ InOrder(c) /\ CoreTypeOK /\ Statuses /\ OrderlyInv
      /\ UNCHANGED <<submitted, work, completed, cyclic, cookie, completedCookie, dcookie>>
  BY DEF EngineInv, LayerInv, BaseInv, TypeOK, Layer, layerVars, listVars, chanVars, cookieVars
<1>1. /\ hw[t] = "executing" /\ moved' = moved \cup {d} /\ moved \in SUBSET Descs
  BY <1>0 DEF HwSev, CoreTypeOK
<1>2. /\ running[t] \in Slots /\ req[t][running[t]] = d /\ d \notin moved /\ d \in Descs /\ d # NULL
  BY <1>0, <1>1, CoreAssumption DEF OrderlyInv, Orderly, ExecutesHooked, OwnInv, TypeInv, ExecutesRequest,
     CoreTypeOK
<1>3. PICK b \in Chans : thread[b] = t /\ d \in Range(work[b]) /\ status[d] = "BUSY" /\ owner[d] = b
  BY <1>0, <1>2, HookedIn
<1>4. CASE b # c
  <2>1. d \notin Listed(c)
    BY <1>0, <1>3, <1>4, Apart DEF Listed, LayerInv, BaseInv
  <2>2. \A e \in Range(work[c]) : e \in moved' <=> e \in moved
    BY <1>1, <2>1 DEF Listed
  <2> QED
    BY <1>0, <2>2, NothingSeen
<1>5. CASE b = c
  <2>1. /\ work[c] \in Seq(Descs) /\ DOMAIN work[c] = 1 .. Len(work[c]) /\ Len(work[c]) \in Nat
        /\ \A i \in DOMAIN work[c] : work[c][i] \in Descs /\ work[c][i] \in Range(work[c])
        /\ IsInjective(work[c])
    BY <1>0, WorkList
  <2>2. PICK n \in DOMAIN work[c] : work[c][n] = d
    BY <1>3, <1>5 DEF Range
  <2>3. ASSUME NEW j \in 1 .. n - 1 PROVE j \in DOMAIN work[c] /\ work[c][j] \in moved
    <3> DEFINE e == work[c][j]
    <3>1. j \in DOMAIN work[c] /\ j < n
      BY <2>1, <2>3
    <3>2. e \in Descs /\ e \in Range(work[c]) /\ e # d
      BY <2>1, <2>2, <3>1 DEF IsInjective
    <3>3. status[e] # "PREP" /\ status[e] # "FREE"
      BY <1>0, <1>3, <1>5, <2>2, <3>1, <3>2 DEF InOrder, Sorted, Statuses, StatusesOf
    <3>4. CASE status[e] = "DONE"
      <4>1. e \in moved
        BY <1>0, <3>2, <3>4 DEF Statuses, StatusesOf
      <4> QED
        BY <3>1, <4>1
    <3>5. CASE status[e] = "BUSY"
      <4>1. CASE e \in Due
        <5>1. e \in moved
          BY <1>0, <4>1, DueIn
        <5> QED
          BY <3>1, <5>1
      <4>2. CASE e \notin Due
        <5>1. PICK u \in Threads, s \in Slots : req[u][s] = e
          BY <1>0, <3>2, <3>5, <4>2 DEF OrderlyInv, Orderly, BusyInSlot
        <5>2. e # NULL /\ owner[e] = c
          <6>1. e \in Listed(c)
            BY <3>2 DEF Listed
          <6> QED
            BY <1>0, <3>2, <6>1, CoreAssumption DEF Statuses, StatusesOf
        <5>3. u = t /\ thread[c] = t /\ t # -1
          BY <1>0, <1>3, <1>5, <5>1, <5>2, HookedIn, ThreadOf DEF Threads
        <5>4. s # running[t] /\ QueueFull(t) /\ Engaged(t)
          BY <1>1, <1>2, <3>2, <5>1, <5>2, <5>3 DEF QueueFull, Slots, Engaged
        <5>5. lstenq[t] \in Slots /\ running[t] = 1 - lstenq[t]
          BY <1>0, <5>3, <5>4 DEF InOrder, InTurn, CoreTypeOK
        <5>6. s = lstenq[t]
          BY <1>2, <5>4, <5>5 DEF Slots
        <5>7. n < j
          BY <1>0, <1>2, <2>2, <3>1, <5>1, <5>3, <5>4, <5>5, <5>6 DEF InOrder, InTurn
        <5> QED
          BY <2>1, <3>1, <5>7
      <4> QED
        BY <4>1, <4>2
    <3> QED
      BY <1>0, <3>2, <3>3, <3>4, <3>5 DEF CoreTypeOK
  <2>4. moved' \cap Range(work[c]) = (moved \cap Range(work[c])) \cup {d}
    BY <1>1, <1>3, <1>5
  <2>5. EngineChannel(c)' = [EngineChannel(c) EXCEPT !.moved = @ \cup {d}]
    BY <1>0, <2>4, ChannelNow
  <2>6. /\ EngineChannel(c).active = Transfers(dcookie, work[c])
        /\ EngineChannel(c).moved = moved \cap Range(work[c])
    BY ChannelNow
  <2>7. /\ DOMAIN EngineChannel(c).active = DOMAIN work[c]
        /\ \A i \in DOMAIN work[c] : EngineChannel(c).active[i].item = work[c][i]
    BY <2>6 DEF Transfers
  <2>8. /\ n \in DOMAIN EngineChannel(c).active
        /\ EngineChannel(c).active[n].item = d /\ d \notin EngineChannel(c).moved
        /\ \A j \in 1 .. n - 1 : EngineChannel(c).active[j].item \in EngineChannel(c).moved
    BY <1>2, <2>1, <2>2, <2>3, <2>6, <2>7
  <2> QED
    BY <2>5, <2>8 DEF Engine!Move
<1> QED
  BY <1>4, <1>5

\* The other steps of the core are not seen.
LEMMA CoreSeen ==
  ASSUME Env = {}, EngineInv, NEW c \in Chans,
         Interrupt \/ Recovery \/ \E t \in Threads : Transfer(t) \/ Fault(t)
  PROVE  Engine(c)!Move \/ EngineChannel(c)' = EngineChannel(c)
<1>0. NoFault /\ UNCHANGED <<submitted, work, completed, cyclic, cookie, completedCookie, dcookie>>
  BY CoreStepKeeps DEF EngineInv, LayerInv, OrderlyInv, Orderly
<1>1. CASE Interrupt
  <2>1. moved' = moved
    BY <1>1 DEF Interrupt, UpdateCrash, UpdateEvents, UpdateList, UpdateExit, UpdateRqcb, descVars
  <2> QED
    BY <1>0, <2>1, NothingSeen
<1>2. CASE Recovery
  BY <1>0, <1>2 DEF Recovery, NoFault, DotaskBegin, DotaskRead, DotaskClear, DotaskRqcb
<1>3. ASSUME NEW t \in Threads, Transfer(t)
      PROVE  Engine(c)!Move \/ EngineChannel(c)' = EngineChannel(c)
  <2>1. CASE HwEnd(t)
    <3>1. moved' = moved
      BY <2>1 DEF HwEnd, descVars
    <3> QED
      BY <1>0, <3>1, NothingSeen
  <2> QED
    BY <1>3, <2>1, SevMoves DEF Transfer
<1> QED
  BY <1>1, <1>2, <1>3 DEF Fault, HwFault

\* What the engine sees of the channel's own steps: its transfers are submitted,
LEMMA SubmitSeen ==
  ASSUME EngineInv, EngineInv', NEW c \in Chans, TxSubmit(c)
  PROVE  Engine(c)!Next
<1> DEFINE p == prepped[c]
<1>0. /\ LayerInv /\ OnceIn(c) /\ p \in Seq(Descs) /\ p # <<>>
      /\ submitted[c] \in Seq(Descs) /\ Listed(c) \subseteq Descs
      /\ dcookie \in [Descs -> Nat] /\ dcookie' \in [Descs -> Nat]
  BY CookieTypes, OnceNow DEF EngineInv, LayerInv, BaseInv, TypeOK, TxSubmit
<1>1. /\ \A i \in DOMAIN p : dcookie'[p[i]] = cookie[c] + i
      /\ \A d \in Descs : d \notin Range(p) => dcookie'[d] = dcookie[d]
      /\ cookie'[c] = cookie[c] + Len(p) /\ submitted'[c] = submitted[c] \o p
  BY <1>0, Numbered
<1>2. /\ UNCHANGED <<coreVars, work, completed, cyclic, completedCookie>>
  BY DEF TxSubmit, chanVars
<1>3. \A d \in Range(submitted[c]) \cup Range(work[c]) \cup Range(completed[c]) : dcookie'[d] = dcookie[d]
  BY <1>0, <1>1 DEF OnceIn, Listed
<1>4. p \in Engine(c)!Chains
  <2>1. Len(p) \in Nat \ {0} /\ Len(p) <= ChainBound /\ ChainBound \in Nat /\ p \in [1 .. Len(p) -> Descs]
    BY <1>0, LenProperties, EmptySeq, ChannelAssumption DEF LayerInv, Layer, ShortChains, ChainBound
  <2>2. Len(p) \in 1 .. ChainBound
    BY <2>1
  <2>3. IsInjective(p)
    BY <1>0 DEF OnceIn
  <2> HIDE DEF p
  <2> QED
    BY <2>1, <2>2, <2>3 DEF Engine!Chains, Engine!IsInjective, IsInjective, ChainBound
<1>5. Transfers(dcookie', submitted'[c]) =
        Transfers(dcookie, submitted[c]) \o [i \in DOMAIN p |-> [item |-> p[i], cookie |-> cookie[c] + i]]
  <2>1. Transfers(dcookie', submitted'[c]) = Transfers(dcookie', submitted[c]) \o Transfers(dcookie', p)
    BY <1>0, <1>1, TransfersConcat
  <2>2. Transfers(dcookie', submitted[c]) = Transfers(dcookie, submitted[c])
    BY <1>3, TransfersSame
  <2>3. Transfers(dcookie', p) = [i \in DOMAIN p |-> [item |-> p[i], cookie |-> cookie[c] + i]]
    BY <1>1 DEF Transfers
  <2> QED
    BY <2>1, <2>2, <2>3
<1>6. /\ Transfers(dcookie', work[c]) = Transfers(dcookie, work[c])
      /\ Transfers(dcookie', completed[c]) = Transfers(dcookie, completed[c])
      /\ moved' = moved
  BY <1>2, <1>3, TransfersSame, SameCore
<1> HIDE DEF p
<1>7. Engine(c)!Submit(p)
  <2> DEFINE W == Transfers(dcookie, submitted[c])
             A == Transfers(dcookie, work[c])
             F == Transfers(dcookie, completed[c])
             M == moved \cap Range(work[c])
             N == [i \in DOMAIN p |-> [item |-> p[i], cookie |-> cookie[c] + i]]
             f == [waiting |-> W, active |-> A, moved |-> M, finished |-> F,
                   cyclic |-> cyclic[c], given |-> cookie[c], done |-> completedCookie[c]]
  <2>1. EngineChannel(c) = f
    BY ChannelNow
  <2>2. EngineChannel(c)' = [waiting |-> W \o N, active |-> A, moved |-> M, finished |-> F,
             cyclic |-> cyclic[c], given |-> cookie[c] + Len(p), done |-> completedCookie[c]]
    BY <1>1, <1>2, <1>5, <1>6, ChannelNow
  <2>3. f.given = cookie[c]
    OBVIOUS
  <2> HIDE DEF W, A, F, M, N
  <2>4. ASSUME NEW g, g = [f EXCEPT !.waiting = @ \o N, !.given = @ + Len(p)]
        PROVE  EngineChannel(c)' = g
    <3>1. g = [waiting |-> W \o N, active |-> A, moved |-> M, finished |-> F,
               cyclic |-> cyclic[c], given |-> cookie[c] + Len(p), done |-> completedCookie[c]]
      BY ONLY <2>4
    <3> QED
      BY ONLY <2>2, <3>1
  <2> HIDE DEF f
  <2>5. EngineChannel(c)' = [f EXCEPT !.waiting = @ \o N, !.given = @ + Len(p)]
    BY <2>4, Zenon
  <2>6. EngineChannel(c)' = [EngineChannel(c) EXCEPT !.waiting = @ \o N, !.given = @ + Len(p)]
    BY ONLY <2>1, <2>5, Zenon
  <2>7. N = [i \in DOMAIN p |-> [item |-> p[i], cookie |-> EngineChannel(c).given + i]]
    BY <2>1, <2>3 DEF N
  <2> QED
    BY <2>6, <2>7, Zenon DEF Engine!Submit
<1> QED
  BY <1>4, <1>7 DEF Engine!Next

\* ... and issued,
LEMMA IssueSeen ==
  ASSUME EngineInv, NEW c \in Chans, IssuePending(c)
  PROVE  Engine(c)!Next
<1>0. /\ LayerInv /\ TypeOK /\ submitted[c] \in Seq(Descs) /\ work[c] \in Seq(Descs)
      /\ dcookie \in [Descs -> Nat]
  BY CookieTypes DEF EngineInv, LayerInv, BaseInv, TypeOK
<1>1. /\ work'[c] = work[c] \o submitted[c] /\ submitted'[c] = <<>>
      /\ UNCHANGED <<coreVars, completed, cyclic, cookie, completedCookie, dcookie>>
  BY <1>0 DEF IssuePending, chanVars, cookieVars, TypeOK
<1>2. /\ Transfers(dcookie, work'[c]) = Transfers(dcookie, work[c]) \o Transfers(dcookie, submitted[c])
      /\ Transfers(dcookie, <<>>) = <<>>
  BY <1>0, <1>1, TransfersConcat, TransfersEmpty
<1>3. moved' \cap Range(work'[c]) = moved \cap Range(work[c])
  <2>1. moved' = moved
    BY <1>1, SameCore
  <2>2. Range(work'[c]) = Range(work[c]) \cup Range(submitted[c])
    BY <1>0, <1>1, ConcatOnce
  <2>3. \A d \in Range(submitted[c]) : status[d] = "PREP"
    BY <1>0 DEF LayerInv, Layer, Statuses, StatusesOf
  <2>4. \A d \in moved : status[d] # "PREP"
    BY <1>0 DEF LayerInv, OrderlyInv, Orderly, PrepFresh
  <2> QED
    BY <2>1, <2>2, <2>3, <2>4
<1>4. Engine(c)!Issue
  <2> DEFINE W == Transfers(dcookie, submitted[c])
             A == Transfers(dcookie, work[c])
             F == Transfers(dcookie, completed[c])
             M == moved \cap Range(work[c])
             f == [waiting |-> W, active |-> A, moved |-> M, finished |-> F,
                   cyclic |-> cyclic[c], given |-> cookie[c], done |-> completedCookie[c]]
  <2>1. EngineChannel(c) = f
    BY ChannelNow
  <2>2. /\ Transfers(dcookie', submitted'[c]) = <<>>
        /\ Transfers(dcookie', work'[c]) = A \o W
        /\ Transfers(dcookie', completed'[c]) = F
    BY <1>1, <1>2
  <2>3. EngineChannel(c)' = [waiting |-> <<>>, active |-> A \o W, moved |-> M, finished |-> F,
             cyclic |-> cyclic[c], given |-> cookie[c], done |-> completedCookie[c]]
    BY <1>1, <1>3, <2>2, ChannelNow
  <2> HIDE DEF W, A, F, M
  <2>4. ASSUME NEW g, g = [f EXCEPT !.active = @ \o W, !.waiting = <<>>]
        PROVE  EngineChannel(c)' = g
    <3>1. g = [waiting |-> <<>>, active |-> A \o W, moved |-> M, finished |-> F,
               cyclic |-> cyclic[c], given |-> cookie[c], done |-> completedCookie[c]]
      BY ONLY <2>4
    <3> QED
      BY ONLY <2>3, <3>1
  <2>5. f.waiting = W
    OBVIOUS
  <2> HIDE DEF f
  <2>6. EngineChannel(c)' = [f EXCEPT !.active = @ \o W, !.waiting = <<>>]
    BY <2>4, Zenon
  <2> QED
    BY <2>1, <2>5, <2>6, Zenon DEF Engine!Issue
<1> QED
  BY <1>4 DEF Engine!Next

\* ... completed,
LEMMA HarvestSeen ==
  ASSUME Env = {}, EngineInv, EngineInv', NEW c \in Chans, NEW x \in Runners, Tasklet(c, x), Harvest(c, x)
  PROVE  Engine(c)!Next \/ EngineChannel(c)' = EngineChannel(c)
<1>0. /\ LayerInv /\ TypeOK /\ OnceIn(c) /\ InOrder(c) /\ Statuses
      /\ work[c] \in Seq(Descs) /\ completed[c] \in Seq(Descs) /\ Listed(c) \subseteq Descs
      /\ dcookie \in [Descs -> Nat] /\ dcookie' \in [Descs -> Nat]
  BY CookieTypes, OnceNow DEF EngineInv, LayerInv, BaseInv, TypeOK, Layer
<1>1. UNCHANGED <<submitted, cyclic, cookie, moved>>
  BY <1>0, TaskletRuns, SameCore DEF Harvest
<1>2. CASE UNCHANGED <<work, completed, completedCookie, dcookie>>
  BY <1>1, <1>2, NothingSeen
<1>3. ASSUME NEW i \in DOMAIN work[c], FirstWith(work[c], "DONE", i),
             IF cyclic[c]
             THEN UNCHANGED <<completedCookie, dcookie>>
             ELSE /\ completedCookie' = [completedCookie EXCEPT ![c] = dcookie[work[c][i]]]
                  /\ dcookie' = [dcookie EXCEPT ![work[c][i]] = 0],
             work' = [work EXCEPT ![c] = RemoveAt(@, i)],
             completed' = [completed EXCEPT ![c] = Append(@, work[c][i])]
      PROVE  Engine(c)!Complete
  <2> DEFINE d == work[c][i]
  <2>1. /\ work[c] # <<>> /\ d = Head(work[c]) /\ status[d] = "DONE"
        /\ work'[c] = Tail(work[c]) /\ completed'[c] = Append(completed[c], d)
    BY <1>0, <1>3, RipeFirst DEF InOrder, TypeOK, FirstWith
  <2>2. /\ d \in Descs /\ d \in Range(work[c]) /\ d \notin Range(completed[c]) /\ d \notin Range(submitted[c])
        /\ Range(Tail(work[c])) = Range(work[c]) \ {d} /\ Tail(work[c]) \in Seq(Descs)
    <3>1. IsInjective(work[c])
      BY <1>0 DEF OnceIn
    <3>2. /\ d \in Range(work[c]) /\ Range(Tail(work[c])) = Range(work[c]) \ {d}
          /\ Tail(work[c]) \in Seq(Descs)
      BY <1>0, <2>1, <3>1, TailOnce
    <3>3. d \in Descs
      BY <1>0, <3>2 DEF Listed
    <3>4. d \notin Range(completed[c]) /\ d \notin Range(submitted[c])
      BY <1>0, <3>2 DEF OnceIn
    <3> QED
      BY <3>2, <3>3, <3>4
  <2>3. d \in moved
    BY <1>0, <2>1, <2>2 DEF Statuses, StatusesOf
  <2>4. \A e \in Descs : e # d => dcookie'[e] = dcookie[e]
    BY <1>0, <1>3
  <2>5. /\ dcookie'[d] = IF cyclic[c] THEN dcookie[d] ELSE 0
        /\ completedCookie'[c] = IF cyclic[c] THEN completedCookie[c] ELSE dcookie[d]
    <3>1. completedCookie \in [Chans -> Nat]
      BY <1>0 DEF TypeOK
    <3> QED
      BY <1>0, <1>3, <2>2, <3>1
  <2> HIDE DEF d
  <2> DEFINE first == [item |-> d, cookie |-> dcookie[d]]
             f == EngineChannel(c)
  <2>6. /\ Transfers(dcookie, work[c]) # <<>> /\ Head(Transfers(dcookie, work[c])) = first
        /\ Transfers(dcookie', work'[c]) = Tail(Transfers(dcookie, work[c]))
    <3>1. \A e \in Range(Tail(work[c])) : dcookie'[e] = dcookie[e]
      BY <1>0, <2>2, <2>4 DEF Listed
    <3>2. Transfers(dcookie', Tail(work[c])) = Transfers(dcookie, Tail(work[c]))
      BY <3>1, TransfersSame
    <3> QED
      BY <1>0, <2>1, <3>2, TransfersTail
  <2>7. Transfers(dcookie', completed'[c]) =
          Append(Transfers(dcookie, completed[c]), IF cyclic[c] THEN first ELSE [first EXCEPT !.cookie = 0])
    <3>1. \A e \in Range(completed[c]) : dcookie'[e] = dcookie[e]
      BY <1>0, <2>2, <2>4 DEF Listed
    <3>2. Transfers(dcookie', completed[c]) = Transfers(dcookie, completed[c])
      BY <3>1, TransfersSame
    <3>3. Transfers(dcookie', completed'[c]) =
            Append(Transfers(dcookie', completed[c]), [item |-> d, cookie |-> dcookie'[d]])
      <4>1. completed[c] \in Seq(Descs) /\ d \in Descs /\ dcookie' \in [Descs -> Nat]
        BY <1>0, <2>2
      <4>2. Transfers(dcookie', Append(completed[c], d)) =
              Append(Transfers(dcookie', completed[c]), [item |-> d, cookie |-> dcookie'[d]])
        BY ONLY <4>1, TransfersAppend
      <4> QED
        BY <2>1, <4>2
    <3>4. [item |-> d, cookie |-> dcookie'[d]] = IF cyclic[c] THEN first ELSE [first EXCEPT !.cookie = 0]
      BY <2>5
    <3> QED
      BY <3>2, <3>3, <3>4
  <2>8. Transfers(dcookie', submitted[c]) = Transfers(dcookie, submitted[c])
    <3>1. \A e \in Range(submitted[c]) : dcookie'[e] = dcookie[e]
      BY <1>0, <2>2, <2>4 DEF Listed
    <3> QED
      BY <3>1, TransfersSame
  <2>9. moved' \cap Range(work'[c]) = (moved \cap Range(work[c])) \ {d}
    BY <1>1, <2>1, <2>2
  <2>10. /\ f.active = Transfers(dcookie, work[c]) /\ f.moved = moved \cap Range(work[c])
         /\ f.cyclic = cyclic[c] /\ Head(f.active) = first /\ first.item = d /\ first.cookie = dcookie[d]
    BY <2>6, ChannelNow
  <2>11. EngineChannel(c)' = [f EXCEPT
                !.active = Tail(@),
                !.moved = @ \ {d},
                !.finished = Append(@, IF cyclic[c] THEN first ELSE [first EXCEPT !.cookie = 0]),
                !.done = IF cyclic[c] THEN @ ELSE dcookie[d]]
    <3> DEFINE W == Transfers(dcookie, submitted[c])
               A == Transfers(dcookie, work[c])
               F == Transfers(dcookie, completed[c])
               M == moved \cap Range(work[c])
               g == IF cyclic[c] THEN first ELSE [first EXCEPT !.cookie = 0]
               n == IF cyclic[c] THEN completedCookie[c] ELSE dcookie[d]
               h == [waiting |-> W, active |-> A, moved |-> M, finished |-> F,
                     cyclic |-> cyclic[c], given |-> cookie[c], done |-> completedCookie[c]]
    <3>1. f = h
      BY ChannelNow
    <3> HIDE DEF first
    <3>2. /\ Transfers(dcookie', submitted'[c]) = W /\ Transfers(dcookie', work'[c]) = Tail(A)
          /\ Transfers(dcookie', completed'[c]) = Append(F, g) /\ moved' \cap Range(work'[c]) = M \ {d}
          /\ cyclic'[c] = cyclic[c] /\ cookie'[c] = cookie[c] /\ completedCookie'[c] = n
      BY <1>1, <2>5, <2>6, <2>7, <2>8, <2>9
    <3> HIDE DEF W, A, F, M, g, n
    <3>3. EngineChannel(c)' =
            [waiting |-> W, active |-> Tail(A), moved |-> M \ {d}, finished |-> Append(F, g),
             cyclic |-> cyclic[c], given |-> cookie[c], done |-> n]
      BY ONLY <3>2, ChannelNow
    <3>4. ASSUME NEW k, k = [h EXCEPT !.active = Tail(@), !.moved = @ \ {d},
                                      !.finished = Append(@, g), !.done = n]
          PROVE  EngineChannel(c)' = k
      <4>1. k = [waiting |-> W, active |-> Tail(A), moved |-> M \ {d}, finished |-> Append(F, g),
                 cyclic |-> cyclic[c], given |-> cookie[c], done |-> n]
        BY ONLY <3>4
      <4> QED
        BY ONLY <3>3, <4>1
    <3>5. n = IF cyclic[c] THEN h.done ELSE dcookie[d]
      BY DEF n
    <3> HIDE DEF h, f
    <3>6. EngineChannel(c)' = [h EXCEPT !.active = Tail(@), !.moved = @ \ {d},
                                        !.finished = Append(@, g), !.done = n]
      BY <3>4, Zenon
    <3> QED
      BY <3>1, <3>5, <3>6, Zenon DEF g
  <2>12. f.active # <<>> /\ d \in f.moved
    BY <2>2, <2>3, <2>6, <2>10
  <2> HIDE DEF f, first
  <2> QED
    BY <2>10, <2>11, <2>12 DEF Engine!Complete, f
<1> QED
  BY <1>2, <1>3 DEF Harvest, Engine!Next

\* ... and reported.
LEMMA FinishSeen ==
  ASSUME Env = {}, EngineInv, NEW c \in Chans, NEW x \in Runners, Tasklet(c, x), Finish(c, x)
  PROVE  Engine(c)!Next \/ EngineChannel(c)' = EngineChannel(c)
<1>0. /\ LayerInv /\ TypeOK /\ OnceIn(c) /\ work[c] \in Seq(Descs) /\ completed[c] \in Seq(Descs)
      /\ dcookie \in [Descs -> Nat]
  BY CookieTypes, OnceNow DEF EngineInv, LayerInv, BaseInv, TypeOK
<1>1. UNCHANGED <<submitted, cyclic, cookie, completedCookie, dcookie>>
  BY <1>0, TaskletRuns DEF Finish, cookieVars
<1>2. CASE completed[c] = <<>>
  <2>1. UNCHANGED <<coreVars, work, completed>>
    BY <1>2 DEF Finish
  <2>2. moved' = moved
    BY <2>1, SameCore
  <2> QED
    BY <1>1, <2>1, <2>2, NothingSeen
<1>3. CASE completed[c] # <<>>
  <2> DEFINE d == Head(completed[c])
             first == [item |-> d, cookie |-> dcookie[d]]
             f == EngineChannel(c)
  <2>1. d \in Descs /\ d \in Range(completed[c]) /\ d \notin Range(work[c])
    BY <1>0, <1>3, TailOnce DEF OnceIn
  <2>2. /\ completed'[c] = Tail(completed[c])
        /\ work'[c] = IF cyclic[c] THEN Append(work[c], d) ELSE work[c]
        /\ moved' = moved \ {d}
    BY <1>0, <1>3 DEF Finish, Mark, TypeOK
  <2> HIDE DEF d
  <2>3. /\ Transfers(dcookie, completed[c]) # <<>> /\ Head(Transfers(dcookie, completed[c])) = first
        /\ Transfers(dcookie, completed'[c]) = Tail(Transfers(dcookie, completed[c]))
    BY <1>0, <1>3, <2>2, TransfersTail DEF d
  <2>4. Transfers(dcookie, work'[c]) = IF cyclic[c] THEN Append(Transfers(dcookie, work[c]), first)
                                       ELSE Transfers(dcookie, work[c])
    BY <1>0, <2>1, <2>2, TransfersAppend
  <2>5. moved' \cap Range(work'[c]) = moved \cap Range(work[c])
    <3>1. Range(Append(work[c], d)) = Range(work[c]) \cup {d}
      BY <1>0, <2>1, AppendOnce
    <3> QED
      BY <2>1, <2>2, <3>1
  <2> HIDE DEF first
  <2>6. EngineChannel(c)' = [f EXCEPT !.finished = Tail(@),
                                      !.active = IF cyclic[c] THEN Append(@, first) ELSE @]
    <3> DEFINE W == Transfers(dcookie, submitted[c])
               A == Transfers(dcookie, work[c])
               F == Transfers(dcookie, completed[c])
               M == moved \cap Range(work[c])
               B == IF cyclic[c] THEN Append(A, first) ELSE A
               h == [waiting |-> W, active |-> A, moved |-> M, finished |-> F,
                     cyclic |-> cyclic[c], given |-> cookie[c], done |-> completedCookie[c]]
    <3>1. f = h
      BY ChannelNow
    <3>2. /\ Transfers(dcookie', submitted'[c]) = W
          /\ Transfers(dcookie', work'[c]) = B
          /\ Transfers(dcookie', completed'[c]) = Tail(F) /\ moved' \cap Range(work'[c]) = M
          /\ cyclic'[c] = cyclic[c] /\ cookie'[c] = cookie[c] /\ completedCookie'[c] = completedCookie[c]
      BY <1>1, <2>3, <2>4, <2>5
    <3> HIDE DEF W, A, F, M, B
    <3>3. EngineChannel(c)' =
            [waiting |-> W, active |-> B, moved |-> M,
             finished |-> Tail(F), cyclic |-> cyclic[c], given |-> cookie[c], done |-> completedCookie[c]]
      BY ONLY <3>2, ChannelNow
    <3>4. ASSUME NEW k, k = [h EXCEPT !.finished = Tail(@),
                                      !.active = B]
          PROVE  EngineChannel(c)' = k
      <4>1. k = [waiting |-> W, active |-> B, moved |-> M, finished |-> Tail(F),
                 cyclic |-> cyclic[c], given |-> cookie[c], done |-> completedCookie[c]]
        BY ONLY <3>4
      <4> QED
        BY ONLY <3>3, <4>1
    <3>5. h.active = A
      OBVIOUS
    <3> HIDE DEF h, f
    <3>6. EngineChannel(c)' = [h EXCEPT !.finished = Tail(@), !.active = B]
      BY <3>4, Zenon
    <3> QED
      BY <3>1, <3>5, <3>6, Zenon DEF B
  <2>7. f.finished # <<>> /\ Head(f.finished) = first /\ f.cyclic = cyclic[c]
    BY <2>3, ChannelNow
  <2>8. Engine(c)!Report
    BY <2>6, <2>7 DEF Engine!Report
  <2> QED
    BY <2>8 DEF Engine!Next
<1> QED
  BY <1>2, <1>3

\* Everything is dropped;
LEMMA TerminateAllSeen ==
  ASSUME EngineInv, NEW c \in Chans, TerminateAll(c)
  PROVE  Engine(c)!Next
<1>0. /\ LayerInv /\ CookiesDue(c) /\ TypeOK
      /\ work[c] \in Seq(Descs) /\ submitted[c] \in Seq(Descs) /\ completed[c] \in Seq(Descs)
      /\ dcookie' \in [Descs -> Nat] /\ cookie[c] \in Nat /\ completedCookie[c] \in Nat
      /\ (\A d \in Descs : dcookie[d] \in Nat) /\ completedCookie \in [Chans -> Nat]
  <2>1. dcookie' \in [Descs -> Nat]
    BY CookieTypes DEF EngineInv, LayerInv, BaseInv, TypeOK, TerminateAll
  <2> QED
    BY <2>1, CookieTypes DEF EngineInv, LayerInv, BaseInv, TypeOK
<1>1. /\ submitted'[c] = <<>> /\ work'[c] = <<>> /\ completed'[c] = <<>>
      /\ cyclic' = cyclic /\ cookie' = cookie
  BY <1>0 DEF TerminateAll, TypeOK, chanVars
<1>2. Transfers(dcookie', <<>>) = <<>> /\ moved' \cap Range(<<>>) = {}
  BY <1>0, TransfersEmpty, RangeEmpty, <<>> \in Seq(Descs)
<1>3. completedCookie'[c] \in completedCookie[c] .. cookie[c]
  <2>1. completedCookie[c] <= completedCookie'[c] /\ completedCookie'[c] <= cookie[c]
    BY <1>0, TerminateAllCookies
  <2>2. completedCookie'[c] \in Nat
    <3>1. CASE Marked(c) = <<>>
      BY <1>0, <3>1 DEF TerminateAll
    <3>2. CASE Marked(c) # <<>>
      <4>1. Marked(c) \in Seq(Descs)
        BY <1>0, MarkedType
      <4>2. Last(Marked(c)) \in Descs
        BY <3>2, <4>1, LenProperties, EmptySeq, ElementOfSeq DEF Last
      <4> QED
        BY <1>0, <3>2, <4>2 DEF TerminateAll
    <3> QED
      BY <3>1, <3>2
  <2> QED
    BY <1>0, <2>1, <2>2
<1> DEFINE W == Transfers(dcookie, submitted[c])
           A == Transfers(dcookie, work[c])
           F == Transfers(dcookie, completed[c])
           M == moved \cap Range(work[c])
           n == completedCookie'[c]
           h == [waiting |-> W, active |-> A, moved |-> M, finished |-> F,
                 cyclic |-> cyclic[c], given |-> cookie[c], done |-> completedCookie[c]]
<1>4. EngineChannel(c) = h
  BY ChannelNow
<1>5. EngineChannel(c)' =
        [waiting |-> <<>>, active |-> <<>>, moved |-> {}, finished |-> <<>>,
         cyclic |-> cyclic[c], given |-> cookie[c], done |-> n]
  BY <1>1, <1>2, ChannelNow
<1> HIDE DEF W, A, F, M, n
<1>6. ASSUME NEW k, k = [h EXCEPT !.waiting = <<>>, !.active = <<>>, !.finished = <<>>,
                                  !.moved = {}, !.done = n]
      PROVE  EngineChannel(c)' = k
  <2>1. k = [waiting |-> <<>>, active |-> <<>>, moved |-> {}, finished |-> <<>>,
             cyclic |-> cyclic[c], given |-> cookie[c], done |-> n]
    BY ONLY <1>6
  <2> QED
    BY ONLY <1>5, <2>1
<1>7. n \in h.done .. h.given
  BY <1>3 DEF n
<1> HIDE DEF h
<1>8. EngineChannel(c)' = [h EXCEPT !.waiting = <<>>, !.active = <<>>, !.finished = <<>>,
                                    !.moved = {}, !.done = n]
  BY <1>6, Zenon
<1>9. Engine(c)!TerminateAll
  BY <1>4, <1>7, <1>8, Zenon DEF Engine!TerminateAll
<1> QED
  BY <1>9 DEF Engine!Next

\* ... a channel that is given to a new client holds nothing;
LEMMA AllocSeen ==
  ASSUME EngineInv, NEW c \in Chans, AllocChan(c)
  PROVE  Engine(c)!Next
<1>0. /\ LayerInv /\ TypeOK /\ dcookie \in [Descs -> Nat]
      /\ work[c] \in Seq(Descs) /\ submitted[c] \in Seq(Descs) /\ completed[c] \in Seq(Descs)
  BY CookieTypes DEF EngineInv, LayerInv, BaseInv, TypeOK
<1>1. Listed(c) = {} /\ UNCHANGED <<work, submitted, completed, dcookie>>
  BY <1>0 DEF AllocChan, listVars, LayerInv, Layer, Acquired
<1>2. work[c] = <<>> /\ submitted[c] = <<>> /\ completed[c] = <<>>
  <2>1. Range(work[c]) = {} /\ Range(submitted[c]) = {} /\ Range(completed[c]) = {}
    BY <1>1 DEF Listed
  <2>2. ASSUME NEW s \in Seq(Descs), Range(s) = {} PROVE s = <<>>
    BY <2>2, RangeEmpty
  <2> QED
    BY <1>0, <2>1, <2>2
<1>3. cyclic'[c] = FALSE /\ cookie'[c] = 0 /\ completedCookie'[c] = 0
  BY <1>0 DEF AllocChan, TypeOK
<1>4. Transfers(dcookie, <<>>) = <<>> /\ moved' \cap Range(<<>>) = {}
  BY <1>0, TransfersEmpty, RangeEmpty, <<>> \in Seq(Descs)
<1>5. EngineChannel(c)' = Engine(c)!NewChan
  BY <1>1, <1>2, <1>3, <1>4, ChannelNow DEF Engine!NewChan
<1>6. Engine(c)!Idle
  BY <1>2, <1>4, ChannelNow DEF Engine!Idle
<1> QED
  BY <1>5, <1>6 DEF Engine!Next, Engine!Renew

\* ... of what is prepared only that it will be cycled is seen,
LEMMA PrepSeen ==
  ASSUME EngineInv, NEW c \in Chans, PrepSg(c) \/ PrepCyclic(c)
  PROVE  Engine(c)!Next \/ EngineChannel(c)' = EngineChannel(c)
<1>0. LayerInv /\ TypeOK /\ Listed(c) \subseteq Descs
  BY CookieTypes DEF EngineInv, LayerInv, BaseInv
<1>1. PICK n \in Nat : Prep(c, n)
  BY ChannelAssumption DEF PrepSg, PrepCyclic
<1>2. \A d \in Listed(c) : dcookie'[d] = dcookie[d] /\ (d \in moved' <=> d \in moved)
  <2> SUFFICES ASSUME NEW d \in Listed(c)
               PROVE  dcookie'[d] = dcookie[d] /\ (d \in moved' <=> d \in moved)
    OBVIOUS
  <2>1. d \notin Range(pool) /\ d \in Descs
    BY <1>0, Apart DEF LayerInv, BaseInv
  <2>2. d \notin Range(Chain(n))
    BY <1>0, <1>1, <2>1, ChainType DEF Prep
  <2> QED
    BY <1>1, <2>1, <2>2 DEF Prep, Mark
<1>3. UNCHANGED <<submitted, work, completed, cookie, completedCookie>>
  BY <1>1 DEF Prep
<1>4. CASE PrepSg(c)
  <2>1. cyclic' = cyclic
    BY <1>4 DEF PrepSg
  <2> QED
    BY <1>2, <1>3, <2>1, NothingSeen DEF Listed
<1>5. CASE PrepCyclic(c)
  <2>1. cyclic'[c] = TRUE
    BY <1>0, <1>5 DEF PrepCyclic, TypeOK
  <2>2. /\ Transfers(dcookie', submitted[c]) = Transfers(dcookie, submitted[c])
        /\ Transfers(dcookie', work[c]) = Transfers(dcookie, work[c])
        /\ Transfers(dcookie', completed[c]) = Transfers(dcookie, completed[c])
    BY <1>2, TransfersSame DEF Listed
  <2>3. moved' \cap Range(work[c]) = moved \cap Range(work[c])
    BY <1>2 DEF Listed
  <2> DEFINE W == Transfers(dcookie, submitted[c])
             A == Transfers(dcookie, work[c])
             F == Transfers(dcookie, completed[c])
             M == moved \cap Range(work[c])
             h == [waiting |-> W, active |-> A, moved |-> M, finished |-> F,
                   cyclic |-> cyclic[c], given |-> cookie[c], done |-> completedCookie[c]]
  <2>4. EngineChannel(c) = h
    BY ChannelNow
  <2>5. EngineChannel(c)' =
          [waiting |-> W, active |-> A, moved |-> M, finished |-> F,
           cyclic |-> TRUE, given |-> cookie[c], done |-> completedCookie[c]]
    BY <1>3, <2>1, <2>2, <2>3, ChannelNow
  <2> HIDE DEF W, A, F, M
  <2>6. ASSUME NEW k, k = [h EXCEPT !.cyclic = TRUE] PROVE EngineChannel(c)' = k
    <3>1. k = [waiting |-> W, active |-> A, moved |-> M, finished |-> F,
               cyclic |-> TRUE, given |-> cookie[c], done |-> completedCookie[c]]
      BY ONLY <2>6
    <3> QED
      BY ONLY <2>5, <3>1
  <2> HIDE DEF h
  <2>7. EngineChannel(c)' = [h EXCEPT !.cyclic = TRUE]
    BY <2>6, Zenon
  <2>8. Engine(c)!MakeCyclic
    BY <2>4, <2>7, Zenon DEF Engine!MakeCyclic
  <2> QED
    BY <2>8 DEF Engine!Next
<1> QED
  BY <1>4, <1>5

\* ... and nothing of the rest.
LEMMA ClientSeen ==
  ASSUME Env = {}, EngineInv, EngineInv', NEW c \in Chans, Client(c)
  PROVE  Engine(c)!Next \/ EngineChannel(c)' = EngineChannel(c)
<1>0. LayerInv /\ TypeOK
  BY DEF EngineInv, LayerInv, BaseInv
<1>1. CASE FreeChan(c)
  <2>1. work[c] = <<>>
    BY <1>1 DEF FreeChan
  <2>2. work' = work
    BY <1>0, <1>1, <2>1 DEF FreeChan, TypeOK
  <2>3. UNCHANGED <<submitted, completed, cyclic, cookie, completedCookie, dcookie, moved>>
    BY <1>1 DEF FreeChan, cookieVars, ReleaseChannel, descVars
  <2> QED
    BY <2>2, <2>3, NothingSeen
<1>2. CASE (\E cmd \in {"terminate", "pause"} : Command(c, cmd)) \/ Terminate(c) \/ TxStatus(c)
  <2>1. UNCHANGED <<submitted, work, completed, cyclic, cookie, completedCookie, dcookie>>
    BY <1>2 DEF Command, Terminate, TxStatus, listVars, chanVars, cookieVars
  <2>2. moved' = moved
    <3>1. CASE Terminate(c)
      BY <3>1 DEF Terminate, TerminateStop, descVars
    <3>2. CASE ~Terminate(c)
      BY <1>2, <3>2, SameCore DEF Command, TxStatus
    <3> QED
      BY <3>1, <3>2
  <2> QED
    BY <2>1, <2>2, NothingSeen
<1>3. ~Pause(c) /\ ~PauseRequest(c)
  BY DEF Pause, PauseRequest, PauseStop, PauseDetach
<1> QED
  BY <1>1, <1>2, <1>3, AllocSeen, PrepSeen, SubmitSeen, IssueSeen, TerminateAllSeen DEF Client

LEMMA TaskletSeen ==
  ASSUME Env = {}, EngineInv, EngineInv', NEW c \in Chans, NEW x \in Runners, Tasklet(c, x)
  PROVE  Engine(c)!Next \/ EngineChannel(c)' = EngineChannel(c)
<1>0. LayerInv /\ TypeOK /\ NoFault
  BY DEF EngineInv, LayerInv, BaseInv, OrderlyInv, Orderly
<1>1. CASE Enter(c, x) \/ FillQueue(c, x) \/ Hook(c, x) \/ StartChan(c, x) \/ Resume(c, x)
  <2>1. UNCHANGED <<submitted, work, completed, cyclic, cookie, completedCookie, dcookie>>
    BY <1>1 DEF Enter, FillQueue, Hook, StartChan, Resume, listVars, chanVars, cookieVars
  <2>2. moved' = moved
    <3>1. CASE Enter(c, x) \/ FillQueue(c, x) \/ Resume(c, x)
      BY <3>1, SameCore DEF Enter, FillQueue, Resume
    <3>2. CASE Hook(c, x)
      BY <3>2, SameCore DEF Hook, Mark, SubmitReq
    <3>3. CASE StartChan(c, x)
      BY <3>3, SameCore DEF StartChan, StartThread, descVars
    <3> QED
      BY <1>1, <3>1, <3>2, <3>3
  <2> QED
    BY <2>1, <2>2, NothingSeen
<1> QED
  BY <1>1, HarvestSeen, FinishSeen DEF Tasklet

\* A channel sees nothing of what another one does.
LEMMA OtherSeen ==
  ASSUME NEW c \in Chans, Kept(c)
  PROVE  EngineChannel(c)' = EngineChannel(c)
<1>1. /\ submitted'[c] = submitted[c] /\ work'[c] = work[c] /\ completed'[c] = completed[c]
      /\ cyclic'[c] = cyclic[c] /\ cookie'[c] = cookie[c] /\ completedCookie'[c] = completedCookie[c]
  BY DEF Kept, SameLists
<1>2. \A d \in Listed(c) : dcookie'[d] = dcookie[d] /\ (d \in moved' <=> d \in moved)
  BY DEF Kept, DescKept
<1> QED
  BY <1>1, <1>2, NothingSeen DEF Listed

-----------------------------------------------------------------------------
(* An orderly environment: the refinement of the DMA engine                 *)

LEMMA EngineInitially == Init => \A c \in Chans : Engine(c)!Init
<1> SUFFICES ASSUME Init, NEW c \in Chans PROVE Engine(c)!Init
  OBVIOUS
<1>1. /\ work[c] = <<>> /\ submitted[c] = <<>> /\ completed[c] = <<>> /\ cyclic[c] = FALSE
      /\ cookie[c] = 0 /\ completedCookie[c] = 0 /\ dcookie \in [Descs -> Nat]
  BY DEF Init
<1>2. Transfers(dcookie, <<>>) = <<>> /\ moved \cap Range(<<>>) = {}
  BY <1>1, TransfersEmpty, RangeEmpty, <<>> \in Seq(Descs)
<1> QED
  BY <1>1, <1>2, ChannelNow DEF Engine!Init, Engine!NewChan

LEMMA EngineNext ==
  ASSUME Env = {}
  PROVE  EngineInv /\ EngineInv' /\ [Next]_vars =>
           \A c \in Chans : [Engine(c)!Next]_(EngineChannel(c))
<1> SUFFICES ASSUME EngineInv, EngineInv', [Next]_vars, NEW c \in Chans
             PROVE  Engine(c)!Next \/ EngineChannel(c)' = EngineChannel(c)
  OBVIOUS
<1>0. LayerInv
  BY DEF EngineInv
<1>1. ASSUME NEW b \in Chans, Client(b) \/ \E x \in Runners : Tasklet(b, x)
      PROVE  Engine(c)!Next \/ EngineChannel(c)' = EngineChannel(c)
  <2>1. CASE b = c
    BY <1>1, <2>1, ClientSeen, TaskletSeen
  <2>2. CASE b # c
    <3>1. Kept(c)
      BY <1>0, <1>1, <2>2, OthersKept
    <3> QED
      BY <3>1, OtherSeen
  <2> QED
    BY <2>1, <2>2
<1>2. CASE Interrupt \/ Recovery \/ \E t \in Threads : Transfer(t) \/ Fault(t)
  <2>1. Engine(c)!Move \/ EngineChannel(c)' = EngineChannel(c)
    BY <1>2, CoreSeen
  <2> QED
    BY <2>1 DEF Engine!Next
<1>3. CASE UNCHANGED vars
  <2>1. UNCHANGED <<submitted, work, completed, cyclic, cookie, completedCookie, dcookie, moved>>
    BY <1>3, SameCore DEF vars, layerVars, listVars, chanVars, cookieVars
  <2> QED
    BY <2>1, NothingSeen
<1> QED
  BY <1>1, <1>2, <1>3 DEF Next

\* In an orderly environment every channel is one of a DMA engine: its transfers
\* are carried out, completed and reported in the order of their submission.
THEOREM ImplementsEngine == ASSUME Env = {} PROVE Spec => EngineSpec
<1>1. EngineInv /\ EngineInv' /\ [Next]_vars => [\A c \in Chans : [Engine(c)!Next]_(EngineChannel(c))]_vars
  BY EngineNext
<1> QED
  BY <1>1, EngineInitially, EngineAlways, PTL DEF Spec, EngineSpec
=============================================================================
