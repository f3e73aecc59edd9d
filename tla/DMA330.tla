-------------------------------- MODULE DMA330 --------------------------------
(***************************************************************************)
(* The upper half of socle_dma330.c: the channels the DMA engine hands to  *)
(* its clients, with their lists of descriptors, over the channel threads  *)
(* of DMA330Core.                                                          *)
(*                                                                         *)
(* A channel is worked on by two runners: its tasklet ("soft"), and the    *)
(* client, which runs the body of the tasklet itself in issue_pending.     *)
(* pch->lock is held over several actions, because dma330_tasklet takes    *)
(* and drops dmac->lock inside it and interrupts of other processors come  *)
(* between.  With SMP = FALSE the machine has one processor: nothing runs  *)
(* while interrupts are off, and tasklets preempt clients.                 *)
(* desc_pool is one sequence and changes atomically.  Its operations are   *)
(* in part under pch->lock alone, in part under pool_lock: on several      *)
(* processors that is more than the code guarantees.                       *)
(***************************************************************************)
EXTENDS DMA330Core, SequencesExt

CONSTANTS
  Chans,       \* struct dma_dma330_chan
  MaxSg,       \* most entries of a scatterlist
  Periods,     \* descriptors of a cyclic transfer, 0 for a client without one
  SMP,         \* the kernel runs on several processors
  MaxCookie    \* bound on the cookies a channel gives out

ASSUME ChannelAssumption ==
  /\ NULL \notin Chans
  /\ IsFiniteSet(Descs)
  /\ MaxSg \in Nat
  /\ Periods \in Nat
  /\ SMP \in BOOLEAN
  /\ MaxCookie \in Nat

Runners == {"soft", "client"}

VARIABLES
  \* struct dma_dma330_chan
  thread,            \* hardware thread, -1 while the channel is not acquired
  submitted, work, completed,   \* its three lists
  cyclic, paused,
  lock,              \* who holds pch->lock, or "open"
  scheduled,         \* the tasklet is scheduled
  pc,                \* where its runners are in dma330_tasklet
  control,           \* command its client is in the middle of
  cookie, completedCookie,      \* struct dma_chan
  \* descriptors
  pool,              \* desc_pool of the DMAC
  prepped,           \* chain a client got from prep_xxx and has not submitted
  owner,             \* desc->pchan
  dcookie,           \* desc->txd.cookie
  unfit,             \* descriptors whose request dma330_submit_req refuses
  oops               \* a BUG_ON has fired or a NULL thread was used

listVars   == <<pool, prepped, submitted, work, completed>>
chanVars   == <<thread, cyclic, paused>>
runVars    == <<lock, scheduled, pc, control>>
cookieVars == <<cookie, completedCookie, dcookie>>
txVars     == <<owner, unfit>>
layerVars  == <<listVars, chanVars, runVars, cookieVars, txVars, oops>>
vars       == <<coreVars, layerVars>>

TypeOK ==
  /\ CoreTypeOK
  /\ thread \in [Chans -> Threads \cup {-1}]
  /\ submitted \in [Chans -> Seq(Descs)]
  /\ work \in [Chans -> Seq(Descs)]
  /\ completed \in [Chans -> Seq(Descs)]
  /\ prepped \in [Chans -> Seq(Descs)]
  /\ pool \in Seq(Descs)
  /\ cyclic \in [Chans -> BOOLEAN]
  /\ paused \in [Chans -> BOOLEAN]
  /\ lock \in [Chans -> Runners \cup {"open"}]
  /\ scheduled \in [Chans -> BOOLEAN]
  /\ pc \in [Chans -> [Runners -> {"idle", "entry", "harvest", "fill", "hook",
                                   "start", "finish", "callback"}]]
  /\ control \in [Chans -> {"none", "terminate", "terminated", "pause", "paused"}]
  /\ cookie \in [Chans -> Nat]
  /\ completedCookie \in [Chans -> Nat]
  /\ owner \in [Descs -> Chans \cup {NULL}]
  /\ dcookie \in [Descs -> Nat]
  /\ unfit \in SUBSET Descs
  /\ oops \in BOOLEAN

\* After dma330_probe.
Init ==
  /\ CoreInit
  /\ thread = [c \in Chans |-> -1]
  /\ submitted = [c \in Chans |-> <<>>]
  /\ work = [c \in Chans |-> <<>>]
  /\ completed = [c \in Chans |-> <<>>]
  /\ prepped = [c \in Chans |-> <<>>]
  /\ pool = SetToSeq(Descs)
  /\ cyclic = [c \in Chans |-> FALSE]
  /\ paused = [c \in Chans |-> FALSE]
  /\ lock = [c \in Chans |-> "open"]
  /\ scheduled = [c \in Chans |-> FALSE]
  /\ pc = [c \in Chans |-> [x \in Runners |-> "idle"]]
  /\ control = [c \in Chans |-> "none"]
  /\ cookie = [c \in Chans |-> 0]
  /\ completedCookie = [c \in Chans |-> 0]
  /\ owner = [d \in Descs |-> NULL]
  /\ dcookie = [d \in Descs |-> 0]
  /\ unfit = {}
  /\ oops = FALSE

-----------------------------------------------------------------------------
(* Who may run.  On one processor a section with interrupts off excludes    *)
(* everybody, an interrupt is taken as soon as they are on, a tasklet       *)
(* excludes other tasklets and the clients, and a client acts inside a      *)
(* tasklet only from the callback of its own channel.                       *)

Open == \A c \in Chans : lock[c] = "open"

Undisturbed(c, x) ==
  /\ irqPc = "idle"
  /\ Open => ~IrqLine
  /\ \A b \in Chans : lock[b] = "open" \/ (b = c /\ lock[b] = x)

IrqMayRun == SMP \/ Open

SoftMayRun(c) ==
  \/ SMP
  \/ /\ Undisturbed(c, "soft") /\ dtPc = "idle"
     /\ \A b \in Chans \ {c} : pc[b]["soft"] = "idle"

ClientMayRun(c) ==
  \/ SMP
  \/ /\ Undisturbed(c, "client") /\ dtPc = "idle"
     /\ \A b \in Chans : pc[b]["soft"] = "idle" \/ (b = c /\ pc[b]["soft"] = "callback")

MayRun(c, x) == IF x = "soft" THEN SoftMayRun(c) ELSE ClientMayRun(c)

DotaskMayRun ==
  \/ SMP
  \/ /\ irqPc = "idle" /\ Open /\ ~IrqLine
     /\ \A c \in Chans : pc[c]["soft"] = "idle"

\* The client of channel c calls the driver: from its own context, or from a
\* completion callback.
Calls(c) ==
  /\ ClientMayRun(c)
  /\ pc[c]["client"] \in {"idle", "callback"}
  /\ control[c] = "none"

CallsLocked(c) == Calls(c) /\ lock[c] = "open"

-----------------------------------------------------------------------------
(* Entry points of the DMA engine                                           *)

\* dma330_alloc_chan_resources
AllocChan(c) ==
  /\ CallsLocked(c) /\ thread[c] = -1
  /\ \E t \in Threads, e \in Events :
       RequestChannel(t, e) /\ thread' = [thread EXCEPT ![c] = t]
  /\ cookie' = [cookie EXCEPT ![c] = 0]
  /\ completedCookie' = [completedCookie EXCEPT ![c] = 0]
  /\ cyclic' = [cyclic EXCEPT ![c] = FALSE]
  /\ scheduled' = [scheduled EXCEPT ![c] = FALSE]
  /\ UNCHANGED <<listVars, paused, lock, pc, control, dcookie, txVars, oops>>

\* Mutant of TaskletKilled: tasklet_kill is left out.
TaskletNotKilled(c) == TRUE

\* tasklet_kill returns.
TaskletKilled(c) == ~scheduled[c] /\ pc[c]["soft"] = "idle"

\* dma330_free_chan_resources: tasklet_kill lets the tasklet run out first;
\* only a cyclic channel gives its work_list back.
FreeChan(c) ==
  /\ CallsLocked(c) /\ thread[c] # -1
  /\ TaskletKilled(c) /\ pc[c]["client"] = "idle"
  /\ "release" \in Env \/ \A l \in {prepped, submitted, work, completed} : l[c] = <<>>
  /\ ReleaseChannel(thread[c])
  /\ thread' = [thread EXCEPT ![c] = -1]
  /\ IF cyclic[c]
     THEN pool' = pool \o work[c] /\ work' = [work EXCEPT ![c] = <<>>]
     ELSE UNCHANGED <<pool, work>>
  /\ UNCHANGED <<prepped, submitted, completed, cyclic, paused, runVars, cookieVars, txVars, oops>>

\* The first n descriptors of the pool, which grows by need: Descs bounds it.
Chain(n) == SubSeq(pool, 1, n)

\* What the three dma330_prep_dma functions share: every descriptor is
\* taken by dma330_get_desc.
Prep(c, n) ==
  LET chain == Chain(n) IN
  /\ Calls(c) /\ thread[c] # -1 /\ prepped[c] = <<>>
  /\ n <= Len(pool)
  /\ Mark(Range(chain), "PREP")
  /\ pool' = SubSeq(pool, n + 1, Len(pool))
  /\ prepped' = [prepped EXCEPT ![c] = chain]
  /\ owner' = [d \in Descs |-> IF d \in Range(chain) THEN c ELSE owner[d]]
  /\ dcookie' = [d \in Descs |-> IF d \in Range(chain) THEN 0 ELSE dcookie[d]]
  /\ UNCHANGED <<submitted, work, completed, thread, paused, runVars, cookie,
                 completedCookie, oops>>

\* dma330_prep_slave_sg, and dma330_prep_dma_memcpy for a chain of one.
PrepSg(c) ==
  /\ "mixed" \in Env \/ ~cyclic[c]
  /\ \E n \in 1 .. MaxSg :
       /\ Prep(c, n)
       /\ \E U \in SUBSET Range(Chain(n)) :
            /\ U = {} \/ "refuse" \in Env
            /\ unfit' = (unfit \ Range(Chain(n))) \cup U
  /\ UNCHANGED cyclic

\* dma330_prep_dma_cyclic
PrepCyclic(c) ==
  /\ Periods > 0
  /\ "mixed" \in Env \/ \A l \in {submitted, work, completed} : l[c] = <<>>
  /\ Prep(c, Periods)
  /\ unfit' = unfit \ Range(Chain(Periods))
  /\ cyclic' = [cyclic EXCEPT ![c] = TRUE]

\* dma330_tx_submit: a cookie for every descriptor of the chain, in order.
TxSubmit(c) ==
  /\ CallsLocked(c) /\ prepped[c] # <<>>
  /\ cookie[c] + Len(prepped[c]) <= MaxCookie
  /\ cookie' = [cookie EXCEPT ![c] = @ + Len(prepped[c])]
  /\ dcookie' = [d \in Descs |->
                   IF \E i \in DOMAIN prepped[c] : prepped[c][i] = d
                   THEN cookie[c] + (CHOOSE i \in DOMAIN prepped[c] : prepped[c][i] = d)
                   ELSE dcookie[d]]
  /\ submitted' = [submitted EXCEPT ![c] = @ \o prepped[c]]
  /\ prepped' = [prepped EXCEPT ![c] = <<>>]
  /\ UNCHANGED <<coreVars, pool, work, completed, chanVars, runVars, completedCookie, txVars, oops>>

\* dma330_issue_pending up to its call of dma330_tasklet.  From a callback of the
\* scheduled tasklet it may be called; from one that it makes itself, which would
\* run the body of the tasklet inside itself once more, it is not.
IssuePending(c) ==
  /\ CallsLocked(c) /\ thread[c] # -1
  /\ pc[c]["client"] = "idle"
  /\ work' = [work EXCEPT ![c] = @ \o submitted[c]]
  /\ submitted' = [submitted EXCEPT ![c] = <<>>]
  /\ pc' = [pc EXCEPT ![c]["client"] = "entry"]
  /\ UNCHANGED <<coreVars, pool, prepped, completed, chanVars, lock, scheduled, control, cookieVars, txVars, oops>>

\* dma330_control enters a command and takes the lock.
Command(c, cmd) ==
  /\ CallsLocked(c) /\ thread[c] # -1
  /\ cmd \in Env \/ (cmd = "terminate" /\ Quiet(thread[c]) /\ completed[c] = <<>>)
  /\ lock' = [lock EXCEPT ![c] = "client"]
  /\ control' = [control EXCEPT ![c] = cmd]
  /\ UNCHANGED <<coreVars, listVars, chanVars, scheduled, pc, cookieVars, txVars, oops>>

\* A part of a command is over; after the last one the lock is released.
Passes(c, from, to) ==
  /\ control[c] = from /\ ClientMayRun(c)
  /\ control' = [control EXCEPT ![c] = to]
  /\ lock' = IF to = "none" THEN [lock EXCEPT ![c] = "open"] ELSE lock
  /\ UNCHANGED <<scheduled, pc>>

\* DMA_TERMINATE_ALL
Terminate(c) ==
  /\ Passes(c, "terminate", "terminated")
  /\ TerminateStop(thread[c])
  /\ UNCHANGED <<listVars, chanVars, cookieVars, txVars, oops>>

\* Mutant of Marked: the work_list is forgotten.
MarkedButWork(c) == submitted[c] \o completed[c]

\* The descriptors DMA_TERMINATE_ALL marks, in its order.
Marked(c) == submitted[c] \o work[c] \o completed[c]

\* The cookies are completed list by list; one that is complete already is a
\* BUG_ON of dma_cookie_complete.
TerminateAll(c) ==
  LET marked == Marked(c)
      D == Range(marked)
  IN
  /\ Passes(c, "terminated", "none")
  /\ TerminateDetach(thread[c], D)
  /\ completedCookie' = IF marked = <<>> THEN completedCookie
                        ELSE [completedCookie EXCEPT ![c] = dcookie[Last(marked)]]
  /\ oops' = \E d \in D : dcookie[d] = 0
  /\ dcookie' = [d \in Descs |-> IF d \in D THEN 0 ELSE dcookie[d]]
  /\ pool' = pool \o marked
  /\ submitted' = [submitted EXCEPT ![c] = <<>>]
  /\ work' = [work EXCEPT ![c] = <<>>]
  /\ completed' = [completed EXCEPT ![c] = <<>>]
  /\ UNCHANGED <<prepped, chanVars, cookie, txVars>>

\* DMA_PAUSE
Pause(c) ==
  /\ Passes(c, "pause", "paused")
  /\ PauseStop(thread[c])
  /\ paused' = [paused EXCEPT ![c] = TRUE]
  /\ UNCHANGED <<listVars, thread, cyclic, cookieVars, txVars, oops>>

PauseRequest(c) ==
  /\ Passes(c, "paused", "none")
  /\ PauseDetach(thread[c])
  /\ UNCHANGED <<listVars, chanVars, cookieVars, txVars, oops>>

\* dma330_tx_status: the pause is reported once.
TxStatus(c) ==
  /\ Calls(c) /\ thread[c] # -1
  /\ paused[c]
  /\ paused' = [paused EXCEPT ![c] = FALSE]
  /\ UNCHANGED <<coreVars, listVars, thread, cyclic, runVars, cookieVars, txVars, oops>>

-----------------------------------------------------------------------------
(* dma330_tasklet, run by x on channel c                                    *)

At(c, x, l)    == pc[c][x] = l /\ MayRun(c, x)
Goto(c, x, l)  == pc' = [pc EXCEPT ![c][x] = l]
\* Mutant of FirstWith: the list is not walked from its head.
AnyWith(l, s, i) == i \in DOMAIN l /\ status[l[i]] = s

\* The first descriptor of list l whose status is s, if there is one.
FirstWith(l, s, i) ==
  /\ i \in DOMAIN l /\ status[l[i]] = s
  /\ \A j \in 1 .. i - 1 : status[l[j]] # s
NoneWith(l, s) == \A i \in DOMAIN l : status[l[i]] # s

\* The lock is taken: by the scheduled tasklet, or by the client that fell
\* through from issue_pending.
Enter(c, x) ==
  /\ MayRun(c, x) /\ lock[c] = "open"
  /\ \/ /\ x = "soft" /\ pc[c][x] = "idle" /\ scheduled[c]
        /\ scheduled' = [scheduled EXCEPT ![c] = FALSE]
     \/ /\ pc[c][x] = "entry" /\ UNCHANGED scheduled
  /\ lock' = [lock EXCEPT ![c] = x]
  /\ Goto(c, x, "harvest")
  /\ UNCHANGED <<coreVars, listVars, chanVars, control, cookieVars, txVars, oops>>

\* "Pick up ripe tomatoes": the DONE descriptors of the work_list.
Harvest(c, x) ==
  /\ At(c, x, "harvest")
  /\ \/ \E i \in DOMAIN work[c] :
          LET d == work[c][i] IN
          /\ FirstWith(work[c], "DONE", i)
          /\ IF cyclic[c]
             THEN UNCHANGED <<completedCookie, dcookie, oops>>
             ELSE /\ completedCookie' = [completedCookie EXCEPT ![c] = dcookie[d]]
                  /\ dcookie' = [dcookie EXCEPT ![d] = 0]
                  /\ oops' = (dcookie[d] = 0)
          /\ work' = [work EXCEPT ![c] = RemoveAt(@, i)]
          /\ completed' = [completed EXCEPT ![c] = Append(@, d)]
          /\ UNCHANGED pc
     \/ /\ NoneWith(work[c], "DONE")
        /\ Goto(c, x, "fill")
        /\ UNCHANGED <<work, completed, completedCookie, dcookie, oops>>
  /\ UNCHANGED <<coreVars, pool, prepped, submitted, chanVars, lock, scheduled, control,
                 cookie, txVars>>

\* fill_queue up to the unlocked test in dma330_submit_req, which reaches
\* through pch->thread.
FillQueue(c, x) ==
  /\ At(c, x, "fill")
  /\ Goto(c, x, IF NoneWith(work[c], "PREP") \/ thread[c] \in resetChan
                THEN "start" ELSE "hook")
  /\ oops' = (thread[c] = -1 /\ ~NoneWith(work[c], "PREP"))
  /\ UNCHANGED <<coreVars, listVars, chanVars, lock, scheduled, control, cookieVars, txVars>>

\* The rest of dma330_submit_req, and what fill_queue makes of its result: the
\* queue is full, the request unacceptable, or hooked.
Hook(c, x) ==
  /\ At(c, x, "hook")
  /\ \E i \in DOMAIN work[c] :
       LET d == work[c][i] IN
       /\ FirstWith(work[c], "PREP", i)
       /\ \/ /\ QueueFull(thread[c])
             /\ Goto(c, x, "start")
             /\ UNCHANGED <<coreVars, scheduled>>
          \/ /\ ~QueueFull(thread[c]) /\ d \in unfit
             /\ Mark({d}, "DONE")
             /\ scheduled' = [scheduled EXCEPT ![c] = TRUE]
             /\ Goto(c, x, "fill")
          \/ /\ d \notin unfit
             /\ SubmitReq(thread[c], d)
             /\ Goto(c, x, "fill")
             /\ UNCHANGED scheduled
  /\ UNCHANGED <<listVars, chanVars, lock, control, cookieVars, txVars, oops>>

\* Mutant of StartChan: the thread is not started again.
StartChanNot(c, x) ==
  /\ At(c, x, "start")
  /\ Goto(c, x, "finish")
  /\ UNCHANGED <<coreVars, listVars, chanVars, lock, scheduled, control, cookieVars, txVars, oops>>

\* _start on the thread of the channel, reached through pch->thread.
StartChan(c, x) ==
  /\ At(c, x, "start")
  /\ \/ thread[c] = -1 /\ oops' = TRUE /\ UNCHANGED coreVars
     \/ thread[c] # -1 /\ StartThread(thread[c]) /\ UNCHANGED oops
  /\ Goto(c, x, "finish")
  /\ UNCHANGED <<listVars, chanVars, lock, scheduled, control, cookieVars, txVars>>

\* One completed descriptor is recycled and the lock dropped for its callback;
\* without one the tasklet ends.
Finish(c, x) ==
  /\ At(c, x, "finish")
  /\ \/ /\ completed[c] = <<>>
        /\ Goto(c, x, "idle")
        /\ UNCHANGED <<coreVars, pool, work, completed>>
     \/ /\ completed[c] # <<>>
        /\ completed' = [completed EXCEPT ![c] = Tail(@)]
        /\ IF cyclic[c]
           THEN /\ Mark({Head(completed[c])}, "PREP")
                /\ work' = [work EXCEPT ![c] = Append(@, Head(completed[c]))]
                /\ UNCHANGED pool
           ELSE /\ Mark({Head(completed[c])}, "FREE")
                /\ pool' = Append(pool, Head(completed[c]))
                /\ UNCHANGED work
        /\ Goto(c, x, "callback")
  /\ lock' = [lock EXCEPT ![c] = "open"]
  /\ UNCHANGED <<prepped, submitted, chanVars, scheduled, control, cookieVars, txVars, oops>>

\* Back from the callback.
Resume(c, x) ==
  /\ At(c, x, "callback") /\ lock[c] = "open"
  /\ lock' = [lock EXCEPT ![c] = x]
  /\ Goto(c, x, "finish")
  /\ UNCHANGED <<coreVars, listVars, chanVars, scheduled, control, cookieVars, txVars, oops>>

-----------------------------------------------------------------------------
(* The core's own steps.  A callback waits for the lock of the channel and  *)
(* schedules its tasklet.                                                   *)

\* Mutant of Notifies: the tasklet is not scheduled.
NotifiesNobody(d) == (d = NULL \/ lock[owner[d]] = "open") /\ UNCHANGED scheduled

Notifies(d) ==
  IF d = NULL THEN UNCHANGED scheduled
  ELSE /\ lock[owner[d]] = "open"
       /\ scheduled' = [scheduled EXCEPT ![owner[d]] = TRUE]

Interrupt ==
  /\ \/ IrqMayRun /\ (UpdateCrash \/ UpdateEvents) /\ UNCHANGED scheduled
     \/ ((\E d \in Descs : UpdateList(d)) \/ UpdateExit) /\ UNCHANGED scheduled
     \/ UpdateRqcb /\ Notifies(irqDesc)
  /\ UNCHANGED <<listVars, chanVars, lock, pc, control, cookieVars, txVars, oops>>

Recovery ==
  /\ DotaskMayRun
  /\ \/ (DotaskBegin \/ DotaskRead \/ DotaskClear) /\ UNCHANGED scheduled
     \/ DotaskRqcb /\ Notifies(dtDesc)
  /\ UNCHANGED <<listVars, chanVars, lock, pc, control, cookieVars, txVars, oops>>

\* A transfer ends while the only processor has interrupts off: in the tasklet
\* if Env has "late", in a command if Env has that command.
MayEndNow ==
  \A c \in Chans :
    \/ lock[c] = "open"
    \/ control[c] = "none" /\ "late" \in Env
    \/ control[c] \in Env

Transfer(t) ==
  /\ \/ HwSev(t) /\ (SMP \/ MayEndNow)
     \/ HwEnd(t)
  /\ UNCHANGED layerVars

\* Likewise for a fault in the middle of a command.
Fault(t) ==
  /\ HwFault(t)
  /\ \A c \in Chans : control[c] \in {"none"} \cup Env
  /\ UNCHANGED layerVars

Client(c) ==
  \/ AllocChan(c) \/ FreeChan(c) \/ PrepSg(c) \/ PrepCyclic(c) \/ TxSubmit(c)
  \/ IssuePending(c) \/ (\E cmd \in {"terminate", "pause"} : Command(c, cmd))
  \/ Terminate(c) \/ TerminateAll(c) \/ Pause(c) \/ PauseRequest(c) \/ TxStatus(c)

Tasklet(c, x) ==
  \/ Enter(c, x) \/ Harvest(c, x) \/ FillQueue(c, x) \/ Hook(c, x)
  \/ StartChan(c, x) \/ Finish(c, x) \/ Resume(c, x)

Alive == crash = "no" /\ ~oops

Next ==
  /\ Alive
  /\ \/ \E c \in Chans : Client(c) \/ \E x \in Runners : Tasklet(c, x)
     \/ Interrupt \/ Recovery \/ \E t \in Threads : Transfer(t) \/ Fault(t)

Spec == Init /\ [][Next]_vars

\* The controller works, a transfer that is started again and again does not
\* fault for ever, interrupts and their recovery are served, and whoever waits
\* for pch->lock gets it in the end.  Clients need not call, but finish what
\* they began.
Finishes(c) ==
  Terminate(c) \/ TerminateAll(c) \/ Pause(c) \/ PauseRequest(c) \/ Tasklet(c, "client")

Fairness ==
  /\ \A t \in Threads : SF_vars(Alive /\ Transfer(t))
  /\ SF_vars(Alive /\ (Interrupt \/ Recovery))
  /\ \A c \in Chans : SF_vars(Alive /\ Finishes(c)) /\ SF_vars(Alive /\ Tasklet(c, "soft"))

FairSpec == Spec /\ Fairness

-----------------------------------------------------------------------------
(* Properties                                                               *)

\* What the channel holds as DONE has been transferred, or was refused: no
\* client is told of the end of a transfer that has not taken place.
DoneMeansTransferred ==
  \A c \in Chans : \A d \in Range(work[c]) \cup Range(completed[c]) :
    status[d] = "DONE" => d \in moved \cup unfit

\* Under every hazard a descriptor is in one place: the pool, the chain a
\* client has prepared, or one list of one channel.  None leaks, and none is
\* linked into two lists or twice into one.
Holds(c) == prepped[c] \o submitted[c] \o work[c] \o completed[c]
EveryDescOnce ==
  LET held == UNION {Range(Holds(c)) : c \in Chans} IN
  /\ IsInjective(pool) /\ \A c \in Chans : IsInjective(Holds(c))
  /\ \A b, c \in Chans : b # c => Range(Holds(b)) \cap Range(Holds(c)) = {}
  /\ Range(pool) \cap held = {}
  /\ Range(pool) \cup held = Descs

\* No path reaches a BUG_ON of the cookie helpers, or a thread that was given
\* back.
NoOops == ~oops

\* DMA_TERMINATE_ALL marks all descriptors done: every cookie the channel has
\* given out is complete.
TerminateCompletesAll ==
  [][\A c \in Chans : TerminateAll(c) => completedCookie'[c] = cookie[c]]_vars

\* Every channel is one of a DMA engine: transfers are carried out, completed
\* and reported in the order of their submission, each after its data was moved,
\* and the cookies of those that are still due are never taken for complete.
EngineChannel(c) ==
  LET Transfers(l) == [i \in DOMAIN l |-> [item |-> l[i], cookie |-> dcookie[l[i]]]] IN
  [waiting |-> Transfers(submitted[c]), active |-> Transfers(work[c]),
   moved |-> moved \cap Range(work[c]), finished |-> Transfers(completed[c]),
   cyclic |-> cyclic[c], given |-> cookie[c], done |-> completedCookie[c]]

Engine(c) == INSTANCE DmaEngine WITH
  Items    <- Descs,
  MaxChain <- IF MaxSg > Periods THEN MaxSg ELSE Periods,
  chan     <- EngineChannel(c)

EngineSpec ==
  /\ \A c \in Chans : Engine(c)!Init
  /\ [][\A c \in Chans : [Engine(c)!Next]_(EngineChannel(c))]_vars

\* The client of a transfer that was issued is called back for it, unless the
\* channel is terminated: what completes is neither left on work_list nor on
\* completed_list.  (Finish puts a transfer at the end of the pool and calls.)
IssuedCompletes ==
  \A c \in Chans, d \in Descs :
    d \in Range(work[c]) /\ ~cyclic[c] ~>
      \/ \E x \in Runners : pc[c][x] = "callback" /\ pool # <<>> /\ Last(pool) = d
      \/ control[c] = "terminated"

\* The client of a cyclic transfer is called back for one period after the
\* other, until it terminates the channel.  True of three periods, of which one
\* is PREP or hooked whenever the tasklet starts the thread; two can be DONE both.
CyclicGoesOn ==
  \A c \in Chans : (cyclic[c] /\ work[c] # <<>>)
                     ~> (work[c] = <<>> \/ \E x \in Runners : pc[c][x] = "callback")

=============================================================================
