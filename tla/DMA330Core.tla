------------------------------ MODULE DMA330Core ------------------------------
(***************************************************************************)
(* The lower half of socle_dma330.c: the channel threads of the DMA330     *)
(* with their two request slots, the interrupt handler dma330_update, the  *)
(* recovery tasklet dma330_dotask, and the controller they drive.          *)
(*                                                                         *)
(* A critical section of dmac->lock is one action.  Where the code drops   *)
(* the lock, a new action starts, and anything may happen in between: the  *)
(* lists of descriptors above this layer (module DMA330) call in from      *)
(* process context, from a tasklet or from another processor.              *)
(*                                                                         *)
(* The microcode of a request is abstracted to the descriptor it was built *)
(* for; KILL takes effect at once.  Faults of the manager thread, and the  *)
(* security states of threads, are left out.                               *)
(***************************************************************************)
EXTENDS Integers, FiniteSets

CONSTANTS
  Descs,      \* transfer descriptors (struct dma_dma330_desc)
  NULL,       \* no descriptor
  NumChan,    \* pcfg.num_chan, the hardware channel threads
  NumEvents,  \* pcfg.num_events
  Env         \* the hazards, among those below, that the environment exhibits

(***************************************************************************)
(* What the environment may do beyond orderly traffic:                     *)
(*   late       dma330_tasklet looks at a thread between the end of its    *)
(*              transfer and the interrupt of that transfer                *)
(*   terminate  DMA_TERMINATE_ALL while a completion is on its way         *)
(*   pause      DMA_PAUSE                                                  *)
(*   fault      a channel thread faults                                    *)
(*   release    a channel is freed with requests or events outstanding     *)
(*   refuse     dma330_submit_req finds a request unacceptable: its length *)
(*              is no multiple of its burst                                *)
(*   mixed      a channel is used for cyclic and for other transfers at    *)
(*              once                                                       *)
(***************************************************************************)
Hazards == {"late", "terminate", "pause", "fault", "release", "refuse", "mixed"}

ASSUME CoreAssumption ==
  /\ NULL \notin Descs
  /\ NumChan \in Nat \ {0}
  /\ NumEvents \in Nat \ {0}
  /\ Env \subseteq Hazards

Threads == 0 .. NumChan - 1
Events  == 0 .. NumEvents - 1
Slots   == 0 .. 1

VARIABLES
  \* struct dma330_thread
  free,         \* not acquired by a client
  ev,           \* the event the thread signals
  req,          \* req[t][i]: descriptor hooked in slot i, or NULL
  lstenq,       \* index of the last enqueued request
  running,      \* req_running
  \* struct dma330_dmac
  events,       \* events[e]: the thread that owns event e, or -1
  resetChan,    \* dmac_tbd.reset_chan, as a set of threads
  reqDone,      \* req_done: requests with due callbacks
  \* struct dma_dma330_desc
  status,
  moved,        \* history: descriptors whose data was moved since they were taken
  \* the controller
  hw,           \* what register CS of the thread would tell
  hwDesc,       \* the request whose microcode the thread executes
  es,           \* register ES: events raised and not cleared
  inten,        \* register INTEN: events that interrupt
  \* dma330_update in progress
  irqPc, irqDesc,
  \* dma330_dotask: scheduled, and in progress
  tasks, dtPc, dtChan, dtDesc,
  \* "no" until the kernel oopses or hangs
  crash

threadVars == <<free, ev, req, lstenq, running>>
dmacVars   == <<events, resetChan, reqDone>>
descVars   == <<status, moved>>
hwVars     == <<hw, hwDesc, es, inten>>
irqVars    == <<irqPc, irqDesc>>
taskVars   == <<tasks, dtPc, dtChan, dtDesc>>
coreVars   == <<threadVars, dmacVars, descVars, hwVars, irqVars, taskVars, crash>>

CoreTypeOK ==
  /\ free \in [Threads -> BOOLEAN]
  /\ ev \in [Threads -> Events]
  /\ req \in [Threads -> [Slots -> Descs \cup {NULL}]]
  /\ lstenq \in [Threads -> Slots]
  /\ running \in [Threads -> Slots \cup {-1}]
  /\ events \in [Events -> Threads \cup {-1}]
  /\ resetChan \in SUBSET Threads
  /\ reqDone \in SUBSET Descs
  /\ status \in [Descs -> {"FREE", "PREP", "BUSY", "DONE"}]
  /\ moved \in SUBSET Descs
  /\ hw \in [Threads -> {"stopped", "executing", "ending", "faulting"}]
  /\ hwDesc \in [Threads -> Descs \cup {NULL}]
  /\ es \in SUBSET Events
  /\ inten \in SUBSET Events
  /\ irqPc \in {"idle", "list", "rqcb"}
  /\ irqDesc \in Descs \cup {NULL}
  /\ tasks \in BOOLEAN
  /\ dtPc \in {"idle", "first", "rqcb1", "second", "rqcb2", "clear"}
  /\ dtChan \in Threads
  /\ dtDesc \in Descs \cup {NULL}
  /\ crash \in {"no", "null", "wild", "lock"}

(***************************************************************************)
(* After dma330_add: all threads free, no event owned, the controller      *)
(* idle, every descriptor in the pool.                                     *)
(***************************************************************************)
CoreInit ==
  /\ free = [t \in Threads |-> TRUE]
  /\ ev = [t \in Threads |-> 0]
  /\ req = [t \in Threads |-> [i \in Slots |-> NULL]]
  /\ lstenq = [t \in Threads |-> 0]
  /\ running = [t \in Threads |-> -1]
  /\ events = [e \in Events |-> -1]
  /\ resetChan = {} /\ reqDone = {}
  /\ status = [d \in Descs |-> "FREE"]
  /\ moved = {}
  /\ hw = [t \in Threads |-> "stopped"]
  /\ hwDesc = [t \in Threads |-> NULL]
  /\ es = {} /\ inten = {}
  /\ irqPc = "idle" /\ irqDesc = NULL
  /\ tasks = FALSE /\ dtPc = "idle" /\ dtChan = 0 /\ dtDesc = NULL
  /\ crash = "no"

-----------------------------------------------------------------------------
(* Helpers of the threads                                                   *)

\* Mutant of QueueFull: the test is forgotten.
QueueNeverFull(t) == FALSE

QueueFull(t)  == req[t][0] # NULL /\ req[t][1] # NULL
QueueEmpty(t) == req[t][0] = NULL /\ req[t][1] = NULL

\* The slot dma330_submit_req hooks a request in.
FreeSlot(t) == IF req[t][0] = NULL THEN 0 ELSE 1

\* The slot _trigger starts from among slots r, NULL in both if there is none.
SlotToRun(t, r) == IF r[1 - lstenq[t]] # NULL THEN 1 - lstenq[t] ELSE lstenq[t]

\* _start reaches _trigger, and _trigger finds a request among slots r.
\* A faulting thread is killed first; an executing one is left alone.
Starts(t, state, r) ==
  /\ state \in {"stopped", "faulting"}
  /\ r[SlotToRun(t, r)] # NULL

\* INTEN once _trigger has set the bit of the thread.
Unmasked(t) == inten \cup {ev[t]}

\* _start on thread t.
Start(t) ==
  IF Starts(t, hw[t], req[t])
  THEN LET i == SlotToRun(t, req[t]) IN
       /\ hw' = [hw EXCEPT ![t] = "executing"]
       /\ hwDesc' = [hwDesc EXCEPT ![t] = req[t][i]]
       /\ running' = [running EXCEPT ![t] = i]
       /\ inten' = Unmasked(t)
  ELSE /\ hw' = [hw EXCEPT ![t] = IF @ = "faulting" THEN "stopped" ELSE @]
       /\ hwDesc' = [hwDesc EXCEPT ![t] = IF hw[t] = "faulting" THEN NULL ELSE @]
       /\ inten' = IF hw[t] = "faulting" THEN inten \ {ev[t]} ELSE inten
       /\ UNCHANGED running

ToStop(T) == {t \in T : hw[t] # "stopped"}

\* _stop on the threads in T: a stopped thread keeps its INTEN bit, and no
\* pending event is cleared.
Stop(T) ==
  LET K == ToStop(T) IN
  /\ hw' = [t \in Threads |-> IF t \in K THEN "stopped" ELSE hw[t]]
  /\ hwDesc' = [t \in Threads |-> IF t \in K THEN NULL ELSE hwDesc[t]]
  /\ inten' = inten \ {ev[t] : t \in K}

\* dma_dma330_rqcb: whatever became of the request, its descriptor is DONE.
Rqcb(d) == status' = IF d = NULL THEN status ELSE [status EXCEPT ![d] = "DONE"]

-----------------------------------------------------------------------------
(* Calls from the layer above                                               *)

\* dma330_request_channel with _alloc_event: the first free thread, the first
\* free event.  With none left the call fails and acquires nothing.
RequestChannel(t, e) ==
  /\ free[t] /\ \A u \in Threads : free[u] => t <= u
  /\ events[e] = -1 /\ \A f \in Events : events[f] = -1 => e <= f
  /\ free' = [free EXCEPT ![t] = FALSE]
  /\ ev' = [ev EXCEPT ![t] = e]
  /\ events' = [events EXCEPT ![e] = t]
  /\ lstenq' = [lstenq EXCEPT ![t] = 1]
  /\ req' = [req EXCEPT ![t] = [i \in Slots |-> NULL]]
  /\ running' = [running EXCEPT ![t] = -1]
  /\ UNCHANGED <<resetChan, reqDone, descVars, hwVars, irqVars, taskVars, crash>>

\* Nothing of thread t is on its way: no event raised, no fault, no recovery.
Quiet(t) ==
  /\ ev[t] \notin es
  /\ hw[t] \in {"stopped", "executing"}
  /\ irqPc = "idle" /\ dtPc = "idle"
  /\ t \notin resetChan

\* Mutant of EventFreed: _free_event finds the event held by another thread.
EventKept(t) == events

\* _free_event
EventFreed(t) == [events EXCEPT ![ev[t]] = -1]

\* dma330_release_channel, called with pch->lock held: the callback of a
\* request that is still hooked takes that lock again.  _stop, which the code
\* calls before it takes dmac->lock to free the event, is joined with that.
ReleaseChannel(t) ==
  /\ ~free[t]
  /\ "release" \in Env \/ (QueueEmpty(t) /\ Quiet(t))
  /\ IF QueueEmpty(t)
     THEN /\ Stop({t})
          /\ events' = EventFreed(t)
          /\ free' = [free EXCEPT ![t] = TRUE]
          /\ UNCHANGED crash
     ELSE /\ crash' = "lock"
          /\ UNCHANGED <<hw, hwDesc, inten, events, free>>
  /\ UNCHANGED <<ev, req, lstenq, running, resetChan, reqDone, descVars,
                 es, irqVars, taskVars>>

\* dma330_submit_req past its unlocked test of reset_chan, and the BUSY mark
\* fill_queue puts on a descriptor it accepted.
SubmitReq(t, d) ==
  /\ ~free[t] /\ ~QueueFull(t)
  /\ status[d] = "PREP"
  /\ lstenq' = [lstenq EXCEPT ![t] = FreeSlot(t)]
  /\ req' = [req EXCEPT ![t][FreeSlot(t)] = d]
  /\ status' = [status EXCEPT ![d] = "BUSY"]
  /\ UNCHANGED <<free, ev, running, dmacVars, moved, hwVars, irqVars, taskVars, crash>>

\* dma330_tasklet makes sure that the thread is active.
StartThread(t) ==
  /\ ~free[t]
  /\ "late" \in Env \/ (hw[t] # "ending" /\ ~(running[t] # -1 /\ ev[t] \in es))
  /\ Start(t)
  /\ UNCHANGED <<free, ev, req, lstenq, dmacVars, descVars, es,
                 irqVars, taskVars, crash>>

\* DMA_TERMINATE_ALL in dma330_control holds dmac->lock only for _stop.
TerminateStop(t) ==
  /\ ~free[t]
  /\ "terminate" \in Env \/ Quiet(t)
  /\ Stop({t})
  /\ UNCHANGED <<threadVars, dmacVars, descVars, es, irqVars, taskVars, crash>>

\* The rest of it, with D the descriptors on the lists of the channel.
TerminateDetach(t, D) ==
  /\ ~free[t]
  /\ "terminate" \in Env \/ (hw[t] = "stopped" /\ ev[t] \notin es)
  /\ req' = [req EXCEPT ![t] = [i \in Slots |-> NULL]]
  /\ running' = [running EXCEPT ![t] = -1]
  /\ status' = [d \in Descs |-> IF d \in D THEN "FREE" ELSE status[d]]
  /\ moved' = moved \ D
  /\ UNCHANGED <<free, ev, lstenq, dmacVars, hwVars, irqVars, taskVars, crash>>

\* DMA_PAUSE in dma330_control, likewise in two parts.
PauseStop(t) ==
  /\ ~free[t] /\ "pause" \in Env
  /\ Stop({t})
  /\ UNCHANGED <<threadVars, dmacVars, descVars, es, irqVars, taskVars, crash>>

\* With no request running the case is left with pch->lock held and interrupts
\* off.
PauseDetach(t) ==
  /\ ~free[t] /\ "pause" \in Env
  /\ IF running[t] = -1
     THEN crash' = "lock" /\ UNCHANGED req
     ELSE req' = [req EXCEPT ![t][running[t]] = NULL] /\ UNCHANGED crash
  /\ UNCHANGED <<free, ev, lstenq, running, dmacVars, descVars, hwVars, irqVars, taskVars>>

\* The layer above gives the descriptors in D a status of its own: PREP when
\* they are taken for a transfer, FREE when they return to the pool, DONE when
\* dma330_submit_req finds them unacceptable.
Mark(D, s) ==
  /\ status' = [d \in Descs |-> IF d \in D THEN s ELSE status[d]]
  /\ moved' = IF s = "DONE" THEN moved ELSE moved \ D
  /\ UNCHANGED <<threadVars, dmacVars, hwVars, irqVars, taskVars, crash>>

-----------------------------------------------------------------------------
(* dma330_update, the interrupt handler                                     *)

Faulting == {t \in Threads : hw[t] = "faulting"}

IrqLine == es \cap inten # {} \/ Faulting # {}

\* Event e has no owner: id is -1 and channels[-1] is read.
WildEvent(e) == e \in es /\ events[e] = -1

\* The threads an event was raised for, less the aborted ones.
Notified == {t \in Threads : running[t] # -1 /\ \E e \in es : events[e] = t}

\* The request an event is taken for was detached before.
NullEvent(t) == t \in Notified /\ req[t][running[t]] = NULL

UpdateCrash ==
  /\ irqPc = "idle" /\ IrqLine
  /\ \/ \E e \in Events : WildEvent(e) /\ crash' = "wild"
     \/ \E t \in Threads : NullEvent(t) /\ crash' = "null"
  /\ UNCHANGED <<threadVars, dmacVars, descVars, hwVars, irqVars, taskVars>>

\* Mutant of Finished: the request hooked last is taken for the finished one.
FinishedNewest(t) == req[t][lstenq[t]]

\* The request thread t has finished.
Finished(t) == req[t][running[t]]

\* Mutants of Detached: the finished request stays hooked; both slots are emptied.
DetachedNone(t) == req[t]
DetachedBoth(t) == [i \in Slots |-> NULL]

\* The slots of thread t without it.
Detached(t) == [req[t] EXCEPT ![running[t]] = NULL]

\* Mutant of Cleared: INTCLR is not written.
ClearedNone == {}

\* Events cleared: those that interrupt, faulting threads being stopped.
Cleared == inten \ {ev[t] : t \in Faulting}

\* The first critical section: stop faulting threads, clear the events that
\* interrupt, detach the finished requests and get their threads going again.
UpdateEvents ==
  LET hwF == [t \in Threads |-> IF t \in Faulting THEN "stopped" ELSE hw[t]]
      reqN == [t \in Threads |-> IF t \in Notified THEN Detached(t) ELSE req[t]]
      Go == {t \in Notified : Starts(t, hwF[t], reqN[t])}
      next(t) == SlotToRun(t, reqN[t])
  IN
  /\ irqPc = "idle" /\ IrqLine
  /\ \A e \in Events : ~WildEvent(e)
  /\ \A t \in Threads : ~NullEvent(t)
  /\ resetChan' = resetChan \cup Faulting
  /\ es' = es \ Cleared
  /\ req' = reqN
  /\ reqDone' = reqDone \cup {Finished(t) : t \in Notified}
  /\ running' = [t \in Threads |-> IF t \in Go THEN next(t) ELSE running[t]]
  /\ hw' = [t \in Threads |-> IF t \in Go THEN "executing" ELSE hwF[t]]
  /\ hwDesc' = [t \in Threads |-> IF t \in Go THEN reqN[t][next(t)]
                                  ELSE IF t \in Faulting THEN NULL ELSE hwDesc[t]]
  /\ inten' = (inten \ {ev[t] : t \in Faulting}) \cup {ev[t] : t \in Go}
  /\ irqPc' = "list"
  /\ UNCHANGED <<free, ev, lstenq, events, descVars, irqDesc, taskVars, crash>>

\* One turn of the callback loop: a request is taken off req_done under the
\* lock, its callback made without it.
UpdateList(d) ==
  /\ irqPc = "list" /\ d \in reqDone
  /\ reqDone' = reqDone \ {d}
  /\ irqDesc' = d /\ irqPc' = "rqcb"
  /\ UNCHANGED <<threadVars, events, resetChan, descVars, hwVars, taskVars, crash>>

UpdateRqcb ==
  /\ irqPc = "rqcb"
  /\ Rqcb(irqDesc)
  /\ irqDesc' = NULL /\ irqPc' = "list"
  /\ UNCHANGED <<threadVars, dmacVars, moved, hwVars, taskVars, crash>>

UpdateExit ==
  /\ irqPc = "list" /\ reqDone = {}
  /\ irqPc' = "idle"
  /\ tasks' = (tasks \/ resetChan # {})
  /\ UNCHANGED <<threadVars, dmacVars, descVars, hwVars, irqDesc, dtPc, dtChan, dtDesc, crash>>

-----------------------------------------------------------------------------
(* dma330_dotask, the recovery tasklet                                      *)

\* The loop goes on with the first thread of S: it is stopped and the lock
\* dropped.  With none left the tasklet ends.
DotaskNext(S) ==
  \/ /\ S = {} /\ dtPc' = "idle"
     /\ UNCHANGED <<dtChan, hw, hwDesc, inten>>
  \/ \E t \in S : /\ \A u \in S : t <= u
                 /\ dtChan' = t /\ dtPc' = "first"
                 /\ Stop({t})

DotaskBegin ==
  /\ tasks /\ dtPc = "idle"
  /\ tasks' = FALSE
  /\ DotaskNext(resetChan)
  /\ UNCHANGED <<threadVars, dmacVars, descVars, es, irqVars, dtDesc, crash>>

\* The argument of each of the two callbacks is read from the slots without
\* the lock.
DotaskRead ==
  /\ \/ /\ dtPc = "first" /\ dtPc' = "rqcb1"
        /\ dtDesc' = req[dtChan][1 - lstenq[dtChan]]
     \/ /\ dtPc = "second" /\ dtPc' = "rqcb2"
        /\ dtDesc' = req[dtChan][lstenq[dtChan]]
  /\ UNCHANGED <<threadVars, dmacVars, descVars, hwVars, irqVars, tasks, dtChan, crash>>

DotaskRqcb ==
  /\ \/ dtPc = "rqcb1" /\ dtPc' = "second"
     \/ dtPc = "rqcb2" /\ dtPc' = "clear"
  /\ Rqcb(dtDesc)
  /\ dtDesc' = NULL
  /\ UNCHANGED <<threadVars, dmacVars, moved, hwVars, irqVars, tasks, dtChan, crash>>

DotaskClear ==
  /\ dtPc = "clear"
  /\ req' = [req EXCEPT ![dtChan] = [i \in Slots |-> NULL]]
  /\ running' = [running EXCEPT ![dtChan] = -1]
  /\ resetChan' = resetChan \ {dtChan}
  /\ DotaskNext({t \in resetChan : t > dtChan})
  /\ UNCHANGED <<free, ev, lstenq, events, reqDone, descVars, es, irqVars, tasks, dtDesc, crash>>

-----------------------------------------------------------------------------
(* The controller runs the microcode: the transfer, DMASEV, DMAEND.         *)

HwSev(t) ==
  /\ hw[t] = "executing"
  /\ hw' = [hw EXCEPT ![t] = "ending"]
  /\ es' = es \cup {ev[t]}
  /\ moved' = moved \cup {hwDesc[t]}
  /\ UNCHANGED <<threadVars, dmacVars, status, hwDesc, inten, irqVars, taskVars, crash>>

HwEnd(t) ==
  /\ hw[t] = "ending"
  /\ hw' = [hw EXCEPT ![t] = "stopped"]
  /\ hwDesc' = [hwDesc EXCEPT ![t] = NULL]
  /\ UNCHANGED <<threadVars, dmacVars, descVars, es, inten, irqVars, taskVars, crash>>

HwFault(t) ==
  /\ "fault" \in Env
  /\ hw[t] = "executing"
  /\ hw' = [hw EXCEPT ![t] = "faulting"]
  /\ UNCHANGED <<threadVars, dmacVars, descVars, hwDesc, es, inten, irqVars, taskVars, crash>>

-----------------------------------------------------------------------------
(* The core under any layer above that keeps to three rules: it submits     *)
(* descriptors it prepared, it reuses none that is BUSY, and what DMA_      *)
(* TERMINATE_ALL frees is all the thread has hooked, nothing that another   *)
(* thread has hooked and nothing whose callback is due.                     *)

Hooked(t) == {req[t][i] : i \in Slots} \ {NULL}

Due == reqDone \cup ({irqDesc} \ {NULL})

Caller ==
  \E t \in Threads :
    \/ \E e \in Events : RequestChannel(t, e)
    \/ ReleaseChannel(t)
    \/ \E d \in Descs : SubmitReq(t, d)
    \/ StartThread(t)
    \/ TerminateStop(t)
    \/ \E D \in SUBSET Descs :
         /\ Hooked(t) \subseteq D
         /\ "terminate" \in Env \/ D \cap Due = {}
         /\ \A u \in Threads \ {t} : Hooked(u) \cap D = {}
         /\ TerminateDetach(t, D)
    \/ PauseStop(t)
    \/ PauseDetach(t)

Recycle ==
  \E D \in SUBSET Descs, s \in {"FREE", "PREP", "DONE"} :
    /\ \A d \in D : status[d] # "BUSY"
    /\ Mark(D, s)

Update == UpdateCrash \/ UpdateEvents \/ (\E d \in Descs : UpdateList(d)) \/ UpdateRqcb \/ UpdateExit
Dotask == DotaskBegin \/ DotaskRead \/ DotaskRqcb \/ DotaskClear
Controller == \E t \in Threads : HwSev(t) \/ HwEnd(t) \/ HwFault(t)

CoreNext == crash = "no" /\ (Caller \/ Recycle \/ Update \/ Dotask \/ Controller)

CoreSpec == CoreInit /\ [][CoreNext]_coreVars

-----------------------------------------------------------------------------
(* Properties                                                               *)

\* The controller executes only a request that is still hooked: the buffer of
\* a transfer the driver has let go of is not written any more.
HwRunsHooked ==
  \A t \in Threads : hw[t] = "executing" =>
    running[t] # -1 /\ req[t][running[t]] = hwDesc[t]

\* A submission is carried out once: what the controller executes it has not
\* moved before.
MovedOnce == \A t \in Threads : hw[t] = "executing" => hwDesc[t] \notin moved

\* dma330_update reports only requests the controller has finished.
ReportsMoved == Due \subseteq moved

\* A descriptor that is BUSY is hooked, or its callback is due: none is left
\* behind that no interrupt will ever complete.
BusyAccounted ==
  \A d \in Descs : status[d] = "BUSY" => d \in Due \/ \E t \in Threads : d \in Hooked(t)

\* Threads and events own each other, under every hazard: an event is given
\* back with the thread it was allocated for.
EventsOwned ==
  /\ \A t \in Threads : ~free[t] => ev[t] \in Events /\ events[ev[t]] = t
  /\ \A e \in Events : events[e] # -1 => ~free[events[e]] /\ ev[events[e]] = e

\* A thread nobody has acquired moves no data, under every hazard.
FreeStopped == \A t \in Threads : free[t] => hw[t] = "stopped"

\* A thread that executes will interrupt, under every hazard: the event of its
\* transfer is never masked.
RunningInterrupts == \A t \in Threads : hw[t] = "executing" => ev[t] \in inten

\* The three together, which only hold together: a freed thread is stopped
\* because its event is nobody else's, and an executing one has its event
\* unmasked because stopping another masks another event.
ThreadsOwned == EventsOwned /\ FreeStopped /\ RunningInterrupts

\* The interrupt handler finds the request and the thread of every event, and
\* no path leaves a lock behind or takes it twice.
NoCrash == crash = "no"

=============================================================================
