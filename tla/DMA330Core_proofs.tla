--------------------------- MODULE DMA330Core_proofs ---------------------------
(***************************************************************************)
(* Proofs about DMA330Core, for any number of threads, events and          *)
(* descriptors: first what holds under every hazard, then the safety of an *)
(* orderly environment.                                                    *)
(***************************************************************************)
EXTENDS DMA330Core, TLAPS

\* What the type of moved rests on: an executing thread executes a request.
ExecutesRequest == \A t \in Threads : hw[t] = "executing" => hwDesc[t] \in Descs

TypeInv == CoreTypeOK /\ ExecutesRequest

\* The steps of CoreNext whether or not the caller keeps to the rules of Caller and
\* Recycle: what holds under every hazard does not depend on them.
AnyCall ==
  \E t \in Threads :
    \/ \E e \in Events : RequestChannel(t, e)
    \/ ReleaseChannel(t)
    \/ \E d \in Descs : SubmitReq(t, d)
    \/ StartThread(t)
    \/ TerminateStop(t)
    \/ \E D \in SUBSET Descs : TerminateDetach(t, D)
    \/ PauseStop(t)
    \/ PauseDetach(t)

AnyMark == \E D \in SUBSET Descs, s \in {"FREE", "PREP", "DONE"} : Mark(D, s)

AnyNext == AnyCall \/ AnyMark \/ Update \/ Dotask \/ Controller

LEMMA NextIsAny == [CoreNext]_coreVars => [AnyNext]_coreVars
  BY DEF CoreNext, AnyNext, Caller, AnyCall, Recycle, AnyMark

-----------------------------------------------------------------------------
(* Types                                                                    *)

\* The initial state has its types.
LEMMA TypeInit == CoreInit => TypeInv
  <1> SUFFICES ASSUME CoreInit PROVE TypeInv
    OBVIOUS
  <1>1. 0 \in Threads /\ 0 \in Events
    BY CoreAssumption DEF Threads, Events
  <1>2. 0 \in Slots
    BY DEF Slots
  <1>3. dtChan \in Threads /\ ev \in [Threads -> Events]
    BY <1>1 DEF CoreInit
  <1>4. /\ req \in [Threads -> [Slots -> Descs \cup {NULL}]]
        /\ lstenq \in [Threads -> Slots]
        /\ running \in [Threads -> Slots \cup {-1}]
    BY <1>2 DEF CoreInit
  <1>5. ExecutesRequest
    BY DEF CoreInit, ExecutesRequest
  <1>6. QED
    BY <1>3, <1>4, <1>5 DEF CoreInit, TypeInv, CoreTypeOK

\* _start keeps the types of what it touches.
LEMMA StartType ==
  ASSUME TypeInv, NEW t \in Threads, Start(t)
  PROVE  /\ hw' \in [Threads -> {"stopped", "executing", "ending", "faulting"}]
         /\ hwDesc' \in [Threads -> Descs \cup {NULL}]
         /\ running' \in [Threads -> Slots \cup {-1}]
         /\ inten' \in SUBSET Events
         /\ \A u \in Threads : hw'[u] = "executing" => hwDesc'[u] \in Descs
  <1>1. SlotToRun(t, req[t]) \in Slots
    BY DEF SlotToRun, TypeInv, CoreTypeOK, Slots
  <1>2. CASE Starts(t, hw[t], req[t])
    <2>1. req[t][SlotToRun(t, req[t])] \in Descs
      BY <1>1, <1>2 DEF Starts, TypeInv, CoreTypeOK
    <2>2. /\ hw' = [hw EXCEPT ![t] = "executing"]
          /\ hwDesc' = [hwDesc EXCEPT ![t] = req[t][SlotToRun(t, req[t])]]
          /\ running' = [running EXCEPT ![t] = SlotToRun(t, req[t])]
          /\ inten' = inten \cup {ev[t]}
      BY <1>2 DEF Start, Unmasked
    <2>3. /\ hw' \in [Threads -> {"stopped", "executing", "ending", "faulting"}]
          /\ hwDesc' \in [Threads -> Descs \cup {NULL}]
      BY <2>1, <2>2 DEF TypeInv, CoreTypeOK
    <2>4. running' \in [Threads -> Slots \cup {-1}]
      BY <1>1, <2>2 DEF TypeInv, CoreTypeOK
    <2>5. inten' \in SUBSET Events
      BY <2>2 DEF TypeInv, CoreTypeOK
    <2>6. \A u \in Threads : hw'[u] = "executing" => hwDesc'[u] \in Descs
      BY <2>1, <2>2 DEF TypeInv, CoreTypeOK, ExecutesRequest
    <2>7. QED
      BY <2>3, <2>4, <2>5, <2>6
  <1>3. CASE ~Starts(t, hw[t], req[t])
    <2>1. /\ hw' \in [Threads -> {"stopped", "executing", "ending", "faulting"}]
          /\ hwDesc' \in [Threads -> Descs \cup {NULL}]
      BY <1>3 DEF Start, TypeInv, CoreTypeOK
    <2>2. /\ running' \in [Threads -> Slots \cup {-1}]
          /\ inten' \in SUBSET Events
      BY <1>3 DEF Start, TypeInv, CoreTypeOK
    <2>3. \A u \in Threads : hw'[u] = "executing" => hwDesc'[u] \in Descs
      BY <1>3 DEF Start, TypeInv, CoreTypeOK, ExecutesRequest
    <2>4. QED
      BY <2>1, <2>2, <2>3
  <1>4. QED
    BY <1>2, <1>3

\* _stop keeps the types of what it touches.
LEMMA StopType ==
  ASSUME TypeInv, NEW T \in SUBSET Threads, Stop(T)
  PROVE  /\ hw' \in [Threads -> {"stopped", "executing", "ending", "faulting"}]
         /\ hwDesc' \in [Threads -> Descs \cup {NULL}]
         /\ inten' \in SUBSET Events
         /\ \A u \in Threads : hw'[u] = "executing" => hwDesc'[u] \in Descs
  BY DEF Stop, ToStop, TypeInv, CoreTypeOK, ExecutesRequest

\* The calls from above keep the types.
LEMMA CallerType == TypeInv /\ AnyCall => TypeInv'
  <1> SUFFICES ASSUME TypeInv, NEW t \in Threads,
                      \/ \E e \in Events : RequestChannel(t, e)
                      \/ ReleaseChannel(t)
                      \/ \E d \in Descs : SubmitReq(t, d)
                      \/ StartThread(t)
                      \/ TerminateStop(t)
                      \/ \E D \in SUBSET Descs : TerminateDetach(t, D)
                      \/ PauseStop(t)
                      \/ PauseDetach(t)
               PROVE  TypeInv'
    BY DEF AnyCall
  <1> USE DEF threadVars, dmacVars, descVars, hwVars, irqVars, taskVars
  <1>1. ASSUME NEW e \in Events, RequestChannel(t, e) PROVE TypeInv'
    BY <1>1 DEF RequestChannel, TypeInv, CoreTypeOK, ExecutesRequest, Slots
  <1>2. CASE ReleaseChannel(t)
    <2>1. CASE QueueEmpty(t)
      BY <1>2, <2>1, StopType DEF ReleaseChannel, EventFreed, TypeInv, CoreTypeOK, ExecutesRequest
    <2>2. CASE ~QueueEmpty(t)
      BY <1>2, <2>2 DEF ReleaseChannel, TypeInv, CoreTypeOK, ExecutesRequest
    <2>3. QED BY <2>1, <2>2
  <1>3. ASSUME NEW d \in Descs, SubmitReq(t, d) PROVE TypeInv'
    <2>1. FreeSlot(t) \in Slots
      BY DEF FreeSlot, Slots
    <2>2. QED
      BY <1>3, <2>1 DEF SubmitReq, TypeInv, CoreTypeOK, ExecutesRequest
  <1>4. CASE StartThread(t)
    BY <1>4, StartType DEF StartThread, TypeInv, CoreTypeOK, ExecutesRequest
  <1>5. CASE TerminateStop(t)
    BY <1>5, StopType DEF TerminateStop, TypeInv, CoreTypeOK, ExecutesRequest
  <1>6. ASSUME NEW D \in SUBSET Descs, TerminateDetach(t, D) PROVE TypeInv'
    BY <1>6 DEF TerminateDetach, TypeInv, CoreTypeOK, ExecutesRequest
  <1>7. CASE PauseStop(t)
    BY <1>7, StopType DEF PauseStop, TypeInv, CoreTypeOK, ExecutesRequest
  <1>8. CASE PauseDetach(t)
    <2>1. CASE running[t] = -1
      BY <1>8, <2>1 DEF PauseDetach, TypeInv, CoreTypeOK, ExecutesRequest
    <2>2. CASE running[t] # -1
      <3>1. running[t] \in Slots
        BY <2>2 DEF TypeInv, CoreTypeOK
      <3>2. req' = [req EXCEPT ![t][running[t]] = NULL]
        BY <1>8, <2>2 DEF PauseDetach
      <3>3. req' \in [Threads -> [Slots -> Descs \cup {NULL}]]
        BY <3>1, <3>2 DEF TypeInv, CoreTypeOK
      <3>4. QED
        BY <1>8, <2>2, <3>3 DEF PauseDetach, TypeInv, CoreTypeOK, ExecutesRequest
    <2>3. QED BY <2>1, <2>2
  <1>9. QED BY <1>1, <1>2, <1>3, <1>4, <1>5, <1>6, <1>7, <1>8

\* The marks of the layer above keep the types.
LEMMA RecycleType == TypeInv /\ AnyMark => TypeInv'
  BY DEF AnyMark, Mark, TypeInv, CoreTypeOK, ExecutesRequest,
         threadVars, dmacVars, hwVars, irqVars, taskVars

\* A notified thread has an owner of its event to answer for it, and the request
\* it has finished is there.
LEMMA NotifiedType ==
  ASSUME TypeInv, \A t \in Threads : ~NullEvent(t), NEW t \in Threads, t \in Notified
  PROVE  /\ running[t] \in Slots
         /\ Finished(t) \in Descs
         /\ Detached(t) \in [Slots -> Descs \cup {NULL}]
  <1>1. running[t] \in Slots
    BY DEF Notified, TypeInv, CoreTypeOK
  <1>2. QED
    BY <1>1 DEF NullEvent, Finished, Detached, TypeInv, CoreTypeOK

\* The interrupt handler keeps the types.
LEMMA UpdateType == TypeInv /\ Update => TypeInv'
  <1> SUFFICES ASSUME TypeInv, Update PROVE TypeInv'
    OBVIOUS
  <1> USE DEF threadVars, dmacVars, descVars, hwVars, irqVars, taskVars
  <1>1. CASE UpdateCrash
    BY <1>1 DEF UpdateCrash, TypeInv, CoreTypeOK, ExecutesRequest
  <1>2. CASE UpdateEvents
    <2> DEFINE hwF == [t \in Threads |-> IF t \in Faulting THEN "stopped" ELSE hw[t]]
               reqN == [t \in Threads |-> IF t \in Notified THEN Detached(t) ELSE req[t]]
               Go == {t \in Notified : Starts(t, hwF[t], reqN[t])}
               next(t) == SlotToRun(t, reqN[t])
    <2>1. \A t \in Notified : running[t] \in Slots /\ Finished(t) \in Descs
                              /\ Detached(t) \in [Slots -> Descs \cup {NULL}]
      BY <1>2, NotifiedType DEF UpdateEvents, Notified
    <2>2. reqN \in [Threads -> [Slots -> Descs \cup {NULL}]]
      BY <2>1 DEF TypeInv, CoreTypeOK
    <2>3. \A t \in Threads : next(t) \in Slots
      BY DEF SlotToRun, TypeInv, CoreTypeOK, Slots
    <2>4. Go \subseteq Threads /\ \A t \in Go : reqN[t][next(t)] \in Descs
      BY <2>2, <2>3 DEF Starts, Notified
    <2>5. /\ resetChan' = resetChan \cup Faulting
          /\ es' = es \ Cleared
          /\ req' = reqN
          /\ reqDone' = reqDone \cup {Finished(t) : t \in Notified}
          /\ running' = [t \in Threads |-> IF t \in Go THEN next(t) ELSE running[t]]
          /\ hw' = [t \in Threads |-> IF t \in Go THEN "executing" ELSE hwF[t]]
          /\ hwDesc' = [t \in Threads |-> IF t \in Go THEN reqN[t][next(t)]
                                          ELSE IF t \in Faulting THEN NULL ELSE hwDesc[t]]
          /\ inten' = (inten \ {ev[t] : t \in Faulting}) \cup {ev[t] : t \in Go}
          /\ irqPc' = "list"
          /\ UNCHANGED <<free, ev, lstenq, events, descVars, irqDesc, taskVars, crash>>
      BY <1>2 DEF UpdateEvents
    <2> HIDE DEF reqN, Go, next
    <2>6. /\ req' \in [Threads -> [Slots -> Descs \cup {NULL}]]
          /\ running' \in [Threads -> Slots \cup {-1}]
      BY <2>2, <2>3, <2>5 DEF TypeInv, CoreTypeOK
    <2>7. /\ hw' \in [Threads -> {"stopped", "executing", "ending", "faulting"}]
          /\ hwDesc' \in [Threads -> Descs \cup {NULL}]
          /\ ExecutesRequest'
      BY <2>4, <2>5 DEF TypeInv, CoreTypeOK, ExecutesRequest, Faulting
    <2>8. /\ inten' \in SUBSET Events /\ es' \in SUBSET Events
          /\ reqDone' \in SUBSET Descs /\ resetChan' \in SUBSET Threads
      BY <2>1, <2>4, <2>5 DEF TypeInv, CoreTypeOK, Faulting
    <2>9. QED
      BY <2>5, <2>6, <2>7, <2>8 DEF TypeInv, CoreTypeOK
  <1>3. ASSUME NEW d \in Descs, UpdateList(d) PROVE TypeInv'
    BY <1>3 DEF UpdateList, TypeInv, CoreTypeOK, ExecutesRequest
  <1>4. CASE UpdateRqcb
    BY <1>4 DEF UpdateRqcb, Rqcb, TypeInv, CoreTypeOK, ExecutesRequest
  <1>5. CASE UpdateExit
    BY <1>5 DEF UpdateExit, TypeInv, CoreTypeOK, ExecutesRequest
  <1>6. QED
    BY <1>1, <1>2, <1>3, <1>4, <1>5 DEF Update

\* The step of the recovery loop keeps the types of what it touches.
LEMMA DotaskNextType ==
  ASSUME TypeInv, NEW S \in SUBSET Threads, DotaskNext(S)
  PROVE  /\ hw' \in [Threads -> {"stopped", "executing", "ending", "faulting"}]
         /\ hwDesc' \in [Threads -> Descs \cup {NULL}]
         /\ inten' \in SUBSET Events
         /\ \A u \in Threads : hw'[u] = "executing" => hwDesc'[u] \in Descs
         /\ dtChan' \in Threads /\ dtPc' \in {"idle", "first"}
  <1>1. CASE S = {}
    BY <1>1 DEF DotaskNext, TypeInv, CoreTypeOK, ExecutesRequest
  <1>2. CASE S # {}
    <2>1. PICK t \in S : dtChan' = t /\ dtPc' = "first" /\ Stop({t})
      BY <1>2 DEF DotaskNext
    <2>2. QED
      BY <2>1, StopType
  <1>3. QED
    BY <1>1, <1>2

\* The recovery tasklet keeps the types.
LEMMA DotaskType == TypeInv /\ Dotask => TypeInv'
  <1> SUFFICES ASSUME TypeInv, Dotask PROVE TypeInv'
    OBVIOUS
  <1> USE DEF threadVars, dmacVars, descVars, hwVars, irqVars, taskVars
  <1>1. CASE DotaskBegin
    <2>1. resetChan \in SUBSET Threads /\ DotaskNext(resetChan)
      BY <1>1 DEF DotaskBegin, TypeInv, CoreTypeOK
    <2>2. QED
      BY <1>1, <2>1, DotaskNextType DEF DotaskBegin, TypeInv, CoreTypeOK, ExecutesRequest
  <1>2. CASE DotaskRead
    <2>1. lstenq[dtChan] \in Slots /\ 1 - lstenq[dtChan] \in Slots
      BY DEF TypeInv, CoreTypeOK, Slots
    <2>2. dtDesc' \in Descs \cup {NULL}
      BY <1>2, <2>1 DEF DotaskRead, TypeInv, CoreTypeOK
    <2>3. QED
      BY <1>2, <2>2 DEF DotaskRead, TypeInv, CoreTypeOK, ExecutesRequest
  <1>3. CASE DotaskRqcb
    BY <1>3 DEF DotaskRqcb, Rqcb, TypeInv, CoreTypeOK, ExecutesRequest
  <1>4. CASE DotaskClear
    <2>1. DotaskNext({t \in resetChan : t > dtChan})
          /\ {t \in resetChan : t > dtChan} \in SUBSET Threads
      BY <1>4 DEF DotaskClear, TypeInv, CoreTypeOK
    <2>2. QED
      BY <1>4, <2>1, DotaskNextType DEF DotaskClear, TypeInv, CoreTypeOK, ExecutesRequest
  <1>5. QED
    BY <1>1, <1>2, <1>3, <1>4 DEF Dotask

\* The controller keeps the types.
LEMMA ControllerType == TypeInv /\ Controller => TypeInv'
  <1> SUFFICES ASSUME TypeInv, NEW t \in Threads, HwSev(t) \/ HwEnd(t) \/ HwFault(t)
               PROVE  TypeInv'
    BY DEF Controller
  <1> USE DEF threadVars, dmacVars, descVars, hwVars, irqVars, taskVars
  <1>1. CASE HwSev(t)
    <2>1. ev[t] \in Events /\ hwDesc[t] \in Descs
      BY <1>1 DEF HwSev, TypeInv, CoreTypeOK, ExecutesRequest
    <2>2. QED
      BY <1>1, <2>1 DEF HwSev, TypeInv, CoreTypeOK, ExecutesRequest
  <1>2. CASE HwEnd(t)
    BY <1>2 DEF HwEnd, TypeInv, CoreTypeOK, ExecutesRequest
  <1>3. CASE HwFault(t)
    BY <1>3 DEF HwFault, TypeInv, CoreTypeOK, ExecutesRequest
  <1>4. QED
    BY <1>1, <1>2, <1>3

\* Every step keeps the types.
LEMMA TypeStep == TypeInv /\ [AnyNext]_coreVars => TypeInv'
  <1>1. TypeInv /\ UNCHANGED coreVars => TypeInv'
    BY DEF coreVars, threadVars, dmacVars, descVars, hwVars, irqVars, taskVars,
           TypeInv, CoreTypeOK, ExecutesRequest
  <1>2. QED
    BY <1>1, CallerType, RecycleType, UpdateType, DotaskType, ControllerType DEF AnyNext

\* Type correctness of the lower half, under every hazard: no slot index, event
\* number or thread number leaves its range.
THEOREM TypeCorrect == CoreSpec => []CoreTypeOK
  <1>1. CoreSpec => []TypeInv
    BY TypeInit, TypeStep, NextIsAny, PTL DEF CoreSpec
  <1>2. TypeInv => CoreTypeOK
    BY DEF TypeInv
  <1>3. QED
    BY <1>1, <1>2, PTL

-----------------------------------------------------------------------------
(* Threads and events, under every hazard                                   *)

OwnInv == TypeInv /\ EventsOwned /\ FreeStopped /\ RunningInterrupts

\* Two acquired threads have different events.
LEMMA EventsDiffer ==
  ASSUME EventsOwned, NEW t \in Threads, NEW u \in Threads, ~free[t], ~free[u], t # u
  PROVE  ev[t] # ev[u]
  BY DEF EventsOwned

\* The initial state.
LEMMA OwnInit == CoreInit => OwnInv
  <1> SUFFICES ASSUME CoreInit PROVE OwnInv
    OBVIOUS
  <1>1. TypeInv
    BY TypeInit
  <1>2. EventsOwned
    BY DEF CoreInit, EventsOwned
  <1>3. FreeStopped /\ RunningInterrupts
    BY DEF CoreInit, FreeStopped, RunningInterrupts
  <1>4. QED
    BY <1>1, <1>2, <1>3 DEF OwnInv

\* _stop starts nothing, and masks no event of a thread it leaves executing.
LEMMA StopOwn ==
  ASSUME OwnInv, NEW T \in SUBSET Threads, Stop(T)
  PROVE  /\ \A u \in Threads : free[u] => hw'[u] = "stopped"
         /\ \A u \in Threads : hw'[u] = "executing" => ev[u] \in inten'
  <1> USE DEF OwnInv
  <1>1. \A u \in Threads : free[u] => hw'[u] = "stopped"
    BY DEF Stop, FreeStopped
  <1>2. ASSUME NEW u \in Threads, hw'[u] = "executing" PROVE ev[u] \in inten'
    <2>1. u \notin ToStop(T) /\ hw[u] = "executing" /\ ~free[u]
      BY <1>2 DEF Stop, FreeStopped
    <2>2. \A t \in ToStop(T) : t \in Threads /\ ~free[t] /\ t # u
      BY <2>1 DEF ToStop, FreeStopped
    <2>3. \A t \in ToStop(T) : ev[t] # ev[u]
      BY <2>1, <2>2, EventsDiffer
    <2>4. ev[u] \in inten
      BY <2>1 DEF RunningInterrupts
    <2>5. QED
      BY <2>3, <2>4 DEF Stop
  <1>3. QED
    BY <1>1, <1>2

\* _start on an acquired thread unmasks its event and masks no other.
LEMMA StartOwn ==
  ASSUME OwnInv, NEW t \in Threads, ~free[t], Start(t)
  PROVE  /\ \A u \in Threads : free[u] => hw'[u] = "stopped"
         /\ \A u \in Threads : hw'[u] = "executing" => ev[u] \in inten'
  <1> USE DEF OwnInv
  <1>1. CASE Starts(t, hw[t], req[t])
    <2>1. /\ hw' = [hw EXCEPT ![t] = "executing"]
          /\ inten' = inten \cup {ev[t]}
      BY <1>1 DEF Start, Unmasked
    <2>2. QED
      BY <2>1 DEF TypeInv, CoreTypeOK, FreeStopped, RunningInterrupts
  <1>2. CASE ~Starts(t, hw[t], req[t])
    <2>1. /\ hw' = [hw EXCEPT ![t] = IF @ = "faulting" THEN "stopped" ELSE @]
          /\ inten' = IF hw[t] = "faulting" THEN inten \ {ev[t]} ELSE inten
      BY <1>2 DEF Start
    <2>2. \A u \in Threads : free[u] => hw'[u] = "stopped"
      BY <2>1 DEF TypeInv, CoreTypeOK, FreeStopped
    <2>3. ASSUME NEW u \in Threads, hw'[u] = "executing" PROVE ev[u] \in inten'
      <3>1. hw[u] = "executing" /\ ~free[u] /\ (hw[t] = "faulting" => u # t)
        BY <2>1, <2>3 DEF TypeInv, CoreTypeOK, FreeStopped
      <3>2. ev[u] \in inten
        BY <3>1 DEF RunningInterrupts
      <3>3. hw[t] = "faulting" => ev[u] # ev[t]
        BY <3>1, EventsDiffer
      <3>4. QED
        BY <2>1, <3>2, <3>3
    <2>4. QED
      BY <2>2, <2>3
  <1>3. QED
    BY <1>1, <1>2

\* Every call from above keeps the ownership of events.
LEMMA CallerOwn == OwnInv /\ AnyCall => OwnInv'
  <1> SUFFICES ASSUME OwnInv, NEW t \in Threads, AnyCall,
                      \/ \E e \in Events : RequestChannel(t, e)
                      \/ ReleaseChannel(t)
                      \/ \E d \in Descs : SubmitReq(t, d)
                      \/ StartThread(t)
                      \/ TerminateStop(t)
                      \/ \E D \in SUBSET Descs : TerminateDetach(t, D)
                      \/ PauseStop(t)
                      \/ PauseDetach(t)
               PROVE  OwnInv'
    BY DEF AnyCall
  <1> USE DEF threadVars, dmacVars, descVars, hwVars, irqVars, taskVars
  <1>0. TypeInv'
    BY CallerType DEF OwnInv
  <1> SUFFICES EventsOwned' /\ FreeStopped' /\ RunningInterrupts'
    BY <1>0 DEF OwnInv
  <1> DEFINE Rest == EventsOwned' /\ FreeStopped' /\ RunningInterrupts'
  <1>1. ASSUME NEW e \in Events, RequestChannel(t, e) PROVE Rest
    <2>1. /\ free[t] /\ events[e] = -1 /\ hw[t] = "stopped"
          /\ free' = [free EXCEPT ![t] = FALSE]
          /\ ev' = [ev EXCEPT ![t] = e]
          /\ events' = [events EXCEPT ![e] = t]
          /\ hw' = hw /\ inten' = inten
      BY <1>1 DEF RequestChannel, OwnInv, FreeStopped
    <2>2. ASSUME NEW u \in Threads, ~free'[u] PROVE ev'[u] \in Events /\ events'[ev'[u]] = u
      <3>1. CASE u = t
        BY <2>1, <3>1 DEF OwnInv, TypeInv, CoreTypeOK
      <3>2. CASE u # t
        <4>1. ~free[u] /\ ev'[u] = ev[u]
          BY <2>1, <2>2, <3>2 DEF OwnInv, TypeInv, CoreTypeOK
        <4>2. ev[u] \in Events /\ events[ev[u]] = u /\ u # -1
          BY <4>1, CoreAssumption DEF OwnInv, EventsOwned, Threads
        <4>3. ev[u] # e
          BY <2>1, <4>2
        <4>4. QED
          BY <2>1, <4>1, <4>2, <4>3 DEF OwnInv, TypeInv, CoreTypeOK
      <3>3. QED
        BY <3>1, <3>2
    <2>3. ASSUME NEW f \in Events, events'[f] # -1
          PROVE  ~free'[events'[f]] /\ ev'[events'[f]] = f
      <3>1. CASE f = e
        BY <2>1, <3>1 DEF OwnInv, TypeInv, CoreTypeOK
      <3>2. CASE f # e
        <4>1. events'[f] = events[f] /\ events[f] \in Threads
          BY <2>1, <2>3, <3>2 DEF OwnInv, TypeInv, CoreTypeOK
        <4>2. ~free[events[f]] /\ ev[events[f]] = f
          BY <2>3, <4>1 DEF OwnInv, EventsOwned
        <4>3. QED
          BY <2>1, <4>1, <4>2 DEF OwnInv, TypeInv, CoreTypeOK
      <3>3. QED
        BY <3>1, <3>2
    <2>4. EventsOwned'
      BY <2>2, <2>3 DEF EventsOwned
    <2>5. FreeStopped' /\ RunningInterrupts'
      BY <2>1 DEF OwnInv, TypeInv, CoreTypeOK, FreeStopped, RunningInterrupts
    <2>6. QED
      BY <2>4, <2>5
  <1>2. CASE ReleaseChannel(t)
    <2>1. CASE QueueEmpty(t)
      <3>1. /\ ~free[t] /\ Stop({t}) /\ ev' = ev
            /\ events' = [events EXCEPT ![ev[t]] = -1]
            /\ free' = [free EXCEPT ![t] = TRUE]
        BY <1>2, <2>1 DEF ReleaseChannel, EventFreed
      <3>2. /\ \A u \in Threads : free[u] => hw'[u] = "stopped"
            /\ \A u \in Threads : hw'[u] = "executing" => ev[u] \in inten'
        BY <3>1, StopOwn
      <3>3. hw'[t] = "stopped"
        BY <3>1 DEF Stop, ToStop
      <3>4. \A u \in Threads : ~free'[u] => u # t /\ ~free[u]
        BY <3>1 DEF OwnInv, TypeInv, CoreTypeOK
      <3>5. \A u \in Threads : ~free'[u] => ev[u] \in Events /\ events'[ev[u]] = u
        BY <3>1, <3>4, EventsDiffer DEF OwnInv, EventsOwned, TypeInv, CoreTypeOK
      <3>6. \A f \in Events : events'[f] # -1 => events[f] = events'[f] /\ f # ev[t]
        BY <3>1 DEF OwnInv, TypeInv, CoreTypeOK
      <3>7. \A f \in Events : events'[f] # -1 => ~free'[events'[f]] /\ ev[events'[f]] = f
        BY <3>1, <3>6 DEF OwnInv, EventsOwned, TypeInv, CoreTypeOK
      <3>8. QED
        BY <3>1, <3>2, <3>3, <3>4, <3>5, <3>7
           DEF EventsOwned, FreeStopped, RunningInterrupts
    <2>2. CASE ~QueueEmpty(t)
      BY <1>2, <2>2 DEF ReleaseChannel, OwnInv, EventsOwned, FreeStopped, RunningInterrupts
    <2>3. QED BY <2>1, <2>2
  <1>3. CASE \E d \in Descs : SubmitReq(t, d)
    BY <1>3 DEF SubmitReq, OwnInv, EventsOwned, FreeStopped, RunningInterrupts
  <1>4. CASE StartThread(t)
    BY <1>4, StartOwn DEF StartThread, OwnInv, EventsOwned, FreeStopped, RunningInterrupts
  <1>5. CASE TerminateStop(t) \/ PauseStop(t)
    BY <1>5, StopOwn DEF TerminateStop, PauseStop, OwnInv, EventsOwned, FreeStopped, RunningInterrupts
  <1>6. CASE \E D \in SUBSET Descs : TerminateDetach(t, D)
    BY <1>6 DEF TerminateDetach, OwnInv, EventsOwned, FreeStopped, RunningInterrupts
  <1>7. CASE PauseDetach(t)
    BY <1>7 DEF PauseDetach, OwnInv, EventsOwned, FreeStopped, RunningInterrupts
  <1>8. QED
    BY <1>1, <1>2, <1>3, <1>4, <1>5, <1>6, <1>7

\* The interrupt handler keeps it.
LEMMA UpdateOwn == OwnInv /\ Update => OwnInv'
  <1> SUFFICES ASSUME OwnInv, Update PROVE OwnInv'
    OBVIOUS
  <1> USE DEF threadVars, dmacVars, descVars, hwVars, irqVars, taskVars
  <1>0. TypeInv'
    BY UpdateType DEF OwnInv
  <1>1. CASE UpdateEvents
    <2> DEFINE hwF == [t \in Threads |-> IF t \in Faulting THEN "stopped" ELSE hw[t]]
               reqN == [t \in Threads |-> IF t \in Notified THEN Detached(t) ELSE req[t]]
               Go == {t \in Notified : Starts(t, hwF[t], reqN[t])}
    <2>1. /\ hw' = [t \in Threads |-> IF t \in Go THEN "executing" ELSE hwF[t]]
          /\ inten' = (inten \ {ev[t] : t \in Faulting}) \cup {ev[t] : t \in Go}
          /\ UNCHANGED <<free, ev, events>>
      BY <1>1 DEF UpdateEvents
    <2>2. ASSUME NEW t \in Go PROVE t \in Threads /\ ~free[t]
      <3>1. t \in Threads /\ t # -1
        BY CoreAssumption DEF Notified, Threads
      <3>2. PICK e \in Events : events[e] = t
        BY DEF Notified, OwnInv, TypeInv, CoreTypeOK
      <3>3. QED
        BY <3>1, <3>2 DEF OwnInv, EventsOwned
    <2>3. \A t \in Faulting : t \in Threads /\ ~free[t]
      BY DEF Faulting, OwnInv, FreeStopped
    <2> HIDE DEF Go
    <2>4. EventsOwned'
      BY <2>1 DEF OwnInv, EventsOwned
    <2>5. FreeStopped'
      BY <2>1, <2>2 DEF OwnInv, FreeStopped, Faulting
    <2>6. ASSUME NEW u \in Threads, hw'[u] = "executing" PROVE ev[u] \in inten'
      <3>1. CASE u \in Go
        BY <2>1, <3>1
      <3>2. CASE u \notin Go
        <4>1. hw[u] = "executing" /\ u \notin Faulting
          BY <2>1, <2>6, <3>2 DEF Faulting
        <4>2. ~free[u] /\ ev[u] \in inten
          BY <4>1 DEF OwnInv, FreeStopped, RunningInterrupts
        <4>3. \A t \in Faulting : ev[t] # ev[u]
          BY <2>3, <4>1, <4>2, EventsDiffer DEF OwnInv
        <4>4. QED
          BY <2>1, <4>2, <4>3
      <3>3. QED BY <3>1, <3>2
    <2>7. RunningInterrupts'
      BY <2>1, <2>6 DEF RunningInterrupts
    <2>8. QED
      BY <1>0, <2>4, <2>5, <2>7 DEF OwnInv
  <1>2. CASE UpdateCrash \/ (\E d \in Descs : UpdateList(d)) \/ UpdateRqcb \/ UpdateExit
    BY <1>0, <1>2 DEF UpdateCrash, UpdateList, UpdateRqcb, UpdateExit,
       OwnInv, EventsOwned, FreeStopped, RunningInterrupts
  <1>3. QED
    BY <1>1, <1>2 DEF Update

\* The recovery tasklet keeps it.
LEMMA DotaskOwn == OwnInv /\ Dotask => OwnInv'
  <1> SUFFICES ASSUME OwnInv, Dotask PROVE OwnInv'
    OBVIOUS
  <1> USE DEF threadVars, dmacVars, descVars, hwVars, irqVars, taskVars
  <1>0. TypeInv'
    BY DotaskType DEF OwnInv
  <1>1. ASSUME NEW S \in SUBSET Threads, DotaskNext(S), UNCHANGED <<free, ev, events>>
        PROVE  OwnInv'
    <2>1. CASE UNCHANGED <<hw, inten>>
      BY <1>0, <1>1, <2>1 DEF OwnInv, EventsOwned, FreeStopped, RunningInterrupts
    <2>2. CASE ~UNCHANGED <<hw, inten>>
      <3>1. PICK t \in S : Stop({t})
        BY <1>1, <2>2 DEF DotaskNext
      <3>2. QED
        BY <1>0, <1>1, <3>1, StopOwn DEF OwnInv, EventsOwned, FreeStopped, RunningInterrupts
    <2>3. QED BY <2>1, <2>2
  <1>2. CASE DotaskBegin
    <2>1. resetChan \in SUBSET Threads /\ DotaskNext(resetChan)
      BY <1>2 DEF DotaskBegin, OwnInv, TypeInv, CoreTypeOK
    <2>2. QED
      BY <1>1, <1>2, <2>1 DEF DotaskBegin
  <1>3. CASE DotaskClear
    <2>1. {t \in resetChan : t > dtChan} \in SUBSET Threads
          /\ DotaskNext({t \in resetChan : t > dtChan})
      BY <1>3 DEF DotaskClear, OwnInv, TypeInv, CoreTypeOK
    <2>2. QED
      BY <1>1, <1>3, <2>1 DEF DotaskClear
  <1>4. CASE DotaskRead \/ DotaskRqcb
    BY <1>0, <1>4 DEF DotaskRead, DotaskRqcb, OwnInv, EventsOwned, FreeStopped, RunningInterrupts
  <1>5. QED
    BY <1>2, <1>3, <1>4 DEF Dotask

\* The controller and the marks of the layer above keep it.
LEMMA ControllerOwn == OwnInv /\ (Controller \/ AnyMark) => OwnInv'
  <1> SUFFICES ASSUME OwnInv, Controller \/ AnyMark PROVE OwnInv'
    OBVIOUS
  <1> USE DEF threadVars, dmacVars, descVars, hwVars, irqVars, taskVars
  <1>0. TypeInv'
    BY ControllerType, RecycleType DEF OwnInv
  <1>1. ASSUME NEW t \in Threads, HwSev(t) \/ HwEnd(t) \/ HwFault(t) PROVE OwnInv'
    <2>1. /\ UNCHANGED <<free, ev, events, inten>>
          /\ hw[t] # "stopped"
          /\ \E s \in {"ending", "stopped", "faulting"} : hw' = [hw EXCEPT ![t] = s]
      BY <1>1 DEF HwSev, HwEnd, HwFault
    <2>2. QED
      BY <1>0, <2>1 DEF OwnInv, TypeInv, CoreTypeOK, EventsOwned, FreeStopped, RunningInterrupts
  <1>2. CASE AnyMark
    BY <1>0, <1>2 DEF AnyMark, Mark, OwnInv, EventsOwned, FreeStopped, RunningInterrupts
  <1>3. QED
    BY <1>1, <1>2 DEF Controller

\* Every step keeps it.
LEMMA OwnStep == OwnInv /\ [AnyNext]_coreVars => OwnInv'
  <1>1. OwnInv /\ UNCHANGED coreVars => OwnInv'
    <2> SUFFICES ASSUME OwnInv, UNCHANGED coreVars PROVE OwnInv'
      OBVIOUS
    <2>1. TypeInv'
      BY TypeStep DEF OwnInv
    <2>2. QED
      BY <2>1 DEF coreVars, threadVars, dmacVars, hwVars,
         OwnInv, EventsOwned, FreeStopped, RunningInterrupts
  <1>2. QED
    BY <1>1, CallerOwn, UpdateOwn, DotaskOwn, ControllerOwn DEF AnyNext

LEMMA OwnAlways == CoreSpec => []OwnInv
  BY OwnInit, OwnStep, NextIsAny, PTL DEF CoreSpec

\* No event is left to a thread that was freed and none is shared, a freed thread
\* has been stopped and stays stopped, and a transfer under way has its event
\* unmasked, whatever is terminated, paused, released too early or faulting.
THEOREM ThreadsOwnedAlways == CoreSpec => []ThreadsOwned
  <1>1. OwnInv => ThreadsOwned
    BY DEF OwnInv, ThreadsOwned
  <1>2. QED
    BY <1>1, OwnAlways, PTL

-----------------------------------------------------------------------------
(* Safety when the environment is orderly (Env = {}): the controller runs   *)
(* only what is hooked, moves it once, the interrupt handler reports only   *)
(* what was moved, no BUSY descriptor is left behind, and nothing crashes.  *)
(* The five properties are proved from one inductive invariant, OrderlyInv. *)

\* Thread t has an interrupt on its way.
Pending(t) == ~free[t] /\ ev[t] \in es

\* No thread faults and no recovery is under way.
NoFault == Faulting = {} /\ resetChan = {} /\ ~tasks /\ dtPc = "idle"

\* An event that is raised has an owner and will interrupt.
RaisedOwned == \A e \in es : events[e] # -1 /\ e \in inten

\* The request an event was raised for is still hooked and has been moved, and
\* its thread does nothing more than to end.
RaisedHooked ==
  \A t \in Threads : Pending(t) =>
    /\ hw[t] \in {"stopped", "ending"}
    /\ running[t] # -1
    /\ req[t][running[t]] \in moved

\* What a thread executes is hooked, is not yet moved, and has raised no event.
ExecutesHooked ==
  \A t \in Threads : hw[t] = "executing" =>
    /\ running[t] # -1
    /\ req[t][running[t]] = hwDesc[t]
    /\ hwDesc[t] \notin moved
    /\ ~Pending(t)

\* A request that is hooked and moved is the one that interrupts.
MovedPending ==
  \A t \in Threads, i \in Slots :
    req[t][i] \in moved => running[t] = i /\ Pending(t)

FreeEmpty == \A t \in Threads, i \in Slots : free[t] => req[t][i] = NULL

HookedBusy ==
  \A t \in Threads, i \in Slots : req[t][i] # NULL => status[req[t][i]] = "BUSY"

HookedOnce ==
  \A t, u \in Threads, i, j \in Slots :
    req[t][i] # NULL /\ req[t][i] = req[u][j] => t = u /\ i = j

\* A request whose callback is due is BUSY, was moved and is hooked no more.
DueBusy ==
  \A d \in Due : /\ status[d] = "BUSY"
                 /\ d \in moved
                 /\ \A t \in Threads, i \in Slots : req[t][i] # d

\* A BUSY descriptor is due or in a slot.
BusyInSlot ==
  \A d \in Descs : status[d] = "BUSY" =>
    d \in Due \/ \E t \in Threads, i \in Slots : req[t][i] = d

\* The callback loop holds at most one request, taken off req_done.
CallbackLoop ==
  /\ irqPc = "idle" => reqDone = {}
  /\ irqPc = "rqcb" <=> irqDesc # NULL
  /\ irqDesc \notin reqDone

\* What is prepared for a transfer has not been moved by an earlier one.
PrepFresh == \A d \in moved : status[d] # "PREP"

\* What the steps have to preserve besides the ownership of events.
Orderly ==
  /\ NoFault /\ RaisedOwned /\ RaisedHooked /\ ExecutesHooked
  /\ MovedPending /\ FreeEmpty /\ HookedBusy /\ HookedOnce
  /\ DueBusy /\ BusyInSlot /\ CallbackLoop /\ PrepFresh /\ NoCrash

OrderlyInv == OwnInv /\ Orderly

-----------------------------------------------------------------------------
\* The initial state.
LEMMA OrderlyInit == CoreInit => OrderlyInv
  <1> SUFFICES ASSUME CoreInit PROVE OrderlyInv
    OBVIOUS
  <1>1. OwnInv
    BY OwnInit
  <1>2. NoFault /\ CallbackLoop /\ NoCrash
    BY DEF CoreInit, NoFault, Faulting, CallbackLoop, NoCrash
  <1>3. RaisedOwned /\ RaisedHooked /\ ExecutesHooked /\ FreeEmpty
    BY DEF CoreInit, RaisedOwned, RaisedHooked, ExecutesHooked, FreeEmpty, Pending
  <1>4. MovedPending /\ HookedBusy /\ HookedOnce /\ PrepFresh
    BY DEF CoreInit, MovedPending, HookedBusy, HookedOnce, PrepFresh
  <1>5. DueBusy /\ BusyInSlot
    BY DEF CoreInit, DueBusy, BusyInSlot, Due
  <1>6. QED
    BY <1>1, <1>2, <1>3, <1>4, <1>5 DEF OrderlyInv, Orderly

\* Event bits and the threads they were raised for.
LEMMA RaisedPending ==
  ASSUME OrderlyInv, NEW e \in es
  PROVE  /\ e \in Events /\ events[e] \in Threads
         /\ Pending(events[e]) /\ ev[events[e]] = e
  <1>1. e \in Events /\ events[e] \in Threads
    BY DEF OrderlyInv, Orderly, OwnInv, TypeInv, CoreTypeOK, RaisedOwned
  <1>2. QED
    BY <1>1 DEF OrderlyInv, Orderly, OwnInv, EventsOwned, RaisedOwned, Pending

\* Acquiring a thread.
LEMMA RequestOrderly ==
  ASSUME OrderlyInv, NEW t \in Threads, NEW e \in Events, RequestChannel(t, e)
  PROVE  Orderly'
  <1> USE DEF OrderlyInv, Orderly, OwnInv, TypeInv, CoreTypeOK
  <1>1. /\ free[t] /\ events[e] = -1 /\ hw[t] = "stopped"
        /\ free' = [free EXCEPT ![t] = FALSE]
        /\ ev' = [ev EXCEPT ![t] = e]
        /\ events' = [events EXCEPT ![e] = t]
        /\ req' = [req EXCEPT ![t] = [i \in Slots |-> NULL]]
        /\ running' = [running EXCEPT ![t] = -1]
        /\ UNCHANGED <<resetChan, reqDone, descVars, hwVars, irqVars, taskVars, crash>>
    BY DEF RequestChannel, FreeStopped
  <1>2. UNCHANGED <<resetChan, reqDone, status, moved, hw, hwDesc, es, inten,
                    irqPc, irqDesc, tasks, dtPc, crash>>
    BY <1>1 DEF descVars, hwVars, irqVars, taskVars
  <1>3. \A u \in Threads, i \in Slots : req'[u][i] = req[u][i]
    BY <1>1 DEF FreeEmpty
  <1>4. e \notin es
    BY <1>1 DEF RaisedOwned
  <1>5. \A u \in Threads : Pending(u)' <=> Pending(u)
    BY <1>1, <1>2, <1>4 DEF Pending
  <1>6. \A u \in Threads : u # t => running'[u] = running[u]
    BY <1>1
  <1>7. ~Pending(t)
    BY <1>1 DEF Pending
  <1>8. NoFault' /\ CallbackLoop' /\ NoCrash' /\ PrepFresh'
    BY <1>2 DEF NoFault, Faulting, CallbackLoop, NoCrash, PrepFresh
  <1>9. RaisedOwned'
    BY <1>1, <1>2, <1>4 DEF RaisedOwned
  <1>10. RaisedHooked'
    <2> SUFFICES ASSUME NEW u \in Threads, Pending(u)
                 PROVE  hw[u] \in {"stopped", "ending"} /\ running'[u] # -1
                        /\ req'[u][running'[u]] \in moved
      BY <1>2, <1>5 DEF RaisedHooked
    <2>1. u # t /\ running[u] \in Slots
      BY <1>7 DEF RaisedHooked
    <2>2. QED
      BY <1>3, <1>6, <2>1 DEF RaisedHooked
  <1>11. ExecutesHooked'
    <2> SUFFICES ASSUME NEW u \in Threads, hw[u] = "executing"
                 PROVE  running'[u] # -1 /\ req'[u][running'[u]] = hwDesc[u]
                        /\ hwDesc[u] \notin moved /\ ~Pending(u)
      BY <1>2, <1>5 DEF ExecutesHooked
    <2>1. u # t /\ running[u] \in Slots
      BY <1>1 DEF ExecutesHooked
    <2>2. QED
      BY <1>3, <1>6, <2>1 DEF ExecutesHooked
  <1>12. MovedPending'
    <2> SUFFICES ASSUME NEW u \in Threads, NEW i \in Slots, req[u][i] \in moved
                 PROVE  running'[u] = i /\ Pending(u)
      BY <1>2, <1>3, <1>5 DEF MovedPending
    <2>1. Pending(u) /\ running[u] = i
      BY DEF MovedPending
    <2>2. QED
      BY <1>6, <1>7, <2>1
  <1>13. FreeEmpty'
    BY <1>1, <1>3 DEF FreeEmpty
  <1>14. HookedBusy' /\ HookedOnce'
    BY <1>2, <1>3 DEF HookedBusy, HookedOnce
  <1>15. DueBusy' /\ BusyInSlot'
    <2>1. Due' = Due
      BY <1>2 DEF Due
    <2>2. DueBusy'
      <3> SUFFICES ASSUME NEW c \in Due
                   PROVE  status[c] = "BUSY" /\ c \in moved
                          /\ \A u \in Threads, i \in Slots : req'[u][i] # c
        BY <1>2, <2>1 DEF DueBusy
      <3>1. QED
        BY <1>3 DEF DueBusy
    <2>3. BusyInSlot'
      BY <1>2, <1>3, <2>1 DEF BusyInSlot
    <2>4. QED
      BY <2>2, <2>3
  <1>16. QED
    BY <1>8, <1>9, <1>10, <1>11, <1>12, <1>13, <1>14, <1>15

\* Releasing a thread that is quiet.
LEMMA ReleaseOrderly ==
  ASSUME OrderlyInv, Env = {}, NEW t \in Threads, ReleaseChannel(t)
  PROVE  Orderly'
  <1> USE DEF OrderlyInv, Orderly, OwnInv, TypeInv, CoreTypeOK
  <1>1. /\ ~free[t] /\ QueueEmpty(t) /\ ev[t] \notin es /\ Stop({t})
        /\ events' = [events EXCEPT ![ev[t]] = -1]
        /\ free' = [free EXCEPT ![t] = TRUE]
        /\ UNCHANGED <<ev, req, lstenq, running, resetChan, reqDone, descVars,
                       es, irqVars, taskVars, crash>>
    BY DEF ReleaseChannel, Quiet, EventFreed
  <1>2. UNCHANGED <<ev, req, running, resetChan, reqDone, status, moved, es,
                    irqPc, irqDesc, tasks, dtPc, crash>>
    BY <1>1 DEF descVars, irqVars, taskVars
  <1>3. \A u \in Threads : u # t => hw'[u] = hw[u] /\ hwDesc'[u] = hwDesc[u]
    BY <1>1 DEF Stop, ToStop
  <1>4. hw'[t] = "stopped"
    BY <1>1 DEF Stop, ToStop
  <1>5. inten' = inten \/ inten' = inten \ {ev[t]}
    BY <1>1 DEF Stop, ToStop
  <1>6. \A u \in Threads : Pending(u)' <=> Pending(u)
    BY <1>1, <1>2 DEF Pending
  <1>7. ~Pending(t) /\ req[t][0] = NULL /\ req[t][1] = NULL
    BY <1>1 DEF Pending, QueueEmpty
  <1>8. NoFault' /\ CallbackLoop' /\ NoCrash' /\ PrepFresh'
    BY <1>2, <1>3, <1>4 DEF NoFault, Faulting, CallbackLoop, NoCrash, PrepFresh
  <1>9. RaisedOwned'
    <2> SUFFICES ASSUME NEW e \in es PROVE events'[e] # -1 /\ e \in inten'
      BY <1>2 DEF RaisedOwned
    <2>1. e # ev[t] /\ e \in Events
      BY <1>1
    <2>2. QED
      BY <1>1, <1>5, <2>1 DEF RaisedOwned
  <1>10. RaisedHooked'
    BY <1>2, <1>3, <1>6, <1>7 DEF RaisedHooked
  <1>11. ExecutesHooked'
    BY <1>2, <1>3, <1>4, <1>6 DEF ExecutesHooked
  <1>12. MovedPending'
    BY <1>2, <1>6 DEF MovedPending
  <1>13. FreeEmpty'
    BY <1>1, <1>2, <1>7 DEF FreeEmpty, Slots
  <1>14. HookedBusy' /\ HookedOnce'
    BY <1>2 DEF HookedBusy, HookedOnce
  <1>15. DueBusy' /\ BusyInSlot'
    BY <1>2 DEF DueBusy, BusyInSlot, Due
  <1>16. QED
    BY <1>8, <1>9, <1>10, <1>11, <1>12, <1>13, <1>14, <1>15

\* Hooking a prepared descriptor in the free slot.
LEMMA SubmitOrderly ==
  ASSUME OrderlyInv, NEW t \in Threads, NEW d \in Descs, SubmitReq(t, d)
  PROVE  Orderly'
  <1> USE DEF OrderlyInv, Orderly, OwnInv, TypeInv, CoreTypeOK
  <1> DEFINE s == FreeSlot(t)
  <1>1. /\ ~free[t] /\ ~QueueFull(t) /\ status[d] = "PREP"
        /\ req' = [req EXCEPT ![t][s] = d]
        /\ status' = [status EXCEPT ![d] = "BUSY"]
    BY DEF SubmitReq
  <1>2. UNCHANGED <<free, ev, running, events, resetChan, reqDone, moved, hw, hwDesc,
                    es, inten, irqPc, irqDesc, tasks, dtPc, crash>>
    BY DEF SubmitReq, dmacVars, hwVars, irqVars, taskVars
  <1>3. s \in Slots /\ req[t][s] = NULL /\ d # NULL
    BY <1>1, CoreAssumption DEF FreeSlot, QueueFull, Slots
  <1> HIDE DEF s
  <1>4. req'[t][s] = d
    BY <1>1, <1>3
  <1>5. \A u \in Threads, i \in Slots : u # t \/ i # s => req'[u][i] = req[u][i]
    BY <1>1, <1>3
  <1>6. \A u \in Threads, i \in Slots : req[u][i] # d
    BY <1>1, <1>3 DEF HookedBusy
  <1>7. d \notin moved /\ d \notin Due
    BY <1>1 DEF PrepFresh, DueBusy
  <1>8. \A u \in Threads : Pending(u)' <=> Pending(u)
    BY <1>2 DEF Pending
  <1>9. Due' = Due
    BY <1>2 DEF Due
  <1>10. \A c \in Descs : c # d => status'[c] = status[c]
    BY <1>1
  <1>11. status'[d] = "BUSY"
    BY <1>1
  <1>12. NoFault' /\ CallbackLoop' /\ NoCrash' /\ RaisedOwned'
    BY <1>2 DEF NoFault, Faulting, CallbackLoop, NoCrash, RaisedOwned
  <1>13. RaisedHooked'
    <2> SUFFICES ASSUME NEW u \in Threads, Pending(u)
                 PROVE  req'[u][running[u]] \in moved
      BY <1>2, <1>8 DEF RaisedHooked
    <2>1. running[u] \in Slots /\ req[u][running[u]] \in moved
      BY DEF RaisedHooked
    <2>2. req[u][running[u]] # NULL
      BY <2>1, CoreAssumption
    <2>3. QED
      BY <1>3, <1>5, <2>1, <2>2
  <1>14. ExecutesHooked'
    <2> SUFFICES ASSUME NEW u \in Threads, hw[u] = "executing"
                 PROVE  req'[u][running[u]] = hwDesc[u]
      BY <1>2, <1>8 DEF ExecutesHooked
    <2>1. running[u] \in Slots /\ req[u][running[u]] = hwDesc[u]
      BY DEF ExecutesHooked
    <2>2. hwDesc[u] # NULL
      BY CoreAssumption DEF ExecutesRequest
    <2>3. QED
      BY <1>3, <1>5, <2>1, <2>2
  <1>15. MovedPending'
    <2> SUFFICES ASSUME NEW u \in Threads, NEW i \in Slots, req'[u][i] \in moved
                 PROVE  running[u] = i /\ Pending(u)
      BY <1>2, <1>8 DEF MovedPending
    <2>1. req[u][i] \in moved
      BY <1>4, <1>5, <1>7
    <2>2. QED
      BY <2>1 DEF MovedPending
  <1>16. FreeEmpty'
    BY <1>1, <1>2, <1>5 DEF FreeEmpty
  <1>17. HookedBusy'
    BY <1>4, <1>5, <1>6, <1>10, <1>11 DEF HookedBusy
  <1>18. HookedOnce'
    BY <1>4, <1>5, <1>6 DEF HookedOnce
  <1>19. DueBusy'
    <2> SUFFICES ASSUME NEW c \in Due
                 PROVE  status'[c] = "BUSY" /\ c \in moved
                        /\ \A u \in Threads, i \in Slots : req'[u][i] # c
      BY <1>2, <1>9 DEF DueBusy
    <2>1. status[c] = "BUSY" /\ c \in moved /\ c # d
      BY <1>7 DEF DueBusy
    <2>2. c \in Descs
      BY DEF Due
    <2>3. ASSUME NEW u \in Threads, NEW i \in Slots PROVE req'[u][i] # c
      <3>1. req[u][i] # c
        BY DEF DueBusy
      <3>2. QED
        BY <1>4, <1>5, <2>1, <3>1
    <2>4. QED
      BY <1>10, <2>1, <2>2, <2>3
  <1>20. BusyInSlot'
    <2> SUFFICES ASSUME NEW c \in Descs, status'[c] = "BUSY", c \notin Due
                 PROVE  \E u \in Threads, i \in Slots : req'[u][i] = c
      BY <1>9 DEF BusyInSlot
    <2>1. CASE c = d
      BY <1>3, <1>4, <2>1
    <2>2. CASE c # d
      <3>1. PICK u \in Threads, i \in Slots : req[u][i] = c
        BY <1>10, <2>2 DEF BusyInSlot
      <3>2. c # NULL
        BY CoreAssumption
      <3>3. QED
        BY <1>3, <1>5, <3>1, <3>2
    <2>3. QED
      BY <2>1, <2>2
  <1>21. PrepFresh'
    BY <1>2, <1>7, <1>10 DEF PrepFresh
  <1>22. QED
    BY <1>12, <1>13, <1>14, <1>15, <1>16, <1>17, <1>18, <1>19, <1>20, <1>21

\* Making sure that a thread with no interrupt on its way is active.
LEMMA StartOrderly ==
  ASSUME OrderlyInv, Env = {}, NEW t \in Threads, StartThread(t)
  PROVE  Orderly'
  <1> USE DEF OrderlyInv, Orderly, OwnInv, TypeInv, CoreTypeOK
  <1>1. /\ ~free[t] /\ hw[t] \in {"stopped", "executing"}
        /\ ~(running[t] # -1 /\ ev[t] \in es)
        /\ Start(t)
    BY DEF StartThread, NoFault, Faulting
  <1>2. UNCHANGED <<free, ev, req, events, resetChan, reqDone, status, moved, es,
                    irqPc, irqDesc, tasks, dtPc, crash>>
    BY DEF StartThread, dmacVars, descVars, irqVars, taskVars
  <1>3. ~Pending(t)
    BY <1>1 DEF RaisedHooked, Pending
  <1>4. \A u \in Threads : Pending(u)' <=> Pending(u)
    BY <1>2 DEF Pending
  <1>5. CallbackLoop' /\ NoCrash' /\ PrepFresh' /\ FreeEmpty' /\ HookedBusy' /\ HookedOnce'
    BY <1>2 DEF CallbackLoop, NoCrash, PrepFresh, FreeEmpty, HookedBusy, HookedOnce
  <1>6. DueBusy' /\ BusyInSlot'
    BY <1>2 DEF DueBusy, BusyInSlot, Due
  <1>7. NoFault' /\ RaisedOwned' /\ RaisedHooked' /\ ExecutesHooked' /\ MovedPending'
    <2>1. CASE Starts(t, hw[t], req[t])
      <3> DEFINE i == SlotToRun(t, req[t])
      <3>1. /\ i \in Slots /\ req[t][i] # NULL
            /\ hw' = [hw EXCEPT ![t] = "executing"]
            /\ hwDesc' = [hwDesc EXCEPT ![t] = req[t][i]]
            /\ running' = [running EXCEPT ![t] = i]
            /\ inten' = inten \cup {ev[t]}
        BY <1>1, <2>1 DEF Start, Unmasked, Starts, SlotToRun, Slots
      <3> HIDE DEF i
      <3>2. req[t][i] \notin moved
        BY <1>3, <3>1 DEF MovedPending
      <3>3. NoFault' /\ RaisedOwned'
        BY <1>2, <3>1 DEF NoFault, Faulting, RaisedOwned
      <3>4. RaisedHooked'
        BY <1>2, <1>3, <1>4, <3>1 DEF RaisedHooked
      <3>5. ExecutesHooked'
        <4> SUFFICES ASSUME NEW u \in Threads, hw'[u] = "executing"
                     PROVE  running'[u] # -1 /\ req[u][running'[u]] = hwDesc'[u]
                            /\ hwDesc'[u] \notin moved /\ ~Pending(u)
          BY <1>2, <1>4 DEF ExecutesHooked
        <4>1. CASE u = t
          <5>1. running'[t] = i /\ hwDesc'[t] = req[t][i] /\ i # -1
            BY <3>1 DEF Slots
          <5>2. QED
            BY <1>3, <3>2, <4>1, <5>1
        <4>2. CASE u # t
          BY <3>1, <4>2 DEF ExecutesHooked
        <4>3. QED
          BY <4>1, <4>2
      <3>6. MovedPending'
        <4> SUFFICES ASSUME NEW u \in Threads, NEW j \in Slots, req[u][j] \in moved
                     PROVE  running'[u] = j /\ Pending(u)
          BY <1>2, <1>4 DEF MovedPending
        <4>1. running[u] = j /\ Pending(u)
          BY DEF MovedPending
        <4>2. QED
          BY <1>3, <3>1, <4>1
      <3>7. QED
        BY <3>3, <3>4, <3>5, <3>6
    <2>2. CASE ~Starts(t, hw[t], req[t])
      <3>1. UNCHANGED <<hw, hwDesc, running, inten>>
        BY <1>1, <2>2 DEF Start
      <3>2. QED
        BY <1>2, <1>4, <3>1 DEF NoFault, Faulting, RaisedOwned, RaisedHooked,
                                ExecutesHooked, MovedPending
    <2>3. QED
      BY <2>1, <2>2
  <1>8. QED
    BY <1>5, <1>6, <1>7

\* The first half of DMA_TERMINATE_ALL, on a quiet thread.
LEMMA TerminateStopOrderly ==
  ASSUME OrderlyInv, Env = {}, NEW t \in Threads, TerminateStop(t)
  PROVE  Orderly'
  <1> USE DEF OrderlyInv, Orderly, OwnInv, TypeInv, CoreTypeOK
  <1>1. ~free[t] /\ ev[t] \notin es /\ Stop({t})
    BY DEF TerminateStop, Quiet
  <1>2. UNCHANGED <<free, ev, req, running, events, resetChan, reqDone, status, moved, es,
                    irqPc, irqDesc, tasks, dtPc, crash>>
    BY DEF TerminateStop, threadVars, dmacVars, descVars, irqVars, taskVars
  <1>3. \A u \in Threads : u # t => hw'[u] = hw[u] /\ hwDesc'[u] = hwDesc[u]
    BY <1>1 DEF Stop, ToStop
  <1>4. hw'[t] = "stopped"
    BY <1>1 DEF Stop, ToStop
  <1>5. inten' = inten \/ inten' = inten \ {ev[t]}
    BY <1>1 DEF Stop, ToStop
  <1>6. \A u \in Threads : Pending(u)' <=> Pending(u)
    BY <1>2 DEF Pending
  <1>7. ~Pending(t)
    BY <1>1 DEF Pending
  <1>8. CallbackLoop' /\ NoCrash' /\ PrepFresh' /\ FreeEmpty' /\ HookedBusy' /\ HookedOnce'
    BY <1>2 DEF CallbackLoop, NoCrash, PrepFresh, FreeEmpty, HookedBusy, HookedOnce
  <1>9. DueBusy' /\ BusyInSlot'
    BY <1>2 DEF DueBusy, BusyInSlot, Due
  <1>10. NoFault'
    BY <1>2, <1>3, <1>4 DEF NoFault, Faulting
  <1>11. RaisedOwned'
    BY <1>1, <1>2, <1>5 DEF RaisedOwned
  <1>12. RaisedHooked' /\ ExecutesHooked'
    BY <1>2, <1>3, <1>4, <1>6, <1>7 DEF RaisedHooked, ExecutesHooked
  <1>13. MovedPending'
    BY <1>2, <1>6 DEF MovedPending
  <1>14. QED
    BY <1>8, <1>9, <1>10, <1>11, <1>12, <1>13

\* The second half, with everything the thread has hooked and nothing that is
\* due or hooked elsewhere.
LEMMA TerminateDetachOrderly ==
  ASSUME OrderlyInv, Env = {}, NEW t \in Threads, NEW D \in SUBSET Descs,
         Hooked(t) \subseteq D, D \cap Due = {},
         \A u \in Threads \ {t} : Hooked(u) \cap D = {},
         TerminateDetach(t, D)
  PROVE  Orderly'
  <1> USE DEF OrderlyInv, Orderly, OwnInv, TypeInv, CoreTypeOK
  <1>1. /\ ~free[t] /\ hw[t] = "stopped" /\ ev[t] \notin es
        /\ req' = [req EXCEPT ![t] = [i \in Slots |-> NULL]]
        /\ running' = [running EXCEPT ![t] = -1]
        /\ status' = [d \in Descs |-> IF d \in D THEN "FREE" ELSE status[d]]
        /\ moved' = moved \ D
    BY DEF TerminateDetach
  <1>2. UNCHANGED <<free, ev, events, resetChan, reqDone, hw, hwDesc, inten, es,
                    irqPc, irqDesc, tasks, dtPc, crash>>
    BY DEF TerminateDetach, dmacVars, hwVars, irqVars, taskVars
  <1>3. \A u \in Threads, i \in Slots :
          IF u = t THEN req'[u][i] = NULL
          ELSE req'[u][i] = req[u][i] /\ req[u][i] \notin D
    BY <1>1, CoreAssumption DEF Hooked
  <1>4. \A u \in Threads : u # t => running'[u] = running[u]
    BY <1>1
  <1>5. \A u \in Threads : Pending(u)' <=> Pending(u)
    BY <1>2 DEF Pending
  <1>6. ~Pending(t) /\ Due' = Due
    BY <1>1, <1>2 DEF Pending, Due
  <1>7. \A d \in Descs : d \notin D => status'[d] = status[d]
    BY <1>1
  <1>8. NULL \notin moved
    BY CoreAssumption
  <1>9. NoFault' /\ CallbackLoop' /\ NoCrash' /\ RaisedOwned'
    BY <1>2 DEF NoFault, Faulting, CallbackLoop, NoCrash, RaisedOwned
  <1>10. RaisedHooked'
    <2> SUFFICES ASSUME NEW u \in Threads, Pending(u)
                 PROVE  hw[u] \in {"stopped", "ending"} /\ running'[u] # -1
                        /\ req'[u][running'[u]] \in moved'
      BY <1>2, <1>5 DEF RaisedHooked
    <2>1. u # t /\ running[u] \in Slots /\ req[u][running[u]] \in moved
      BY <1>6 DEF RaisedHooked
    <2>2. QED
      BY <1>1, <1>3, <1>4, <2>1 DEF RaisedHooked
  <1>11. ExecutesHooked'
    <2> SUFFICES ASSUME NEW u \in Threads, hw[u] = "executing"
                 PROVE  running'[u] # -1 /\ req'[u][running'[u]] = hwDesc[u]
                        /\ hwDesc[u] \notin moved' /\ ~Pending(u)
      BY <1>2, <1>5 DEF ExecutesHooked
    <2>1. u # t /\ running[u] \in Slots
      BY <1>1 DEF ExecutesHooked
    <2>2. QED
      BY <1>1, <1>3, <1>4, <2>1 DEF ExecutesHooked
  <1>12. MovedPending'
    <2> SUFFICES ASSUME NEW u \in Threads, NEW i \in Slots, req'[u][i] \in moved'
                 PROVE  running'[u] = i /\ Pending(u)
      BY <1>5 DEF MovedPending
    <2>1. u # t /\ req[u][i] \in moved
      BY <1>1, <1>3, <1>8
    <2>2. QED
      BY <1>4, <2>1 DEF MovedPending
  <1>13. FreeEmpty'
    BY <1>2, <1>3 DEF FreeEmpty
  <1>14. HookedBusy'
    BY <1>3, <1>7 DEF HookedBusy
  <1>15. HookedOnce'
    <2> SUFFICES ASSUME NEW u \in Threads, NEW v \in Threads, NEW i \in Slots, NEW j \in Slots,
                        req'[u][i] # NULL, req'[u][i] = req'[v][j]
                 PROVE  u = v /\ i = j
      BY DEF HookedOnce
    <2>1. req'[u][i] = req[u][i] /\ req'[v][j] = req[v][j]
      BY <1>3
    <2>2. req[u][i] # NULL /\ req[u][i] = req[v][j]
      BY <2>1
    <2>3. QED
      BY <2>2 DEF HookedOnce
  <1>16. DueBusy'
    <2> SUFFICES ASSUME NEW c \in Due
                 PROVE  status'[c] = "BUSY" /\ c \in moved'
                        /\ \A u \in Threads, i \in Slots : req'[u][i] # c
      BY <1>6 DEF DueBusy
    <2>1. c \in Descs /\ c \notin D /\ c # NULL
      BY CoreAssumption DEF Due
    <2>2. ASSUME NEW u \in Threads, NEW i \in Slots PROVE req'[u][i] # c
      <3>1. req[u][i] # c
        BY DEF DueBusy
      <3>2. QED
        BY <1>3, <2>1, <3>1
    <2>3. QED
      BY <1>1, <1>7, <2>1, <2>2 DEF DueBusy
  <1>17. BusyInSlot'
    <2> SUFFICES ASSUME NEW c \in Descs, status'[c] = "BUSY", c \notin Due
                 PROVE  \E u \in Threads, i \in Slots : req'[u][i] = c
      BY <1>6 DEF BusyInSlot
    <2>1. c \notin D /\ status[c] = "BUSY"
      BY <1>1
    <2>2. PICK u \in Threads, i \in Slots : req[u][i] = c
      BY <2>1 DEF BusyInSlot
    <2>3. u # t
      BY <2>1, <2>2, CoreAssumption DEF Hooked
    <2>4. QED
      BY <1>3, <2>2, <2>3
  <1>18. PrepFresh'
    BY <1>1, <1>7 DEF PrepFresh
  <1>19. QED
    BY <1>9, <1>10, <1>11, <1>12, <1>13, <1>14, <1>15, <1>16, <1>17, <1>18

\* The marks of the layer above, which touch no BUSY descriptor.
LEMMA RecycleOrderly ==
  ASSUME OrderlyInv, Recycle
  PROVE  Orderly'
  <1> USE DEF OrderlyInv, Orderly, OwnInv, TypeInv, CoreTypeOK
  <1>1. PICK D \in SUBSET Descs, s \in {"FREE", "PREP", "DONE"} :
          (\A d \in D : status[d] # "BUSY") /\ Mark(D, s)
    BY DEF Recycle
  <1>2. /\ status' = [d \in Descs |-> IF d \in D THEN s ELSE status[d]]
        /\ moved' = IF s = "DONE" THEN moved ELSE moved \ D
        /\ UNCHANGED <<free, ev, req, running, events, resetChan, reqDone, hw, hwDesc,
                       es, inten, irqPc, irqDesc, tasks, dtPc, crash>>
    BY <1>1 DEF Mark, threadVars, dmacVars, hwVars, irqVars, taskVars
  <1>3. \A d \in Descs : status[d] = "BUSY" =>
          status'[d] = "BUSY" /\ (d \in moved' <=> d \in moved)
    BY <1>1, <1>2
  <1>4. \A d \in Descs : status'[d] = "BUSY" => status[d] = "BUSY"
    BY <1>2
  <1>5. \A u \in Threads, i \in Slots :
          req[u][i] \in Descs => status[req[u][i]] = "BUSY"
    BY CoreAssumption DEF HookedBusy
  <1>6. \A u \in Threads : Pending(u)' <=> Pending(u)
    BY <1>2 DEF Pending
  <1>7. Due' = Due /\ Due \subseteq Descs
    BY <1>2 DEF Due
  <1>8. NoFault' /\ CallbackLoop' /\ NoCrash' /\ RaisedOwned' /\ FreeEmpty' /\ HookedOnce'
    BY <1>2 DEF NoFault, Faulting, CallbackLoop, NoCrash, RaisedOwned, FreeEmpty, HookedOnce
  <1>9. RaisedHooked'
    <2> SUFFICES ASSUME NEW u \in Threads, Pending(u)
                 PROVE  req[u][running[u]] \in moved'
      BY <1>2, <1>6 DEF RaisedHooked
    <2>1. running[u] \in Slots /\ req[u][running[u]] \in moved
      BY DEF RaisedHooked
    <2>2. QED
      BY <1>3, <1>5, <2>1
  <1>10. ExecutesHooked'
    BY <1>2, <1>6 DEF ExecutesHooked
  <1>11. MovedPending'
    <2> SUFFICES ASSUME NEW u \in Threads, NEW i \in Slots, req[u][i] \in moved'
                 PROVE  running[u] = i /\ Pending(u)
      BY <1>2, <1>6 DEF MovedPending
    <2>1. req[u][i] \in moved
      BY <1>2
    <2>2. QED
      BY <2>1 DEF MovedPending
  <1>12. HookedBusy'
    <2> SUFFICES ASSUME NEW u \in Threads, NEW i \in Slots, req[u][i] # NULL
                 PROVE  status'[req[u][i]] = "BUSY"
      BY <1>2 DEF HookedBusy
    <2>1. req[u][i] \in Descs
      OBVIOUS
    <2>2. QED
      BY <1>3, <1>5, <2>1
  <1>13. DueBusy'
    <2> SUFFICES ASSUME NEW c \in Due
                 PROVE  status'[c] = "BUSY" /\ c \in moved'
                        /\ \A u \in Threads, i \in Slots : req'[u][i] # c
      BY <1>7 DEF DueBusy
    <2>1. req' = req
      BY <1>2
    <2>2. QED
      BY <1>3, <1>7, <2>1 DEF DueBusy
  <1>14. BusyInSlot'
    BY <1>2, <1>4, <1>7 DEF BusyInSlot
  <1>15. PrepFresh'
    BY <1>2 DEF PrepFresh
  <1>16. QED
    BY <1>8, <1>9, <1>10, <1>11, <1>12, <1>13, <1>14, <1>15

\* The threads that are notified are those with an interrupt on its way.
LEMMA NotifiedPending ==
  ASSUME OrderlyInv, NEW t \in Threads
  PROVE  t \in Notified <=> Pending(t)
  <1>1. ASSUME t \in Notified PROVE Pending(t)
    <2>1. PICK e \in es : events[e] = t
      BY <1>1 DEF Notified
    <2>2. QED
      BY <2>1, RaisedPending
  <1>2. ASSUME Pending(t) PROVE t \in Notified
    <2>1. running[t] # -1
      BY <1>2 DEF OrderlyInv, Orderly, RaisedHooked
    <2>2. ev[t] \in es /\ events[ev[t]] = t
      BY <1>2 DEF Pending, OrderlyInv, OwnInv, EventsOwned
    <2>3. QED
      BY <2>1, <2>2 DEF Notified
  <1>3. QED
    BY <1>1, <1>2

\* Every event that is raised finds its thread and its request.
LEMMA UpdateNoCrash ==
  ASSUME OrderlyInv
  PROVE  /\ \A e \in Events : ~WildEvent(e)
         /\ \A t \in Threads : ~NullEvent(t)
  <1>1. \A e \in Events : ~WildEvent(e)
    BY DEF WildEvent, OrderlyInv, Orderly, RaisedOwned
  <1>2. ASSUME NEW t \in Threads, t \in Notified PROVE req[t][running[t]] # NULL
    <2>1. req[t][running[t]] \in moved
      BY <1>2, NotifiedPending DEF OrderlyInv, Orderly, RaisedHooked
    <2>2. QED
      BY <2>1, CoreAssumption DEF OrderlyInv, OwnInv, TypeInv, CoreTypeOK
  <1>3. QED
    BY <1>1, <1>2 DEF NullEvent

\* The interrupt: finished requests are detached and due, their threads go on.
LEMMA UpdateEventsOrderly ==
  ASSUME OrderlyInv, UpdateEvents
  PROVE  Orderly'
  <1> USE DEF OrderlyInv, Orderly, OwnInv, TypeInv, CoreTypeOK
  <1> DEFINE hwF == [t \in Threads |-> IF t \in Faulting THEN "stopped" ELSE hw[t]]
             reqN == [t \in Threads |-> IF t \in Notified THEN Detached(t) ELSE req[t]]
             Go == {t \in Notified : Starts(t, hwF[t], reqN[t])}
             next(t) == SlotToRun(t, reqN[t])
  <1>1. /\ irqPc = "idle" /\ irqPc' = "list"
        /\ resetChan' = resetChan \cup Faulting
        /\ es' = es \ Cleared
        /\ req' = reqN
        /\ reqDone' = reqDone \cup {Finished(t) : t \in Notified}
        /\ running' = [t \in Threads |-> IF t \in Go THEN next(t) ELSE running[t]]
        /\ hw' = [t \in Threads |-> IF t \in Go THEN "executing" ELSE hwF[t]]
        /\ hwDesc' = [t \in Threads |-> IF t \in Go THEN reqN[t][next(t)]
                                        ELSE IF t \in Faulting THEN NULL ELSE hwDesc[t]]
    BY DEF UpdateEvents
  <1>2. UNCHANGED <<free, ev, events, status, moved, irqDesc, tasks, dtPc, crash>>
    BY DEF UpdateEvents, descVars, taskVars
  <1>3. Faulting = {} /\ resetChan' = {} /\ es' = {}
    BY <1>1 DEF NoFault, Cleared, RaisedOwned
  <1>4. ASSUME NEW t \in Notified
        PROVE  /\ t \in Threads /\ running[t] \in Slots
               /\ Finished(t) \in moved /\ Finished(t) \in Descs /\ Finished(t) # NULL
    <2>1. t \in Threads /\ Pending(t)
      BY NotifiedPending DEF Notified
    <2>2. QED
      BY <2>1, CoreAssumption DEF RaisedHooked, Finished
  <1>5. ASSUME NEW u \in Threads, NEW i \in Slots
        PROVE  req'[u][i] = IF u \in Notified /\ i = running[u] THEN NULL ELSE req[u][i]
    <2>1. CASE u \in Notified
      <3>1. req'[u] = [req[u] EXCEPT ![running[u]] = NULL]
        BY <1>1, <2>1 DEF Detached
      <3>2. QED
        BY <2>1, <3>1
    <2>2. CASE u \notin Notified
      BY <1>1, <2>2
    <2>3. QED
      BY <2>1, <2>2
  <1>6. ASSUME NEW u \in Threads, NEW i \in Slots PROVE req'[u][i] \notin moved
    <2>1. req[u][i] \in moved => u \in Notified /\ i = running[u]
      BY NotifiedPending DEF MovedPending
    <2>2. QED
      BY <1>5, <2>1, CoreAssumption
  <1>7. ASSUME NEW u \in Go
        PROVE  /\ u \in Threads /\ hw'[u] = "executing"
               /\ running'[u] \in Slots
               /\ hwDesc'[u] = req'[u][running'[u]]
    <2>1. u \in Threads /\ next(u) \in Slots
      BY DEF Notified, SlotToRun, Slots
    <2>2. QED
      BY <1>1, <2>1
  <1>8. \A u \in Threads \ Go :
          hw'[u] = hw[u] /\ hwDesc'[u] = hwDesc[u] /\ running'[u] = running[u]
    BY <1>1, <1>3
  <1>9. Due' = Due \cup {Finished(t) : t \in Notified}
    BY <1>1, <1>2 DEF Due
  <1> HIDE DEF reqN, Go, next, hwF
  <1>10. \A u \in Threads : ~Pending(u)'
    BY <1>3 DEF Pending
  <1>11. NoFault'
    BY <1>2, <1>3, <1>7, <1>8 DEF NoFault, Faulting
  <1>12. RaisedOwned' /\ RaisedHooked' /\ NoCrash' /\ PrepFresh'
    BY <1>2, <1>3, <1>10 DEF RaisedOwned, RaisedHooked, NoCrash, PrepFresh
  <1>13. ExecutesHooked'
    <2> SUFFICES ASSUME NEW u \in Threads, hw'[u] = "executing"
                 PROVE  running'[u] # -1 /\ req'[u][running'[u]] = hwDesc'[u]
                        /\ hwDesc'[u] \notin moved
      BY <1>2, <1>10 DEF ExecutesHooked
    <2>1. CASE u \in Go
      BY <1>6, <1>7, <2>1 DEF Slots
    <2>2. CASE u \notin Go
      <3>1. /\ hw[u] = "executing" /\ hwDesc'[u] = hwDesc[u] /\ running'[u] = running[u]
        BY <1>8, <2>2
      <3>2. /\ running[u] \in Slots /\ running[u] # -1 /\ req[u][running[u]] = hwDesc[u]
            /\ hwDesc[u] \notin moved /\ u \notin Notified
        BY <3>1, NotifiedPending DEF ExecutesHooked
      <3>3. QED
        BY <1>5, <3>1, <3>2
    <2>3. QED
      BY <2>1, <2>2
  <1>14. MovedPending'
    BY <1>2, <1>6 DEF MovedPending
  <1>15. FreeEmpty' /\ HookedBusy'
    BY <1>2, <1>5 DEF FreeEmpty, HookedBusy
  <1>16. HookedOnce'
    <2> SUFFICES ASSUME NEW u \in Threads, NEW v \in Threads, NEW i \in Slots, NEW j \in Slots,
                        req'[u][i] # NULL, req'[u][i] = req'[v][j]
                 PROVE  u = v /\ i = j
      BY DEF HookedOnce
    <2>1. req'[u][i] = req[u][i] /\ req'[v][j] = req[v][j]
      BY <1>5
    <2>2. req[u][i] # NULL /\ req[u][i] = req[v][j]
      BY <2>1
    <2>3. QED
      BY <2>2 DEF HookedOnce
  <1>17. DueBusy'
    <2> SUFFICES ASSUME NEW c \in Due'
                 PROVE  status[c] = "BUSY" /\ c \in moved
                        /\ \A u \in Threads, i \in Slots : req'[u][i] # c
      BY <1>2 DEF DueBusy
    <2>1. CASE c \in Due
      <3>1. c # NULL
        BY <2>1, CoreAssumption DEF Due
      <3>2. status[c] = "BUSY" /\ c \in moved
        BY <2>1 DEF DueBusy
      <3>3. ASSUME NEW u \in Threads, NEW i \in Slots PROVE req'[u][i] # c
        <4>1. req[u][i] # c
          BY <2>1 DEF DueBusy
        <4>2. QED
          BY <1>5, <3>1, <4>1
      <3>4. QED
        BY <3>2, <3>3
    <2>2. CASE c \notin Due
      <3>1. PICK t \in Notified : c = Finished(t)
        BY <1>9, <2>2
      <3>2. /\ t \in Threads /\ running[t] \in Slots
            /\ c = req[t][running[t]] /\ c \in moved /\ c # NULL
        BY <1>4, <3>1 DEF Finished
      <3>3. status[c] = "BUSY"
        BY <3>2 DEF HookedBusy
      <3>4. ASSUME NEW u \in Threads, NEW i \in Slots PROVE req'[u][i] # c
        <4>1. CASE req[u][i] = c
          <5>1. u = t /\ i = running[t]
            BY <3>2, <4>1 DEF HookedOnce
          <5>2. QED
            BY <1>5, <3>1, <3>2, <5>1
        <4>2. CASE req[u][i] # c
          BY <1>5, <3>2, <4>2
        <4>3. QED
          BY <4>1, <4>2
      <3>5. QED
        BY <3>2, <3>3, <3>4
    <2>3. QED
      BY <2>1, <2>2
  <1>18. BusyInSlot'
    <2> SUFFICES ASSUME NEW c \in Descs, status[c] = "BUSY", c \notin Due'
                 PROVE  \E u \in Threads, i \in Slots : req'[u][i] = c
      BY <1>2 DEF BusyInSlot
    <2>1. c \notin Due
      BY <1>9
    <2>2. PICK u \in Threads, i \in Slots : req[u][i] = c
      BY <2>1 DEF BusyInSlot
    <2>3. ~(u \in Notified /\ i = running[u])
      BY <1>9, <2>2 DEF Finished
    <2>4. QED
      BY <1>5, <2>2, <2>3
  <1>19. CallbackLoop'
    <2>1. irqDesc' = NULL
      BY <1>1, <1>2 DEF CallbackLoop
    <2>2. NULL \notin reqDone'
      BY <1>1, <1>4, CoreAssumption
    <2>3. QED
      BY <1>1, <2>1, <2>2 DEF CallbackLoop
  <1>20. QED
    BY <1>11, <1>12, <1>13, <1>14, <1>15, <1>16, <1>17, <1>18, <1>19

\* The callback loop.
LEMMA CallbackOrderly ==
  ASSUME OrderlyInv, (\E d \in Descs : UpdateList(d)) \/ UpdateRqcb \/ UpdateExit
  PROVE  Orderly'
  <1> USE DEF OrderlyInv, Orderly, OwnInv, TypeInv, CoreTypeOK
  <1>1. UNCHANGED <<free, ev, req, running, events, resetChan, moved, hw, hwDesc,
                    es, inten, dtPc, crash>>
    BY DEF UpdateList, UpdateRqcb, UpdateExit, threadVars, dmacVars, descVars, hwVars, taskVars
  <1>2. tasks' = tasks
    BY DEF UpdateList, UpdateRqcb, UpdateExit, taskVars, NoFault
  <1>3. \A u \in Threads : Pending(u)' <=> Pending(u)
    BY <1>1 DEF Pending
  <1>4. NoFault' /\ RaisedOwned' /\ FreeEmpty' /\ HookedOnce' /\ NoCrash'
    BY <1>1, <1>2 DEF NoFault, Faulting, RaisedOwned, FreeEmpty, HookedOnce, NoCrash
  <1>5. RaisedHooked' /\ ExecutesHooked' /\ MovedPending'
    BY <1>1, <1>3 DEF RaisedHooked, ExecutesHooked, MovedPending
  <1>6. CASE (\E d \in Descs : UpdateList(d)) \/ UpdateExit
    <2>1. status' = status
      BY <1>6 DEF UpdateList, UpdateExit, descVars
    <2>2. HookedBusy' /\ PrepFresh'
      BY <1>1, <2>1 DEF HookedBusy, PrepFresh
    <2>3. CallbackLoop' /\ Due' = Due
      BY <1>6, CoreAssumption DEF UpdateList, UpdateExit, CallbackLoop, Due, dmacVars
    <2>4. DueBusy' /\ BusyInSlot'
      BY <1>1, <2>1, <2>3 DEF DueBusy, BusyInSlot
    <2>5. QED
      BY <1>4, <1>5, <2>2, <2>3, <2>4
  <1>7. CASE UpdateRqcb
    <2>1. /\ irqDesc \in Due /\ irqDesc \in Descs
          /\ status' = [status EXCEPT ![irqDesc] = "DONE"]
          /\ irqPc' = "list" /\ irqDesc' = NULL /\ reqDone' = reqDone
      BY <1>7 DEF UpdateRqcb, Rqcb, CallbackLoop, Due, dmacVars
    <2>2. Due' = Due \ {irqDesc}
      BY <2>1, CoreAssumption DEF Due, CallbackLoop
    <2>3. \A d \in Descs : d # irqDesc => status'[d] = status[d]
      BY <2>1
    <2>4. HookedBusy'
      <3> SUFFICES ASSUME NEW u \in Threads, NEW i \in Slots, req[u][i] # NULL
                   PROVE  status'[req[u][i]] = "BUSY"
        BY <1>1 DEF HookedBusy
      <3>1. req[u][i] \in Descs /\ req[u][i] # irqDesc /\ status[req[u][i]] = "BUSY"
        BY <2>1 DEF DueBusy, HookedBusy
      <3>2. QED
        BY <2>3, <3>1
    <2>5. DueBusy'
      <3> SUFFICES ASSUME NEW c \in Due \ {irqDesc}
                   PROVE  status'[c] = "BUSY" /\ c \in moved
                          /\ \A u \in Threads, i \in Slots : req[u][i] # c
        BY <1>1, <2>2 DEF DueBusy
      <3>1. c \in Descs
        BY DEF Due
      <3>2. QED
        BY <2>3, <3>1 DEF DueBusy
    <2>6. BusyInSlot'
      <3>1. status'[irqDesc] # "BUSY"
        BY <2>1
      <3>2. QED
        BY <1>1, <2>2, <2>3, <3>1 DEF BusyInSlot
    <2>7. PrepFresh' /\ CallbackLoop'
      BY <1>1, <2>1, CoreAssumption DEF PrepFresh, CallbackLoop
    <2>8. QED
      BY <1>4, <1>5, <2>4, <2>5, <2>6, <2>7
  <1>8. QED
    BY <1>6, <1>7

\* The controller raises the event of a transfer it has carried out.
LEMMA SevOrderly ==
  ASSUME OrderlyInv, NEW t \in Threads, HwSev(t)
  PROVE  Orderly'
  <1> USE DEF OrderlyInv, Orderly, OwnInv, TypeInv, CoreTypeOK
  <1> DEFINE d == hwDesc[t]
  <1>1. /\ hw[t] = "executing" /\ hw' = [hw EXCEPT ![t] = "ending"]
        /\ es' = es \cup {ev[t]} /\ moved' = moved \cup {d}
    BY DEF HwSev
  <1>2. UNCHANGED <<free, ev, req, running, events, resetChan, reqDone, status, hwDesc,
                    inten, irqPc, irqDesc, tasks, dtPc, crash>>
    BY DEF HwSev, threadVars, dmacVars, irqVars, taskVars
  <1>3. /\ ~free[t] /\ ev[t] \in inten /\ events[ev[t]] = t /\ t # -1
        /\ ~Pending(t) /\ running[t] \in Slots /\ req[t][running[t]] = d
        /\ d \in Descs /\ d # NULL /\ status[d] = "BUSY"
    <2>1. ~free[t] /\ ev[t] \in inten /\ events[ev[t]] = t /\ t # -1
      BY <1>1, CoreAssumption DEF FreeStopped, RunningInterrupts, EventsOwned, Threads
    <2>2. ~Pending(t) /\ running[t] \in Slots /\ req[t][running[t]] = d /\ d \in Descs /\ d # NULL
      BY <1>1, CoreAssumption DEF ExecutesHooked, ExecutesRequest
    <2>3. QED
      BY <2>1, <2>2 DEF HookedBusy
  <1> HIDE DEF d
  <1>4. Pending(t)'
    BY <1>1, <1>2, <1>3 DEF Pending
  <1>5. ASSUME NEW u \in Threads, u # t PROVE Pending(u)' <=> Pending(u)
    <2>1. ~free[u] => ev[u] # ev[t]
      BY <1>3, <1>5, EventsDiffer
    <2>2. QED
      BY <1>1, <1>2, <2>1 DEF Pending
  <1>6. NoFault' /\ CallbackLoop' /\ NoCrash' /\ FreeEmpty' /\ HookedBusy' /\ HookedOnce' /\ BusyInSlot'
    BY <1>1, <1>2 DEF NoFault, Faulting, CallbackLoop, NoCrash, FreeEmpty, HookedBusy, HookedOnce,
                      BusyInSlot, Due
  <1>7. RaisedOwned'
    BY <1>1, <1>2, <1>3 DEF RaisedOwned
  <1>8. RaisedHooked'
    <2> SUFFICES ASSUME NEW u \in Threads, Pending(u)'
                 PROVE  hw'[u] \in {"stopped", "ending"} /\ running[u] # -1
                        /\ req[u][running[u]] \in moved'
      BY <1>2 DEF RaisedHooked
    <2>1. CASE u = t
      BY <1>1, <1>3, <2>1 DEF Slots
    <2>2. CASE u # t
      BY <1>1, <1>5, <2>2 DEF RaisedHooked
    <2>3. QED
      BY <2>1, <2>2
  <1>9. ExecutesHooked'
    <2> SUFFICES ASSUME NEW u \in Threads, hw'[u] = "executing"
                 PROVE  running[u] # -1 /\ req[u][running[u]] = hwDesc[u]
                        /\ hwDesc[u] \notin moved' /\ ~Pending(u)'
      BY <1>2 DEF ExecutesHooked
    <2>1. u # t /\ hw[u] = "executing"
      BY <1>1
    <2>2. running[u] \in Slots /\ running[u] # -1 /\ req[u][running[u]] = hwDesc[u]
          /\ hwDesc[u] \notin moved /\ ~Pending(u)
      BY <2>1 DEF ExecutesHooked
    <2>3. hwDesc[u] # d
      BY <1>3, <2>1, <2>2 DEF HookedOnce
    <2>4. QED
      BY <1>1, <1>5, <2>1, <2>2, <2>3
  <1>10. MovedPending'
    <2> SUFFICES ASSUME NEW u \in Threads, NEW i \in Slots, req[u][i] \in moved'
                 PROVE  running[u] = i /\ Pending(u)'
      BY <1>2 DEF MovedPending
    <2>1. CASE req[u][i] = d
      <3>1. u = t /\ i = running[t]
        BY <1>3, <2>1 DEF HookedOnce
      <3>2. QED
        BY <1>4, <3>1
    <2>2. CASE req[u][i] # d
      <3>1. running[u] = i /\ Pending(u) /\ u # t
        BY <1>1, <1>3, <2>2 DEF MovedPending
      <3>2. QED
        BY <1>5, <3>1
    <2>3. QED
      BY <2>1, <2>2
  <1>11. DueBusy'
    <2>1. Due' = Due
      BY <1>2 DEF Due
    <2>2. QED
      BY <1>1, <1>2, <2>1 DEF DueBusy
  <1>12. PrepFresh'
    BY <1>1, <1>2, <1>3 DEF PrepFresh
  <1>13. QED
    BY <1>6, <1>7, <1>8, <1>9, <1>10, <1>11, <1>12

\* The controller ends the program of a transfer.
LEMMA EndOrderly ==
  ASSUME OrderlyInv, NEW t \in Threads, HwEnd(t)
  PROVE  Orderly'
  <1> USE DEF OrderlyInv, Orderly, OwnInv, TypeInv, CoreTypeOK
  <1>1. hw[t] = "ending" /\ hw' = [hw EXCEPT ![t] = "stopped"]
        /\ hwDesc' = [hwDesc EXCEPT ![t] = NULL]
    BY DEF HwEnd
  <1>2. UNCHANGED <<free, ev, req, running, events, resetChan, reqDone, status, moved, es,
                    inten, irqPc, irqDesc, tasks, dtPc, crash>>
    BY DEF HwEnd, threadVars, dmacVars, descVars, irqVars, taskVars
  <1>3. \A u \in Threads : Pending(u)' <=> Pending(u)
    BY <1>2 DEF Pending
  <1>4. CallbackLoop' /\ NoCrash' /\ FreeEmpty' /\ HookedBusy' /\ HookedOnce' /\ PrepFresh'
    BY <1>2 DEF CallbackLoop, NoCrash, FreeEmpty, HookedBusy, HookedOnce, PrepFresh
  <1>5. DueBusy' /\ BusyInSlot'
    BY <1>2 DEF DueBusy, BusyInSlot, Due
  <1>6. NoFault' /\ RaisedOwned' /\ RaisedHooked'
    BY <1>1, <1>2, <1>3 DEF NoFault, Faulting, RaisedOwned, RaisedHooked
  <1>7. ExecutesHooked' /\ MovedPending'
    BY <1>1, <1>2, <1>3 DEF ExecutesHooked, MovedPending
  <1>8. QED
    BY <1>4, <1>5, <1>6, <1>7

\* Every step of an orderly environment keeps the invariant.
LEMMA OrderlyStep ==
  ASSUME Env = {}
  PROVE  OrderlyInv /\ [CoreNext]_coreVars => OrderlyInv'
  <1> SUFFICES ASSUME OrderlyInv, [CoreNext]_coreVars PROVE Orderly'
    BY OwnStep, NextIsAny DEF OrderlyInv
  <1>1. CASE UNCHANGED coreVars
    <2>1. UNCHANGED <<free, ev, req, running, events, resetChan, reqDone, status, moved, hw,
                      hwDesc, es, inten, irqPc, irqDesc, tasks, dtPc, crash>>
      BY <1>1 DEF coreVars, threadVars, dmacVars, descVars, hwVars, irqVars, taskVars
    <2>2. \A u \in Threads : Pending(u)' <=> Pending(u)
      BY <2>1 DEF Pending
    <2>3. QED
      BY <2>1, <2>2 DEF OrderlyInv, Orderly, NoFault, Faulting, RaisedOwned, RaisedHooked,
         ExecutesHooked, MovedPending, FreeEmpty, HookedBusy, HookedOnce, DueBusy, BusyInSlot,
         Due, CallbackLoop, PrepFresh, NoCrash
  <1>2. CASE Caller
    <2>1. PICK t \in Threads :
            \/ \E e \in Events : RequestChannel(t, e)
            \/ ReleaseChannel(t)
            \/ \E d \in Descs : SubmitReq(t, d)
            \/ StartThread(t)
            \/ TerminateStop(t)
            \/ \E D \in SUBSET Descs :
                 /\ Hooked(t) \subseteq D
                 /\ D \cap Due = {}
                 /\ \A u \in Threads \ {t} : Hooked(u) \cap D = {}
                 /\ TerminateDetach(t, D)
      BY <1>2 DEF Caller, PauseStop, PauseDetach
    <2>2. QED
      BY <2>1, RequestOrderly, ReleaseOrderly, SubmitOrderly, StartOrderly,
         TerminateStopOrderly, TerminateDetachOrderly
  <1>3. CASE Recycle
    BY <1>3, RecycleOrderly
  <1>4. CASE Update
    <2>1. ~UpdateCrash
      BY UpdateNoCrash DEF UpdateCrash
    <2>2. QED
      BY <1>4, <2>1, UpdateEventsOrderly, CallbackOrderly DEF Update
  <1>5. CASE Dotask
    BY <1>5 DEF Dotask, DotaskBegin, DotaskRead, DotaskRqcb, DotaskClear,
       OrderlyInv, Orderly, NoFault
  <1>6. CASE Controller
    BY <1>6, SevOrderly, EndOrderly DEF Controller, HwFault
  <1>7. QED
    BY <1>1, <1>2, <1>3, <1>4, <1>5, <1>6 DEF CoreNext

LEMMA OrderlyAlways ==
  ASSUME Env = {}
  PROVE  CoreSpec => []OrderlyInv
  <1>1. OrderlyInv /\ [CoreNext]_coreVars => OrderlyInv'
    BY OrderlyStep
  <1>2. QED
    BY OrderlyInit, <1>1, PTL DEF CoreSpec

-----------------------------------------------------------------------------
\* The controller executes only what is hooked, so dma330_update always finds
\* the request an interrupt belongs to and no freed buffer is written.
THEOREM HwRunsHookedAlways ==
  ASSUME Env = {}
  PROVE  CoreSpec => []HwRunsHooked
  <1>1. OrderlyInv => HwRunsHooked
    BY DEF OrderlyInv, Orderly, ExecutesHooked, HwRunsHooked
  <1>2. QED
    BY <1>1, OrderlyAlways, PTL

\* A submission is carried out once.
THEOREM MovedOnceAlways ==
  ASSUME Env = {}
  PROVE  CoreSpec => []MovedOnce
  <1>1. OrderlyInv => MovedOnce
    BY DEF OrderlyInv, Orderly, ExecutesHooked, MovedOnce
  <1>2. QED
    BY <1>1, OrderlyAlways, PTL

\* dma330_update reports only what the controller has finished.
THEOREM ReportsMovedAlways ==
  ASSUME Env = {}
  PROVE  CoreSpec => []ReportsMoved
  <1>1. OrderlyInv => ReportsMoved
    BY DEF OrderlyInv, Orderly, DueBusy, ReportsMoved
  <1>2. QED
    BY <1>1, OrderlyAlways, PTL

\* No BUSY descriptor is left behind.
THEOREM BusyAccountedAlways ==
  ASSUME Env = {}
  PROVE  CoreSpec => []BusyAccounted
  <1>1. OrderlyInv => BusyAccounted
    <2> SUFFICES ASSUME OrderlyInv, NEW d \in Descs, status[d] = "BUSY", d \notin Due
                 PROVE  \E t \in Threads : d \in Hooked(t)
      BY DEF BusyAccounted
    <2>1. PICK t \in Threads, i \in Slots : req[t][i] = d
      BY DEF OrderlyInv, Orderly, BusyInSlot
    <2>2. QED
      BY <2>1, CoreAssumption DEF Hooked
  <1>2. QED
    BY <1>1, OrderlyAlways, PTL

\* The interrupt handler finds the thread and the request of every event, and no
\* lock is taken twice or left behind.
THEOREM NoCrashAlways ==
  ASSUME Env = {}
  PROVE  CoreSpec => []NoCrash
  <1>1. OrderlyInv => NoCrash
    BY DEF OrderlyInv, Orderly
  <1>2. QED
    BY <1>1, OrderlyAlways, PTL

=============================================================================
