----------------------------- MODULE Spidev_proofs -----------------------------
(***************************************************************************)
(* Memory of spidev.c is never used after it was freed, and is freed in    *)
(* the end, unless a file is closed in the middle of spidev_remove; and    *)
(* SPI_IOC_WR_xxx leaves no device with a setting it has refused: for any  *)
(* number of devices, processes and minors.                                *)
(***************************************************************************)
EXTENDS Spidev, FiniteSetTheorems, TLAPS

USE DEF dataVars, moduleVars, devVars, opVars, vars, outer

-----------------------------------------------------------------------------
(* The inductive invariant                                                  *)

\* Device and data refer to each other; data is on the list from the end of its
\* probe to the second half of its removal.
Linked ==
  /\ deviceList \subseteq live
  /\ \A s \in Devs :
       /\ drvdata[s] # NONE  => spi[drvdata[s]] = s /\ removing[s] = NONE
       /\ removing[s] # NONE => removing[s] \in deviceList /\ spi[removing[s]] = NONE
  /\ \A s, t \in Devs : removing[s] = removing[t] /\ removing[s] # NONE => s = t
  /\ \A d \in Datas : spi[d] # NONE => d \in deviceList /\ drvdata[spi[d]] = d
  /\ \A d \in deviceList : spi[d] # NONE \/ \E s \in Devs : removing[s] = d

Openers(d) == {p \in Procs : file[p] = d}

\* Open files refer to data that is in use, and are counted.
Opened ==
  /\ \A p \in Procs : file[p] # NONE => file[p] \in live
  /\ \A d \in live : /\ users[d] = Cardinality(Openers(d))
                     /\ d \in buffer <=> users[d] > 0

\* What is in use is on the list, or open.
Kept == \A d \in live : d \in deviceList \/ Openers(d) # {}

\* Operations are those of open files; an ioctl with a device.
Busy ==
  \A p \in Procs :
    /\ pc[p] # "out" => file[p] # NONE
    /\ pc[p] \in {"ioctl", "cmd", "setup", "restore"} => got[p] # NONE

Locking == {"cmd", "setup", "restore", "sync", "wait", "unlock"}

\* But for the first step of an ioctl an operation holds buf_lock of its file.
\* Those that have the same device have opened the same data, the only one of
\* that device.
Locked ==
  /\ \A p \in Procs :
       /\ pc[p] \in Locking => bufLock[file[p]] = p
       /\ pc[p] = "out" => got[p] = NONE
       /\ \A d \in Datas : spi[d] = got[p] /\ got[p] # NONE => d = file[p]
  /\ \A p, q \in Procs : got[p] = got[q] /\ got[p] # NONE => file[p] = file[q]

\* What a change of the setting is to be undone to was accepted.
Saved ==
  /\ SettingsAccepted
  /\ \A p \in Procs : Changing(p) => save[p] \notin Refused

MemoryInv == TypeOK /\ Linked /\ Opened /\ Kept /\ Busy

IInv == MemoryInv /\ Locked /\ Saved

-----------------------------------------------------------------------------
(* Files and their number                                                   *)

\* Open files can be counted.
LEMMA OpenersFinite ==
  ASSUME NEW d
  PROVE  IsFiniteSet(Openers(d)) /\ Cardinality(Openers(d)) \in Nat
  BY SpidevAssumption, FS_Subset, FS_CardinalityType DEF Openers

\* None means that nobody has it open.
LEMMA NoOpeners ==
  ASSUME Opened, NEW d \in live, users[d] = 0
  PROVE  \A p \in Procs : file[p] # d
<1>1. Openers(d) = {}
  BY OpenersFinite, FS_EmptySet DEF Opened
<1> QED
  BY <1>1 DEF Openers

\* One means that nobody else has.
LEMMA OneOpener ==
  ASSUME Opened, NEW p \in Procs, file[p] \in live, users[file[p]] = 1
  PROVE  \A q \in Procs : file[q] = file[p] => q = p
<1>1. PICK x : Openers(file[p]) = {x}
  BY OpenersFinite, FS_Singleton DEF Opened
<1> QED
  BY <1>1 DEF Openers

\* And whoever has it open is counted.
LEMMA SomeOpener ==
  ASSUME Opened, NEW p \in Procs, file[p] \in live
  PROVE  users[file[p]] \in Nat \ {0}
<1>1. Openers(file[p]) # {}
  BY DEF Openers
<1> QED
  BY <1>1, OpenersFinite, FS_EmptySet DEF Opened

-----------------------------------------------------------------------------
(* Memory                                                                   *)

\* What goes on within an operation concerns neither memory nor devices.
LEMMA Within ==
  ASSUME NEW p \in Procs, ReadWrite(p) \/ Ioctl(p) \/ Complete(p) \/ Proceed(p)
  PROVE  UNCHANGED outer
  BY DEF ReadWrite, Ioctl, Complete, Proceed, IoctlLock, IoctlRead, IoctlMessage, IoctlWrite,
         IoctlSetup, IoctlRestore, Sync, Woken, Unlock

\* The variables keep their types.
LEMMA TypeNext == TypeOK /\ Opened /\ Busy /\ [Next]_vars => TypeOK' /\ Busy'
<1> SUFFICES ASSUME TypeOK, Opened, Busy, [Next]_vars PROVE TypeOK' /\ Busy'
  OBVIOUS
<1> USE SpidevAssumption
<1>1. ASSUME NEW s \in Devs, Probe(s) PROVE TypeOK' /\ Busy'
  BY <1>1 DEF Probe, TypeOK, Busy
<1>2. ASSUME NEW s \in Devs, RemoveUnbind(s) PROVE TypeOK' /\ Busy'
  BY <1>2 DEF RemoveUnbind, TypeOK, Busy
<1>3. ASSUME NEW s \in Devs, RemoveUnlist(s) PROVE TypeOK' /\ Busy'
  BY <1>3 DEF RemoveUnlist, TypeOK, Busy
<1>4. ASSUME NEW p \in Procs, NEW m \in Minors, Open(p, m) PROVE TypeOK' /\ Busy'
  <2>1. PICK d \in deviceList :
          /\ buffer' = buffer \cup {d}
          /\ users' = [users EXCEPT ![d] = @ + 1]
          /\ file' = [file EXCEPT ![p] = d]
    BY <1>4 DEF Open
  <2>2. /\ users' \in [Datas -> Nat] /\ buffer' \subseteq Datas
        /\ file' \in [Procs -> Datas \cup {NONE}]
        /\ \A q \in Procs : file[q] # NONE => file'[q] # NONE
    BY <2>1 DEF TypeOK
  <2> QED
    BY <1>4, <2>2 DEF Open, TypeOK, Busy
<1>5. ASSUME NEW p \in Procs, Release(p) PROVE TypeOK' /\ Busy'
  <2>1. file[p] \in live /\ file[p] \in Datas /\ users[file[p]] \in Nat \ {0}
    BY <1>5, SomeOpener DEF Release, Opened, TypeOK
  <2>2. users' \in [Datas -> Nat] /\ buffer' \subseteq Datas /\ live' \subseteq Datas
        /\ file' \in [Procs -> Datas \cup {NONE}]
    BY <1>5, <2>1 DEF Release, TypeOK
  <2>3. UNCHANGED <<spi, devt, moduleVars, devVars, opVars>>
    BY <1>5 DEF Release
  <2>4. Busy'
    BY <1>5, <2>3 DEF Release, TypeOK, Busy
  <2> QED
    BY <2>2, <2>3, <2>4 DEF TypeOK
<1>6. ASSUME NEW p \in Procs, ReadWrite(p) \/ Ioctl(p) \/ Complete(p) \/ Proceed(p)
      PROVE  TypeOK' /\ Busy'
  <2>1. UNCHANGED outer
    BY <1>6, Within
  <2>2. CASE ReadWrite(p) \/ Complete(p) \/ IoctlLock(p) \/ IoctlRead(p) \/ IoctlMessage(p)
    BY <2>1, <2>2 DEF ReadWrite, Complete, IoctlLock, IoctlRead, IoctlMessage, At, Goto,
                      TypeOK, Busy
  <2>3. CASE Ioctl(p) \/ IoctlSetup(p) \/ Sync(p)
    BY <2>1, <2>3 DEF Ioctl, IoctlSetup, Sync, At, Goto, TypeOK, Busy
  <2>4. CASE IoctlWrite(p) \/ IoctlRestore(p)
    BY <2>1, <2>4 DEF IoctlWrite, IoctlRestore, Restored, At, Goto, TypeOK, Busy
  <2>5. CASE Woken(p) \/ Unlock(p)
    BY <2>1, <2>5 DEF Woken, Unlock, Unlocked, At, Goto, TypeOK, Busy
  <2> QED
    BY <1>6, <2>2, <2>3, <2>4, <2>5 DEF Proceed
<1>7. CASE UNCHANGED vars
  BY <1>7 DEF TypeOK, Busy
<1> QED
  BY <1>1, <1>2, <1>3, <1>4, <1>5, <1>6, <1>7 DEF Next

\* A device and its data stay linked, and nothing else is on the list.
LEMMA LinkedNext ==
  ASSUME TypeOK, Linked, Opened, "close" \notin Env, [Next]_vars
  PROVE  Linked'
<1> USE SpidevAssumption
<1>1. ASSUME NEW s \in Devs, Probe(s) PROVE Linked'
  <2>1. PICK d \in Datas \ live :
          /\ live' = live \cup {d}
          /\ spi' = [spi EXCEPT ![d] = s]
          /\ deviceList' = deviceList \cup {d}
          /\ drvdata' = [drvdata EXCEPT ![s] = d]
    BY <1>1 DEF Probe
  <2>2. drvdata[s] = NONE /\ removing[s] = NONE /\ removing' = removing
    BY <1>1 DEF Probe
  <2>3. d \notin deviceList /\ spi[d] = NONE
    BY <2>1 DEF Linked, TypeOK
  <2> QED
    BY <2>1, <2>2, <2>3 DEF Linked, TypeOK
<1>2. ASSUME NEW s \in Devs, RemoveUnbind(s) PROVE Linked'
  <2>1. PICK d \in Datas : d = drvdata[s] /\ d # NONE
    BY <1>2 DEF RemoveUnbind, TypeOK
  <2>2. /\ spi' = [spi EXCEPT ![d] = NONE]
        /\ removing' = [removing EXCEPT ![s] = d]
        /\ drvdata' = [drvdata EXCEPT ![s] = NONE]
        /\ UNCHANGED <<live, deviceList>>
    BY <1>2, <2>1 DEF RemoveUnbind
  <2>3. spi[d] = s /\ removing[s] = NONE /\ d \in deviceList
    BY <2>1 DEF Linked
  <2> QED
    BY <2>1, <2>2, <2>3 DEF Linked, TypeOK
<1>3. ASSUME NEW s \in Devs, RemoveUnlist(s) PROVE Linked'
  <2>1. PICK d \in Datas : d = removing[s] /\ d # NONE
    BY <1>3 DEF RemoveUnlist, TypeOK
  <2>2. /\ deviceList' = deviceList \ {d} /\ live \ {d} \subseteq live'
        /\ removing' = [removing EXCEPT ![s] = NONE]
        /\ UNCHANGED <<spi, drvdata>>
    BY <1>3, <2>1 DEF RemoveUnlist
  <2>3. spi[d] = NONE /\ \A t \in Devs : removing[t] = d => t = s
    BY <2>1 DEF Linked
  <2> QED
    BY <2>1, <2>2, <2>3 DEF Linked, TypeOK
<1>4. ASSUME NEW p \in Procs, NEW m \in Minors, Open(p, m) PROVE Linked'
  BY <1>4 DEF Open, Linked
<1>5. ASSUME NEW p \in Procs, Release(p) PROVE Linked'
  <2>1. UNCHANGED <<spi, deviceList, drvdata, removing>> /\ file[p] \in live
    BY <1>5 DEF Release, Opened
  <2>2. \/ live' = live
        \/ live' = live \ {file[p]} /\ file[p] \notin deviceList
    BY <1>5 DEF Release, FreedByRelease, Linked
  <2> QED
    BY <2>1, <2>2 DEF Linked
<1>6. ASSUME NEW p \in Procs, ReadWrite(p) \/ Ioctl(p) \/ Complete(p) \/ Proceed(p)
      PROVE  Linked'
  BY <1>6, Within DEF Linked
<1>7. CASE UNCHANGED vars
  BY <1>7 DEF Linked
<1> QED
  BY <1>1, <1>2, <1>3, <1>4, <1>5, <1>6, <1>7 DEF Next

\* Open files stay allocated and counted.
LEMMA OpenedNext ==
  ASSUME TypeOK, Linked, Opened, "close" \notin Env, [Next]_vars
  PROVE  Opened'
<1> USE SpidevAssumption
<1>1. ASSUME NEW s \in Devs, Probe(s) PROVE Opened'
  <2>1. PICK d \in Datas \ live :
          /\ live' = live \cup {d}
          /\ users' = [users EXCEPT ![d] = 0]
          /\ buffer' = buffer \ {d}
    BY <1>1 DEF Probe
  <2>2. file' = file
    BY <1>1 DEF Probe
  <2>3. Openers(d) = {} /\ \A e : Openers(e)' = Openers(e)
    BY <2>1, <2>2 DEF Openers, Opened
  <2>4. users'[d] = Cardinality(Openers(d)')
    BY <2>1, <2>3, FS_EmptySet DEF TypeOK
  <2> QED
    BY <2>1, <2>2, <2>3, <2>4 DEF Opened, TypeOK
<1>2. ASSUME NEW s \in Devs, RemoveUnbind(s) PROVE Opened'
  BY <1>2 DEF RemoveUnbind, Opened, Openers
<1>3. ASSUME NEW s \in Devs, RemoveUnlist(s) PROVE Opened'
  <2>1. UNCHANGED <<users, buffer, file>> /\ live' \subseteq live
    BY <1>3 DEF RemoveUnlist
  <2>2. ASSUME NEW p \in Procs, file[p] # NONE PROVE file[p] \in live'
    <3>1. CASE users[removing[s]] = 0
      <4>1. removing[s] \in live
        BY <1>3 DEF RemoveUnlist, Linked
      <4> QED
        BY <1>3, <2>2, <3>1, <4>1, NoOpeners DEF RemoveUnlist, Opened
    <3> QED
      BY <1>3, <2>2, <3>1 DEF RemoveUnlist, FreedByRemove, Opened
  <2> QED
    BY <2>1, <2>2 DEF Opened, Openers
<1>4. ASSUME NEW p \in Procs, NEW m \in Minors, Open(p, m) PROVE Opened'
  <2>1. PICK d \in deviceList :
          /\ buffer' = buffer \cup {d}
          /\ users' = [users EXCEPT ![d] = @ + 1]
          /\ file' = [file EXCEPT ![p] = d]
    BY <1>4 DEF Open
  <2>2. live' = live /\ file[p] = NONE /\ d \in live /\ d \in Datas
    BY <1>4, <2>1 DEF Open, Linked, TypeOK
  <2>3. Openers(d)' = Openers(d) \cup {p} /\ p \notin Openers(d)
    BY <2>1, <2>2 DEF Openers, TypeOK
  <2>4. users'[d] = Cardinality(Openers(d)') /\ users'[d] > 0
    <3>1. Cardinality(Openers(d)') = Cardinality(Openers(d)) + 1
      BY <2>3, OpenersFinite, FS_AddElement
    <3> QED
      BY <2>1, <2>2, <3>1, OpenersFinite DEF Opened, TypeOK
  <2>5. ASSUME NEW e \in live, e # d
        PROVE  Openers(e)' = Openers(e) /\ users'[e] = users[e]
    BY <2>1, <2>2, <2>5 DEF Openers, TypeOK
  <2>6. \A q \in Procs : file'[q] # NONE => file'[q] \in live'
    BY <2>1, <2>2 DEF Opened, TypeOK
  <2> QED
    BY <2>1, <2>2, <2>4, <2>5, <2>6 DEF Opened, TypeOK
<1>5. ASSUME NEW p \in Procs, Release(p) PROVE Opened'
  <2>1. PICK d \in live : d = file[p] /\ d # NONE /\ d \in Datas
    BY <1>5 DEF Release, Opened, TypeOK
  <2>2. /\ users' = [users EXCEPT ![d] = @ - 1]
        /\ buffer' = IF users[d] = 1 THEN buffer \ {d} ELSE buffer
        /\ file' = [file EXCEPT ![p] = NONE]
        /\ \/ live' = live
           \/ live' = live \ {d} /\ users[d] = 1
    BY <1>5, <2>1 DEF Release, FreedByRelease
  <2>3. users[d] \in Nat \ {0}
    BY <2>1, SomeOpener
  <2>4. Openers(d)' = Openers(d) \ {p} /\ p \in Openers(d)
    BY <2>1, <2>2 DEF Openers, TypeOK
  <2>5. users'[d] = Cardinality(Openers(d)')
    <3>1. Cardinality(Openers(d)') = Cardinality(Openers(d)) - 1
      BY <2>4, OpenersFinite, FS_RemoveElement
    <3> QED
      BY <2>1, <2>2, <3>1 DEF Opened, TypeOK
  <2>6. d \in buffer' <=> users'[d] > 0
    BY <2>1, <2>2, <2>3 DEF Opened, TypeOK
  <2>7. ASSUME NEW e \in live, e # d
        PROVE  Openers(e)' = Openers(e) /\ users'[e] = users[e] /\ (e \in buffer' <=> e \in buffer)
    BY <2>1, <2>2, <2>7 DEF Openers, TypeOK
  <2>8. ASSUME NEW q \in Procs, file'[q] # NONE PROVE file'[q] \in live'
    <3>1. q # p /\ file'[q] = file[q]
      BY <2>2, <2>8 DEF TypeOK
    <3> QED
      BY <2>1, <2>2, <2>8, <3>1, OneOpener DEF Opened
  <2>9. live' \subseteq live
    BY <2>2
  <2>10. ASSUME NEW e \in live'
         PROVE  users'[e] = Cardinality(Openers(e)') /\ (e \in buffer' <=> users'[e] > 0)
    BY <2>5, <2>6, <2>7, <2>9 DEF Opened
  <2> QED
    BY <2>8, <2>10 DEF Opened
<1>6. ASSUME NEW p \in Procs, ReadWrite(p) \/ Ioctl(p) \/ Complete(p) \/ Proceed(p)
      PROVE  Opened'
  BY <1>6, Within DEF Opened, Openers
<1>7. CASE UNCHANGED vars
  BY <1>7 DEF Opened, Openers
<1> QED
  BY <1>1, <1>2, <1>3, <1>4, <1>5, <1>6, <1>7 DEF Next

\* Nothing is forgotten.
LEMMA KeptNext ==
  ASSUME TypeOK, Linked, Opened, Kept, "close" \notin Env, [Next]_vars
  PROVE  Kept'
<1> USE SpidevAssumption
<1>1. ASSUME NEW s \in Devs, Probe(s) \/ RemoveUnbind(s) PROVE Kept'
  BY <1>1 DEF Probe, RemoveUnbind, Kept, Openers
<1>2. ASSUME NEW s \in Devs, RemoveUnlist(s) PROVE Kept'
  <2>1. PICK d \in live : d = removing[s] /\ d \in Datas
    BY <1>2 DEF RemoveUnlist, Linked, TypeOK
  <2>2. d \in live' => Openers(d) # {}
    BY <1>2, <2>1, FS_EmptySet DEF RemoveUnlist, FreedByRemove, Opened
  <2> QED
    BY <1>2, <2>1, <2>2 DEF RemoveUnlist, Kept, Openers
<1>3. ASSUME NEW p \in Procs, NEW m \in Minors, Open(p, m) PROVE Kept'
  <2>1. /\ live' = live /\ deviceList' = deviceList
        /\ \A q \in Procs : file[q] # NONE => file'[q] = file[q]
    BY <1>3 DEF Open, TypeOK
  <2>2. \A d \in live : d # NONE
    BY DEF TypeOK
  <2> QED
    BY <2>1, <2>2 DEF Kept, Openers
<1>4. ASSUME NEW p \in Procs, Release(p) PROVE Kept'
  <2>1. PICK d \in live : d = file[p] /\ d \in Datas
    BY <1>4 DEF Release, Opened, TypeOK
  <2>2. /\ live' \subseteq live /\ deviceList' = deviceList
        /\ \A q \in Procs : q # p => file'[q] = file[q]
    BY <1>4 DEF Release, TypeOK
  <2>3. ASSUME d \in live', d \notin deviceList PROVE \E q \in Procs : q # p /\ file[q] = d
    <3>1. spi[d] = NONE
      BY <2>1, <2>3 DEF Linked
    <3>2. users[d] # 1
      BY <1>4, <2>1, <2>3, <3>1 DEF Release, FreedByRelease
    <3>3. Openers(d) # {p}
      BY <2>1, <3>2, FS_Singleton DEF Opened
    <3> QED
      BY <2>1, <3>3 DEF Openers
  <2>4. ASSUME NEW e \in live', e \notin deviceList PROVE Openers(e)' # {}
    <3>1. CASE e = d
      BY <2>2, <2>3, <2>4, <3>1 DEF Openers
    <3>2. CASE e # d
      BY <2>1, <2>2, <2>4, <3>2 DEF Openers, Kept
    <3> QED
      BY <3>1, <3>2
  <2> QED
    BY <2>2, <2>4 DEF Kept
<1>5. ASSUME NEW p \in Procs, ReadWrite(p) \/ Ioctl(p) \/ Complete(p) \/ Proceed(p)
      PROVE  Kept'
  BY <1>5, Within DEF Kept, Openers
<1>6. CASE UNCHANGED vars
  BY <1>6 DEF Kept, Openers
<1> QED
  BY <1>1, <1>2, <1>3, <1>4, <1>5, <1>6 DEF Next

-----------------------------------------------------------------------------
(* Settings                                                                 *)

\* What is not within an operation leaves it as it is, but for the lock of data
\* that nobody has open.
LEMMA Without ==
  ASSUME TypeOK, Opened,
         \/ \E s \in Devs : Probe(s) \/ RemoveUnbind(s) \/ RemoveUnlist(s)
         \/ \E p \in Procs : Release(p) \/ \E m \in Minors : Open(p, m)
  PROVE  /\ UNCHANGED <<pc, got, save, setting>>
         /\ \A d \in live : bufLock'[d] = bufLock[d]
         /\ \A p \in Procs : pc[p] # "out" => file'[p] = file[p] \/ file[p] = NONE
<1>1. ASSUME NEW s \in Devs, Probe(s)
      PROVE  /\ UNCHANGED <<pc, got, save, setting, file>>
             /\ \A d \in live : bufLock'[d] = bufLock[d]
  <2>1. PICK d \in Datas \ live : bufLock' = [bufLock EXCEPT ![d] = NONE]
    BY <1>1 DEF Probe
  <2> QED
    BY <1>1, <2>1 DEF Probe, TypeOK
<1>2. ASSUME NEW s \in Devs, RemoveUnbind(s) \/ RemoveUnlist(s)
      PROVE  UNCHANGED <<pc, got, save, setting, file, bufLock>>
  BY <1>2 DEF RemoveUnbind, RemoveUnlist
<1>3. ASSUME NEW p \in Procs, Release(p) \/ \E m \in Minors : Open(p, m)
      PROVE  /\ UNCHANGED <<pc, got, save, setting, bufLock>>
             /\ \A q \in Procs : pc[q] # "out" => file'[q] = file[q] \/ file[q] = NONE
  BY <1>3 DEF Release, Open, TypeOK
<1> QED
  BY <1>1, <1>2, <1>3

\* Locks are held, and devices are not confused.
LEMMA LockedNext ==
  ASSUME TypeOK, Linked, Opened, Busy, Locked, "rebind" \notin Env, [Next]_vars
  PROVE  Locked'
<1> USE SpidevAssumption
<1>0. \A p \in Procs : got[p] # NONE => pc[p] # "out" /\ file[p] \in live
  BY DEF Locked, Busy, Opened
<1>1. CASE \/ \E s \in Devs : Probe(s) \/ RemoveUnbind(s) \/ RemoveUnlist(s)
           \/ \E p \in Procs : Release(p) \/ \E m \in Minors : Open(p, m)
  <2>1. /\ UNCHANGED <<pc, got, save, setting>>
        /\ \A d \in live : bufLock'[d] = bufLock[d]
        /\ \A p \in Procs : pc[p] # "out" => file'[p] = file[p]
    BY <1>1, Without DEF Busy
  <2>2. ASSUME NEW p \in Procs, NEW d \in Datas, spi'[d] = got[p], got[p] # NONE
        PROVE  spi[d] = got[p]
    <3>1. ASSUME NEW s \in Devs, Probe(s) PROVE spi[d] = got[p]
      <4>1. PICK e \in Datas : spi' = [spi EXCEPT ![e] = s]
        BY <3>1 DEF Probe
      <4>2. got[p] # s
        BY <3>1 DEF Probe, InUse
      <4> QED
        BY <2>2, <4>1, <4>2 DEF TypeOK
    <3>2. ASSUME NEW s \in Devs, RemoveUnbind(s) PROVE spi[d] = got[p]
      BY <2>2, <3>2 DEF RemoveUnbind, TypeOK
    <3> QED
      BY <1>1, <2>2, <3>1, <3>2 DEF RemoveUnlist, Release, Open
  <2>3. ASSUME NEW p \in Procs, pc[p] \in Locking PROVE bufLock'[file'[p]] = p
    <3>1. pc[p] # "out" /\ file[p] \in live
      BY <2>3 DEF Locking, Busy, Opened
    <3> QED
      BY <2>1, <2>3, <3>1 DEF Locked
  <2>4. \A p, q \in Procs : got[p] = got[q] /\ got[p] # NONE => file'[p] = file'[q]
    BY <1>0, <2>1 DEF Locked
  <2>5. \A p \in Procs : \A d \in Datas : spi'[d] = got[p] /\ got[p] # NONE => d = file'[p]
    BY <1>0, <2>1, <2>2 DEF Locked
  <2> QED
    BY <2>1, <2>3, <2>4, <2>5 DEF Locked
<1>2. ASSUME NEW p \in Procs, ReadWrite(p) \/ IoctlLock(p) PROVE Locked'
  <2>1. /\ UNCHANGED <<outer, got>> /\ file[p] # NONE /\ bufLock[file[p]] = NONE
        /\ bufLock' = [bufLock EXCEPT ![file[p]] = p]
        /\ pc'[p] \notin {"out", "ioctl"} /\ pc[p] \in {"out", "ioctl"}
        /\ \A q \in Procs : q # p => pc'[q] = pc[q]
    BY <1>2 DEF ReadWrite, IoctlLock, At, Goto, MayLock, TypeOK
  <2>2. ASSUME NEW q \in Procs, pc'[q] \in Locking PROVE bufLock'[file[q]] = q
    <3>1. CASE q = p
      BY <2>1, <3>1 DEF TypeOK
    <3>2. CASE q # p
      BY <2>1, <2>2, <3>2 DEF Locked, TypeOK
    <3> QED
      BY <3>1, <3>2
  <2> QED
    BY <2>1, <2>2 DEF Locked
<1>3. ASSUME NEW p \in Procs, Ioctl(p) PROVE Locked'
  <2>1. /\ UNCHANGED <<outer, bufLock>> /\ file[p] \in Datas /\ spi[file[p]] # NONE
        /\ got' = [got EXCEPT ![p] = spi[file[p]]]
        /\ pc' = [pc EXCEPT ![p] = "ioctl"]
    BY <1>3 DEF Ioctl, At, Goto, TypeOK
  <2>2. \A d \in Datas : spi[d] = spi[file[p]] => d = file[p]
    BY <2>1 DEF Linked
  <2>3. \A q \in Procs : got[q] = spi[file[p]] => file[p] = file[q]
    BY <2>1 DEF Locked
  <2>4. /\ got'[p] = spi[file[p]] /\ \A q \in Procs : q # p => got'[q] = got[q]
        /\ pc'[p] = "ioctl" /\ \A q \in Procs : q # p => pc'[q] = pc[q]
    BY <2>1 DEF TypeOK
  <2> QED
    BY <2>1, <2>2, <2>3, <2>4 DEF Locked, Locking
<1>4. ASSUME NEW p \in Procs,
             \/ IoctlRead(p) \/ IoctlMessage(p) \/ IoctlWrite(p) \/ IoctlSetup(p)
             \/ IoctlRestore(p) \/ Sync(p) \/ Woken(p)
      PROVE  Locked'
  <2>1. /\ UNCHANGED <<outer, got, bufLock>> /\ pc[p] \in Locking /\ pc'[p] # "out"
        /\ \A q \in Procs : q # p => pc'[q] = pc[q]
    BY <1>4 DEF IoctlRead, IoctlMessage, IoctlWrite, IoctlSetup, IoctlRestore, Sync, Woken, At,
                Goto, TypeOK, Locking
  <2> QED
    BY <2>1 DEF Locked
<1>5. ASSUME NEW p \in Procs, Unlock(p) PROVE Locked'
  <2>1. /\ UNCHANGED outer /\ file[p] \in Datas
        /\ bufLock' = [bufLock EXCEPT ![file[p]] = NONE]
        /\ got'[p] = NONE /\ pc'[p] = "out" /\ pc[p] = "unlock"
        /\ \A q \in Procs : q # p => pc'[q] = pc[q] /\ got'[q] = got[q]
    BY <1>5 DEF Unlock, Unlocked, At, Goto, TypeOK
  <2>2. \A q \in Procs : q # p /\ pc[q] \in Locking => file[q] # file[p]
    BY <2>1 DEF Locked, Locking
  <2>3. ASSUME NEW q \in Procs, pc'[q] \in Locking PROVE bufLock'[file[q]] = q
    <3>1. q # p
      BY <2>1, <2>3 DEF Locking
    <3> QED
      BY <2>1, <2>2, <2>3, <3>1 DEF Locked, TypeOK
  <2> QED
    BY <2>1, <2>3 DEF Locked
<1>6. ASSUME NEW p \in Procs, Complete(p) PROVE Locked'
  BY <1>6 DEF Complete, Locked
<1>7. CASE UNCHANGED vars
  BY <1>7 DEF Locked
<1> QED
  BY <1>1, <1>2, <1>3, <1>4, <1>5, <1>6, <1>7 DEF Next, Proceed

\* Nobody else changes the setting of the device somebody changes.
LEMMA OneChanges ==
  ASSUME Locked, NEW p \in Procs, NEW q \in Procs, got[p] = got[q], got[p] # NONE,
         pc[p] \in Locking, Changing(q)
  PROVE  p = q
  BY DEF Locked, Locking, Changing

\* A setting that is refused is undone, to one that was not.
LEMMA SavedNext ==
  ASSUME TypeOK, Opened, Busy, Locked, Saved, [Next]_vars
  PROVE  Saved'
<1> USE SpidevAssumption
<1>1. CASE UNCHANGED <<pc, got, save, setting>>
  BY <1>1 DEF Saved, SettingsAccepted, Changing
<1>2. ASSUME NEW p \in Procs,
             \/ ReadWrite(p) \/ Ioctl(p) \/ IoctlLock(p) \/ IoctlRead(p) \/ IoctlMessage(p)
             \/ Sync(p) \/ Woken(p) \/ Unlock(p)
      PROVE  Saved'
  <2>1. /\ UNCHANGED <<setting, save>> /\ ~Changing(p) /\ ~Changing(p)'
        /\ \A q \in Procs : q # p => pc'[q] = pc[q] /\ got'[q] = got[q]
    BY <1>2 DEF ReadWrite, Ioctl, IoctlLock, IoctlRead, IoctlMessage, Sync, Woken, Unlock, At,
                Goto, TypeOK, Changing
  <2> QED
    BY <2>1 DEF Saved, SettingsAccepted, Changing
<1>3. ASSUME NEW p \in Procs, IoctlWrite(p) PROVE Saved'
  <2>1. PICK v \in Settings : setting' = [setting EXCEPT ![got[p]] = v]
    BY <1>3 DEF IoctlWrite
  <2>2. /\ got' = got /\ got[p] \in Devs /\ pc[p] = "cmd" /\ pc'[p] = "setup"
        /\ save' = [save EXCEPT ![p] = setting[got[p]]]
        /\ \A q \in Procs : q # p => pc'[q] = pc[q]
    BY <1>3 DEF IoctlWrite, At, Goto, Busy, TypeOK
  <2>3. setting[got[p]] \notin Refused
    BY <2>2, OneChanges DEF Saved, SettingsAccepted, Changing, Locking
  <2>4. ASSUME NEW s \in Devs, setting'[s] \in Refused
        PROVE  \E q \in Procs : Changing(q)' /\ got[q] = s
    <3>1. CASE s = got[p]
      BY <2>2, <3>1 DEF Changing
    <3>2. CASE s # got[p]
      <4>1. PICK q \in Procs : Changing(q) /\ got[q] = s
        BY <2>1, <2>4, <3>2 DEF Saved, SettingsAccepted, TypeOK
      <4> QED
        BY <2>2, <3>2, <4>1 DEF Changing
    <3> QED
      BY <3>1, <3>2
  <2>5. \A q \in Procs : Changing(q)' => save'[q] \notin Refused
    BY <2>2, <2>3 DEF Saved, Changing, TypeOK
  <2> QED
    BY <2>2, <2>4, <2>5 DEF Saved, SettingsAccepted
<1>4. ASSUME NEW p \in Procs, IoctlSetup(p) PROVE Saved'
  <2>1. /\ UNCHANGED <<setting, save, got>> /\ pc[p] = "setup"
        /\ pc'[p] = IF setting[got[p]] \in Refused THEN "restore" ELSE "unlock"
        /\ \A q \in Procs : q # p => pc'[q] = pc[q]
    BY <1>4 DEF IoctlSetup, At, Goto, TypeOK
  <2> QED
    BY <2>1 DEF Saved, SettingsAccepted, Changing
<1>5. ASSUME NEW p \in Procs, IoctlRestore(p) PROVE Saved'
  <2>1. /\ UNCHANGED <<save, got>> /\ pc[p] = "restore" /\ pc'[p] = "unlock"
        /\ setting' = [setting EXCEPT ![got[p]] = save[p]] /\ got[p] \in Devs
        /\ \A q \in Procs : q # p => pc'[q] = pc[q]
    BY <1>5 DEF IoctlRestore, Restored, At, Goto, Busy, TypeOK
  <2>2. save[p] \notin Refused
    BY <2>1 DEF Saved, Changing
  <2>3. ASSUME NEW s \in Devs, setting'[s] \in Refused
        PROVE  \E q \in Procs : Changing(q)' /\ got[q] = s
    <3>1. s # got[p] /\ setting[s] \in Refused
      BY <2>1, <2>2, <2>3 DEF TypeOK
    <3>2. PICK q \in Procs : Changing(q) /\ got[q] = s
      BY <3>1 DEF Saved, SettingsAccepted
    <3> QED
      BY <2>1, <3>1, <3>2 DEF Changing
  <2> QED
    BY <2>1, <2>3 DEF Saved, SettingsAccepted, Changing
<1>6. CASE \/ \E s \in Devs : Probe(s) \/ RemoveUnbind(s) \/ RemoveUnlist(s)
           \/ \E p \in Procs : Release(p) \/ Complete(p) \/ \E m \in Minors : Open(p, m)
  BY <1>1, <1>6, Without DEF Complete
<1> QED
  BY <1>1, <1>2, <1>3, <1>4, <1>5, <1>6 DEF Next, Proceed

-----------------------------------------------------------------------------
(* Theorems                                                                 *)

\* Nothing is in use when the module is loaded.
LEMMA IInvInit == Init => IInv
<1> SUFFICES ASSUME Init PROVE IInv
  OBVIOUS
<1>1. TypeOK
  BY SpidevAssumption DEF Init, TypeOK
<1>2. Linked /\ Opened /\ Kept /\ Busy
  BY SpidevAssumption DEF Init, Linked, Opened, Kept, Busy
<1>3. Locked /\ Saved
  BY SpidevAssumption DEF Init, Locked, Locking, Saved, SettingsAccepted, Changing
<1> QED
  BY <1>1, <1>2, <1>3 DEF IInv, MemoryInv

\* The invariant about memory, as long as no file is closed within a removal.
LEMMA MemoryAlways == ASSUME "close" \notin Env PROVE Spec => []MemoryInv
<1>1. Init => MemoryInv
  BY IInvInit DEF IInv
<1>2. MemoryInv /\ [Next]_vars => MemoryInv'
  BY TypeNext, LinkedNext, OpenedNext, KeptNext DEF MemoryInv
<1> QED
  BY <1>1, <1>2, PTL DEF Spec

\* The variables keep their types; in particular the number of users never
\* becomes negative.
THEOREM TypeCorrect == ASSUME "close" \notin Env PROVE Spec => []TypeOK
<1>1. MemoryInv => TypeOK
  BY DEF MemoryInv
<1> QED
  BY <1>1, MemoryAlways, PTL

\* spidev_remove and the last spidev_release never free a struct spidev_data
\* that a file, the list, a device or a removal still refers to.
THEOREM UsesAllocatedAlways == ASSUME "close" \notin Env PROVE Spec => []UsesAllocated
<1>1. MemoryInv => UsesAllocated
  BY SpidevAssumption DEF MemoryInv, TypeOK, Linked, Opened, UsesAllocated
<1> QED
  BY <1>1, MemoryAlways, PTL

\* One of the two does free it.
THEOREM NoLeakEver == ASSUME "close" \notin Env PROVE Spec => []NoLeak
<1>1. MemoryInv => NoLeak
  BY DEF MemoryInv, Kept, Openers, NoLeak
<1> QED
  BY <1>1, MemoryAlways, PTL

\* The buffer is allocated by the first open and freed by the last close.
THEOREM BufferWhileOpenAlways == ASSUME "close" \notin Env PROVE Spec => []BufferWhileOpen
<1>1. MemoryInv => BufferWhileOpen
  BY DEF MemoryInv, Opened, Openers, BufferWhileOpen
<1> QED
  BY <1>1, MemoryAlways, PTL

\* buf_lock suffices to keep changes of the setting of a device apart.
THEOREM SettingsAcceptedAlways == ASSUME Env = {} PROVE Spec => []SettingsAccepted
<1>1. "close" \notin Env /\ "rebind" \notin Env
  OBVIOUS
<1>2. MemoryInv /\ Locked /\ Saved /\ [Next]_vars => (Locked /\ Saved)'
  BY <1>1, LockedNext, SavedNext DEF MemoryInv
<1>3. Init => Locked /\ Saved
  BY IInvInit DEF IInv
<1>4. Locked /\ Saved => SettingsAccepted
  BY DEF Saved
<1> QED
  BY <1>1, <1>2, <1>3, <1>4, MemoryAlways, PTL DEF Spec

===============================================================================
