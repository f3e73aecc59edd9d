-------------------------------- MODULE Spidev --------------------------------
(***************************************************************************)
(* spidev.c: user processes drive SPI devices through character device     *)
(* files, while the devices come and go.                                   *)
(*                                                                         *)
(* struct spidev_data lives as long as its device is bound or one of its   *)
(* files is open; remove and the last close decide between them who frees  *)
(* it.  Three locks are involved: device_list_lock (a critical section is  *)
(* one action), spi_lock (likewise), and buf_lock, which a process holds   *)
(* while it waits for a transfer: an operation is a program over pc.       *)
(*                                                                         *)
(* What a message carries is left out, and so is a failing allocation,     *)
(* which changes nothing.  Mode, word size and speed of a device are one   *)
(* value, its setting.                                                     *)
(***************************************************************************)
EXTENDS Integers, FiniteSets

CONSTANTS
  Devs,      \* struct spi_device
  Datas,     \* pieces of memory for a struct spidev_data
  Procs,     \* user processes, each with one file
  NONE,
  Minors,    \* 0 .. N_SPI_MINORS - 1
  Settings,  \* values of mode, bits_per_word and max_speed_hz together
  Refused,   \* those that spi_setup does not accept
  Env        \* the hazards, among those below, that the environment exhibits

(***************************************************************************)
(*   close    the last file of a device is closed between the two critical *)
(*            sections of spidev_remove                                    *)
(*   rebind   a device is bound again while an operation begun before its  *)
(*            removal still goes on                                        *)
(***************************************************************************)
Hazards == {"close", "rebind"}

ASSUME SpidevAssumption ==
  /\ NONE \notin Devs \cup Datas \cup Procs
  /\ IsFiniteSet(Procs)
  /\ Minors \subseteq Nat
  /\ Refused \subseteq Settings
  /\ Env \subseteq Hazards

VARIABLES
  \* struct spidev_data
  live,        \* the pieces of memory in use
  spi,         \* NONE after the removal
  users,
  buffer,      \* those with a buffer
  devt,
  bufLock,     \* who holds buf_lock
  \* the module
  deviceList, minors,
  \* struct spi_device
  drvdata,
  removing,    \* what spidev_remove works on between its critical sections
  setting,
  \* processes
  file,        \* private_data of the open file
  pc,
  got,         \* the device spidev_ioctl holds a reference to
  save,        \* what to restore when spi_setup fails
  flight       \* the device that works on the message of the process

dataVars   == <<live, spi, users, buffer, devt>>
moduleVars == <<deviceList, minors>>
devVars    == <<drvdata, removing>>
opVars     == <<bufLock, pc, got, save, flight, setting>>
vars       == <<dataVars, moduleVars, devVars, opVars, file>>

TypeOK ==
  /\ live \subseteq Datas
  /\ spi \in [Datas -> Devs \cup {NONE}]
  /\ users \in [Datas -> Nat]
  /\ buffer \subseteq Datas
  /\ devt \in [Datas -> Minors]
  /\ bufLock \in [Datas -> Procs \cup {NONE}]
  /\ deviceList \subseteq Datas
  /\ minors \subseteq Minors
  /\ drvdata \in [Devs -> Datas \cup {NONE}]
  /\ removing \in [Devs -> Datas \cup {NONE}]
  /\ setting \in [Devs -> Settings]
  /\ file \in [Procs -> Datas \cup {NONE}]
  /\ pc \in [Procs -> {"out", "ioctl", "cmd", "setup", "restore", "sync", "wait", "unlock"}]
  /\ got \in [Procs -> Devs \cup {NONE}]
  /\ save \in [Procs -> Settings]
  /\ flight \in [Procs -> Devs \cup {NONE}]

\* The module is loaded, no device bound.
Init ==
  /\ live = {} /\ buffer = {} /\ deviceList = {} /\ minors = {}
  /\ spi = [d \in Datas |-> NONE]
  /\ users = [d \in Datas |-> 0]
  /\ devt \in [Datas -> {m \in Minors : \A k \in Minors : m <= k}]
  /\ bufLock = [d \in Datas |-> NONE]
  /\ drvdata = [s \in Devs |-> NONE]
  /\ removing = [s \in Devs |-> NONE]
  /\ \E v \in Settings \ Refused :
       /\ setting = [s \in Devs |-> v]
       /\ save = [p \in Procs |-> v]
  /\ file = [p \in Procs |-> NONE]
  /\ pc = [p \in Procs |-> "out"]
  /\ got = [p \in Procs |-> NONE]
  /\ flight = [p \in Procs |-> NONE]

-----------------------------------------------------------------------------
(* Devices come and go                                                      *)

\* An operation still uses device s.
InUse(s) == \E p \in Procs : s \in {got[p], flight[p]}

\* find_first_zero_bit
FirstMinor(m) == m \notin minors /\ \A k \in Minors : k < m => k \in minors

\* spidev_probe.  Without a free minor it fails and changes nothing.
Probe(s) ==
  /\ drvdata[s] = NONE /\ removing[s] = NONE
  /\ "rebind" \in Env \/ ~InUse(s)
  /\ \E d \in Datas \ live, m \in Minors :
       /\ FirstMinor(m)
       /\ live' = live \cup {d}
       /\ spi' = [spi EXCEPT ![d] = s]
       /\ users' = [users EXCEPT ![d] = 0]
       /\ buffer' = buffer \ {d}
       /\ devt' = [devt EXCEPT ![d] = m]
       /\ bufLock' = [bufLock EXCEPT ![d] = NONE]
       /\ minors' = minors \cup {m}
       /\ deviceList' = deviceList \cup {d}
       /\ drvdata' = [drvdata EXCEPT ![s] = d]
  /\ UNCHANGED <<removing, pc, got, save, flight, setting, file>>

\* The first half of spidev_remove: "make sure ops on existing fds can abort".
RemoveUnbind(s) ==
  /\ drvdata[s] # NONE
  /\ spi' = [spi EXCEPT ![drvdata[s]] = NONE]
  /\ removing' = [removing EXCEPT ![s] = drvdata[s]]
  /\ drvdata' = [drvdata EXCEPT ![s] = NONE]
  /\ UNCHANGED <<live, users, buffer, devt, moduleVars, opVars, file>>

\* Mutant of FreedByRemove: the data is freed whoever has it open.
FreedAnyway(d) == TRUE

FreedByRemove(d) == users[d] = 0

\* The second half: "prevent new opens".
RemoveUnlist(s) ==
  LET d == removing[s] IN
  /\ d # NONE
  /\ deviceList' = deviceList \ {d}
  /\ minors' = minors \ {devt[d]}
  /\ live' = IF FreedByRemove(d) THEN live \ {d} ELSE live
  /\ removing' = [removing EXCEPT ![s] = NONE]
  /\ UNCHANGED <<spi, users, buffer, devt, drvdata, opVars, file>>

-----------------------------------------------------------------------------
(* Files                                                                    *)

\* Mutant of Open: only the first open is counted.
OpenUncounted(p, m) ==
  /\ file[p] = NONE
  /\ \E d \in deviceList :
       /\ devt[d] = m
       /\ buffer' = buffer \cup {d}
       /\ users' = [users EXCEPT ![d] = IF d \in buffer THEN @ ELSE 1]
       /\ file' = [file EXCEPT ![p] = d]
  /\ UNCHANGED <<live, spi, devt, moduleVars, devVars, opVars>>

\* spidev_open of the file with minor m
Open(p, m) ==
  /\ file[p] = NONE
  /\ \E d \in deviceList :
       /\ devt[d] = m
       /\ buffer' = buffer \cup {d}
       /\ users' = [users EXCEPT ![d] = @ + 1]
       /\ file' = [file EXCEPT ![p] = d]
  /\ UNCHANGED <<live, spi, devt, moduleVars, devVars, opVars>>

\* Mutant of FreedByRelease: the data is kept.
KeptByRelease(d) == FALSE

\* "... after we unbound from the underlying device?"
FreedByRelease(d) == users[d] = 1 /\ spi[d] = NONE

\* spidev_release, of a file with no operation going on
Release(p) ==
  LET d == file[p] IN
  /\ d # NONE /\ pc[p] = "out"
  /\ "close" \in Env \/ users[d] > 1 \/ \A s \in Devs : removing[s] # d
  /\ users' = [users EXCEPT ![d] = @ - 1]
  /\ buffer' = IF users[d] = 1 THEN buffer \ {d} ELSE buffer
  /\ live' = IF FreedByRelease(d) THEN live \ {d} ELSE live
  /\ file' = [file EXCEPT ![p] = NONE]
  /\ UNCHANGED <<spi, devt, moduleVars, devVars, opVars>>

-----------------------------------------------------------------------------
(* Operations of process p on its file                                      *)

At(p, l)   == file[p] # NONE /\ pc[p] = l
Goto(p, l) == pc' = [pc EXCEPT ![p] = l]

outer == <<dataVars, moduleVars, devVars, file>>

MayLock(p) == bufLock[file[p]] = NONE

\* spidev_read and spidev_write: the lock, then spidev_sync
ReadWrite(p) ==
  /\ At(p, "out")
  /\ MayLock(p)
  /\ bufLock' = [bufLock EXCEPT ![file[p]] = p]
  /\ Goto(p, "sync")
  /\ UNCHANGED <<outer, got, save, flight, setting>>

\* spidev_ioctl takes a reference to the device under spi_lock; without a
\* device it returns -ESHUTDOWN.
Ioctl(p) ==
  /\ At(p, "out")
  /\ spi[file[p]] # NONE
  /\ got' = [got EXCEPT ![p] = spi[file[p]]]
  /\ Goto(p, "ioctl")
  /\ UNCHANGED <<outer, bufLock, save, flight, setting>>

IoctlLock(p) ==
  /\ At(p, "ioctl")
  /\ MayLock(p)
  /\ bufLock' = [bufLock EXCEPT ![file[p]] = p]
  /\ Goto(p, "cmd")
  /\ UNCHANGED <<outer, got, save, flight, setting>>

\* A command that reads a setting, or that is refused for its arguments, does
\* its work at once.
IoctlRead(p) ==
  /\ At(p, "cmd")
  /\ Goto(p, "unlock")
  /\ UNCHANGED <<outer, bufLock, got, save, flight, setting>>

\* SPI_IOC_MESSAGE: spidev_message gathers the transfers, as the user has them
\* or not at all, and goes on to spidev_sync.
IoctlMessage(p) ==
  /\ At(p, "cmd")
  /\ Goto(p, "sync") \/ Goto(p, "unlock")
  /\ UNCHANGED <<outer, bufLock, got, save, flight, setting>>

\* SPI_IOC_WR_xxx puts its value in place, keeping the old one ...
IoctlWrite(p) ==
  /\ At(p, "cmd")
  /\ save' = [save EXCEPT ![p] = setting[got[p]]]
  /\ \E v \in Settings : setting' = [setting EXCEPT ![got[p]] = v]
  /\ Goto(p, "setup")
  /\ UNCHANGED <<outer, bufLock, got, flight>>

\* ... has spi_setup look at it ...
IoctlSetup(p) ==
  /\ At(p, "setup")
  /\ Goto(p, IF setting[got[p]] \in Refused THEN "restore" ELSE "unlock")
  /\ UNCHANGED <<outer, bufLock, got, save, flight, setting>>

\* Mutant of Restored: the old value is not kept.
NotRestored(p) == setting[got[p]]

Restored(p) == save[p]

\* ... and puts the old one back if it is refused.
IoctlRestore(p) ==
  /\ At(p, "restore")
  /\ setting' = [setting EXCEPT ![got[p]] = Restored(p)]
  /\ Goto(p, "unlock")
  /\ UNCHANGED <<outer, bufLock, got, save, flight>>

\* spidev_sync up to its wait: -ESHUTDOWN without a device, an error of
\* spi_async, or a message queued.
Sync(p) ==
  /\ At(p, "sync")
  /\ \/ /\ Goto(p, "unlock") /\ UNCHANGED flight
     \/ /\ spi[file[p]] # NONE
        /\ flight' = [flight EXCEPT ![p] = spi[file[p]]]
        /\ Goto(p, "wait")
  /\ UNCHANGED <<outer, bufLock, got, save, setting>>

\* The bus driver calls spidev_complete.
Complete(p) ==
  /\ flight[p] # NONE
  /\ flight' = [flight EXCEPT ![p] = NONE]
  /\ UNCHANGED <<outer, bufLock, pc, got, save, setting>>

Woken(p) ==
  /\ At(p, "wait") /\ flight[p] = NONE
  /\ Goto(p, "unlock")
  /\ UNCHANGED <<outer, bufLock, got, save, flight, setting>>

\* Mutant of Unlocked: buf_lock is kept.
KeptLocked(p) == bufLock

Unlocked(p) == [bufLock EXCEPT ![file[p]] = NONE]

\* The operation ends; what was read is copied out of the buffer before.
Unlock(p) ==
  /\ At(p, "unlock")
  /\ bufLock' = Unlocked(p)
  /\ got' = [got EXCEPT ![p] = NONE]
  /\ Goto(p, "out")
  /\ UNCHANGED <<outer, save, flight, setting>>

\* A process in the middle of an operation.
Proceed(p) ==
  \/ IoctlLock(p) \/ IoctlRead(p) \/ IoctlMessage(p) \/ IoctlWrite(p)
  \/ IoctlSetup(p) \/ IoctlRestore(p) \/ Sync(p) \/ Woken(p) \/ Unlock(p)

Next ==
  \/ \E s \in Devs : Probe(s) \/ RemoveUnbind(s) \/ RemoveUnlist(s)
  \/ \E p \in Procs :
       \/ \E m \in Minors : Open(p, m)
       \/ Release(p) \/ ReadWrite(p) \/ Ioctl(p) \/ Complete(p) \/ Proceed(p)

Spec == Init /\ [][Next]_vars

\* Processes run, a mutex is given to everyone who waits for it in the end,
\* and the bus driver completes every message it has accepted.
FairSpec == Spec /\ \A p \in Procs : SF_vars(Proceed(p)) /\ WF_vars(Complete(p))

-----------------------------------------------------------------------------
(* Properties                                                               *)

\* What a file, the list of devices, a device or a removal refers to has not
\* been freed: existing files can be used, and closed, after the removal.
UsesAllocated ==
  /\ deviceList \subseteq live
  /\ \A p \in Procs : file[p] # NONE => file[p] \in live
  /\ \A s \in Devs : {drvdata[s], removing[s]} \subseteq live \cup {NONE}

\* Memory that is not freed belongs to a device on the list or an open file.
NoLeak == \A d \in live : d \in deviceList \/ \E p \in Procs : file[p] = d

\* The buffer is there exactly while the device is open, and users counts the
\* open files.
BufferWhileOpen ==
  \A d \in live : /\ users[d] = Cardinality({p \in Procs : file[p] = d})
                 /\ d \in buffer <=> users[d] > 0

Changing(p) == pc[p] \in {"setup", "restore"}

\* A device nobody is setting up has a setting that spi_setup accepts.
SettingsAccepted ==
  \A s \in Devs : setting[s] \in Refused => \E p \in Procs : Changing(p) /\ got[p] = s

\* Every operation comes to an end, whether its device is removed or not.
OperationsEnd == \A p \in Procs : pc[p] # "out" ~> pc[p] = "out"

=============================================================================
