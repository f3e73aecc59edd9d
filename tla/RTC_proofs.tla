------------------------------ MODULE RTC_proofs ------------------------------
(***************************************************************************)
(* Without hazards, that is, when the users of the driver keep apart what  *)
(* the driver does not, clock, square wave and watchdog do what they were  *)
(* told last: for any number of processes, any dates, frequencies and      *)
(* margins, whichever of the other transfers fail.                         *)
(***************************************************************************)
EXTENDS RTC, TLAPS

USE DEF chipVars, drvVars, procVars, history, vars

-----------------------------------------------------------------------------
(* The inductive invariant                                                  *)

\* Processes use the chip only while the driver is bound, and the watchdog is
\* opened only then.
BoundFirst == probe # "bound" => ~isOpen /\ \A p \in Procs : at[p] = "idle"

\* Which processes never meet.
KeptApart ==
  \A p, q \in Procs :
    /\ at[p] \in Storing /\ at[q] \in Storing => p = q
    /\ at[p] \in Watchdog /\ at[q] \in Watchdog => p = q
    /\ Has("SQ_ALT") => at[p] \notin Storing \/ at[q] \notin Setting

\* The clock shows the date that was set, as far as it has advanced.
Shows(date) ==
  clock = [day |-> date.day, time |-> date.time, wday |-> Weekday(date.day)]

\* What m41t80_probe has dealt with stays so; a date that was set successfully
\* is in the chip, and no stop bit or weekday is on its way back.
ClockInv ==
  /\ probe \in {"st", "stWrite", "sysfs", "bound"} => ~ht
  /\ probe \in {"sysfs", "bound"} => ~st
  /\ probe = "stWrite" => st
  /\ expected # NONE => ~st /\ Shows(expected)
  /\ \A p \in Procs :
       /\ at[p] = "setWrite" => ~buf[p].st
       /\ Has("SQ_ALT") /\ at[p] \in {"sqwOff", "sqwWrite"} => buf[p].wday = clock.wday

\* A store between its first and its last write has the square wave switched
\* off; its frequency is in the chip before it is switched on.
WaveInv ==
  /\ sqwe => rs # 0
  /\ \A p \in Procs :
       /\ at[p] \in {"sqwWrite", "sqwOn"} => ~sqwe
       /\ at[p] = "sqwOn" => rs = Code(arg[p]) /\ arg[p] # 0
       /\ Has("SQ_ALT") /\ at[p] = "setWrite" => buf[p].rs = rs
  /\ (\A p \in Procs : at[p] \notin {"sqwWrite", "sqwOn"}) /\ wave # NONE =>
       Shown(rs) = wave /\ (sqwe <=> wave # 0)

\* A ping on its way has the margin of the driver; the system goes down with
\* the watchdog off, or about to be.
DogInv ==
  /\ margin \in 1 .. 124
  /\ \A p \in Procs :
       at[p] \in {"ping", "offOn"} => arg[p] = Ping(Features[chip], margin) /\ ~down
  /\ told = "off" => wd = Off
  /\ told = "on" /\ (\A p \in Procs : at[p] \notin Watchdog) => wd = Ping(Features[chip], margin)
  /\ told = "on" /\ down => \E p \in Procs : at[p] = "off"

IInv == TypeOK /\ BoundFirst /\ KeptApart /\ ClockInv /\ WaveInv /\ DogInv

-----------------------------------------------------------------------------
(* Types                                                                    *)

Places == {"idle"} \cup Setting \cup Storing \cup Watchdog
Probes == {"none", "ht", "htWrite", "st", "stWrite", "sysfs", "bound", "failed"}

\* What the processes do, of the right type.
ProcsOK ==
  /\ at \in [Procs -> Places]
  /\ arg = [p \in Procs |-> arg[p]]
  /\ \A p \in Procs :
       /\ at[p] \in Setting          => arg[p] \in Dates
       /\ at[p] \in Storing          => arg[p] \in Freqs
       /\ at[p] \in {"ping", "offOn"} => arg[p] \in WdRegs

\* What beginning an operation does to the two functions.
LEMMA BeginsOK ==
  ASSUME ProcsOK, NEW p \in Procs, NEW step \in Places, NEW a, Begins(p, step, a),
         step \in Setting => a \in Dates, step \in Storing => a \in Freqs,
         step \in {"ping", "offOn"} => a \in WdRegs
  PROVE  /\ ProcsOK'
         /\ at[p] = "idle" /\ at'[p] = step /\ arg'[p] = a
         /\ \A q \in Procs : q # p => at'[q] = at[q] /\ arg'[q] = arg[q]
  BY DEF ProcsOK, Begins, Places

\* What going on with it does.
LEMMA MovesOK ==
  ASSUME ProcsOK, NEW p \in Procs, NEW from, NEW to \in Places, Moves(p, from, to),
         to \in Setting => arg[p] \in Dates, to \in Storing => arg[p] \in Freqs,
         to \in {"ping", "offOn"} => arg[p] \in WdRegs
  PROVE  /\ ProcsOK'
         /\ at[p] = from /\ at'[p] = to /\ (to # "idle" => arg'[p] = arg[p])
         /\ \A q \in Procs : q # p => at'[q] = at[q] /\ arg'[q] = arg[q]
  BY DEF ProcsOK, Moves, Places, Setting, Storing, Watchdog

\* The watchdog register holds whatever margin is given.
LEMMA PingOK == ASSUME NEW m \in Int, NEW features PROVE Ping(features, m) \in WdRegs
  BY DEF Ping, Coarse, WdRegs

\* The initial state has its types.
LEMMA TypeInit == Init => TypeOK
<1> SUFFICES ASSUME Init PROVE TypeOK
  OBVIOUS
<1>1. clock \in Clocks /\ wd \in WdRegs
  <2>1. \A m \in Margins \cap 1 .. 124 : Ping(Features[chip], m) \in WdRegs
    BY PingOK
  <2>2. Off \in WdRegs
    BY DEF Off, WdRegs
  <2>3. wd \in WdRegs
    BY <2>1, <2>2 DEF Init
  <2>4. clock = [day |-> 0, wday |-> 0, time |-> 0]
    BY DEF Init
  <2> QED
    BY <2>3, <2>4, RTCAssumption DEF Clocks
<1>2. buf \in [Procs -> [st : BOOLEAN, rs : 0 .. 15, wday : 0 .. 6]]
  BY DEF Init
<1>3. probeSec \in 0 .. Noon
  BY RTCAssumption DEF Init
<1>4. /\ at \in [Procs -> {"idle"} \cup Setting \cup Storing \cup Watchdog]
      /\ arg = [p \in Procs |-> arg[p]]
      /\ \A p \in Procs : at[p] \notin Setting \cup Storing \cup {"ping", "offOn"}
  BY DEF Init, Setting, Storing
<1>5. probe \in {"none", "ht", "htWrite", "st", "stWrite", "sysfs", "bound", "failed"}
      /\ rs \in 0 .. 15 /\ margin \in Int
  BY FreqAssumption DEF Init
<1> QED
  BY <1>1, <1>2, <1>3, <1>4, <1>5 DEF Init, TypeOK

\* Every step keeps them.
LEMMA TypeNext == TypeOK /\ [Next]_vars => TypeOK'
<1> SUFFICES ASSUME TypeOK, [Next]_vars PROVE TypeOK'
  OBVIOUS
<1> USE DEF TypeOK
<1>p. ProcsOK
  BY DEF ProcsOK, Places
<1>1. CASE ProbeNext
  <2>1. UNCHANGED <<chip, rs, sqwe, wd, margin, mutex, isOpen, down, procVars, history>>
    BY <1>1 DEF ProbeNext, Probe, ProbeReadFails, ProbeHt, ProbeHtWrite, ProbeSt,
                ProbeStWrite, ProbeEnd, Remove
  <2>2. probe' \in Probes
    BY <1>1 DEF ProbeNext, Probe, ProbeReadFails, ProbeHt, ProbeHtWrite, ProbeSt,
                ProbeStWrite, ProbeEnd, Remove, Goes, Probes
  <2>3. clock' \in Clocks /\ st' \in BOOLEAN /\ ht' \in BOOLEAN
    BY <1>1 DEF ProbeNext, Probe, ProbeReadFails, ProbeHt, ProbeHtWrite, ProbeSt,
                ProbeStWrite, ProbeEnd, Remove, SecWritten, Clocks
  <2>4. probeSec' \in 0 .. Noon /\ group' \in BOOLEAN
    BY <1>1 DEF ProbeNext, Probe, ProbeReadFails, ProbeHt, ProbeHtWrite, ProbeSt,
                ProbeStWrite, ProbeEnd, Remove, Clocks
  <2> QED
    BY <2>1, <2>2, <2>3, <2>4 DEF Probes
<1>2. CASE Tick
  <2>1. ASSUME NEW d, d \in Clocks \/ d \in [day : 0 .. LastDay, time : 0 .. Noon],
               d.time = Noon => d.day < LastDay
        PROVE  After(d).day \in 0 .. LastDay /\ After(d).time \in 0 .. Noon
               /\ After(d) = [day |-> After(d).day, time |-> After(d).time]
    <3>1. d.day \in 0 .. LastDay /\ d.time \in 0 .. Noon
      BY <2>1 DEF Clocks
    <3>2. CASE d.time < Noon
      BY <3>1, <3>2, RTCAssumption DEF After
    <3>3. CASE ~(d.time < Noon)
      <4>1. d.day + 1 \in 0 .. LastDay /\ 0 \in 0 .. Noon
        BY <2>1, <3>1, <3>3, RTCAssumption
      <4> QED
        BY <3>3, <4>1 DEF After
    <3> QED
      BY <3>2, <3>3
  <2>2. clock' \in Clocks
    <3>1. After(clock).day \in 0 .. LastDay /\ After(clock).time \in 0 .. Noon
      BY <1>2, <2>1 DEF Tick
    <3>2. (IF Midnight THEN (clock.wday + 1) % 7 ELSE clock.wday) \in 0 .. 6
      BY DEF Clocks
    <3> QED
      BY <1>2, <3>1, <3>2 DEF Tick, Clocks
  <2>3. expected' \in [day : 0 .. LastDay, time : 0 .. Noon] \cup {NONE}
    BY <1>2, <2>1 DEF Tick
  <2> QED
    BY <1>2, <2>2, <2>3 DEF Tick
<1>3. CASE OpenWdt \/ ReleaseWdt
  <2>1. UNCHANGED <<chip, chipVars, probe, probeSec, group, margin, mutex, down, procVars,
                    history>>
    BY <1>3 DEF OpenWdt, ReleaseWdt
  <2>2. isOpen' \in BOOLEAN
    BY <1>3 DEF OpenWdt, ReleaseWdt
  <2> QED
    BY <2>1, <2>2
<1>4. ASSUME NEW p \in Procs, DateNext(p) PROVE TypeOK'
  <2>1. CASE SetTime(p)
    <3>1. ProcsOK' /\ UNCHANGED <<chip, chipVars, drvVars, buf, history>>
      <4>1. PICK d \in Dates : Begins(p, "setRead", d)
        BY <2>1 DEF SetTime
      <4> QED
        BY <1>p, <4>1, <2>1, BeginsOK DEF SetTime, Places, Setting, Storing
    <3> QED
      BY <3>1 DEF ProcsOK, Places
  <2>2. CASE SetRead(p)
    <3>1. ProcsOK' /\ UNCHANGED <<chip, chipVars, drvVars, history>>
      <4>1. PICK to \in {"setWrite", "idle"} : Moves(p, "setRead", to)
        BY <2>2 DEF SetRead
      <4>2. arg[p] \in Dates
        BY <4>1 DEF Moves, Setting
      <4> QED
        BY <1>p, <2>2, <4>1, <4>2, MovesOK DEF SetRead, Places, Setting, Storing
    <3>2. buf' \in [Procs -> [st : BOOLEAN, rs : 0 .. 15, wday : 0 .. 6]]
      BY <2>2 DEF SetRead
    <3> QED
      BY <3>1, <3>2 DEF ProcsOK, Places
  <2>3. CASE SetWrite(p)
    <3>1. /\ ProcsOK' /\ at[p] = "setWrite"
          /\ UNCHANGED <<chip, ht, sqwe, wd, drvVars, buf, wave, told>>
      <4>1. Moves(p, "setWrite", "idle")
        BY <2>3 DEF SetWrite
      <4> QED
        BY <1>p, <2>3, <4>1, MovesOK DEF SetWrite, Places, Setting, Storing
    <3>2. arg[p] \in [day : 0 .. LastDay, time : 0 .. Noon]
      BY <3>1, RTCAssumption DEF Setting
    <3>3. expected' \in [day : 0 .. LastDay, time : 0 .. Noon] \cup {NONE}
      BY <2>3, <3>2 DEF SetWrite
    <3>4. PICK n \in 0 .. 3 : Written(p, n)
      BY <2>3 DEF SetWrite
    <3>5. Weekday(arg[p].day) \in 0 .. 6
      <4>1. arg[p].day \in Int
        BY <3>2
      <4> HIDE DEF TypeOK
      <4> QED
        BY <4>1 DEF Weekday
    <3>6. clock' \in Clocks /\ st' \in BOOLEAN /\ rs' \in 0 .. 15
      BY <3>2, <3>4, <3>5 DEF Written, Clocks
    <3> QED
      BY <3>1, <3>3, <3>6 DEF ProcsOK, Places
  <2> QED
    BY <1>4, <2>1, <2>2, <2>3 DEF DateNext
<1>5. ASSUME NEW p \in Procs, StoreNext(p) PROVE TypeOK'
  <2>1. ProcsOK' /\ UNCHANGED <<chip, st, ht, wd, drvVars, expected, told>>
    <3>1. CASE Store(p)
      <4>1. PICK f \in Freqs : Begins(p, "sqwAlmon", f)
        BY <3>1 DEF Store
      <4> QED
        BY <1>p, <4>1, <3>1, BeginsOK DEF Store, Places, Setting, Storing
    <3>2. CASE ~Store(p)
      <4>1. PICK from \in Storing, to \in {"idle", "sqwRead", "sqwOff", "sqwWrite", "sqwOn"} :
              Moves(p, from, to)
        BY <1>5, <3>2 DEF StoreNext, StoreReadFails, SqwAlmon, SqwRead, SqwOff, SqwWrite, SqwOn,
                          Storing
      <4>2. arg[p] \in Freqs
        BY <4>1 DEF Moves
      <4>3. ProcsOK'
        BY <1>p, <4>1, <4>2, MovesOK DEF Places, Setting, Storing
      <4> QED
        BY <1>5, <3>2, <4>3 DEF StoreNext, StoreReadFails, SqwAlmon, SqwRead, SqwOff, SqwWrite,
                                SqwOn
    <3> QED
      BY <3>1, <3>2
  <2>2. sqwe' \in BOOLEAN
    BY <1>5 DEF StoreNext, Store, StoreReadFails, SqwAlmon, SqwRead, SqwOff, SqwWrite, SqwOn
  <2>3. buf' \in [Procs -> [st : BOOLEAN, rs : 0 .. 15, wday : 0 .. 6]]
    <3>1. clock.wday \in 0 .. 6 /\ buf[p].wday \in 0 .. 6
      BY DEF Clocks
    <3>2. CASE SqwRead(p)
      BY <3>1, <3>2 DEF SqwRead
    <3> QED
      BY <1>5, <3>2 DEF StoreNext, Store, StoreReadFails, SqwAlmon, SqwOff, SqwWrite, SqwOn
  <2>4. wave' \in Freqs \cup {NONE} /\ rs' \in 0 .. 15 /\ clock' \in Clocks
    <3>1. CASE SqwWrite(p)
      <4>1. arg[p] \in Freqs
        BY <3>1 DEF SqwWrite, Moves, Storing
      <4> QED
        BY <3>1, <4>1, FreqAssumption DEF SqwWrite, RsWritten, Clocks
    <3>2. CASE SqwOn(p)
      <4>1. arg[p] \in Freqs
        BY <3>2 DEF SqwOn, Moves, Storing
      <4> QED
        BY <3>2, <4>1 DEF SqwOn
    <3>3. CASE SqwOff(p)
      BY <3>3 DEF SqwOff
    <3> QED
      BY <1>5, <3>1, <3>2, <3>3 DEF StoreNext, Store, StoreReadFails, SqwAlmon, SqwRead
  <2> QED
    BY <2>1, <2>2, <2>3, <2>4 DEF ProcsOK, Places
<1>6. ASSUME NEW p \in Procs, WatchdogNext(p) PROVE TypeOK'
  <2>1. UNCHANGED <<chip, clock, st, ht, rs, sqwe, probe, probeSec, group, isOpen, buf,
                    expected, wave>>
    BY <1>6 DEF WatchdogNext, WriteWdt, KeepAlive, SetTimeout, SetOptions, PingEnd, OffEnd,
                Shutdown
  <2>2. margin' \in Int /\ mutex' \in Procs \cup {NONE}
    BY <1>6, RTCAssumption DEF WatchdogNext, WriteWdt, KeepAlive, SetTimeout, SetOptions,
                PingEnd, OffEnd, Shutdown, Locks, Unlocks
  <2>3. down' \in BOOLEAN /\ told' \in {"unknown", "on", "off"}
    BY <1>6 DEF WatchdogNext, WriteWdt, KeepAlive, SetTimeout, SetOptions, PingEnd, OffEnd,
                Shutdown, Reaches
  <2>4. Ping(Features[chip], margin) \in WdRegs /\ \A m \in Margins : Ping(Features[chip], m) \in WdRegs
    BY PingOK, RTCAssumption
  <2>5. ProcsOK' /\ wd' \in WdRegs
    <3>1. CASE WriteWdt(p) \/ KeepAlive(p)
      BY <1>p, <3>1, <2>4, BeginsOK DEF WriteWdt, KeepAlive, Places, Setting, Storing, Watchdog
    <3>2. CASE SetTimeout(p)
      BY <1>p, <3>2, <2>4, BeginsOK DEF SetTimeout, Places, Setting, Storing, Watchdog
    <3>3. CASE SetOptions(p) \/ Shutdown(p)
      BY <1>p, <3>3, <2>4, BeginsOK DEF SetOptions, Shutdown, Places, Setting, Storing, Watchdog
    <3>4. CASE PingEnd(p)
      BY <1>p, <3>4, MovesOK DEF PingEnd, Reaches, Places, Setting, Storing, Watchdog, ProcsOK
    <3>5. CASE OffEnd(p)
      <4>1. Off \in WdRegs
        BY DEF Off, WdRegs
      <4>2. wd' \in WdRegs
        BY <3>5, <4>1 DEF OffEnd, Reaches
      <4> QED
        <5>1. CASE Moves(p, "off", "idle")
          BY <1>p, <4>2, <5>1, MovesOK DEF Places, Setting, Storing
        <5>2. CASE Moves(p, "offOn", "ping")
          <6>1. arg[p] \in WdRegs
            BY <5>2 DEF Moves
          <6> QED
            BY <1>p, <4>2, <5>2, <6>1, MovesOK DEF Places, Setting, Storing, Watchdog
        <5> QED
          BY <3>5, <5>1, <5>2 DEF OffEnd
    <3> QED
      BY <1>6, <3>1, <3>2, <3>3, <3>4, <3>5 DEF WatchdogNext
  <2> QED
    BY <2>1, <2>2, <2>3, <2>5 DEF ProcsOK, Places
<1>7. CASE UNCHANGED vars
  BY <1>7
<1> QED
  BY <1>1, <1>2, <1>3, <1>4, <1>5, <1>6, <1>7 DEF Next

-----------------------------------------------------------------------------
(* Who meets whom                                                           *)

\* A set of places is empty when nobody is there.
LEMMA UnderNone == \A S : Under(S) = {} <=> \A p \in Procs : at[p] \notin S
  BY DEF Under

\* Only one process moves, within its operation or to its beginning or end.
Step(p, from, to) ==
  /\ at[p] = from /\ at'[p] = to
  /\ \A q \in Procs : q # p => at'[q] = at[q] /\ arg'[q] = arg[q]

\* The chip stays the same, and so does what is said of its features.
LEMMA SameChip == [Next]_vars => chip' = chip
<1> SUFFICES ASSUME Next PROVE chip' = chip
  OBVIOUS
<1>1. CASE ProbeNext \/ Tick \/ OpenWdt \/ ReleaseWdt
  BY <1>1 DEF ProbeNext, Probe, ProbeReadFails, ProbeHt, ProbeHtWrite, ProbeSt, ProbeStWrite,
              ProbeEnd, Remove, Tick, OpenWdt, ReleaseWdt
<1>2. ASSUME NEW p \in Procs, DateNext(p) \/ StoreNext(p) PROVE chip' = chip
  BY <1>2 DEF DateNext, SetTime, SetRead, SetWrite, StoreNext, Store, StoreReadFails, SqwAlmon,
              SqwRead, SqwOff, SqwWrite, SqwOn
<1>3. ASSUME NEW p \in Procs, WatchdogNext(p) PROVE chip' = chip
  BY <1>3 DEF WatchdogNext, WriteWdt, KeepAlive, SetTimeout, SetOptions, PingEnd, OffEnd,
              Shutdown
<1> QED
  BY <1>1, <1>2, <1>3 DEF Next

\* Steps of the probe, of time, and of opening and closing move no process.
LEMMA OthersStay ==
  ASSUME ProbeNext \/ Tick \/ OpenWdt \/ ReleaseWdt
  PROVE  UNCHANGED <<at, arg, buf>>
  BY DEF ProbeNext, Probe, ProbeReadFails, ProbeHt, ProbeHtWrite, ProbeSt, ProbeStWrite,
         ProbeEnd, Remove, Tick, OpenWdt, ReleaseWdt

\* Every other step moves one process: into an operation when the driver is
\* bound and nobody is in its way, or on within its operation.
LEMMA OneMoves ==
  ASSUME TypeOK, BoundFirst, Env = {}, NEW p \in Procs,
         DateNext(p) \/ StoreNext(p) \/ WatchdogNext(p)
  PROVE  /\ probe' = probe /\ isOpen' = isOpen
         /\ \E from, to \in Places :
              /\ Step(p, from, to)
              /\ \/ \E S \in {Setting, Storing, Watchdog} : from \in S /\ to \in S \cup {"idle"}
                 \/ /\ from = "idle" /\ probe = "bound"
                    /\ \/ to \in Setting /\ Apart(Storing)
                       \/ to \in Storing /\ Apart(Setting) /\ \A q \in Procs : at[q] \notin Storing
                       \/ to \in Watchdog /\ \A q \in Procs : at[q] \notin Watchdog
<1> USE UnderNone
<1>p. ProcsOK
  BY DEF TypeOK, ProcsOK, Places
<1>m. ASSUME NEW from, NEW to \in Places, Moves(p, from, to) PROVE Step(p, from, to)
  BY <1>p, <1>m DEF ProcsOK, Moves, Step
<1>b. ASSUME NEW step \in Places, NEW a, Begins(p, step, a) PROVE Step(p, "idle", step)
  BY <1>p, <1>b DEF ProcsOK, Begins, Step
<1>1. CASE DateNext(p)
  <2>1. CASE SetTime(p)
    <3>1. PICK d \in Dates : Begins(p, "setRead", d)
      BY <2>1 DEF SetTime
    <3>2. Step(p, "idle", "setRead")
      BY <1>b, <3>1 DEF Places, Setting
    <3> QED
      BY <2>1, <3>2 DEF SetTime, Setting, Places
  <2>2. CASE SetRead(p) \/ SetWrite(p)
    <3>1. PICK from \in Setting, to \in {"setWrite", "idle"} : Moves(p, from, to)
      BY <2>2 DEF SetRead, SetWrite, Setting
    <3>2. Step(p, from, to)
      BY <1>m, <3>1 DEF Places, Setting
    <3> QED
      BY <2>2, <3>1, <3>2 DEF SetRead, SetWrite, Setting, Places
  <2> QED
    BY <1>1, <2>1, <2>2 DEF DateNext
<1>2. CASE StoreNext(p)
  <2>1. CASE Store(p)
    <3>1. PICK f \in Freqs : Begins(p, "sqwAlmon", f)
      BY <2>1 DEF Store
    <3>2. Step(p, "idle", "sqwAlmon")
      BY <1>b, <3>1 DEF Places, Storing
    <3> QED
      BY <2>1, <3>2 DEF Store, Storing, Places
  <2>2. CASE ~Store(p)
    <3>1. PICK from \in Storing, to \in {"idle", "sqwRead", "sqwOff", "sqwWrite", "sqwOn"} :
            Moves(p, from, to)
      BY <1>2, <2>2 DEF StoreNext, StoreReadFails, SqwAlmon, SqwRead, SqwOff, SqwWrite, SqwOn,
                        Storing
    <3>2. Step(p, from, to)
      BY <1>m, <3>1 DEF Places, Storing
    <3>3. probe' = probe /\ isOpen' = isOpen
      BY <1>2, <2>2 DEF StoreNext, StoreReadFails, SqwAlmon, SqwRead, SqwOff, SqwWrite, SqwOn
    <3> QED
      BY <3>1, <3>2, <3>3 DEF Storing, Places
  <2> QED
    BY <2>1, <2>2
<1>3. CASE WatchdogNext(p)
  <2>1. CASE WriteWdt(p) \/ KeepAlive(p) \/ SetTimeout(p) \/ SetOptions(p) \/ Shutdown(p)
    <3>1. PICK step \in Watchdog : \E a : Begins(p, step, a)
      BY <2>1 DEF WriteWdt, KeepAlive, SetTimeout, SetOptions, Shutdown, Watchdog
    <3>2. Step(p, "idle", step)
      BY <1>b, <3>1 DEF Places
    <3>3. probe = "bound" /\ \A q \in Procs : at[q] \notin Watchdog
      BY <2>1 DEF WriteWdt, KeepAlive, SetTimeout, SetOptions, Shutdown, Usable, BoundFirst
    <3>4. probe' = probe /\ isOpen' = isOpen
      BY <2>1 DEF WriteWdt, KeepAlive, SetTimeout, SetOptions, Shutdown
    <3> QED
      BY <3>1, <3>2, <3>3, <3>4 DEF Places
  <2>2. CASE PingEnd(p) \/ OffEnd(p)
    <3>1. PICK from \in Watchdog, to \in {"idle", "ping"} : Moves(p, from, to)
      BY <2>2 DEF PingEnd, OffEnd, Watchdog
    <3>2. Step(p, from, to)
      BY <1>m, <3>1 DEF Places, Watchdog
    <3>3. probe' = probe /\ isOpen' = isOpen
      BY <2>2 DEF PingEnd, OffEnd
    <3> QED
      BY <3>1, <3>2, <3>3 DEF Watchdog, Places
  <2> QED
    BY <1>3, <2>1, <2>2 DEF WatchdogNext
<1> QED
  BY <1>1, <1>2, <1>3


\* The driver is bound while it is used, and what is to be kept apart is.
LEMMA ApartNext ==
  ASSUME TypeOK, BoundFirst, KeptApart, Env = {}, [Next]_vars
  PROVE  BoundFirst' /\ KeptApart'
<1> USE UnderNone
<1>0. chip' = chip
  BY SameChip
<1>1. CASE ProbeNext \/ Tick \/ OpenWdt \/ ReleaseWdt
  <2>1. UNCHANGED <<at, arg, buf>>
    BY <1>1, OthersStay
  <2>2. KeptApart'
    BY <1>0, <2>1 DEF KeptApart, Has
  <2>3. BoundFirst'
    <3>1. CASE OpenWdt \/ ReleaseWdt \/ Tick
      BY <2>1, <3>1 DEF BoundFirst, OpenWdt, ReleaseWdt, Tick
    <3>2. CASE Remove
      <4>1. ~isOpen' /\ \A p \in Procs : at[p] \notin Setting \cup Storing \cup Watchdog
        BY <3>2 DEF Remove
      <4>2. at \in [Procs -> Places]
        BY DEF TypeOK, Places
      <4> QED
        BY <2>1, <4>1, <4>2 DEF BoundFirst, Places
    <3>3. CASE ProbeNext /\ ~Remove
      BY <2>1, <3>3 DEF BoundFirst, ProbeNext, Probe, ProbeReadFails, ProbeHt, ProbeHtWrite,
                        ProbeSt, ProbeStWrite, ProbeEnd, Goes
    <3> QED
      BY <1>1, <3>1, <3>2, <3>3
  <2> QED
    BY <2>2, <2>3
<1>2. ASSUME NEW p \in Procs, DateNext(p) \/ StoreNext(p) \/ WatchdogNext(p)
      PROVE  BoundFirst' /\ KeptApart'
  <2>1. probe' = probe /\ isOpen' = isOpen
    BY <1>2, OneMoves
  <2>2. PICK from, to \in Places :
          /\ Step(p, from, to)
          /\ \/ \E S \in {Setting, Storing, Watchdog} : from \in S /\ to \in S \cup {"idle"}
             \/ /\ from = "idle" /\ probe = "bound"
                /\ \/ to \in Setting /\ Apart(Storing)
                   \/ to \in Storing /\ Apart(Setting) /\ \A q \in Procs : at[q] \notin Storing
                   \/ to \in Watchdog /\ \A q \in Procs : at[q] \notin Watchdog
    BY <1>2, OneMoves
  <2>3. BoundFirst'
    BY <2>1, <2>2 DEF BoundFirst, Step, Setting, Storing, Watchdog
  <2>4. \A q \in Procs : q # p => at'[q] = at[q]
    BY <2>2 DEF Step
  <2>5. at[p] = from /\ at'[p] = to
    BY <2>2 DEF Step
  <2>6. /\ to \in Storing /\ from \notin Storing => \A q \in Procs : at[q] \notin Storing
        /\ to \in Watchdog /\ from \notin Watchdog => \A q \in Procs : at[q] \notin Watchdog
        /\ Has("SQ_ALT") /\ to \in Storing /\ from \notin Storing =>
             \A q \in Procs : at[q] \notin Setting
        /\ Has("SQ_ALT") /\ to \in Setting /\ from \notin Setting =>
             \A q \in Procs : at[q] \notin Storing
    BY <2>2 DEF Setting, Storing, Watchdog, Apart
  <2>7. Setting \cap Storing = {}
    BY DEF Setting, Storing
  <2>8. ASSUME NEW q \in Procs, NEW r \in Procs
        PROVE  /\ at'[q] \in Storing /\ at'[r] \in Storing => q = r
               /\ at'[q] \in Watchdog /\ at'[r] \in Watchdog => q = r
               /\ Has("SQ_ALT") => at'[q] \notin Storing \/ at'[r] \notin Setting
    BY <2>4, <2>5, <2>6, <2>7 DEF KeptApart
  <2> QED
    BY <1>0, <2>3, <2>8 DEF KeptApart, Has
<1>3. CASE UNCHANGED vars
  BY <1>3 DEF BoundFirst, KeptApart, Has
<1> QED
  BY <1>1, <1>2, <1>3 DEF Next

-----------------------------------------------------------------------------
(* The clock                                                                *)

\* The day after a weekday is the weekday of the day after.
LEMMA NextWeekday ==
  ASSUME NEW day \in Nat PROVE (Weekday(day) + 1) % 7 = Weekday(day + 1)
  BY DEF Weekday

\* Who uses the chip has found the driver bound.
LEMMA UsersBound ==
  ASSUME BoundFirst, NEW p \in Procs, at[p] # "idle" PROVE probe = "bound"
  BY DEF BoundFirst

\* What the probe has set right stays right, and the clock shows the date.
LEMMA ClockNext ==
  ASSUME TypeOK, BoundFirst, KeptApart, ClockInv, Env = {}, [Next]_vars
  PROVE  ClockInv'
<1> USE UnderNone
<1>0. chip' = chip
  BY SameChip
<1>1. CASE ProbeNext
  <2>1. UNCHANGED <<at, arg, buf, expected>>
    BY <1>1 DEF ProbeNext, Probe, ProbeReadFails, ProbeHt, ProbeHtWrite, ProbeSt,
                ProbeStWrite, ProbeEnd, Remove
  <2>2. /\ probe' \in {"st", "stWrite", "sysfs", "bound"} => ~ht'
        /\ probe' \in {"sysfs", "bound"} => ~st'
        /\ probe' = "stWrite" => st'
    <3>1. CASE ProbeHt
      BY <3>1 DEF ClockInv, ProbeHt, Goes
    <3>2. CASE ProbeHtWrite
      BY <3>2 DEF ClockInv, ProbeHtWrite, Goes
    <3>3. CASE ProbeSt
      BY <3>3 DEF ClockInv, ProbeSt, Goes
    <3>4. CASE ProbeStWrite
      BY <3>4 DEF ClockInv, ProbeStWrite, Goes, SecWritten
    <3>5. CASE Probe \/ ProbeReadFails \/ ProbeEnd \/ Remove
      BY <3>5 DEF ClockInv, Probe, ProbeReadFails, ProbeEnd, Remove, Goes
    <3> QED
      BY <1>1, <3>1, <3>2, <3>3, <3>4, <3>5 DEF ProbeNext
  <2>3. UNCHANGED <<clock, st>> \/ probe = "stWrite"
    BY <1>1 DEF ProbeNext, Probe, ProbeReadFails, ProbeHt, ProbeHtWrite, ProbeSt,
                ProbeStWrite, ProbeEnd, Remove, Goes
  <2>4. expected' # NONE => ~st' /\ Shows(expected)'
    BY <2>1, <2>3 DEF ClockInv, Shows
  <2>5. \A p \in Procs : /\ at'[p] = "setWrite" => ~buf'[p].st
                         /\ Has("SQ_ALT")' /\ at'[p] \in {"sqwOff", "sqwWrite"} =>
                              buf'[p].wday = clock'.wday
    BY <1>0, <2>1, <2>3 DEF ClockInv, BoundFirst, Has
  <2> QED
    BY <2>2, <2>4, <2>5 DEF ClockInv
<1>2. CASE Tick
  <2>1. UNCHANGED <<at, arg, buf, probe, st, ht>>
    BY <1>2 DEF Tick
  <2>2. ASSUME expected' # NONE PROVE ~st' /\ Shows(expected)'
    <3>1. /\ expected # NONE /\ expected' = After(expected)
          /\ ~st /\ Shows(expected)
      BY <1>2, <2>2 DEF Tick, ClockInv
    <3>2. /\ clock.day = expected.day /\ clock.time = expected.time
          /\ clock.wday = Weekday(expected.day)
      BY <3>1 DEF Shows
    <3>3. expected.day \in Nat /\ expected.time \in 0 .. Noon
      BY <3>1 DEF TypeOK
    <3>4. After(clock).day = After(expected).day /\ After(clock).time = After(expected).time
      BY <3>2 DEF After
    <3>5. (IF Midnight THEN (clock.wday + 1) % 7 ELSE clock.wday) = Weekday(After(expected).day)
      <4>1. CASE Midnight
        <5>1. After(expected).day = expected.day + 1
          BY <4>1, <3>2, <3>3, RTCAssumption DEF Midnight, After
        <5> QED
          BY <4>1, <5>1, <3>2, <3>3, NextWeekday
      <4>2. CASE ~Midnight
        <5>1. After(expected).day = expected.day
          BY <4>2, <3>2, <3>3, RTCAssumption DEF Midnight, After
        <5> QED
          BY <4>2, <5>1, <3>2
      <4> QED
        BY <4>1, <4>2
    <3>6. clock' = [day  |-> After(clock).day, time |-> After(clock).time,
                    wday |-> IF Midnight THEN (clock.wday + 1) % 7 ELSE clock.wday]
      BY <1>2, <3>1 DEF Tick
    <3> QED
      BY <2>1, <3>1, <3>4, <3>5, <3>6 DEF Shows
  <2>3. ASSUME NEW p \in Procs, Has("SQ_ALT"), at[p] \in {"sqwOff", "sqwWrite"}
        PROVE  clock'.wday = clock.wday
    <3>1. ~Midnight
      BY <1>2, <2>3 DEF Tick, Storing
    <3> QED
      BY <1>2, <3>1 DEF Tick
  <2> QED
    BY <1>0, <2>1, <2>2, <2>3 DEF ClockInv, Has
<1>3. CASE OpenWdt \/ ReleaseWdt
  <2>1. UNCHANGED <<at, arg, buf, probe, st, ht, clock, expected>>
    BY <1>3 DEF OpenWdt, ReleaseWdt
  <2> QED
    BY <1>0, <2>1 DEF ClockInv, Has, Shows
<1>4. ASSUME NEW p \in Procs, DateNext(p) PROVE ClockInv'
  <2>p. ProcsOK
    BY DEF TypeOK, ProcsOK, Places
  <2>1. CASE SetTime(p)
    <3>1. PICK d \in Dates : Begins(p, "setRead", d)
      BY <2>1 DEF SetTime
    <3>2. at'[p] = "setRead" /\ \A q \in Procs : q # p => at'[q] = at[q]
      BY <2>p, <3>1 DEF Begins, ProcsOK
    <3>3. UNCHANGED <<buf, probe, st, ht, clock, expected>>
      BY <2>1 DEF SetTime
    <3> QED
      BY <1>0, <3>2, <3>3 DEF ClockInv, Has, Shows
  <2>2. CASE SetRead(p)
    <3>1. PICK to \in {"setWrite", "idle"} : Moves(p, "setRead", to)
      BY <2>2 DEF SetRead
    <3>2. at[p] = "setRead" /\ at'[p] = to /\ \A q \in Procs : q # p => at'[q] = at[q]
      BY <2>p, <3>1 DEF Moves, ProcsOK
    <3>3. UNCHANGED <<probe, st, ht, clock, expected>>
      BY <2>2 DEF SetRead
    <3>4. ~st
      BY <3>2, UsersBound DEF ClockInv
    <3>5. \A q \in Procs : q # p => buf'[q] = buf[q]
      BY <2>2 DEF SetRead, TypeOK
    <3>6. at'[p] = "setWrite" => ~buf'[p].st
      BY <2>2, <2>p, <3>4 DEF SetRead, Moves, TypeOK, ProcsOK
    <3>7. ASSUME NEW q \in Procs
          PROVE  /\ at'[q] = "setWrite" => ~buf'[q].st
                 /\ Has("SQ_ALT") /\ at'[q] \in {"sqwOff", "sqwWrite"} =>
                      buf'[q].wday = clock.wday
      BY <3>2, <3>5, <3>6 DEF ClockInv
    <3> QED
      BY <1>0, <3>3, <3>7 DEF ClockInv, Has, Shows
  <2>3. CASE SetWrite(p)
    <3>1. Moves(p, "setWrite", "idle")
      BY <2>3 DEF SetWrite
    <3>2. at[p] = "setWrite" /\ at'[p] = "idle" /\ \A q \in Procs : q # p => at'[q] = at[q]
      BY <2>p, <3>1 DEF Moves, ProcsOK
    <3>3. probe = "bound" /\ ~st /\ ~buf[p].st /\ UNCHANGED <<probe, ht, buf>>
      BY <2>3, <3>2, UsersBound DEF ClockInv, SetWrite
    <3>4. ~st'
      BY <2>3, <3>3 DEF SetWrite, Written
    <3>5. expected' # NONE => Shows(expected)'
      BY <2>3 DEF SetWrite, Written, Shows
    <3>6. \A q \in Procs : Has("SQ_ALT") => at'[q] \notin {"sqwOff", "sqwWrite"}
      BY <3>2 DEF KeptApart, Setting, Storing
    <3> QED
      BY <1>0, <3>2, <3>3, <3>4, <3>5, <3>6 DEF ClockInv, Has
  <2> QED
    BY <1>4, <2>1, <2>2, <2>3 DEF DateNext
<1>5. ASSUME NEW p \in Procs, StoreNext(p) PROVE ClockInv'
  <2>1. UNCHANGED <<probe, st, ht, expected>>
    BY <1>5 DEF StoreNext, Store, StoreReadFails, SqwAlmon, SqwRead, SqwOff, SqwWrite, SqwOn
  <2>2. clock' = clock
    <3>1. CASE SqwWrite(p)
      <4>1. Has("SQ_ALT") => buf[p].wday = clock.wday
        BY <3>1 DEF ClockInv, SqwWrite, Moves
      <4> QED
        BY <3>1, <4>1 DEF SqwWrite, RsWritten, TypeOK, Clocks
    <3> QED
      BY <1>5, <3>1 DEF StoreNext, Store, StoreReadFails, SqwAlmon, SqwRead, SqwOff, SqwOn
  <2>3. \A q \in Procs : q # p => at'[q] = at[q]
    BY <1>5 DEF StoreNext, Store, StoreReadFails, SqwAlmon, SqwRead, SqwOff, SqwWrite, SqwOn,
                Begins, Moves, TypeOK
  <2>4. at'[p] \in {"idle"} \cup Storing /\ (at'[p] = "sqwWrite" => at[p] = "sqwOff")
    BY <1>5 DEF StoreNext, Store, StoreReadFails, SqwAlmon, SqwRead, SqwOff, SqwWrite, SqwOn,
                Begins, Moves, TypeOK, Storing
  <2>5. \A q \in Procs : buf'[q].st = buf[q].st /\ (q # p => buf'[q] = buf[q])
    <3>1. CASE SqwRead(p)
      BY <3>1 DEF SqwRead, TypeOK
    <3> QED
      BY <1>5, <3>1 DEF StoreNext, Store, StoreReadFails, SqwAlmon, SqwOff, SqwWrite, SqwOn
  <2>6. Has("SQ_ALT") /\ at'[p] \in {"sqwOff", "sqwWrite"} => buf'[p].wday = clock.wday
    <3>1. CASE SqwRead(p)
      BY <3>1 DEF SqwRead, TypeOK
    <3>2. CASE ~SqwRead(p)
      <4>1. buf' = buf
        BY <1>5, <3>2 DEF StoreNext, Store, StoreReadFails, SqwAlmon, SqwOff, SqwWrite, SqwOn
      <4>2. at'[p] # "sqwOff"
        BY <1>5, <3>2 DEF StoreNext, Store, StoreReadFails, SqwAlmon, SqwOff, SqwWrite, SqwOn,
                          Begins, Moves, TypeOK
      <4> QED
        BY <2>4, <4>1, <4>2 DEF ClockInv
    <3> QED
      BY <3>1, <3>2
  <2>7. ASSUME NEW q \in Procs
        PROVE  /\ at'[q] = "setWrite" => ~buf'[q].st
               /\ Has("SQ_ALT") /\ at'[q] \in {"sqwOff", "sqwWrite"} =>
                    buf'[q].wday = clock.wday
    BY <2>3, <2>4, <2>5, <2>6 DEF ClockInv, Storing
  <2> QED
    BY <1>0, <2>1, <2>2, <2>7 DEF ClockInv, Has, Shows
<1>6. ASSUME NEW p \in Procs, WatchdogNext(p) PROVE ClockInv'
  <2>1. UNCHANGED <<probe, st, ht, expected, clock, buf>>
    BY <1>6 DEF WatchdogNext, WriteWdt, KeepAlive, SetTimeout, SetOptions, PingEnd, OffEnd,
                Shutdown
  <2>2. /\ \A q \in Procs : q # p => at'[q] = at[q]
        /\ at'[p] \in {"idle"} \cup Watchdog
    BY <1>6 DEF WatchdogNext, WriteWdt, KeepAlive, SetTimeout, SetOptions, PingEnd, OffEnd,
                Shutdown, Begins, Moves, TypeOK, Watchdog
  <2>3. \A q \in Procs : at'[q] \in {"setWrite", "sqwOff", "sqwWrite"} => at'[q] = at[q]
    BY <2>2 DEF Watchdog
  <2> QED
    BY <1>0, <2>1, <2>3 DEF ClockInv, Has, Shows
<1>7. CASE UNCHANGED vars
  BY <1>7 DEF ClockInv, Has, Shows
<1> QED
  BY <1>1, <1>2, <1>3, <1>4, <1>5, <1>6, <1>7 DEF Next

-----------------------------------------------------------------------------
(* The square wave                                                          *)

\* What is stored, step by step, is what the square wave ends up with.
LEMMA WaveNext ==
  ASSUME TypeOK, BoundFirst, KeptApart, WaveInv, Env = {}, [Next]_vars
  PROVE  WaveInv' /\ (rs' # rs => ~sqwe)
<1> USE UnderNone
<1>0. chip' = chip
  BY SameChip
<1>1. CASE ProbeNext \/ Tick \/ OpenWdt \/ ReleaseWdt
  <2>1. UNCHANGED <<at, arg, buf>>
    BY <1>1, OthersStay
  <2>2. UNCHANGED <<rs, sqwe, wave>>
    BY <1>1 DEF ProbeNext, Probe, ProbeReadFails, ProbeHt, ProbeHtWrite, ProbeSt,
                ProbeStWrite, ProbeEnd, Remove, Tick, OpenWdt, ReleaseWdt
  <2> QED
    BY <1>0, <2>1, <2>2 DEF WaveInv, Has
<1>2. ASSUME NEW p \in Procs, DateNext(p) PROVE WaveInv' /\ rs' = rs
  <2>1. UNCHANGED <<sqwe, wave>>
    BY <1>2 DEF DateNext, SetTime, SetRead, SetWrite
  <2>2. /\ \A q \in Procs : q # p => at'[q] = at[q] /\ arg'[q] = arg[q]
        /\ at[p] \notin Storing /\ at'[p] \notin Storing
    <3>1. CASE SetTime(p)
      BY <3>1 DEF SetTime, Begins, TypeOK, Storing
    <3>2. CASE SetRead(p)
      BY <3>2 DEF SetRead, Moves, TypeOK, Storing
    <3>3. CASE SetWrite(p)
      BY <3>3 DEF SetWrite, Moves, TypeOK, Storing
    <3> QED
      BY <1>2, <3>1, <3>2, <3>3 DEF DateNext
  <2>3. rs' = rs
    <3>1. CASE SetWrite(p)
      <4>1. Has("SQ_ALT") => buf[p].rs = rs
        BY <3>1 DEF WaveInv, SetWrite, Moves
      <4> QED
        BY <3>1, <4>1 DEF SetWrite, Written
    <3> QED
      BY <1>2, <3>1 DEF DateNext, SetTime, SetRead
  <2>4. ASSUME NEW q \in Procs, Has("SQ_ALT"), at'[q] = "setWrite" PROVE buf'[q].rs = rs
    <3>1. CASE SetRead(p)
      <4>1. q = p => buf'[q].rs = rs
        BY <2>4, <3>1 DEF SetRead, Moves, TypeOK
      <4>2. q # p => buf'[q] = buf[q]
        BY <3>1 DEF SetRead, TypeOK
      <4> QED
        BY <2>2, <2>4, <4>1, <4>2 DEF WaveInv
    <3>2. CASE SetTime(p) \/ SetWrite(p)
      <4>1. at'[p] # "setWrite" /\ buf' = buf
        BY <3>2 DEF SetTime, SetWrite, Begins, Moves, TypeOK
      <4> QED
        BY <2>2, <2>4, <4>1 DEF WaveInv
    <3> QED
      BY <1>2, <3>1, <3>2 DEF DateNext
  <2> QED
    BY <1>0, <2>1, <2>2, <2>3, <2>4 DEF WaveInv, Has, Storing
<1>3. ASSUME NEW p \in Procs, StoreNext(p) PROVE WaveInv' /\ (rs' # rs => ~sqwe)
  <2>1. /\ \A q \in Procs : q # p => at'[q] = at[q] /\ arg'[q] = arg[q]
        /\ at'[p] \in {"idle"} \cup Storing
    <3>1. \A q \in Procs : q # p => at'[q] = at[q] /\ arg'[q] = arg[q]
      BY <1>3, OneMoves DEF Step
    <3>2. at'[p] \in {"idle"} \cup Storing
      BY <1>3 DEF StoreNext, Store, StoreReadFails, SqwAlmon, SqwRead, SqwOff, SqwWrite, SqwOn,
                  Begins, Moves, TypeOK, Storing
    <3> QED
      BY <3>1, <3>2
  <2>2. \A q \in Procs : q # p => at'[q] \notin Storing
    BY <1>3, <2>1 DEF KeptApart, StoreNext, Store, StoreReadFails, SqwAlmon, SqwRead, SqwOff,
                      SqwWrite, SqwOn, Moves, Storing
  <2>3. \A q \in Procs : buf'[q].rs = buf[q].rs
    <3>1. CASE SqwRead(p)
      BY <3>1 DEF SqwRead, TypeOK
    <3> QED
      BY <1>3, <3>1 DEF StoreNext, Store, StoreReadFails, SqwAlmon, SqwOff, SqwWrite, SqwOn
  <2>4. ASSUME NEW q \in Procs, Has("SQ_ALT"), at'[q] = "setWrite" PROVE buf'[q].rs = rs'
    <3>1. at[q] = "setWrite" /\ q # p
      BY <2>1, <2>4 DEF Storing
    <3>2. buf[q].rs = rs
      BY <2>4, <3>1 DEF WaveInv
    <3>3. rs' = rs
      <4>1. ~SqwWrite(p)
        BY <2>4, <3>1 DEF KeptApart, SqwWrite, Moves, Setting, Storing
      <4> QED
        BY <1>3, <4>1 DEF StoreNext, Store, StoreReadFails, SqwAlmon, SqwRead, SqwOff, SqwOn
    <3> QED
      BY <2>3, <3>2, <3>3
  <2>5. ASSUME /\ sqwe' => rs' # 0
               /\ at'[p] \in {"sqwWrite", "sqwOn"} => ~sqwe'
               /\ at'[p] = "sqwOn" => rs' = Code(arg'[p]) /\ arg'[p] # 0
               /\ at'[p] \notin {"sqwWrite", "sqwOn"} /\ wave' # NONE =>
                    Shown(rs') = wave' /\ (sqwe' <=> wave' # 0)
        PROVE  WaveInv'
    <3>1. ASSUME NEW q \in Procs
          PROVE  /\ at'[q] \in {"sqwWrite", "sqwOn"} => ~sqwe'
                 /\ at'[q] = "sqwOn" => rs' = Code(arg'[q]) /\ arg'[q] # 0
                 /\ Has("SQ_ALT") /\ at'[q] = "setWrite" => buf'[q].rs = rs'
      BY <2>2, <2>4, <2>5 DEF Storing
    <3>2. (\A q \in Procs : at'[q] \notin {"sqwWrite", "sqwOn"}) => at'[p] \notin {"sqwWrite", "sqwOn"}
      OBVIOUS
    <3> QED
      BY <1>0, <2>5, <3>1, <3>2 DEF WaveInv, Has
  <2>6. rs' # rs => ~sqwe
    <3>1. CASE SqwWrite(p)
      BY <3>1 DEF WaveInv, SqwWrite, Moves
    <3> QED
      BY <1>3, <3>1 DEF StoreNext, Store, StoreReadFails, SqwAlmon, SqwRead, SqwOff, SqwOn
  <2>7. CASE Store(p) \/ StoreReadFails(p) \/ SqwAlmon(p) \/ SqwRead(p)
    <3>1. UNCHANGED <<rs, sqwe, wave>>
      BY <2>7 DEF Store, StoreReadFails, SqwAlmon, SqwRead
    <3>2. /\ at'[p] \notin {"sqwWrite", "sqwOn"} /\ at[p] \notin {"sqwWrite", "sqwOn"}
          /\ \A q \in Procs : q # p => at[q] \notin {"sqwWrite", "sqwOn"}
      BY <2>7, <2>1, <2>2 DEF Store, StoreReadFails, SqwAlmon, SqwRead, Begins, Moves, TypeOK,
                              Storing
    <3> QED
      BY <2>5, <3>1, <3>2 DEF WaveInv
  <2>8. CASE SqwOff(p)
    <3>1. sqwe' => rs' # 0
      BY <2>8 DEF WaveInv, SqwOff
    <3>2. \/ at'[p] = "sqwWrite" /\ ~sqwe'
          \/ at'[p] = "idle" /\ wave' = NONE
      BY <2>8 DEF SqwOff, Moves, TypeOK
    <3> QED
      BY <2>5, <2>6, <3>1, <3>2
  <2>9. CASE SqwWrite(p)
    <3>1. at[p] = "sqwWrite" /\ ~sqwe /\ ~sqwe' /\ arg[p] \in Freqs
      BY <2>9 DEF WaveInv, SqwWrite, Moves, TypeOK, Storing
    <3>2. \/ at'[p] = "sqwOn" /\ arg'[p] = arg[p] /\ arg[p] # 0 /\ rs' = Code(arg[p])
          \/ at'[p] = "idle" /\ arg[p] = 0 /\ rs' = Code(arg[p]) /\ wave' = arg[p]
          \/ at'[p] = "idle" /\ wave' = NONE
      BY <2>9 DEF SqwWrite, Enables, RsWritten, Moves, TypeOK
    <3>3. Shown(Code(arg[p])) = arg[p]
      BY <3>1, FreqAssumption
    <3> QED
      BY <2>5, <3>1, <3>2, <3>3
  <2>10. CASE SqwOn(p)
    <3>1. at[p] = "sqwOn" /\ rs' = rs /\ arg[p] \in Freqs /\ at'[p] = "idle"
      BY <2>10 DEF SqwOn, Moves, TypeOK, Storing
    <3>2. rs = Code(arg[p]) /\ arg[p] # 0
      BY <3>1 DEF WaveInv
    <3>3. rs # 0 /\ Shown(rs) = arg[p]
      BY <3>1, <3>2, FreqAssumption
    <3>4. \/ sqwe' /\ wave' = arg[p]
          \/ wave' = NONE
      BY <2>10 DEF SqwOn
    <3> QED
      BY <2>5, <3>1, <3>2, <3>3, <3>4
  <2> QED
    BY <1>3, <2>7, <2>8, <2>9, <2>10, <2>6 DEF StoreNext
<1>4. ASSUME NEW p \in Procs, WatchdogNext(p) PROVE WaveInv' /\ rs' = rs
  <2>1. UNCHANGED <<rs, sqwe, wave, buf>>
    BY <1>4 DEF WatchdogNext, WriteWdt, KeepAlive, SetTimeout, SetOptions, PingEnd, OffEnd,
                Shutdown
  <2>2. /\ \A q \in Procs : q # p => at'[q] = at[q] /\ arg'[q] = arg[q]
        /\ {at[p], at'[p]} \subseteq {"idle"} \cup Watchdog
    BY <1>4 DEF WatchdogNext, WriteWdt, KeepAlive, SetTimeout, SetOptions, PingEnd, OffEnd,
                Shutdown, Begins, Moves, TypeOK, Watchdog
  <2>3. \A q \in Procs :
          /\ at'[q] \in {"sqwWrite", "sqwOn", "setWrite"} => at'[q] = at[q] /\ arg'[q] = arg[q]
          /\ at[q] \in {"sqwWrite", "sqwOn"} => at'[q] = at[q]
    BY <2>2 DEF Watchdog
  <2> QED
    BY <1>0, <2>1, <2>3 DEF WaveInv, Has
<1>5. CASE UNCHANGED vars
  BY <1>5 DEF WaveInv, Has
<1> QED
  BY <1>1, <1>2, <1>3, <1>4, <1>5 DEF Next

-----------------------------------------------------------------------------
(* The watchdog                                                             *)

\* The register's steps lose less than four seconds of a margin.
LEMMA PingMargin ==
  ASSUME NEW m \in 1 .. 124, NEW features
  PROVE  /\ Ping(features, m).mult * Ping(features, m).res \in m - 3 .. m
         /\ Ping(features, m).mult > 0
         /\ Ping(features, m).top <=> "WD" \notin features
<1>1. Ping(features, m).top <=> "WD" \notin features
  <2>1. Ping(features, m).top = ("WD" \notin features)
    BY DEF Ping
  <2> QED
    BY <2>1, Zenon
<1>2. CASE m > 31
  <2>1. (m \div 4) % 32 = m \div 4 /\ m \div 4 > 0 /\ (m \div 4) * 4 \in m - 3 .. m
    BY <1>2
  <2>2. Ping(features, m).mult = m \div 4 /\ Ping(features, m).res = 4
    BY <1>2, <2>1 DEF Ping, Coarse
  <2> QED
    BY <1>1, <2>1, <2>2
<1>3. CASE ~(m > 31)
  <2>1. Ping(features, m).mult = m /\ Ping(features, m).res = 1
    BY <1>3 DEF Ping, Coarse
  <2> QED
    BY <1>1, <2>1
<1> QED
  BY <1>2, <1>3

\* The watchdog register follows the last ping or disabling.
LEMMA DogNext ==
  ASSUME TypeOK, BoundFirst, KeptApart, DogInv, Env = {}, [Next]_vars
  PROVE  DogInv'
<1> USE UnderNone
<1>0. chip' = chip
  BY SameChip
<1>1. CASE ProbeNext \/ Tick \/ OpenWdt \/ ReleaseWdt
  <2>1. UNCHANGED <<at, arg, buf>>
    BY <1>1, OthersStay
  <2>2. UNCHANGED <<wd, margin, down, told>>
    BY <1>1 DEF ProbeNext, Probe, ProbeReadFails, ProbeHt, ProbeHtWrite, ProbeSt,
                ProbeStWrite, ProbeEnd, Remove, Tick, OpenWdt, ReleaseWdt
  <2> QED
    BY <1>0, <2>1, <2>2 DEF DogInv
<1>2. ASSUME NEW p \in Procs, DateNext(p) \/ StoreNext(p) PROVE DogInv'
  <2>1. UNCHANGED <<wd, margin, down, told>>
    BY <1>2 DEF DateNext, SetTime, SetRead, SetWrite, StoreNext, Store, StoreReadFails,
                SqwAlmon, SqwRead, SqwOff, SqwWrite, SqwOn
  <2>2. \A q \in Procs : q # p => at'[q] = at[q] /\ arg'[q] = arg[q]
    BY <1>2, OneMoves DEF Step
  <2>3. at[p] \notin Watchdog /\ at'[p] \notin Watchdog
    BY <1>2 DEF DateNext, SetTime, SetRead, SetWrite, StoreNext, Store, StoreReadFails,
                SqwAlmon, SqwRead, SqwOff, SqwWrite, SqwOn, Begins, Moves, TypeOK, Watchdog
  <2>4. \A q \in Procs :
          /\ at'[q] \in Watchdog => at'[q] = at[q] /\ arg'[q] = arg[q]
          /\ at[q] \in Watchdog => at'[q] = at[q]
    BY <2>2, <2>3
  <2> QED
    BY <1>0, <2>1, <2>4 DEF DogInv, Watchdog
<1>3. ASSUME NEW p \in Procs, WatchdogNext(p) PROVE DogInv'
  <2>0. \A q \in Procs : q # p => at'[q] = at[q] /\ arg'[q] = arg[q]
    BY <1>3, OneMoves DEF Step
  <2>1. at'[p] \in {"idle"} \cup Watchdog
    BY <1>3 DEF WatchdogNext, WriteWdt, KeepAlive, SetTimeout, SetOptions, PingEnd, OffEnd,
                Shutdown, Begins, Moves, TypeOK, Watchdog
  <2>2. \A q \in Procs : q # p => at'[q] \notin Watchdog
    BY <1>3, <2>0 DEF KeptApart, WatchdogNext, WriteWdt, KeepAlive, SetTimeout, SetOptions,
                      PingEnd, OffEnd, Shutdown, Usable, Moves, Watchdog
  <2>3. ASSUME /\ margin' \in 1 .. 124
               /\ at'[p] \in {"ping", "offOn"} =>
                    arg'[p] = Ping(Features[chip], margin') /\ ~down'
               /\ told' = "off" => wd' = Off
               /\ told' = "on" /\ at'[p] \notin Watchdog => wd' = Ping(Features[chip], margin')
               /\ told' = "on" /\ down' => at'[p] = "off"
        PROVE  DogInv'
    BY <1>0, <2>2, <2>3 DEF DogInv, Watchdog
  <2>4. CASE WriteWdt(p) \/ KeepAlive(p) \/ SetTimeout(p) \/ SetOptions(p)
    <3>1. UNCHANGED <<wd, down, told>> /\ ~down
      BY <2>4 DEF WriteWdt, KeepAlive, SetTimeout, SetOptions, Usable
    <3>2. margin' \in 1 .. 124
      <4>1. CASE SetTimeout(p)
        BY <4>1, RTCAssumption DEF SetTimeout
      <4> QED
        BY <2>4, <4>1 DEF DogInv, WriteWdt, KeepAlive, SetOptions
    <3>3. at'[p] \in {"ping", "offOn", "off"}
      BY <2>4 DEF WriteWdt, KeepAlive, SetTimeout, SetOptions, Begins, TypeOK
    <3>4. at'[p] \in {"ping", "offOn"} => arg'[p] = Ping(Features[chip], margin')
      <4>p. arg = [q \in Procs |-> arg[q]]
        BY DEF TypeOK
      <4>1. CASE SetTimeout(p)
        BY <4>p, <4>1 DEF SetTimeout, Begins
      <4>2. CASE WriteWdt(p) \/ KeepAlive(p) \/ SetOptions(p)
        <5>1. margin' = margin
          BY <4>2 DEF WriteWdt, KeepAlive, SetOptions
        <5>2. Begins(p, "off", NONE) \/ \E step : Begins(p, step, Ping(Features[chip], margin))
          BY <4>2 DEF WriteWdt, KeepAlive, SetOptions
        <5> QED
          BY <4>p, <5>1, <5>2 DEF Begins, TypeOK
      <4> QED
        BY <2>4, <4>1, <4>2
    <3> QED
      BY <2>3, <3>1, <3>2, <3>3, <3>4 DEF DogInv, Watchdog
  <2>5. CASE PingEnd(p)
    <3>1. at[p] = "ping" /\ at'[p] = "idle" /\ told' # "off" /\ UNCHANGED <<margin, down>>
      BY <2>5 DEF PingEnd, Reaches, Moves, TypeOK
    <3>2. told' = "on" => wd' = arg[p]
      BY <2>5 DEF PingEnd, Reaches
    <3> QED
      BY <2>3, <3>1, <3>2 DEF DogInv
  <2>6. CASE OffEnd(p)
    <3>1. told' # "on" /\ (told' = "off" => wd' = Off) /\ UNCHANGED <<margin, down>>
      BY <2>6 DEF OffEnd, Reaches
    <3>2. \/ at'[p] = "idle"
          \/ at[p] = "offOn" /\ at'[p] = "ping" /\ arg'[p] = arg[p]
      BY <2>6 DEF OffEnd, Moves, TypeOK
    <3> QED
      BY <2>3, <3>1, <3>2 DEF DogInv
  <2>7. CASE Shutdown(p)
    <3>1. at'[p] = "off" /\ UNCHANGED <<wd, margin, told>>
      BY <2>7 DEF Shutdown, Begins, TypeOK
    <3> QED
      BY <2>3, <3>1 DEF DogInv, Watchdog
  <2> QED
    BY <1>3, <2>4, <2>5, <2>6, <2>7 DEF WatchdogNext
<1>4. CASE UNCHANGED vars
  BY <1>4 DEF DogInv
<1> QED
  BY <1>1, <1>2, <1>3, <1>4 DEF Next

-----------------------------------------------------------------------------
(* Theorems                                                                 *)

\* Whatever the hazards, the driver, the chip and the history are of their
\* types: what is written to a register fits it, whichever margin or frequency it
\* is made from.
THEOREM TypeCorrect == Spec => []TypeOK
  BY TypeInit, TypeNext, PTL DEF Spec

\* The initial states satisfy the invariant.
LEMMA IInvInit == Init => IInv
<1> SUFFICES ASSUME Init PROVE IInv
  OBVIOUS
<1>1. TypeOK
  BY TypeInit
<1>2. \A p \in Procs : at[p] = "idle"
  BY DEF Init
<1> QED
  BY <1>1, <1>2 DEF Init, IInv, BoundFirst, KeptApart, ClockInv, WaveInv, DogInv, Setting,
                    Storing, Watchdog

\* Without hazards every step keeps it.
LEMMA IInvNext == ASSUME Env = {} PROVE IInv /\ [Next]_vars => IInv'
  BY TypeNext, ApartNext, ClockNext, WaveNext, DogNext DEF IInv

\* So it holds always.
LEMMA Inductive == ASSUME Env = {} PROVE Spec => []IInv
  BY IInvInit, IInvNext, PTL DEF Spec

\* The clock runs once the driver is bound, and shows the date that was last
\* set, with its weekday, whatever m41t80_set_datetime, the probe and a store of
\* a frequency write back of what they have read.
THEOREM ClockKeptAlways == ASSUME Env = {} PROVE Spec => []ClockKept
<1>1. IInv => ClockKept
  BY DEF IInv, ClockInv, ClockKept, Shows
<1> QED
  BY <1>1, Inductive, PTL

\* m41t80_sysfs_set_sqwfreq never changes the frequency while the square wave is
\* on, and m41t80_set_datetime never at all.
THEOREM NoGlitchEver == ASSUME Env = {} PROVE Spec => NoGlitch
<1>1. IInv /\ [Next]_vars => [rs' # rs => ~sqwe]_vars
  BY WaveNext DEF IInv
<1> QED
  BY <1>1, Inductive, PTL DEF Spec, NoGlitch

\* A stored frequency is there, and shown, until the next store.
THEOREM SquareWaveAlways == ASSUME Env = {} PROVE Spec => []SquareWaveAsTold
<1>1. IInv => SquareWaveAsTold
  <2> SUFFICES ASSUME IInv PROVE SquareWaveAsTold
    OBVIOUS
  <2>1. Under(Storing) = {} => \A p \in Procs : at[p] \notin {"sqwWrite", "sqwOn"}
    BY UnderNone DEF Storing
  <2> QED
    BY <2>1 DEF IInv, WaveInv, SquareWaveAsTold
<1> QED
  BY <1>1, Inductive, PTL

\* A ping that has reached the chip makes the watchdog fire no later than the
\* margin says nor more than three seconds earlier, for each margin the ioctl
\* admits, and it stays so until the next use; wdt_disable leaves it off.  Two uses
\* at a time, an error the driver hides, and a ping after the notifier of a reboot
\* are hazards, which Env = {} excludes.
THEOREM WatchdogAlways == ASSUME Env = {} PROVE Spec => []WatchdogAsTold
<1>1. IInv => WatchdogAsTold
  <2> SUFFICES ASSUME IInv, Under(Watchdog) = {}
               PROVE  /\ told = "on" => /\ wd.mult * wd.res \in margin - 3 .. margin
                                        /\ wd.mult > 0
                                        /\ wd.top <=> "WD" \notin Features[chip]
                      /\ told = "off" => wd = Off
                      /\ down => told # "on"
    BY DEF WatchdogAsTold
  <2>1. \A p \in Procs : at[p] \notin Watchdog
    BY UnderNone
  <2>2. told = "on" => wd = Ping(Features[chip], margin)
    BY <2>1 DEF IInv, DogInv
  <2>3. margin \in 1 .. 124
    BY DEF IInv, DogInv
  <2>4. down => told # "on"
    BY <2>1 DEF IInv, DogInv, Watchdog
  <2>5. told = "off" => wd = Off
    BY DEF IInv, DogInv
  <2> QED
    BY <2>2, <2>3, <2>4, <2>5, PingMargin
<1> QED
  BY <1>1, Inductive, PTL

===============================================================================
