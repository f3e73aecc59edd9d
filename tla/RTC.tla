---------------------------------- MODULE RTC ----------------------------------
(***************************************************************************)
(* rtc-m41t80.c: the clock, square wave and watchdog of one chip.  Each    *)
(* has registers of its own, but for the m41t62, which keeps the bits of   *)
(* the square wave's frequency beside the weekday.  What is changed is     *)
(* read, merged and written back in separate transfers of the I2C bus, and *)
(* no lock is common to the functions that do so.                          *)
(*                                                                         *)
(* A transfer is one step: the bus is an I2CBus, which admits one at a     *)
(* time.  When it fails, after several attempts, any of its first bytes    *)
(* may have been written.  The date is a day and a time of day, and time   *)
(* begins at the first of them.                                            *)
(***************************************************************************)
EXTENDS Integers

CONSTANTS
  Procs,      \* processes that use the chip
  Chips,      \* the chips to be looked at, among those of m41t80_id
  Dates,      \* dates they set
  Freqs,      \* frequencies they ask for, acceptable to set_sqwfreq
  Margins,    \* watchdog margins they ask for
  Noon,       \* times of a day are 0 .. Noon
  LastDay,    \* bound on the days that pass
  NONE,
  Env         \* the hazards, among those below, that the environment exhibits

(***************************************************************************)
(*   early     the date is set while the driver is still probing           *)
(*   race      the date is set, and a frequency stored, at the same time   *)
(*             in an m41t62                                                *)
(*   midnight  midnight comes while a frequency is stored in an m41t62     *)
(*   stores    two files store frequencies at the same time                *)
(*   threads   two threads use the watchdog at the same time               *)
(*   deaf      whoever uses the watchdog trusts in what the driver tells,  *)
(*             which is success, when a transfer to its register has failed  *)
(*   reborn    the watchdog is used after the reboot notifier has run      *)
(***************************************************************************)
Hazards == {"early", "race", "midnight", "stores", "threads", "deaf", "reborn"}

\* m41t80_id, without the battery: m41t81 stands for those from m41t81s to m41st87.
Features == [m41t62 |-> {"SQ", "SQ_ALT"}, m41t65 |-> {"HT", "WD"},
             m41t80 |-> {"SQ"},           m41t81 |-> {"HT", "SQ"}]

ASSUME RTCAssumption ==
  /\ Chips \subseteq DOMAIN Features
  /\ Noon \in Nat /\ LastDay \in Nat
  /\ Dates \subseteq [day : 0 .. LastDay, time : 0 .. Noon]
  /\ Margins \subseteq Int
  /\ NONE \notin Procs /\ NONE \notin Freqs
  /\ NONE \notin [day : 0 .. LastDay, time : 0 .. Noon]
  /\ Env \subseteq Hazards

-----------------------------------------------------------------------------
(* Conversions                                                              *)

Weekday(day) == day % 7

\* The RS bits set_sqwfreq chooses for a frequency, and what show_sqwfreq makes
\* of them.
Code(f) ==
  IF f = 0 THEN 0 ELSE
  LET n == CHOOSE k \in 0 .. 15 : 2 ^ k = f IN IF n = 15 THEN 1 ELSE 15 - n

Shown(c) == CASE c = 0 -> 0 [] c = 1 -> 32768 [] OTHER -> 32768 \div 2 ^ c

\* 2^14 has no code; every other power of two comes back as it was stored.
ASSUME FreqAssumption ==
  \A f \in Freqs : Code(f) \in 0 .. 15 /\ Shown(Code(f)) = f /\ (Code(f) = 0 <=> f = 0)

\* The watchdog register: bit 7, the multiplier, the resolution in seconds.
Off == [top |-> FALSE, mult |-> 0, res |-> 0]

\* Mutant of Coarse: one second late.
CoarseLate(m) == m > 32

\* Margins that are counted in steps of four seconds.
Coarse(m) == m > 31

\* What wdt_ping writes, bit 7 but on chips that have other resolutions.
Ping(features, m) ==
  [top  |-> "WD" \notin features,
   mult |-> (IF Coarse(m) THEN m \div 4 ELSE m) % 32,
   res  |-> IF Coarse(m) THEN 4 ELSE 1]

VARIABLES
  \* the chip
  chip,        \* which one it is
  clock,       \* its day, weekday, and time of day
  st, ht,      \* the bits that stop the clock and halt the update of registers
  rs, sqwe,    \* frequency bits and enable bit of the square wave
  wd,          \* the watchdog register
  \* the driver
  probe,       \* where m41t80_probe is
  probeSec,    \* what it has read of register SEC
  group,       \* the sysfs files exist
  margin,      \* wdt_margin
  mutex,       \* m41t80_rtc_mutex
  isOpen,      \* wdt_is_open
  down,        \* the reboot notifier has been called
  \* the processes
  at, arg,     \* what each is doing, and with what argument
  buf,         \* what it has read from the chip
  \* history
  expected,    \* what the date last set has become; NONE after a failure
  wave,        \* the frequency last stored; NONE after a failure
  told         \* the watchdog was pinged last, or disabled; or that is unknown,
               \* as it has not been used yet or a transfer has failed

chipVars == <<clock, st, ht, rs, sqwe, wd>>
drvVars  == <<probe, probeSec, group, margin, mutex, isOpen, down>>
procVars == <<at, arg, buf>>
history  == <<expected, wave, told>>
vars     == <<chip, chipVars, drvVars, procVars, history>>

Has(f) == f \in Features[chip]

Setting    == {"setRead", "setWrite"}
Storing    == {"sqwAlmon", "sqwRead", "sqwOff", "sqwWrite", "sqwOn"}
Watchdog   == {"ping", "off", "offOn"}

Clocks == [day : 0 .. LastDay, wday : 0 .. 6, time : 0 .. Noon]
WdRegs == [top : BOOLEAN, mult : 0 .. 31, res : {0, 1, 4}]

TypeOK ==
  /\ chip \in Chips
  /\ clock \in Clocks
  /\ st \in BOOLEAN /\ ht \in BOOLEAN /\ sqwe \in BOOLEAN
  /\ rs \in 0 .. 15
  /\ wd \in WdRegs
  /\ probe \in {"none", "ht", "htWrite", "st", "stWrite", "sysfs", "bound", "failed"}
  /\ probeSec \in 0 .. Noon
  /\ group \in BOOLEAN /\ isOpen \in BOOLEAN /\ down \in BOOLEAN
  /\ margin \in Int
  /\ mutex \in Procs \cup {NONE}
  /\ at \in [Procs -> {"idle"} \cup Setting \cup Storing \cup Watchdog]
  /\ arg = [p \in Procs |-> arg[p]]
  /\ \A p \in Procs :
       /\ at[p] \in Setting          => arg[p] \in Dates
       /\ at[p] \in Storing          => arg[p] \in Freqs
       /\ at[p] \in {"ping", "offOn"} => arg[p] \in WdRegs
  /\ buf \in [Procs -> [st : BOOLEAN, rs : 0 .. 15, wday : 0 .. 6]]
  /\ expected \in [day : 0 .. LastDay, time : 0 .. Noon] \cup {NONE}
  /\ wave \in Freqs \cup {NONE}
  /\ told \in {"unknown", "on", "off"}

\* The driver is not bound yet.  A battery keeps the registers of the chip: they
\* are those of power-up or what the driver has left in them before a reboot.
Init ==
  /\ chip \in Chips
  /\ clock = [day |-> 0, wday |-> 0, time |-> 0]
  /\ st \in BOOLEAN /\ ht \in BOOLEAN
  /\ rs \in {1} \cup {Code(f) : f \in Freqs}
  /\ sqwe \in BOOLEAN /\ (sqwe => rs # 0)
  /\ wd \in {Off} \cup {Ping(Features[chip], m) : m \in Margins \cap 1 .. 124}
  /\ probe = "none" /\ probeSec = 0 /\ group = FALSE
  /\ margin = 60 /\ mutex = NONE /\ isOpen = FALSE /\ down = FALSE
  /\ at = [p \in Procs |-> "idle"] /\ arg = [p \in Procs |-> NONE]
  /\ buf = [p \in Procs |-> [st |-> FALSE, rs |-> 0, wday |-> 0]]
  /\ expected = NONE /\ wave = NONE /\ told = "unknown"

-----------------------------------------------------------------------------
(* m41t80_probe                                                             *)

Under(steps) == {p \in Procs : at[p] \in steps}

\* A probe that has failed unregisters the RTC device, once nobody uses it.
Goes(from, to) ==
  /\ probe = from /\ probe' = to
  /\ to = "failed" => Under(Setting) = {}

\* The RTC device is registered, and can be used, before the chip is set up.
Probe ==
  /\ Goes("none", "ht") \/ Goes("failed", "ht")
  /\ UNCHANGED <<chip, chipVars, probeSec, group, margin, mutex, isOpen, down,
                 procVars, history>>

\* A transfer that only reads has failed, and with it the probe.
ProbeReadFails ==
  /\ Goes("ht", "failed") \/ Goes("st", "failed")
  /\ UNCHANGED <<chip, chipVars, probeSec, group, margin, mutex, isOpen, down,
                 procVars, history>>

ProbeHt ==
  /\ IF ht THEN Goes("ht", "htWrite") ELSE Goes("ht", "st")
  /\ UNCHANGED <<chip, chipVars, probeSec, group, margin, mutex, isOpen, down,
                 procVars, history>>

ProbeHtWrite ==
  /\ \/ Goes("htWrite", "st") /\ ht' = FALSE
     \/ Goes("htWrite", "failed") /\ ht' \in {ht, FALSE}
  /\ UNCHANGED <<chip, clock, st, rs, sqwe, wd, probeSec, group, margin, mutex,
                 isOpen, down, procVars, history>>

ProbeSt ==
  /\ IF st THEN Goes("st", "stWrite") ELSE Goes("st", "sysfs")
  /\ probeSec' = clock.time
  /\ UNCHANGED <<chip, chipVars, group, margin, mutex, isOpen, down, procVars, history>>

\* Mutant of SecWritten: the stop bit is written back as it was.
SecWrittenStopped == clock' = [clock EXCEPT !.time = probeSec] /\ UNCHANGED st

\* Register SEC without its stop bit.
SecWritten == clock' = [clock EXCEPT !.time = probeSec] /\ st' = FALSE

ProbeStWrite ==
  /\ \/ Goes("stWrite", "sysfs") /\ SecWritten
     \/ Goes("stWrite", "failed") /\ (SecWritten \/ UNCHANGED <<clock, st>>)
  /\ UNCHANGED <<chip, ht, rs, sqwe, wd, probeSec, group, margin, mutex, isOpen,
                 down, procVars, history>>

\* The sysfs files, which nothing ever removes, and the watchdog device.
ProbeEnd ==
  /\ group' = TRUE
  /\ \/ ~group /\ Goes("sysfs", "bound")
     \/ (group \/ Has("HT")) /\ Goes("sysfs", "failed")
  /\ UNCHANGED <<chip, chipVars, probeSec, margin, mutex, isOpen, down, procVars, history>>

\* m41t80_remove.  What files that are still open would do is left out.
Remove ==
  /\ Goes("bound", "none")
  /\ ~isOpen /\ Under(Setting \cup Storing \cup Watchdog) = {}
  /\ UNCHANGED <<chip, chipVars, probeSec, group, margin, mutex, isOpen, down,
                 procVars, history>>

-----------------------------------------------------------------------------
(* The date                                                                 *)

Begins(p, step, a) ==
  /\ at[p] = "idle"
  /\ at' = [at EXCEPT ![p] = step]
  /\ arg' = [arg EXCEPT ![p] = a]

Moves(p, from, to) ==
  /\ at[p] = from
  /\ at' = [at EXCEPT ![p] = to]
  /\ arg' = IF to = "idle" THEN [arg EXCEPT ![p] = NONE] ELSE arg

Apart(steps) == ~Has("SQ_ALT") \/ "race" \in Env \/ Under(steps) = {}

\* rtc_set_time, under the lock of the RTC device.
SetTime(p) ==
  /\ probe = "bound" \/ ("early" \in Env /\ probe \in {"ht", "htWrite", "st", "stWrite", "sysfs"})
  /\ Under(Setting) = {} /\ Apart(Storing)
  /\ \E d \in Dates : Begins(p, "setRead", d)
  /\ UNCHANGED <<chip, chipVars, drvVars, buf, history>>

\* The registers are read for the bits that are not the date's.
SetRead(p) ==
  /\ \/ Moves(p, "setRead", "setWrite") /\ buf' = [buf EXCEPT ![p].st = st, ![p].rs = rs]
     \/ Moves(p, "setRead", "idle") /\ UNCHANGED buf
  /\ UNCHANGED <<chip, chipVars, drvVars, history>>

\* The first n of the three parts of the date are written: the time, with the
\* stop bit; the weekday, with the RS bits of an m41t62; the day.
Written(p, n) ==
  /\ clock' = [time |-> IF n > 0 THEN arg[p].time ELSE clock.time,
               wday |-> IF n > 1 THEN Weekday(arg[p].day) ELSE clock.wday,
               day  |-> IF n > 2 THEN arg[p].day ELSE clock.day]
  /\ st' = IF n > 0 THEN buf[p].st ELSE st
  /\ rs' = IF n > 1 /\ Has("SQ_ALT") THEN buf[p].rs ELSE rs

SetWrite(p) ==
  /\ \/ Moves(p, "setWrite", "idle") /\ Written(p, 3) /\ expected' = arg[p]
     \/ /\ Moves(p, "setWrite", "idle")
        /\ \E n \in 0 .. 3 : Written(p, n)
        /\ expected' = NONE
  /\ UNCHANGED <<chip, ht, sqwe, wd, drvVars, buf, wave, told>>

-----------------------------------------------------------------------------
(* Time                                                                     *)

After(d) == IF d.time < Noon THEN [day |-> d.day, time |-> d.time + 1]
                             ELSE [day |-> d.day + 1, time |-> 0]

Midnight == clock.time = Noon

\* Time passes; unless it is stopped the chip counts it, and the weekdays.
Tick ==
  /\ clock.time = Noon => clock.day < LastDay
  /\ expected # NONE /\ expected.time = Noon => expected.day < LastDay
  /\ Midnight /\ Has("SQ_ALT") => "midnight" \in Env \/ Under(Storing) = {}
  /\ expected' = IF expected = NONE THEN NONE ELSE After(expected)
  /\ clock' = IF st THEN clock ELSE
              [day  |-> After(clock).day, time |-> After(clock).time,
               wday |-> IF Midnight THEN (clock.wday + 1) % 7 ELSE clock.wday]
  /\ UNCHANGED <<chip, st, ht, rs, sqwe, wd, drvVars, procVars, wave, told>>

-----------------------------------------------------------------------------
(* m41t80_sysfs_set_sqwfreq                                                 *)

\* While the driver is bound.  The files are never removed: after m41t80_remove or a
\* probe that failed a store finds the driver data of the client NULL, and one made
\* while a later probe is on its way to fail finds that of this probe; both are
\* left out.
Store(p) ==
  /\ probe = "bound" /\ group /\ Has("SQ")
  /\ "stores" \in Env \/ Under(Storing) = {}
  /\ Apart(Setting)
  /\ \E f \in Freqs : Begins(p, "sqwAlmon", f)
  /\ UNCHANGED <<chip, chipVars, drvVars, buf, history>>

\* A transfer that only reads, or the whole store, has failed.
StoreReadFails(p) ==
  /\ Moves(p, "sqwAlmon", "idle") \/ Moves(p, "sqwRead", "idle")
  /\ UNCHANGED <<chip, chipVars, drvVars, buf, history>>

SqwAlmon(p) ==
  /\ Moves(p, "sqwAlmon", "sqwRead")
  /\ UNCHANGED <<chip, chipVars, drvVars, buf, history>>

\* The register with the RS bits: an m41t62 keeps its weekday there.
SqwRead(p) ==
  /\ Moves(p, "sqwRead", "sqwOff")
  /\ buf' = [buf EXCEPT ![p].wday = IF Has("SQ_ALT") THEN clock.wday ELSE @]
  /\ UNCHANGED <<chip, chipVars, drvVars, history>>

\* Mutant of SqwOff: a failed write is not noticed.
SqwOffUnchecked(p) ==
  /\ Moves(p, "sqwOff", "sqwWrite") /\ sqwe' \in {sqwe, FALSE}
  /\ UNCHANGED <<chip, clock, st, ht, rs, wd, drvVars, buf, history>>

SqwOff(p) ==
  /\ \/ Moves(p, "sqwOff", "sqwWrite") /\ sqwe' = FALSE /\ UNCHANGED wave
     \/ Moves(p, "sqwOff", "idle") /\ sqwe' \in {sqwe, FALSE} /\ wave' = NONE
  /\ UNCHANGED <<chip, clock, st, ht, rs, wd, drvVars, buf, expected, told>>

\* Mutant of Enables: the square wave is enabled at every frequency.
EnablesAlways(f) == TRUE

Enables(f) == f # 0

RsWritten(p) ==
  /\ rs' = Code(arg[p])
  /\ clock' = IF Has("SQ_ALT") THEN [clock EXCEPT !.wday = buf[p].wday] ELSE clock

SqwWrite(p) ==
  /\ \/ /\ Moves(p, "sqwWrite", "sqwOn") /\ Enables(arg[p])
        /\ RsWritten(p) /\ UNCHANGED wave
     \/ /\ Moves(p, "sqwWrite", "idle") /\ ~Enables(arg[p])
        /\ RsWritten(p) /\ wave' = arg[p]
     \/ /\ Moves(p, "sqwWrite", "idle")
        /\ RsWritten(p) \/ UNCHANGED <<rs, clock>>
        /\ wave' = NONE
  /\ UNCHANGED <<chip, st, ht, sqwe, wd, drvVars, buf, expected, told>>

SqwOn(p) ==
  /\ Moves(p, "sqwOn", "idle")
  /\ \/ sqwe' = TRUE /\ wave' = arg[p]
     \/ sqwe' \in {sqwe, TRUE} /\ wave' = NONE
  /\ UNCHANGED <<chip, clock, st, ht, rs, wd, drvVars, buf, expected, told>>

-----------------------------------------------------------------------------
(* The watchdog: of chips with the HT feature                               *)

OpenWdt ==
  /\ probe = "bound" /\ Has("HT")
  /\ mutex = NONE /\ ~isOpen
  /\ isOpen' = TRUE
  /\ UNCHANGED <<chip, chipVars, probe, probeSec, group, margin, mutex, down,
                 procVars, history>>

\* The watchdog goes on.
ReleaseWdt ==
  /\ isOpen /\ Under(Watchdog) = {}
  /\ isOpen' = FALSE
  /\ UNCHANGED <<chip, chipVars, probe, probeSec, group, margin, mutex, down,
                 procVars, history>>

Usable ==
  /\ isOpen
  /\ "threads" \in Env \/ Under(Watchdog) = {}
  /\ "reborn" \in Env \/ ~down

\* wdt_write takes no lock.
WriteWdt(p) ==
  /\ Usable
  /\ Begins(p, "ping", Ping(Features[chip], margin))
  /\ UNCHANGED <<chip, chipVars, drvVars, buf, history>>

Locks(p) == mutex = NONE /\ mutex' = p

\* WDIOC_KEEPALIVE, or WDIOC_SETOPTIONS to enable.
KeepAlive(p) ==
  /\ Usable /\ Locks(p)
  /\ Begins(p, "ping", Ping(Features[chip], margin))
  /\ UNCHANGED <<chip, chipVars, probe, probeSec, group, margin, isOpen, down,
                 buf, history>>

SetTimeout(p) ==
  /\ Usable /\ Locks(p)
  /\ \E m \in Margins :
       /\ 1 <= m /\ m <= 124
       /\ margin' = m
       /\ Begins(p, "ping", Ping(Features[chip], m))
  /\ UNCHANGED <<chip, chipVars, probe, probeSec, group, isOpen, down, buf, history>>

\* WDIOC_SETOPTIONS to disable, and perhaps enable again.
SetOptions(p) ==
  /\ Usable /\ Locks(p)
  /\ \/ Begins(p, "off", NONE)
     \/ Begins(p, "offOn", Ping(Features[chip], margin))
  /\ UNCHANGED <<chip, chipVars, probe, probeSec, group, margin, isOpen, down,
                 buf, history>>

Unlocks(p) == mutex' = IF mutex = p THEN NONE ELSE mutex

\* The register is written.  When that fails nobody is told: i2c_transfer's
\* error is ignored.
Reaches(reg, state) ==
  \/ wd' = reg /\ told' = state
  \/ wd' \in {wd, reg} /\ told' = IF "deaf" \in Env THEN state ELSE "unknown"

PingEnd(p) ==
  /\ Moves(p, "ping", "idle")
  /\ Reaches(arg[p], "on") /\ Unlocks(p)
  /\ UNCHANGED <<chip, clock, st, ht, rs, sqwe, probe, probeSec, group, margin,
                 isOpen, down, buf, expected, wave>>

OffEnd(p) ==
  /\ \/ Moves(p, "off", "idle") /\ Unlocks(p)
     \/ Moves(p, "offOn", "ping") /\ UNCHANGED mutex
  /\ Reaches(Off, "off")
  /\ UNCHANGED <<chip, clock, st, ht, rs, sqwe, probe, probeSec, group, margin,
                 isOpen, down, buf, expected, wave>>

\* wdt_notify_sys: the system goes down.  It takes no lock either.
Shutdown(p) ==
  /\ probe = "bound" /\ Has("HT") /\ ~down
  /\ "threads" \in Env \/ Under(Watchdog) = {}
  /\ down' = TRUE
  /\ Begins(p, "off", NONE)
  /\ UNCHANGED <<chip, chipVars, probe, probeSec, group, margin, mutex, isOpen,
                 buf, history>>

-----------------------------------------------------------------------------

ProbeNext == \/ Probe \/ ProbeReadFails \/ ProbeHt \/ ProbeHtWrite \/ ProbeSt
             \/ ProbeStWrite \/ ProbeEnd \/ Remove

DateNext(p) == SetTime(p) \/ SetRead(p) \/ SetWrite(p)

StoreNext(p) == \/ Store(p) \/ StoreReadFails(p) \/ SqwAlmon(p) \/ SqwRead(p)
                \/ SqwOff(p) \/ SqwWrite(p) \/ SqwOn(p)

WatchdogNext(p) == \/ WriteWdt(p) \/ KeepAlive(p) \/ SetTimeout(p) \/ SetOptions(p)
                   \/ PingEnd(p) \/ OffEnd(p) \/ Shutdown(p)

Next ==
  \/ ProbeNext \/ Tick \/ OpenWdt \/ ReleaseWdt
  \/ \E p \in Procs : DateNext(p) \/ StoreNext(p) \/ WatchdogNext(p)

Spec == Init /\ [][Next]_vars

-----------------------------------------------------------------------------
(* Properties                                                               *)

\* Once m41t80_probe is through neither is the clock stopped nor its registers
\* halted, whatever is done to the chip; and it shows the date last set, with
\* the right day of the week, as far as it has advanced: although
\* m41t80_set_datetime writes back the stop bit it has read, the probe register
\* SEC, and m41t80_sysfs_set_sqwfreq the weekday of an m41t62.
ClockKept ==
  /\ probe = "bound" => ~st /\ ~ht
  /\ probe = "bound" /\ expected # NONE =>
       clock = [day |-> expected.day, time |-> expected.time,
                wday |-> Weekday(expected.day)]

\* "disable SQW, set SQW frequency & re-enable": the bits of the frequency never
\* change while the square wave is on, not when a transfer fails, nor when
\* m41t80_set_datetime writes the register of an m41t62 that holds them.
NoGlitch == [][rs' # rs => ~sqwe]_vars

\* Between two stores the square wave is the one of the last store, if that
\* succeeded: m41t80_sysfs_show_sqwfreq shows its frequency, and it is on unless
\* that is 0.  After a failed one too it is not on without a frequency.
SquareWaveAsTold ==
  /\ sqwe => rs # 0
  /\ Under(Storing) = {} /\ wave # NONE => Shown(rs) = wave /\ (sqwe <=> wave # 0)

\* What a transfer of wdt_ping or wdt_disable that has reached the chip leaves
\* there, once the next user has not begun.  After a ping the watchdog fires no
\* later than wdt_margin says and at most three seconds earlier, the margin being
\* counted in steps of four seconds above 31, and has bit 7 set but on chips that
\* take it for an invalid resolution; after the notifier of a reboot it is off.
\* This is about one user after the other: two at a time (threads), failures,
\* of which no user is told (deaf), and pings after the notifier (reborn) break it.
WatchdogAsTold ==
  Under(Watchdog) = {} =>
    /\ told = "on" => /\ wd.mult * wd.res \in margin - 3 .. margin
                      /\ wd.mult > 0
                      /\ wd.top <=> "WD" \notin Features[chip]
    /\ told = "off" => wd = Off
    /\ down => told # "on"

=============================================================================
