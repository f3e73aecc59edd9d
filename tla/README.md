# Verification of the drivers in diary_html

The repository is an engineer's diary: HTML pages, data sheets and, under
`src/file/c_code`, the Linux drivers he wrote or changed for a Socle SoC. The
drivers are the program; the largest and hardest is the DMA330 (ARM PL330) DMA
engine driver. This directory models them in TLA+, checks the models with TLC
and proves theorems about them with TLAPS.

## 1. Inventory

Paths are relative to `src/src/file/c_code` unless they say otherwise.

| Component | Source | State | Operations | What is hard |
|---|---|---|---|---|
| DMA330 core | `socle_dma330.c` 280-1882 | per thread: two request slots, `lstenq`, `req_running`, event; event table; `req_done`; `dmac_tbd` | request/release channel, submit, `_start`/`_stop`, `dma330_update` (interrupt), `dma330_dotask` (recovery tasklet) | interrupts against tasklets against clients, the lock dropped around callbacks, faults |
| DMA330 channels | `socle_dma330.c` 1884-2700 | per channel: `submitted_list`, `work_list`, `completed_list`, cyclic, paused, cookies; descriptor pool | prep, submit, issue_pending, control (terminate, pause), tx_status, alloc/free, `dma330_tasklet` | the tasklet body runs in two contexts; completion order; termination in the middle of a completion |
| DMA330 microcode | `socle_dma330.c` 500-910, 1106-1360 | a program buffer | emit, load/store, loops | lengths and loop counts at their limits |
| spidev | `spidev.c` | `spidev_data`: users, buffer, spi; minors; `device_list` | open, release, read, write, ioctl, probe, remove | removal and rebinding of a device whose files are open |
| I2C bus driver | `i2c-socle.c` | `recv_ack`, `ack_period`, `arbit_lose` flags | transfer with retries, one byte at a time with a wait each; interrupt handler | flags set by the interrupt and cleared by the waiter, timeouts, lost arbitration |
| SPI bus driver, PIO | `spi-socle.c` | `xfer_stat`, counters | message queue, `txrx_bufs`, interrupt handler | status bits shared between thread and interrupt |
| SPI bus driver, DMA | `spi-socle-test.c`, `spi-ftk-dma330.c` | `xfer_stat`, `tx_xfer_cnt`, `rx_xfer_cnt`, two DMA channels | as above, plus two DMA callbacks | interrupt, callbacks and thread share one set of status bits; a FIFO is filled or emptied by two of them |
| SPI bus driver, earlier DMA version | `spi-socle-dma.c` | as above, and partial words | as above | as above; a FIFO four bytes wide |
| AT25 EEPROM | `at25.c` | chip status, address pointer | read, page-bounded write with polling | a chip that stays busy; partial writes |
| M41T80 RTC | `src/src/doc/BPi/rtc-test/M41T64/rtc-m41t80.c` | chip registers, watchdog margin, `wdt_is_open` | probe, remove, set time, square wave, watchdog | read-modify-write of registers in several bus transfers without a common lock; transfers that fail |
| IT7C4337 test | `src/src/doc/BPi/rtc-test/it7c4337/it7c4337_app.c` | - | BCD conversion, time and date | BCD at its boundaries |
| Test programs, boot code, pages | `tcp_client.c`, `l602.dts`, uboot, HTML | - | - | none: sequential programs and data |

How they interact: a client of the SPI bus driver (spidev, AT25) queues a
message; the bus driver moves it by PIO or asks the DMA330 driver for two
transfers and waits for their callbacks, `xfer_stat` telling what is still due. The DMA330 channel layer hooks
descriptors in the two request slots of a thread of the core; the thread's
event interrupts; `dma330_update` calls `dma_dma330_rqcb` for each finished
request, which marks the descriptor DONE and schedules `dma330_tasklet`; that
completes cookies, refills the slots, starts the thread and makes the client's
callback, dropping `pch->lock` around it. The I2C driver carries the RTC, whose
driver is used by the RTC core, through sysfs, and as a watchdog.

What makes each component correct:

* core: no request is lost, run twice, or reported before it has run; a thread
  and its event belong to each other; the interrupt handler never finds its
  thread or request gone;
* channels: a descriptor is in exactly one place; a client is told only of
  transfers that took place; cookies complete in order; what is issued ends: in
  short, a channel is a queue of transfers (`DmaEngine`);
* spidev: memory lives exactly as long as somebody refers to it; settings of a
  device are only what the controller accepted;
* I2C: an answer is attributed to the byte that was sent; an attempt ends with
  its first failure, a transfer with its last byte or its last attempt
  (`I2CBus`);
* SPI: a transfer returns when, and only when, all its data has moved;
* EEPROM: a write reports what it wrote;
* RTC: clock and square wave do what they were told last, whatever else is
  written to the same registers and whichever transfer fails; the watchdog has
  the margin of the last ping that reached it.

## 2. Modules

| Module | What it is |
|---|---|
| `DMA330Core` | the lower half of `socle_dma330.c`: threads, events, interrupt handler, recovery tasklet, and the controller; `CoreSpec` runs it under any caller that keeps to three rules |
| `DMA330` | the upper half, EXTENDS `DMA330Core`: channels, lists, `dma330_tasklet`, the clients; `Spec` is shown to implement `CoreSpec` below it and `EngineSpec` above it |
| `DmaEngine` | abstract: a channel as a client relies on it. `DMA330` implements it (`EngineSpec`, by INSTANCE with a refinement mapping), `SpiDma` is built on two of them |
| `MCDMA330Core`, `MCDMA330` | instances for TLC |
| `DMA330Core_proofs` | what holds of the core under every hazard, and without hazards |
| `DMA330_proofs` | what holds of the channel layer under every hazard; without hazards, that it implements `CoreSpec` and `EngineSpec` |
| `Spidev` | `spidev.c`: user processes and devices that come and go |
| `I2C` | `i2c-socle.c`: one thread, the interrupt handler and the bus; implements `I2CBus` (`BusSpec`) |
| `I2CBus` | abstract: an adapter that carries out one transfer at a time, in attempts |
| `SpiPio` | `spi-socle.c`: the SPI core's thread, the interrupt handler and the controller |
| `SpiDma` | `spi-socle-test.c` and `spi-ftk-dma330.c`: thread, interrupt handler, two DMA channels with their callbacks, and the controller |
| `AT25` | `at25.c` over the bus driver, EXTENDS `SpiPio`, with a model of the chip |
| `RTC` | `rtc-m41t80.c` with a model of the chip |
| `Microcode` | the code generator of `socle_dma330.c` and the controller that runs its programs |
| `MCSpidev`, `MCI2C`, `MCSpiPio`, `MCSpiDma`, `MCAT25`, `MCRTC`, `MCMicrocode` | instances for TLC |
| `I2C_proofs` | that thread and controller of `I2C` stay in step, and that it implements `I2CBus` |
| `Spidev_proofs` | memory and settings of `Spidev` |
| `AT25_proofs` | what `SpiPio` sends and receives; what a client of `AT25` reads and writes, through all the layers |
| `SpiDma_proofs` | what `SpiDma` sends and receives |
| `RTC_proofs` | clock, square wave and watchdog of `RTC` |
| `Microcode_proofs` | what a program moves, the room its bursts need, limits of the loops, and the buffer two programs share |

Every module except `Microcode` has a constant `Env` (in `AT25` also `ChipEnv`) that names the
hazards its environment exhibits; the comment above `Hazards` says what each one
is. A passing run has the largest `Env` under which its properties hold; a
violation run has the hazard that breaks one.

### DMA330Core

One action is one critical section of `dmac->lock`. Where the code drops the
lock a new action starts: `UpdateEvents` is the first part of `dma330_update`,
`UpdateList` and `UpdateRqcb` one turn of its callback loop, `UpdateExit` its end
with `tasklet_schedule`; `DotaskBegin`, `DotaskRead`, `DotaskRqcb`, `DotaskClear`
are `dma330_dotask`, which reads its two callback arguments without the lock.
The variables carry the names of the fields (`req`, `lstenq`, `running` for
`req_running`, `events`, `resetChan` for `dmac_tbd.reset_chan`, `reqDone`); `hw`,
`hwDesc`, `es`, `inten` are the controller's CS, the program it runs, and the
registers ES and INTEN. `moved` is a history variable. The microcode is reduced
to the descriptor it was made for; it ends in DMASEV and DMAEND, the two steps
`HwSev` and `HwEnd`. `crash` records a NULL dereference, a wild index or a lock
left behind, and stops the model.

Several behaviours of the driver break its own properties. They are switched by
the constant `Env` (the comment above `Hazards` says what each one is), so that
the properties can be checked with and without them.

### DMA330

`dma330_tasklet` holds `pch->lock` while it takes and drops `dmac->lock`, so it
is a program with labels: `entry`, `harvest`, `fill`, `hook`, `start`, `finish`,
`callback`. It has two runners, the tasklet itself (`"soft"`) and the client,
which runs the same body in `dma330_issue_pending` (`"client"`). Completion
callbacks of the scheduled tasklet may call any entry point. One that the client's
own run of the body makes (`socle_dma330.c:2004-2008`, called at 2214-2224) may
call all but `dma330_issue_pending`, which would run the body inside itself. `SMP =
FALSE` is the board the device tree describes: one processor, interrupts off under
a lock, tasklets before clients. The definitions under "Who may run" say exactly
that. On several processors (`SMP = TRUE`) lists and locks are those of the code, but
each operation on `desc_pool` is one step, although some hold `pch->lock` alone
(1999, 2107-2109, 2177).

`EngineChannel(c)` is the refinement mapping to `DmaEngine`: what is on
`submitted_list` is waiting there, what is on `work_list` is active, what is on
`completed_list` is finished and not yet reported; a cookie is one number. The
four lists and the DONE marks, two tasklets and their interrupts become six
operations of a queue. A step of the core is `Move` or a stutter, taking
descriptors from `work_list` is one `Complete` each, a callback is `Report`.

### Spidev

A critical section of `device_list_lock` or `spi_lock` is one action: `Open`,
`Release`, `Probe`, and the two halves `RemoveUnbind` and `RemoveUnlist` of
`spidev_remove`, between which other processes run. `buf_lock` is held across a
wait, so an operation is a program over `pc`: `ReadWrite` or `Ioctl` (which
takes a reference to the device first), `IoctlLock`, one of `IoctlRead`,
`IoctlWrite` with `IoctlSetup` and `IoctlRestore`, and `IoctlMessage`; then
`Sync`, `Complete` by the SPI core, `Woken`, `Unlock`. `live` is the set of
pieces of memory that are allocated; the properties relate it to everything that
points there. Mode, word size and speed of a device are one value, `setting`,
and `spi_setup` refuses the ones in `Refused`.

### I2C

A transfer is the sequence of its bytes (`Program`), addresses included. `Issue`
writes a command, `Answered`, `Lost` and `TimedOut` are the three ends of a wait,
`Stop` and `Sleep` the end of an attempt. `Isr` copies the answer from the
controller's register to the flags. A flag holds the name of the byte it was set
for instead of TRUE: the code cannot see the name, the properties can. `HwByte`,
`HwLose` and `HwStop` are the controller. One definition in the module stands for
the waits of reading, sending and addressing, which the code has three times.

`I2CBus` keeps of that the transfer, the number of the attempt and the bytes done
in it. `Done` is the mapping: an attempt that begins again has done nothing, and
a command whose byte is still on the wire is not done.

### SpiPio

The thread's actions are the steps of `socle_spi_transfer_one_message` and
`socle_spi_txrx_bufs`: `SetupXfer`, `Load`, `Fill`, `Start`, `Woken`, `Return`,
`Finalize`. The interrupt handler is not atomic: it runs on another processor,
or the controller works on between two turns of its loops, so each turn is an
action (`IsrDrain`, `IsrFill`) between `IsrEnter` and `IsrDrained` or `IsrExit`.
The controller is external; it follows its data sheet,
`src/src/doc/F2/ip-spi/BOOT_SPI_1.pdf`: simultaneous transfer is disabled, so it
sends first and receives then; the clock stops when a FIFO has no room or no
word. `frame`, `due` and `answers` are history variables: what the chip has seen
since it was selected, what the message has for it since then, and what the chip
has answered. `socle_spi_setup`, whose soft reset can come beside a transfer of
another device, is not modelled. `due` follows the `cs_change` of the message alone, not the driver's
variable of that name.

### SpiDma

Two drivers that differ by a few lines: `spi-socle-test.c`, and with the hazard
`ftk` `spi-ftk-dma330.c`, which leaves the interrupts on that `txrx_bufs` begins
with and does not flush the transmit FIFO. (Definitions whose code is the same in
both are mapped to one of them.) The wait for TXRX_RUN at the end of a
transfer is commented out in the code, and `Return` has none. A transfer is
`Load`, then `TxByCpu` or `TxSubmit` and `TxIssue`, then `RxByCpu` or `RxSubmit`
and `RxIssue`, then `Wait` and `Return`; without channels `Load`, `Fill`, `Wait`,
`Return`. Which words the thread, the handler or DMA moves depends on their
number (`TxMost`, `RxMost`). `Tx` and `Rx` are instances of `DmaEngine`: the driver
submits and issues, `TxWord` and `RxWord` are the channel's moves of one word
each, `TxComplete` and `RxComplete` its interrupt, and `TxCallback` and
`RxCallback` its reports, in two steps because the code wakes the thread up
before it clears the bit the thread waits for. The interrupt handler is one
step here: how its loops interleave with the controller is what `SpiPio` is
about. With simultaneous transfer enabled the controller exchanges a word for a
word; `MCMessages` has the mixtures that matter.

Four of the things that go wrong in these drivers depend on the messages and on
the moment of the interrupt, so the module names what keeps clear of them.
`Settled`: what is only sent is followed, the chip still selected, by a transfer
that only receives, as a command is by its answer; this is waited for, and it
begins when the words are out (otherwise `txonly`). `Orderly`: nothing is received
without DMA after something that was received with it, unless the chip has been
deselected between (otherwise `stale`). The handler takes an interrupt before the
thread begins the next transfer, which masks it (otherwise `slow`), and is not run
beside the thread by another processor, nor are callbacks (otherwise `beside`).
`dmaengine_slave_config` succeeds (otherwise `fail`; the transfer is then submitted
and issued before the error is returned, as in the code).

### RTC

The chip (`clock`, `st`, `ht`, `rs`, `sqwe`, `wd`) is modelled from its data sheet
as far as the driver reads and writes it. One action is one transfer of the I2C
bus: `ProbeHt` to `ProbeEnd` are `m41t80_probe`, `SetTime`, `SetRead`, `SetWrite`
`m41t80_rtc_set_time`, `Store` to `SqwOn` `m41t80_sysfs_set_sqwfreq`, the rest the
watchdog with `m41t80_rtc_mutex`. Every transfer may fail; one that writes may have
written its first bytes, as the driver below makes several attempts. A date is
a day and a time of day: BCD is a bijection on the values the driver writes
and no property tells its digits apart. The registers begin with what power-up or
an earlier boot has left in them. `expected`, `wave` and `told` are history
variables: what the date set last has become by now, the frequency stored last,
whether the last word to the watchdog was a ping; after a failed transfer they
are unknown. Of a transfer to the watchdog register the driver does not tell its
user that it failed; the hazard `deaf` is a user who believes it.

The driver takes no lock that is common to its functions. What its users would
have to keep apart is in `Hazards`; the passing run keeps it apart and the table
below says what happens otherwise.

### AT25

`AT25` is the module of a client: every message it submits runs through the
actions of `SpiPio`, word by word, and the chip sees `frame` when it is
deselected. A write is a program over `at`: `wren`, `write`, `rdsr`, page after
page, under `at25->lock`. `PollTimeout` may happen when three retries are over
and, without the hazard `slow`, the chip has finished. `Bytes` is the part of `buf`
that a segment sends. `Protected` are the addresses to which the chip ignores a
WRITE: none, or with the hazard `readonly` its upper half, as the bits BP0 and BP1
of the status register say; the driver neither sets nor reads them.

### Microcode

`DMA330Core` lets a request that runs to its end have moved its data. `Microcode`
is where that comes from. `Program(c, lockupFree)` is the program `_setup_req`
writes for a request, byte by byte: every `_emit_` function is a definition of
the same name, of as many bytes as its `SZ_` constant says, so that the dry run
of the code is the `Len` of the program. `LoopCounts`, `Unrolled` and `Loop` are
the three parts of `_loop`. `Submit` is `dma330_submit_req` with the program
written to the free half of `mem`; `Exec` is the controller, one instruction at a
step, with a burst stalling as long as the MFIFO has no room for it. A submission
may come between any two instructions of the program in the other half. SEV, END
and the handler that retires the request are one step, `ExecSevEnd`. `BeatMax` is any
width the bits of CRD can tell (`Widths`), and `Lines` any share of the MFIFO, 0 if it
has fewer lines than there are channels. `Roomy` says what a channel's share has to
hold, and what the driver does not check.

### What is left out of the other modules

* `Microcode`: addresses and their increments, the protection, cache and swap
  fields of the CCR, the moments at which a peripheral has data, the alignment
  of beats within an MFIFO entry, directions other than the three, and the
  instant between SEV and END;

* `Spidev`: what messages carry and the arithmetic of the bounce buffer, failing
  allocations, compat ioctls, loading and unloading of the module;
* `SpiDma`: what `SpiPio` leaves out, `socle_spi_setup` with its soft reset among it, messages
  without transfers, a FIFO that the thread's own words fill (`TxMost < Depth`), overruns (which `SpiPio` has), the use of the
  channels by other drivers, and failing requests for a channel after which
  probe goes on with one of them;
* `RTC`: BCD, reading the date and the flags file, which change nothing, the
  battery bit, `wdt_margin` as a module parameter, and removal while a
  sysfs or watchdog file is in use. `Store` has the driver bound, although nothing
  removes the sysfs files: after a removal or a failed probe the driver data
  they use is NULL, and during a later probe it is that probe's
  (`rtc-m41t80.c:273-277`);
* `I2C`: data values, the acknowledge bit of the master, the clock divisor, the
  order of steps in probe, that the three flags share a byte of memory, and the
  exception of `CONFIG_BOARD_SPAD` (`i2c-socle.c:161-163`), a board of its own;
* `SpiPio`: `socle_spi_setup` and its soft reset, SPI modes and the clock divisor, words wider than a byte, lengths
  beyond the 16 bits of TXCR and RXCR, suspend, resume and remove,
  `SIMULTANEOUSLY_TRANSFER_ENABLE` (not defined); the SPI core's thread is a
  kernel thread and gets no signals;
* `spi-socle-dma.c`: an earlier driver for the same controllers with a FIFO four
  bytes wide, in which the callbacks move what is left of a partial word. What it
  has in common with `spi-socle-test.c` is in `SpiDma`, its own order of steps
  and its waits are not modelled;
* `AT25`: how sections come to be protected, failing allocations, addresses of two and three bytes, pages larger
  than `PAGE_SIZE`, `at25_np_to_chip`, probe and remove.

### What is left out of the DMA330

* faults of the manager thread, `reset_dmac` and the DYING state;
* security states, device tree translation, `DMA_SLAVE_CONFIG`, `dma330_filter`
  (they set no control state); residues;
* failing allocations, probe failures, driver removal, and the growth of the
  descriptor pool: `Descs` is the number of descriptors there ever are;
* a failing `dma330_alloc_chan_resources`, which acquires nothing;
* that KILL takes the controller some time: the code polls until it is over;
* in `dma330_release_channel` the instant between `_stop` and the freeing of the
  event under `dmac->lock`;
* `issue_pending` called by a callback that the client's own run of the tasklet's
  body makes;
* `desc_pool` under different locks on several processors: each of its operations is
  a step. What is proved of the pool is proved for one processor.

## 3. Runs

| Run | Module and cfg | Question |
|---|---|---|
| `core` | `MCDMA330Core`, `DMA330Core.cfg` | two threads under any well-behaved layer above: lost, repeated or early requests; crashes |
| `dma330_orderly` | `MCDMA330`, `DMA330_orderly.cfg` | one channel, chains of up to two descriptors or a cycle of three, no hazard: BUG_ON; that the channel is a `DmaEngine` (`EngineSpec`) and keeps the rules of the core (`CoreSpec`); what is issued comes to its callback, a cyclic transfer of three periods goes on |
| `dma330_hazards` | `MCDMA330`, `DMA330_hazards.cfg` | what holds whatever goes wrong |
| `dma330_late` | `MCDMA330`, `DMA330_late.cfg` | violation: a transfer that ends while the tasklet has interrupts off |
| `spidev_orderly` | `MCSpidev`, `Spidev_orderly.cfg` | two processes, two devices bound and removed at any time: memory, buffers, settings; every operation ends |
| `spidev_close` | `MCSpidev`, `Spidev_close.cfg` | violation: the last close inside `spidev_remove` |
| `i2c_orderly` | `MCI2C`, `I2C_orderly.cfg` | thread and controller stay in step through NAKs, lost arbitration, timeouts and retries; the driver implements `I2CBus`; every transfer ends |
| `spi_pio` | `MCSpiPio`, `SpiPio.cfg` | words go to their places, in order; a transfer that returns is complete; every message ends |
| `spi_dma` | `MCSpiDma`, `SpiDma.cfg` | the same with DMA: what the chip sees, what has happened when a transfer returns, and that every message ends; what is only sent is followed by a receive |
| `microcode` | `MCMicrocode`, `Microcode.cfg` | a program moves exactly the bytes of its request, never waits for room that nobody makes, ends, and is not overwritten while it is hooked |
| `at25` | `MCAT25`, `AT25.cfg` | what is reported written is stored, what is read is what is stored, nothing else changes; every call returns; a chip without write protection |
| `rtc` | `MCRTC`, `RTC.cfg` | clock and square wave of four kinds of chip do what they were told last, through failing transfers, failing probes and removal; the watchdog, used by one process at a time, has the margin of the last ping that reached it |

Bounds of the DMA330. Two request slots are the resource the core is about: three descriptors
are the least that make a submission find them full, two threads the least that
let events and callbacks of different threads cross. In the channel layer three
descriptors give a chain of two with a third waiting behind it; `MaxCookie`
lets every descriptor be submitted once in a run, and reuse of a descriptor is
covered by `core`, whose `Recycle` has no bound. `CHECK_DEADLOCK FALSE` is set
because a bounded client that has used its cookies may stop, and because a
crash stops the model. Symmetry over `Descs` is used only in `core`, which has no
temporal property. `dma330_orderly` has chains and a cycle of three periods in one
channel (103,560 states); `dma330_hazards` six hazards with two descriptors (1.85
million). The type invariants of `DMA330Core`, `DMA330`, `AT25`, `Spidev`, `I2C`, `RTC`, `SpiPio`
and `SpiDma` are in no run: they are theorems.

Bounds of the others. `Spidev`: two devices and two minors, and three pieces of
memory, so that a device can be bound again while the memory of its earlier life
is kept by an open file; one setting that is accepted and one that is refused.
`I2C`: five attempts, as in the code; transfers of two messages, with
`I2C_M_IGNORE_NAK`, with a ten bit address, and one without messages. `SpiPio`: FIFOs of three words
with a trigger level of two, so that transfers of one to five words are shorter,
as long as, and longer than a FIFO; the messages put a transfer that only
receives before ones that do either, with and without `cs_change`. `AT25`: a
chip of two pages of two bytes, and requests from the middle of a page, across
both pages, at the last byte and beyond the end; the bytes of a call differ from
each other and from page to page, some equal to the erased one (`MCBuffers`). In `AT25` it is settled in the initial state whether
the bus driver supports the word size of the device (`bits`). `SpiDma`: FIFOs of
three words with a trigger of two, at most two words sent and one received
without DMA, so that a message of one to five words is moved by each of the
four combinations; two words, so that order shows; `MaxCookie` lets every
channel be used six times, which is three messages of two transfers (134,819
states). `RTC`: one chip of each kind, two processes, one date, on the last
moment of a day of two moments, so that midnight is one step away; frequencies
0, 1 and 32768, whose code is irregular; margins of 32 seconds, the least counted in
steps of four, of 35, which loses most, and the 60 of the driver; one day may pass
(4.2 million states). Symmetry is used:
the only temporal property is an action property.
`Microcode`: counters up to three, jumps up to 31 bytes, halves of 72 bytes and a bus
of four bytes stand for 256, 255, 256 and whatever the controller has, so that a few
dozen bursts meet every case that takes megabytes in the code: one counter and two,
at their limits, one more and one less; a body unrolled as often as needed, as
far as a jump reaches, and more; a nest and a rest; a program that is too long; a
length that is refused; both revisions of the controller. `Lines` = 1 leaves room for
four bytes, fewer than the 15 of `Copy(15, 1)`; with `Lines` = 0 the controller stands still
at the first load. `Microcode_proofs` treats all values, the real ones among them.

Fairness of the DMA330 (`FairSpec`). The controller ends its transfers; interrupts are
delivered; tasklets that are scheduled run; a client that has taken `pch->lock`
goes on; spin locks are given out fairly, hence strong fairness. Clients need
not call at all: `IssuePending` and the other entry points are not fair.

Fairness of the others. `Spidev`: a process in an operation goes on and its
mutexes are given out fairly (strong fairness), and the SPI core completes what
it was given; nobody has to call, probe or remove. `I2C`: the thread runs,
interrupts are delivered, the controller finishes a byte or loses it, a STOP
condition comes to its end; that a wait ends without an answer is `TimedOut`, part
of the thread. `SpiPio`: thread, handler and controller, each weakly fair; there
is no timeout in that driver, so `MessageEnds` rests on the controller's going on
while its FIFOs let it. `AT25`: strong fairness of the process for its mutex, weak
fairness of the bus and of the end of a write cycle. `SpiDma`: thread, handler,
callbacks, both channels (they implement `DmaEngine`, and `IssuedCompletes` of
`dma330_orderly` is that what was issued comes to the callback of its client) and the controller, each weakly fair. `RTC` has
no liveness property: every call ends after a fixed number of transfers. `Microcode`: the driver starts
what is hooked and the controller executes; nobody has to submit.

### What the violations show

`dma330_late`: `dma330_tasklet` ends with `_start` under both locks. If the
transfer in slot 0 has just ended, its thread reads STOPPED, its request is
still hooked, and `_trigger` starts a request again that has run, or its
successor; the interrupt of the first run is then taken for the second, whose
descriptor becomes DONE without having been moved.

`spidev_close`: `spidev_remove` clears `spi` under `spi_lock` and takes
`device_list_lock` afterwards. A last close in between sees `spi` NULL and frees
the memory, which is still on `device_list`; the removal then unlinks it and
frees it again.

### Seen with other configurations

These are no runs of the project; each takes a change of `Env` in the cfg of
the passing run of its module. First the DMA330, with `DMA330_orderly.cfg`
(one processor, one channel, two descriptors).

| Env | violated | why |
|---|---|---|
| late | DoneMeansTransferred, NoCrash, EngineSpec | as above |
| terminate | DoneMeansTransferred, NoCrash, NoOops | an interrupt raised before `_stop` finds its request detached; from a callback, descriptors on `completed_list` are completed twice |
| pause | NoCrash | the lock is left held if nothing runs |
| fault | DoneMeansTransferred | `dma_dma330_rqcb` ignores the error |
| fault, fair | IssuedCompletes | `fill_queue` gives up while a reset is pending and is not called again |
| release | NoCrash | `dma330_release_channel` calls back under `pch->lock` |
| refuse | EngineSpec | a refused request completes ahead of those before it |
| mixed, with `Periods = 1` | EngineSpec, NoOops | `pch->cyclic` is set for the whole channel and never cleared: a transfer queued beside a cyclic one, or after it, is cycled too and its cookie never completes |

The other modules:

| Module, Env | violated | why |
|---|---|---|
| `Spidev`, rebind | SettingsAccepted | `buf_lock` belongs to the `spidev_data`; a device bound again has a second one, and the comment at `spidev.c:348` counts on there being one |
| `I2C`, late | BusSpec | a flag set for one byte is taken for the next, and all later ones with it |
| `I2C`, signal | InStep, BusSpec | the result of `wait_event_interruptible_timeout` is compared with 0 only, in an unsigned variable: -ERESTARTSYS passes for an answer, and the thread goes on while the controller still works on the byte |
| `I2C`, arbit | InStep, BusSpec | an arbitration loss is left in its flag for the next byte |
| `I2C`, ignore | BusSpec | `I2C_M_IGNORE_NAK` makes the driver go on after timeouts and lost arbitration too |
| `SpiPio`, flag | CompleteOnReturn | the handler's loop ends at `tx_xfer_cnt == len` only; if the transmit flag is raised with no word left it reads behind `tx_buf` |
| `SpiPio`, overrun | ReceivedInOrder, CompleteOnReturn, MessageEnds | a lost word is reported as a shorter success; the flag stays set and the interrupt does not end |
| `AT25`, slow | WrittenIsStored, ReadIsStored | after a timeout the chip is still busy, ignores the next WREN and WRITE, and then reads as ready: a write is reported that never was; the comment at `at25.c:57` calls it important to recover from write timeouts |
| `AT25`, readonly | WrittenIsStored | see below |
| `SpiDma`, txonly | WordsInOrder | see below |
| `SpiDma`, stale | WordsInOrder, CompleteOnReturn, MessageEnds | the flag receive complete of a transfer received by DMA is still set when the next one is received by the handler, which takes it for its own |
| `SpiDma`, ftk | the same | interrupts stay enabled through a transfer, and the handler moves words that a channel moves |
| `SpiDma`, slow | WordsInOrder, CompleteOnReturn | an interrupt that `setupxfer` has let through is taken in the middle of the next transfer |
| `SpiDma`, beside | MessageEnds | the thread, woken on another processor before the callback clears its bit, sleeps again for good |
| `SpiDma`, fail | WordsInOrder, CompleteOnReturn, MessageEnds | a channel cannot be configured, or refuses, and the message fails, while what was submitted goes on |
| `RTC`, early | ClockKept | the date is set between probe's reading and writing back of register SEC |
| `RTC`, race or stores | SquareWaveAsTold, NoGlitch; with race ClockKept too | two read-modify-writes of one register |
| `RTC`, midnight | ClockKept | the weekday of an m41t62 is written back after it has changed |
| `RTC`, threads | WatchdogAsTold | `wdt_write` and the reboot notifier take no lock, and a margin is known before the chip has it |
| `RTC`, deaf | WatchdogAsTold | errors of transfers are ignored |
| `RTC`, reborn | WatchdogAsTold | see below |

Four of these contradict what a comment says, or need no unusual environment; the
comments of the properties say how far they go.

* A cyclic transfer of two periods stops with no hazard at all (`CyclicGoesOn`, with
  `Descs = {d1, d2}`, `MaxSg = 0`, `Periods = 2` and `MaxCookie = 2` in
  `DMA330_orderly.cfg`): both can complete before the tasklet runs. It finds nothing
  PREP to hook, starts nothing, and only then recycles the periods to PREP. No
  interrupt follows and nobody schedules the tasklet again, though the comment at
  `socle_dma330.c:1979` says that `_start` makes sure the thread is active. With three
  periods one is always PREP or hooked, which `dma330_orderly` checks.
* `SpiDma`, txonly: the bit `TX_XFER_RUN` is cleared when the last word has been
  given to the FIFO, and the wait for TXRX_RUN that the comments at
  `spi-socle-test.c:798-804` announce is commented out (803). After a transfer that
  only sends the chip is deselected (916-920), or the next transfer clears the FIFO
  (658), before the device has seen the words.
* `AT25`, readonly (`ChipEnv = {"readonly"}`): the chip ignores the WRITE and is ready
  at once; the driver looks at `AT25_SR_nRDY` alone and reports the bytes as written.
  The comment at `at25.c:224-226` says that this "should detect (or prevent) failed
  writes to readonly sections".
* `RTC`, reborn: the notifier of a reboot turns the watchdog off once; a process that
  still has it open pings it, and it is on for the reboot, which the comment at
  `rtc-m41t80.c:577-580` means to prevent.

With the real constants the generator does not reach what the comment at
`socle_dma330.c:241` says of a buffer of 256 bytes, "more than 2.5MB and 5MB xfers
per req at 1byte/burst for P<->M and M<->M". A burst of a peripheral takes 7 bytes of
program, that of a copy 4 before revision r1p0, and with 23 bytes around the
loops `Program` is longer than 256 bytes, and refused with -ENOMEM, for some
requests above 1.9 and 3.4 million bursts and for all above 2.1 and 3.7 million;
only from r1p0 on does a copy reach 6.8 million.

`dma330_prep_dma_memcpy` means to move one beat at a time when beats are narrower
than the bus (comment at `socle_dma330.c:2530`), but the next statement overwrites
that length; `Copy(15, 1)` of `MCMicrocode` is moved in bursts of three beats.

In `rtc-m41t80.c` nothing removes the sysfs group that probe adds: once a probe
has come that far a later one, after a removal or a failure, fails with -EEXIST
(`group` in `ProbeEnd`), and the driver is never bound again.

`actual_length` of a message that `spi-socle-test.c` moves by DMA is 0: `t->len` is
overwritten by a count that only programmed I/O advances (`Counted`).

`TerminateCompletesAll` fails with no hazard at all: `DMA_TERMINATE_ALL`
completes the cookies of `submitted_list` before those of `work_list`.

## 4. Proofs

`DMA330Core_proofs` proves, for any number of threads, events and descriptors
and under every hazard, that `OwnInv` is inductive: `CoreTypeOK`, that the
descriptor of the recovery tasklet matches its step, and the three parts of
`ThreadsOwned`: `EventsOwned`, `FreeStopped` and `RunningInterrupts`. The four need each other: that a released
thread is stopped needs the thread that releases it to own its event, and that
an executing thread's event is unmasked needs the events of two threads to
differ, for stopping one masks its event.

With `Env = {}` it proves `OrderlyInv`, which
adds to `OwnInv` what ties the interrupt handler to the controller: an event is
raised only for an owned thread with its request hooked; a thread that executes
runs the request of its `req_running`; a moved descriptor is one whose event is
raised or whose callback is due; a hooked descriptor is BUSY and hooked once; a
due one is BUSY and not hooked; a BUSY one is hooked or due. From it follow
`HwRunsHooked`, `MovedOnce`, `ReportsMoved`, `BusyAccounted` and `NoCrash`. The
assumption is needed: the runs above show each of them to fail with hazards.

Both rest on `CoreAssumption` alone.

`DMA330_proofs` is about the channels above the core, for any number of channels,
descriptors, cookies and hazards, any length of chain and cycle. It
goes up in three steps, each with an invariant that contains the last.

`BaseInv` holds under every hazard. It gives `LayerTypeCorrect`, `LayerThreadsOwned` and
`EveryDescOnceAlways`. `Once` says that the lists share nothing, for one channel and for
two, `Acquired` that a channel without a thread has nothing on its lists, and
`Locking` that whoever is in the middle of the tasklet's body or of a command holds
`pch->lock`: without it, two runners would take the same descriptor from
`work_list`. The steps of the core are covered by what they leave alone. Each
list operation is one lemma about sequences without duplicates (`ConcatOnce`,
`CutOnce`, `RemoveOnce`, `TailOnce`), proved without an induction from what the
library says of their elements.

`LayerInv` needs `Env = {}`. It adds `OrderlyInv` of the core, and what the list of a
descriptor tells of its status and its owner (`Statuses`), that what a thread has
hooked is on `work_list` (`HookedWork`), and that nothing completes between the two parts of
a termination (`Terminating`). The refinement `ImplementsCore` follows: a step of the layer is
one that `Caller` or `Recycle` of the core permits. That is what the proofs of the core assume
of their environment, so that its theorems (`MovedOnce`, `NoCrash` and the others) hold
of the whole driver. `DoneMeansTransferredAlways` is one of its conjuncts.

`EngineInv` adds the order. `Sorted`: `work_list` is first DONE, then BUSY, then PREP. `InTurn`:
of two hooked requests the thread carries out the one hooked first, which comes first in
`work_list`; `lstenq` is what the driver knows of it. `DueFirst`: a request whose
callback is due comes before those that are still hooked, though the thread was started
again before that callback. `CookiesDue`: the cookies of what is still due lie between
`completed_cookie` and `cookie`, and increase along `work_list` and `submitted_list`
unless the channel is cyclic. The first three need each other: a list stays
sorted when a request completes because the one that is due is the first that is BUSY; it is
due first because it ran first; and it ran first because it was hooked from a sorted list. `NoOopsAlways` and `ImplementsEngine` follow: the
one step `HwSev` is `Move` of the first transfer that is due, `Harvest` takes the first of
`work_list` and is `Complete`, `Finish` is `Report`, and what another channel does is a
stutter of this one (`OthersKept`).

The assumptions are `CoreAssumption` and `ChannelAssumption`, which says that descriptors are
finitely many (the pool is a list of all of them) and that `NULL` is no channel. `Env = {}`
is the whole of what an orderly environment means; the table above says which hazard
breaks which of these. `EveryDescOnceAlways` is for one processor (`~SMP`), where whoever changes
`desc_pool` has interrupts off. The other theorems leave `SMP` open: they are about lists that
`pch->lock` guards and threads that `dmac->lock` guards, but of several processors they
say only what holds where an operation on `desc_pool` is a step, which the code, with its two
locks, does not guarantee.

`I2C_proofs` proves `TypeOK` under every hazard and, with `Env = {}`, `InStep`,
`SuccessMeansDone`, `AnswersAwaited` and the refinement `BusSpec` for any messages and any number of
attempts. `InStep` is not inductive: `LineInv` says besides where the byte is that
the thread waits for. It is in exactly one place, on the wire, in the interrupt
register, in a flag, or lost (`WireFirst`, `Interrupts`, `FlagsLast`,
`LostNotSkipped`); the answer in the register or the flag is that of this byte
(`AnswerKept`); and the bytes done are the program up to it (`Progress`). The proof
rests on `I2CAssumption` alone; that the program of a transfer is a sequence of
byte records, whatever the messages, is the lemma `ProgramType`.

`ImplementsBus` follows from the same invariant: every action of `I2C` is mapped
to an operation of `I2CBus` or a stutter, and what needs the invariant is that
`Done` advances byte by byte and that success comes with the last.

`Microcode_proofs` rests on `MicrocodeAssumption` alone. `LoopSound`: for any number of
bursts, any kind of request, and counters and jumps of any size from 2 iterations
and 15 bytes, a nest of loops moves between one and all of the bursts, its counts
fit the counters, and its jumps the operands; the argument is that of two divisions
with rest. `ProgramIntactAlways`: the program of a hooked request stays whole in its
half (`MemInv`), for `Written` touches one half if the dry run fits into it, and that
half is free.

`MovesExactlyAlways` is what the generator is for: that a program, of however many
nests of loops, moves each byte of its request once before its event. Two things
have to be shown. The first is what `_setup_loops` generates: its recursion goes on for as
many nests as the bursts need, so the proof has to be an induction. The induction
theorems of the library cannot be used, but a set of naturals that is not empty has
a least element (`LeastNat`, from the library's well-founded relations), and the least
number of bursts for which something fails is a contradiction. `TableExists`
and `TableAgrees` say in this way that there is one table of loops for up to any
number of bursts, `LoopsEquation` that `SetupLoops` obeys the equation it is defined by,
and `ProgramCode` what the bytes of a program are. The second is the run. `MoveInv`
says that the controller is at a place of its program that accounts for the bytes: in
the prologue, before the loops for `b` bursts that are left (`AtLoops`), or in a nest,
where what is left is the copies of the body to come in this round, a round for
each iteration the two counters still hold, and the rest behind the nest (`AtInner`,
`InBody`, `AtInnerEnd`, `AtOuterEnd`). One lemma for each place says that the instruction
there leads to another place (`PrologueAdvance` to `AtOuterEndAdvance`); the two that jump
back need that the operands were not cut.

`NeverStuckAlways` follows from `MoveInv` and `BurstFits`: at a load nothing is on its way, at
a store one burst, and a burst is what `get_burst_len` allows. It is the safety half of
`ProgramEnds`. It is proved for every width of the bus and every share of the MFIFO that the driver can
read, under the hypothesis `Roomy`, which stands in the property: the share of a copy is not 0,
and that of a device holds a beat of its register. The driver checks neither; with a share of 0 a
program waits for ever.

`Spidev_proofs` proves, for any number of devices, processes and minors, that
`UsesAllocated`, `NoLeak` and `BufferWhileOpen` hold unless a file is closed in
the middle of `spidev_remove` (`"close"` is not in `Env`; `rebind` may be).
`MemoryInv` says besides that device and data refer to each other, that data is on
the list from its probe to the second half of its removal, and that `users`
counts the files; then the first half of the removal and the last close cannot both
leave the memory to the other, nor both free it. `SettingsAccepted` needs
`Env = {}`: `Locked` says that two operations that hold the same device have opened
the same data, and so wait for the same lock; `Saved` that what will be restored
was accepted. The proof needs `Procs` to be finite, for `users` is a cardinality.

`RTC_proofs` proves `ClockKept`, `NoGlitch`, `SquareWaveAsTold` and
`WatchdogAsTold` with `Env = {}`, for any processes, dates, margins, and all
frequencies that `FreqAssumption` admits: those whose code reads back as the
same frequency, which is every power of two up to 32768 but 16384, for which the chip
has none. `BoundFirst` and `KeptApart` say who is never in the middle of an operation
at the same time; `ClockInv`, that no stop bit and no stale weekday is on its way
to the chip; `WaveInv`, what a store has done so far; `DogInv`, that a ping on its
way has the driver's margin. `PingMargin` is the arithmetic: for every margin
from 1 to 124 seconds the register holds it, or up to three seconds less. Of the watchdog
no more is proved than that: one use comes after another, and after a transfer that failed
nothing is claimed.

`AT25_proofs` begins with `SpiPio`. It proves `SentInOrder` and `CompleteOnReturn` with `Env = {}`, and
`ReceivedInOrder` whenever `"overrun"` is not in `Env`, for any words, messages, depth
of the FIFOs and trigger level up to it. The invariant has two halves that meet only in
`xferStat`. `Receiver` says that without the bit RX there is nothing to be received or
drained, so that a handler that is late for one transfer cannot touch the next, and
`Answered` that buffer and FIFO together are what the chip has answered.
`Transmitter` says that the transmit interrupt is enabled, and its handler in the
loop, only while words are still to be written, and `Sent` that what has been sent,
what is in the FIFO and what is still to be written is together what is due;
`Between` carries it from transfer to transfer through `cs_change`. The equations on
sequences hold without an induction, for a step moves one element from the head of
one to the end of the next (`MovesOver`, `RestBegins`).

It goes on with `ReadIsStored`, `WrittenIsStored`, `OnlyRequested` and
`TypeOK` with `Env = {}` and `ChipEnv = {}` (no section of the chip is readonly, and it is ready
within `EE_TIMEOUT`: the driver notices neither), for any buffers, a chip and pages of any size (one a
multiple of the other), any requests, processes, FIFO depth and trigger level. It
is the composition: at25.c, the SPI core, spi-socle.c, the controller and the chip. A
step of `AT25` is a `SpiStep` of the driver below or leaves it alone (`Mapped`), so
`IInv` of the driver holds here too; its `Sent` and `Answered` become `MessageInv`:
while the chip is selected it is sent the command and nothing else, and the second
buffer of a finished message is what it has answered. `Locked` keeps one operation
at a time on the bus, and `Underway` has one part for each of its messages:
`Reading` (what is answered so far is what is stored), `Enabling` (a finished WREN has
set the latch), `Writing` (a finished WRITE has stored its page), `Polling` (READY says
that the chip is idle), and `PagesStored` for the pages before. A page is stored
within its bounds because `Segment` ends with it (`SegmentFits`, `WithinPage`,
`ProgrammedWithinPage`).

`SpiDma_proofs` proves `WordsInOrder`, `CompleteOnReturn` and `TypeInv` with no hazard but
`"beside"`, that is, with callbacks before the thread goes on or beside it, for any words, depth of
the FIFOs, trigger level and limits, and for messages that are `Orderly` and `Settled` and a handler
that takes an interrupt before the next transfer. Three who move words share a transfer, the thread, the handler and a channel, and what
has to be shown is that no two move the same. `TxChannel` and `RxChannel` say when a
channel works: for the transfer under way alone, from its submission to the call that
reports it, and never while its callback is under way; the lemmas on `Unused`,
`Waiting`, `Moving`, `Moved` and `Done` follow it through the operations of
`DmaEngine`. `Interrupts` says the same of the handler: while a channel works it is not let
in, though it would act on every flag (`IsrWhere`). Its hard part is the flag receive
complete, which a transfer that a channel has received leaves raised: `Stale` remembers
that the chip has stayed selected since, and an orderly message then receives nothing
without DMA. `Sending` and `Receiving` are the equations: what is sent, what is in the FIFO
and what is still to be written, by whomever (`Rest`), is what is due; and what has been read,
by whomever (`Taken`), and what is in the FIFO is what was answered. What a transfer that only
sends leaves in the FIFO is carried into the one that follows and receives (`Trailing`). `Bits` ties them to the
wait: the receiver's bit stays set while there is something to receive. That the words are complete when the
thread returns needs `Clock`, for nothing waits for the sender: a transfer that goes both ways
exchanges word for word, and one that only receives begins when the last word is out. The proof made one assumption explicit, `RxMost <= TxMost`
(2 and 4 in the code). Otherwise the handler, let in for the words it receives, could write
words that a channel writes too; with `TxMost = 1` and `RxMost = 5` TLC finds
`WordsInOrder` violated.

The invariants `OrderlyInv`, `EngineInv` (on one processor and on two), `LineInv`, `MemInv`, `MoveInv`, `AT25Inv` and the `IInv` of `Spidev_proofs`,
`RTC_proofs`, `AT25_proofs` and `SpiDma_proofs` were model-checked before they were proved.

Only model-checked: the properties that say that something happens, under fairness, which
the prover does not handle: `IssuedCompletes`, `CyclicGoesOn`, `TransferEnds`, `ProgramEnds`,
`MessageEnds`, `CallsEnd` and `OperationsEnd`. Every other property of a passing run is a theorem. No
module declares a RECURSIVE operator, so that each can be proved about; the two
recursive functions, `SetupLoops` and that of `FlattenSeq` in `Program` of `I2C`, are
treated by the least counterexample.

## 5. State and what is left

1. Done: `DMA330Core`, `DMA330` and `DmaEngine`; `Spidev`; `I2C` and `I2CBus`; `SpiPio`;
   `SpiDma`; `AT25`; `RTC`; `Microcode`; the theorems of section 4.
2. `spi-socle-dma.c`: its partial words and waits, as a variant of `SpiDma`.
3. The list operations on `desc_pool` on two processors, below the level of
   `DMA330`; the order of steps in `socle_i2c_probe`.
4. Clock divisors of the bus drivers and BCD of the IT7C4337 test as functions
   against reference definitions (a divisor below the slowest clock).
5. Theorems: what is to be proved of the modules of 2 to 4.
