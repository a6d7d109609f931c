# A verification project for pdp1134

pdp1134 is a Zynq board that plugs into the Unibus of a PDP-11/34 and plays the
parts around it: console, memory, disks, tape, serial lines, clock, ethernet.
The FPGA (`src/zynq/*.v`) answers on the bus; daemons on the ARM
(`src/ccode/z11*.cc`) do the slow half of every device; a kernel module
(`src/ccode/km-zynqpdp11`) brings FPGA interrupts to the daemons; the command
program `z11ctrl` and the GUI load media and look into everything.

What can go wrong here is in the seams. Registers are shared by the processor,
the FPGA and several ARM threads without a common lock; processes that may be
killed at any moment share a DMA circuit and a page of memory; a bus reset
strikes in the middle of anything. The modules of this directory model those
seams, TLC checks them on small instances, and TLAPS proves most of the safety
invariants - locks, wakeups, the atomic memory behind DMA, the shared page, the
RL11, the PiDP link, the console line - for any number of processes, threads,
devices, files, commands and packets.

## The system

| part | code | state it keeps | operations | talks to |
|---|---|---|---|---|
| DMA lock | `z11util.cc` dmalock/dmaunlk, `ky11.v` register 5 | the pid that owns the circuit, a pthread mutex per process | lock, unlock, evict a dead owner | every process that does DMA |
| DMA engine | `ky11.v` dmastate, `z11util.cc` dmaread/dmawrite/dmawbyte | state, control, address, data, error bits | start, one bus cycle, poll, fetch | Unibus, the threads that hold the DMA lock |
| shared page (ShmMS) | `shmms.cc`, `shmms.h` | futex mutex, pid of the server, one command word with pid of its sender, per drive: file, read-only, fnseq | load, unload, status; fork a server; do commands | z11ctrl and GUI (clients), z11rl/z11rh/z11tm (servers) |
| kernel interrupts | `zynqpdp11.c`, `zynq.v` ZG_INTFLAGS/INTENABS | flags, enables, list of waiters | WFI ioctl, interrupt routine | all daemons |
| RL11 | `rl11.v`, `z11rl.cc` | RLCS, RLBA, RLDA, RLMP, register 4 (ready/online/volume check of all drives), file descriptors, seek times | PDP-11 commands, transfers, seeks, load, unload | shared page, DMA, interrupts |
| RH11, TM11 | `rh11.v`, `z11rh.cc`, `tm11.v`, `z11tm.cc`, `tapelib.cc` | as RL11; for tapes positions and rewinds | as RL11 | as RL11 |
| ethernet | `xe11.v`, `z11xe.cc` | PCSR registers, rings in PDP-11 memory | port commands, receive, transmit | DMA, interrupts, a raw socket |
| lines, clock, paper tape | `dl11.v`, `dz11.v`, `kw11.v`, `pc11.v` and daemons | buffers, done and enable bits, silo | character in and out, tick | interrupts, pseudo-terminals |
| console | `ky11.v` halt/step/snapshot, `z11util.cc` snapregs | switches, halt state, snapshot | halt, step, continue, read registers | processor, z11ctrl, GUI |
| bus arbitration | `intreq.v`, `intctl.v`, `zynq.v`, `sim1134.v` | requests and grants per level, who is bus master | request, grant, pass on, interrupt, NPR cycle | all bus devices |
| processor simulator | `sim1134.v` | processor state | instructions, traps, bus cycles | bus |
| PiDP link | `z11pidp.cc` | sequence numbers, switch and lamp state | numbered UDP packets | console panel |
| z11ctrl, GUI, monitors | `z11ctrl.cc`, `tclmain.cc`, `Z11GUI.java`, ... | display state | commands, displays | all of the above |

**What is hard.** Interleavings of FPGA steps, daemon threads, clients and the
PDP-11; processes killed between two accesses, whose locks and half-done
commands others must survive; a DMA engine that is still busy when its lock
changes hands; wakeups (a futex, an edge-triggered interrupt line, a timer)
that can be lost; read-modify-write of one register by three kinds of threads;
a bus reset in the middle of a command; bounds such as the 8-bit fnseq.
`PROJECT.json` lists each at its line.

**What makes each part correct.** *DMA lock*: one owner, dead owners only are
evicted, a survivor gets in. *DMA engine*: a call returns the result of its own
bus cycle or says so; together the calls are an atomic memory; every call ends.
*Futex mutex*: exclusion whatever dies where, no wakeup lost. *Shared page*: one
command at a time, its answer goes to its sender, the page says what is really
loaded, every call returns. *Kernel module*: no lost wakeup. *RL11*: the
status bits of a drive are true, a transfer keeps its file and no descriptor is
leaked, commands and seeks end, each by its own completion. *RH11*:
one transfer at a time, which ends where the PDP-11 asked and says so, while
other drives move; every command ends. *TM11*: the head stands between records,
a space counts what went by, rewinds and commands end. *Ethernet*: packets
arrive whole, once and in order, none is forgotten; port commands are answered.
*Console line*: no interrupt is lost, characters are printed in order, prompts
are answered. *PiDP*: a switch acts once and in its turn, HALT gets through.
*Console*: one bus
master at a time also when DMA skips arbitration, a halted processor is held, a
step is one instruction, a snapshot leaves the halt request as it was.

## Modules

| module | models | state and actions |
|---|---|---|
| `DmaLock` | the DMA lock | `dmalock`, `dmamutex`, a pc and `lkpid` per thread, the set `alive`. One action per access to shared state: `Claim` and `ReadBack` are the write and the read of register 5 in dmalock, `Probe` is kill (pid, 0), `Unstick` the write that evicts, `Release` the write in dmaunlk. `LockWrite` is the toggling of the register. |
| `KyDma` | EXTENDS `DmaLock` with the engine and the calls | `dmastate` and the engine's registers, `mem`, per thread the request and the results read. `Start` ... `Return` are dmareadlocked, dmawritelocked and dmawbytelocked; `Grant` ... `Finish` and `Timeout` the engine, clock by clock where it matters; `InitOn`/`InitOff` the bus reset. The thread steps of `DmaLock` are reused with the engine unchanged. |
| `DmaService` | what dmaread and dmawrite promise: an atomic memory with calls that may time out | implemented by `KyDma` (property `Atomic`) |
| `ShmMutex` | the futex mutex by pid, `lockmutex`, `msunlk`, `shmms_svr_mutexlock/unlk` | `msfutex`, `tmpfutex`; `SwapOk`, `SwapFails`, `Probe`, `Wait`, `Unlock`, `Wake` |
| `ShmMS` | shared page: clients and server incarnations | the page (`holder`, `svrpid`, `command`, `cmdpid`, `negerr`, `drive`), a pc per client and server. The mutex is taken from `ShmMutex` as an abstract lock that a dead holder loses; who sleeps is the set `sleeping`. `PostSender`/`PostLoad`/`PostName` keep the order of the stores of shmms_load, since a client may be killed between them. `StartLoad`, `LoadFile`, `FinishLoad` are the three parts of a load, whose middle runs unlocked. |
| `ShmMSProofs` | | its theorems |
| `KmWait` | WFI ioctl and interrupt routine | registers `flags`, `enabs`; `pending`, an interrupt the controller has seen; the spin lock; the list of waiters. `Registers` is every change of the line, with the rising edge. |
| `SmallProofs` | | the theorems of three small modules, `ShmMutex`, `KmWait` and `DlLine` |
| `KyHalt` | the console side of `ky11.v` against the processor of `sim1134.v`, one `intctl.v`, and a program that calls `z11util.cc` | One action, `Clock`: as in Verilog, every part changes at once from what it saw of the others. `Ky2Next` ... `DmaTimoNext` give the next value of each register of ky11.v, later assignments winning as in the source; `Halt`, `Halt2`, `Service`, ... are the processor's states of the same names; `Read`, `Write`, `StartSnap`, ... the register accesses of haltreq, contreq, stepreq, snapregs, dmaread and resetit. Delays may end at any clock, which covers normal and turbo timing. |
| `KyProofs` | | the theorems of both models of `ky11.v`: of the lock, of the engine and the calls on top of it, with the refinement of `DmaService`; and of `KyHalt`, with a lemma for what each part does in a clock and one for each part of the invariant |
| `RlDisk` | `rl11.v` and the threads of `z11rl.cc` | RLCS as `ready`, `fn`, `sel`, `err`; `rl4` is register 4; `fds` and `opened` are the descriptors and what they are open on, with the kernel's lowest-free rule; the threads' own copies (`ioloc`, `tmp`, `cmdloc`) make every read-modify-write two steps. `Disturb` says whether loads and bus resets may come while others are at work; `ioloc.alone` is history, whether the drive at work has kept clear of loads. |
| `RlDiskProofs` | | its theorems |
| `RhDisk` | `rh11.v` with the motions it does itself, and `z11rh.cc` | per drive its registers (`dr`); the one transfer `xfer` (xgo and what goes with it); `reg1`, the drive status the daemon writes; `GiveMotion` and `GiveXfer` are the PDP-11's writes of RPCS1 and RPCS2 with all they change; `IoSetup`, `IoMove`, `IoEnd2`, `IoEnd3` are dotransfer up to each register write; `LoadBegins` ... are a load, which runs without the mutex at any moment; `asked`, `kept` and `did` are the history the properties compare. |
| `RhDiskProofs` | | its theorems, and the arithmetic of a pack they rest on |
| `TapeDrive` | `tm11.v`, `z11tm.cc`, `tapelib.cc` | a file is the sequence of its words, so that the arithmetic on `curposn` is the code's; `rewend` is rewendsat, the futex of a drive, with `late` when its time is past; one timer thread per drive; the i/o thread lets the lock go in waitrewind and between the records of a space. |
| `TapeDriveProofs` | | its theorems, and what writing does to the records of a tape |
| `XeRings` | `xe11.v`, the three threads of `z11xe.cc` and the driver at the other end of the rings | `hi`, `rset`, `hijk`, `pcmd` are PCSR0; `tring`, `rring` the rings, one DMA access that another party can see per step; the actions `Io...`, `Tx...` and `Rcv...` are the threads of port commands, transmission and gotincoming, `Tx...` with the reads of length, address and owner one by one and the locks dropped around sendto; `faults` counts what ends the claims of some properties. |
| `XeRingsProofs` | | its theorems |
| `PidpLink` | client and server of `z11pidp.cc`, the packets between them | `tosvr`, `tocli`; sequence numbers; `oldrows`, the readings kept for debouncing; `SvrPass` is one turn of server(), `SvrReset` and `SvrStart` what START does before and after it lets the DMA lock go; `Intrude` lets the server restart with a switch down. |
| `PidpLinkProofs` | | its theorems |
| `DlLine` | `dl11.v`, `intreq.v`, the grant of `intctl.v`, `z11dl.cc`, a driver of the PDP-11 | `dl` the registers, `det` the edge detectors, which follow every change (`Drive`) unless a grant freezes them; `PrPoll`, `PrReady`, `PrPrint` are the read, the write and the printing in the main loop; `GotPRChar` is LookFor::GotPRChar. |
| `MC*` | | instances for TLC |

Operators named `X_Something` are variants of the operator `X` with a plausible
mistake. They are not part of the specifications; with one of them in the place
of `X` the property it is paired with in `PROJECT.json` fails, which shows that
the property depends on what the code does there.

## Runs

| run | checks | what it shows |
|---|---|---|
| `ky_dma` | `CleanReplies`, `MutualExclusion`, `OnlyDeadAreEvicted` | Also after a process was killed, or threw "dma stuck", with the engine busy: a call whose register writes were all accepted and that reports no timeout did its own bus cycle; the lock excludes. |
| `ky_atomic` | `EngineServesOwner`, `Atomic`, `CallsEnd` | While nobody leaves a busy engine behind, dmaread and dmawrite implement `DmaService`, through bus resets, timeouts and the slave that answers in the clock of the timeout; every poll ends, and a lock left by the dead does not block a survivor. |
| `shm_mutex` | `MutualExclusion`, `SomeoneGetsIn` | Two clients and a server with two threads, which the pid in the word does not tell apart; deaths anywhere. |
| `shm_ms` | `OneWaiter`, `ShownIsLoaded`, `SuccessIsReal`, `WorkerIsRegistered` | Two clients, a server forked by a client and one started by hand, three calls, everyone may be killed, fork may fail, loads may fail. |
| `km_wait` | `SleepersAreArmed`, `WaitersWake`, no deadlock | Two devices, a daemon for each, and a script that waits for both; signals. |
| `ky_halt` | `OneMaster`, `HeldWhileHalted`, `StepRunsOne`, `SnapRestores` | Calls in any order, made as soon as the one before has returned, against a processor in any state: executing, faulting, halted by an instruction or a double fault, in WAIT or RESET, granting DMA, taking an interrupt the device may withdraw; DMA addresses nobody answers, snapshots given up. |
| `rl_disk` | `DescriptorsOwned`, `StatusIsTrue`, `CommandsEnd` | Every command, in any interleaving with unloads and the timers of both drives; loads, also failing ones, with the controller at rest, closing descriptors and opening others under the same number; bus resets with the heads at rest that come before the i/o thread has read a command, so that it may find nothing to do. |
| `rh_disk` | `OneTransfer`, `EndsAsAsked`, `RhCommandsEnd` | Writes that cross sectors, tracks and cylinders, end at the end of the pack, in a missing word of memory, on a read-only pack or with the address inhibited, while the other drive is given motions, and one that does not exist, that rewrite the bank and the inhibit bit, and files come and go at any moment; and all of them end. |
| `tape_drive` | `HeadAtRecord`, `StatusTrue`, `CountsRecords`, `TapeEnds` | Every command on tapes with records and marks, rewinding on one drive while the other works, both timers on the same futex as the i/o thread. Files are loaded and power is cleared between commands. |
| `xe_rings` | `ReceivedWhole`, `NoForgottenPacket`, `SentAsQueued`, `XeWorkEnds` | Rings of two descriptors, so that they are full and wrap; received packets of one and two buffers for us and for others; packets sent from one descriptor, spread over two, or too long; a driver that fills a descriptor while it is read, stops and rebuilds its rings during sendto; DMA cycles nobody answers in every access. |
| `pidp_link` | `ActedOnce`, `HaltSwitchHalts` | START is pressed, then CONTINUE: each is acted on once, the first never after the second. Lost, repeated and overtaken packets; client and server restart; z11ctrl halts and continues as well. |
| `dl_line` | `PrintedInOrder`, `LineMoves` | Two prompts that begin alike, a typing user, a bus reset at any moment, both interrupts at once. |

The first invariant of a run contains the type invariant of its module. Every
run passes.

### Counterexamples outside the suite

What follows was met while modelling: TLC finds a behaviour of the code that
breaks the property. The theorems and runs that come near one of these carry a
hypothesis or a bound that keeps it out, and name it. A configuration given as
another with changes needs no file of its own.

| configuration | property | what happens |
|---|---|---|
| `MCShmMSUnload.cfg` | `DoneKeptForSender` | `msunload` (shmms.cc:265) sets no `cmdpid`. A client that died earlier has left its pid there; when the server has set DONE for the unload, another client that comes first sees "DONE to a process that is gone" (shmms.cc:280), marks the page idle, and the unloader waits for ever, or a third client posts its command and two wait for one answer. It takes three clients; `OneWaiter` and `SuccessIsReal` fail there as well, and the theorems carry `SendersKnown`. |
| `MCShmMS`, one client, `Ops` {"load"}, `MaxCalls` 1, `FnseqMax` 3 | `FnseqTracksName` | `fnseq`, "incremented each change in filename" (shmms.h:57), is left alone by a load that fails and empties the name |
| `MCShmMS`, one client, servers s1 and s2, `MayDie` {s1}, `Ops` {"load"} | `DoneHasTaker` | a client that gives up after a server restart leaves its command, whose answer then jams the page |
| `MCShmMutex` | `LastWaiterGetsIn`, `SleepOnlyIfHeld` | a sleeper whose holder is killed is not woken; kill (0, 0) succeeds, so a thread may sleep on a free mutex |
| `MCKmWait` | `OnlyWaitedEnabled` | bits stay enabled after a signal; harmless, as `WaitersWake` shows |
| `MCKyHaltSnap.cfg` | `SnapRestores` | a snapshot of an address nobody answers clears the halt request (ky11.v:280) instead of restoring it as z11util.cc:403 intends: a halted processor runs on |
| `MCKyHaltCont.cfg` | `Resumes` | contreq while the halt is being granted: ky11.v:231-244 gives up the request but leaves HLTRQ asserted |
| `MCRlDiskLoad.cfg` | `UnloadIsBlocked` | the i/o thread takes the mutex to "block disk from being unloaded from under us" (z11rl.cc:146), but a load runs with it released (shmms.cc:561): a transfer goes on with a closed descriptor, or with the same number open on another file |
| `MCRlDiskLoad`, `MaxCmds` 2, `Files` {f0, f1} | `StatusIsTrue` | a load writes register 4 back without the mutex and undoes what a timer or the i/o thread has written since it was read |
| `MCRlDiskInit.cfg` | `CommandIsDone` | a command given after a bus reset is marked done by the one before; `StatusIsTrue` and `CommandsEnd` fail too, since writes of the daemon are dropped while the bus is reset |
| `MCRhDiskIllegal.cfg` | `OneTransfer` | a transfer function that does not exist leaves GO set and RDY on (rh11.v:585), so that a third command changes the registers of the transfer at work |
| `MCRhDiskClear.cfg` | `EndsAsAsked` | a controller clear during a transfer: z11rh goes on with registers that are cleared or those of the next command, where rh11.v:539 delays a transfer "until it finishes" |
| `MCRhDisk`, `Spec`, `Intrude` TRUE, `MaxCmds` 0, `MaxEvents` 2 | `OnlineShown` | load and clear both rewrite the drive status from what they read (z11rh.cc:142): the online bit is lost |
| `MCTapeDriveClear.cfg` | `PowerClearSeen` | power clear during a command is wiped out by the end of that command (tm11.v:206) |
| `MCTapeDriveClear` | `CommandTaken` | a command given right after power clear is forgotten (tm11.v:187) |
| `MCTapeDrive` | `RewindsEnd` | a drive unloaded while it rewinds: waitrewind (z11tm.cc:144) never returns |
| `MCXeRingsReset.cfg` | `CommandsAnswered` | a reset between the daemon's read of PCSR0 and its answer is wiped out by the answer (xe11.v:127) |
| `MCXeRingsCount.cfg` | `CommandsAnswered` | functions 012 and 013 write the counters in a loop that never ends (z11xe.cc:659) |
| `MCXeRings`, `Given` <- `McPlain` | `CommandsAnswered` | a ring full of descriptors without STP keeps the transmit thread going round with the mutex held (z11xe.cc:782) |
| the same, `MaxPkts` 1, `Chained` FALSE | `DemandLooks` | a demand given before the transmit thread waits for the first time wakes nobody (z11xe.cc:478) |
| `MCXeRings`, `Given` <- `McPlain`, `Chained` FALSE | `SendsQueued` | a packet queued between the reads of the length and of the owner goes out with the length and from the buffer of the one before (z11xe.cc:759) |
| the same, `NR` = 1 | `GoesOnElsewhere` | in a receive ring of one entry a long packet is continued over its own first part (z11xe.cc:1023) |
| `MCXeRings`, `Intrude` TRUE | `ReceivedWhole` | a loopback packet takes the receive buffer over between the read of a packet and the lock |
| `MCPidpLink`, `MaxEvents` 2 | `StartsHalted` | another program lets the processor go while START has let the DMA lock go (z11pidp.cc:610): the PC of a running processor is loaded |
| `MCPidpLink`, `Intrude` TRUE | `ActedOnce` | a server that starts while a switch is down takes it for an edge (z11pidp.cc:423) |
| `MCDlLine` with `Noise` = {"T"}, or with `SlowEcho` TRUE | `LineMoves` | a prompt right behind its own first letter is not recognized (z11dl.cc:369 starts over without looking at the letter again); an echo later than 250 ms is taken for the next one and the reply is given up |

Three configurations beside the suite pass. `MCRlDiskFiles.cfg`
(`DescriptorsOwned`, `FileStaysLoaded`): loads and resets at any moment, in the
middle of a transfer too; no descriptor is leaked, and a transfer keeps its file
unless the load is of its own drive. `MCRhDiskEnds.cfg` (`RhCommandsEnd`): clears,
resets, packs of another kind and transfer functions that do not exist in
between, and all commands end. `MCDmaLock.cfg`: the lock with two evictors. So does
`MCShmMS` with nobody dying, two clients, `Ops` {"load", "unload"} and two calls, with
`CallsReturn` under `FairSpec`.

What the counterexamples show is what the runs leave out, and no more.
`rl_disk` loads at rest and resets only before a command was read; `Intrude` is
FALSE where it names the windows of `MCRhDiskClear`, `MCXeRingsReset` and a switch
held through a restart; parts of `ShownIsLoaded`,
`SuccessIsReal` and `WorkerIsRegistered` are stated for as long as no client has
died: the daemon of a client that died between fork and the server's start may
write its pid late (shmms.cc:461) over that of a server at work.

### Bounds

Names such as `p1`, `f0` are model values. Where symmetry is used (clients in
`shm_ms`) only invariants and action properties are checked. The bounded counters
are `MaxCalls` (calls of all clients),
`FnseqMax` (last value before fnseq wraps to 1), `MaxCmds` (commands the PDP-11
gives), `MaxLoads` (load and unload commands), `MaxInits` (bus resets),
`MaxWords` (length of a tape), `MaxPkts` (packets each way), `MaxPress`
(presses of a switch), `MaxEvents` (the rare things of a module: its comment
lists them), `MaxNet`, `MaxLeds`, `MaxGap` (packets on the way, and lost in a row),
`MaxAsks` and `MaxTyped` (prompts, keys). Why they are enough:

* Eviction needs a dead owner, a slow evictor and a new owner: three processes.
  That the lock is right for more is proved.
* The engine serves one thread; two are enough for one to find what the other
  left. One address with memory and parity error and one without an answer give
  all outcomes of a cycle; two values tell old data from new.
* The page has one command word, so two clients show who takes whose answer,
  and a third call shows what a dead one left. Two server incarnations, of
  either kind, give restart and duplicate. The stale sender of an unload needs
  a third client, which is why `MCShmMSUnload.cfg` has three.
* A snapshot of two registers (`MaxCtr` = 1) has a first and a last one. One
  interrupt level is enough for a device that competes with halt and DMA; the
  choice among levels is left to the plan. Nothing else in `KyHalt` is bounded.
* A load that reuses the descriptor number of the file it closed needs one
  free descriptor more than drives. Two commands show a completion that lands
  on the wrong one; so they do for RH11.
* The eviction of a dead owner by two processes at once, in front of a third that
  is alive, needs three: `MCDmaLock.cfg` has them and checks `LockInv` with the
  properties of the lock; the proofs cover any number, so the suite does without.
* An RH11 pack of one or two cylinders, two tracks, two sectors of two words has
  every kind of carry in the disk address. One transfer function, WRITE, stands for
  the three, which differ only in data and in who may refuse them: with READ and WCHECK
  as well, and `RhCommandsEnd` left out, `rh_disk` passes too. RPWC and the byte record counter of
  the tape wrap after 8 and 3.
* Three tape commands place the head, move it and look; a tape of six words has
  a record and a mark or two marks.
* A ring of two descriptors is full with two packets; a received packet of two
  buffers fills it alone.
* Two readings are kept by the server of the PiDP (4 in the code), so that one
  press is seen in both, in one or, after a loss, in neither. Two presses and two
  packets on the way show an old reading that arrives after a newer one. The
  constraint `StartThenContinue` fixes which switch is pressed first; presses are
  never fair, so that it takes behaviours away but none of the progress in the
  others. `EachPressOnce` is proved for any set of switches in any order.
* Two prompts show one LookFor reading the echoes of the other, and a reply of
  two keys has a first and a last one.

### Fairness

`DmaLock`: a thread inside dmalock or dmaunlk is scheduled (weak fairness).
`KyFairSpec`: threads run; the engine's
counters run, they are clocked; a bus reset ends; the processor grants the bus
to a request that comes back again and again (strong, since a reset withdraws
it); and a lock step that is possible is taken. `ShmMutex`: threads run; a thread inside leaves. `ShmMS`, `KmWait` and
`RlDisk` are one level up and leave the mutex or spin lock abstract: a process
is assumed to get it if it is free again and again (strong fairness), which
Linux does not promise of a futex but gives in practice, as each holder keeps
it for microseconds. `TapeDrive` has the same
(strong fairness of the timers' look at the clock, which needs the mutex).
`RhDisk`: the FPGA is clocked, the i/o thread runs, a bus reset ends. `XeRings`:
some thread of the daemon goes on as long as one can, and the interrupt routine
of the driver runs. `PidpLink`: readings are sent again when no answer came in 20 ms, and not all
of those that arrive are lost for ever (strong fairness of `SvrPass`); a halt request is
obeyed. `DlLine`: the FPGA is clocked, the processor runs, the daemon's loop
turns and repeats the reply. Devices, clients, users, deaths and resets have no
fairness: nothing depends on their happening.

## Proofs

TLAPS proves what follows for every value of the constants: any sets of
processes, threads, devices, clients, servers, drives, files, keys and prompts,
any number of commands and packets. The inductive invariants were first checked
by TLC on the instances of the runs.

* `KyProofs`, the lock: `Invariance` (`LockInv`), `Exclusion`, `Asserts`, `Eviction`.
  Mutual exclusion alone is not inductive: after an eviction the step that
  matters is the next write, and what it finds. `LockInv` adds that the pthread
  mutex covers the whole section, that a thread that has not yet written its pid
  cannot find it in the register, that a pid found dead at `unstick` is still
  dead (pids are not reused, as modelled), and that a live pid in the register
  has a thread past `Claim`. The case that deserves attention is `Unstick`: the
  register may have moved on since the probe, and the write is then ignored
  because its value is that of a dead process.
* `KyProofs`, engine and calls: every step of `KyDma` is a step of `DmaLock` or leaves the lock
  alone, which carries the theorems of the lock over (`KyExclusion`,
  `KyEviction`). `KyInvariance` (`KyInv`) adds what the state of the engine says
  of its registers and the bus, and `CleanCall`: how far a call whose writes were
  all accepted has come, at each place of the call. From it `RepliesAreClean`
  (`CleanReplies`), with processes that die or throw with the engine busy.
  `ServesOwner` (`EngineServesOwner`) and `ImplementsService` (`Atomic`, a step
  simulation of `DmaService`, action by action) have the hypothesis
  `~MayAbandon`: an engine that is still at work when its lock changes hands
  drops the register writes of the next owner, so that without it they are false.
* `SmallProofs`, the mutex: `MutexInvariance`, `Exclusion`, `UnlockSafe` (the ABORT of msunlk
  is dead code). The invariant says that a thread about to swap expects 0 or
  the pid of a dead process, which is what makes robbing safe.
* `ShmMSProofs`: `MsInvariance` (`MsInv`), whoever dies when. `MsInv` says who has
  the mutex and the controller; what a client half way through its stores has
  written so far; that a server inside a load keeps the command in the page and
  so all posting clients out, which is why the unlocked middle of a load is
  safe; that outside of the drive being loaded the page shows what is open; and,
  for each client that waits, what it will find. `PageIsTrue` (`ShownIsLoaded`)
  and `RegisteredServer` (`WorkerIsRegistered`) follow as they are stated.
  `OneAtATime` and `OwnAnswer` (`OneWaiter`, `SuccessIsReal`) are proved for states
  in which the sender of a command can be told, `SendersKnown`: no client
  has died so far, or no client ever unloads; `AnswerIsKept`
  (`DoneKeptForSender`) if nobody unloads or no client may die. The
  configuration `MCShmMSUnload.cfg` shows that they need it: the proof attempt
  without it failed at the step that marks the page idle for a dead sender.
* `SmallProofs`, the interrupts: `Invariance` and `Armed` (`SleepersAreArmed`). The invariant
  says that a line that is high has been seen, that the interrupt routine works
  with everything disabled, and that outside of it the bits of each sleeper are
  enabled. The lemma `RegistersSeen` is the one fact about edges they rest on.
* `KyProofs`, the console: `HaltInvariance` (`IInv`), from which `OneMasterHolds` and
  `HeldHalted`, with no hypothesis: any program of calls, traps, faults, RESETs,
  devices and delays. Nothing here is inductive alone, because every part learns
  of the others a clock late. `CpuInv` says in which states the processor drives
  which wire and that an interrupt request gets past its first stage only while
  the processor hands out the grant; `HaltInv` that the processor gives up its
  halt grant before it leaves `halt2`, so that a halt logic in states 2 and 3, and
  `halted`, is never behind the times (but for the first clocks of a reset);
  `DmaInv` that an engine that waits for the bus does so only where the processor
  will not begin a cycle: stopped, held by an NPR grant, or on its way out of the
  halt with the bus free, where the engine is one clock ahead of it.
  `StepRunsOneHolds`: `RanInv` says that after the fetch of a step the stepper has
  asked for a halt again and HLTRQ is up before the processor looks. The narrow
  case is the one clock in which the stepper yields to a write to register 3,
  which the program can begin only once before the fetch.
  `SnapshotRestores`: `SnapInv` follows snapregs and the engine together; an engine
  at work for a snapshot has the processor held, so that no INIT can end its cycle.
  It has the hypothesis that somebody answers, without which it is false
  (`MCKyHaltSnap.cfg`).
* `RlDiskProofs`: `RlInvariance` (`RlInv`) has a part that holds whatever comes
  when (`FilesInv`, `LockHeld`, `FileKept`: who has the mutex, whose the descriptors
  are at each place of a load, and what the drive at work has), from which `NoLeak`
  (`DescriptorsOwned`) and `FileStays` (`FileStaysLoaded`) without a hypothesis,
  with loads and resets in the middle of transfers. A part for `Disturb` = {} says
  that a copy of register 4 that some thread is about to write back is still fresh
  where it matters; from it `StatusTrue` (`StatusIsTrue`), which a load at work
  breaks (`MCRlDiskLoad.cfg`).
* `PidpLinkProofs`: `PidpInvariance` (`PidpInv`). `Reads` puts everything the
  server has yet to learn of the switches in one order: the last reading it
  kept, the readings on the way that are newer, the one to be sent next, and the
  panel. `InOrder` says that later readings are of later presses and that two
  readings of one press have no other between them; `Acted` that a press acted on
  is past, or still down and in all the readings kept, so that it makes no
  second edge. From it `EachPressOnce` (`ActedOnce`: once, and none after a later
  one), with packets lost, repeated and overtaken, clients that restart anywhere
  and servers that restart with no switch down or on the way. Without the last,
  the hypothesis `~Intrude`, it is false.
* `SmallProofs`, the line: `DlInvariance` (`DlInv`) and `InOrder` (`PrintedInOrder`), with
  no hypothesis. `Edges` says that a pending edge of the interrupt request has its
  level unless a grant freezes it, so that the driver is sent to its handler only
  with the printer ready and never writes over a character; `Numbers` counts the
  characters in the buffer and with the daemon, at most one each before a reset.

* `XeRingsProofs`, for rings of any size and any traffic. `PacketsNoticed`
  (`NoForgottenPacket`) has no hypothesis: `Noticed` adds what the bits of the
  packet being received will become. The other two rest on `Held` (who has the
  mutex and where each thread is), `Commanded` (how far a port command and its
  answer are, and that the driver calls itself up only when the port runs),
  `Prepared` (rings are set up before START) and `Looped` (one thread at a time
  has the receive buffer). Each ring is a window: `Off` is the distance of a
  descriptor from its start, `At` the place at a distance.
  `SendsInOrder` (`SentAsQueued`): `Queueing` says that all there is to send lies
  in the n descriptors from tdrca to where the driver queues next, in order and
  newer than what went out; `Marked` that the descriptor to be given back is still
  the one whose packet went out. `PacketsWhole` (`ReceivedWhole`): `Rings` says that
  the n descriptors from where the driver looks to rdrca are the driver's, that
  each continues the packet before it or starts a newer one (`Carry` is the packet
  that is incomplete after k of them), and how far gotincoming is with the
  packet that comes next; the lemmas `Handed` and `Taken` move the window at either
  end. Both have the hypothesis `~Intrude`, `PacketsWhole` also that the receive
  ring has not one entry (`GoesOnElsewhere`). No hypothesis is about the driver: it may fill a
  descriptor between the reads of its words, return buffers and rebuild the rings
  during sendto. What the code then does wrong, and DMA errors, `faults` counts, and
  the claims of the properties end there (`SendsQueued`).

* `RhDiskProofs`: `RhInvariance` (`RhInv`), from which `OneTransferHolds`
  (`OneTransfer`) and `EndsAsAskedHolds` (`EndsAsAsked`), for any number of drives,
  any geometry of a pack, any counts and any outcome. `OneDrive` says that at most
  one drive has a transfer to do, the one asked for last, whatever motions the
  others make; `Ordered` that the order reaches the i/o thread as it was given,
  through the drive, xgo and the thread's own variables, each time both copies
  are still in use; `EndShown` that word count, bus address and place found at the
  end are in the registers before the end is posted. What dotransfer computes from
  the block number in one go is compared with `Sectors`, which steps along
  the pack: `SectorsAre` proves them equal for every count, through the least
  count for which they might differ, since the induction theorems of the library
  cannot be used. Loads come at any moment, and motions of other drives change
  the address bank and the inhibit bit under a transfer (`BusKept`, `kept`). The
  hypotheses are `~Intrude` (no clear or reset during a transfer, which breaks
  `EndsAsAsked` in `MCRhDiskClear.cfg`, and no pack of another kind in the place of one) and
  that no transfer function is given that does not exist, which breaks `OneTransfer`
  (`MCRhDiskIllegal.cfg`).

* `TapeDriveProofs`: `TapeInvariance` (`TapeInv`), from which `HeadAtRecordHolds`
  (`HeadAtRecord`), `StatusTrueHolds` (`StatusTrue`) and `CountsRecordsHolds`
  (`CountsRecords`), for any number of drives, any tapes, record lengths and width
  of the counter. Where records begin and end (`Boundaries`) is found by reading
  from the beginning of the tape. The lemmas about it come first: `BoundariesMark`
  and `OnlyBoundaries` say that exactly one set is closed under reading on,
  `Whole1` that no record begins inside another, `Rewritten` that a record
  written behind the last one, or over one of the same length, keeps the
  others where they are. They go through the least place at which they could
  fail. Of the invariant, `AllReadable` is what makes a length word say where the
  record ends whichever end is read; `Fitting` carries the fact that the write fits
  from the register write to the moment of writing, past a rewind that ends in
  between; `Skipping` says, while the lock is let go between the two halves of a
  skip, from where the head comes and that the length in hand is that of
  the record around it; `Still` that the drive at work does not rewind, so that
  no timer thread moves that head; `Counted` that the counter is ahead of its first
  value, modulo `Wrap`, by what lies between the start and the head. `StatusTrue`
  rests on `Shows`: each thread that ends something writes the registers anew.
  The hypotheses are tapes that can be read to begin with and `~Intrude`: a file
  loaded or a power clear in the middle of a command moves the head under it.

The assumptions are the named ASSUMEs of the modules, about constants only
(`PidOf` maps threads to processes, the null values are not processes, counts
are natural numbers), and TLC evaluates each of them in a run. The hypotheses of
theorems are the ones named above.

Model-checked only: everything about liveness (`SomeoneGetsIn`, `WaitersWake`,
`CallsEnd`, ... need fairness). Every invariant and every action property that a
passing run checks on a small instance is proved.

## Not modelled

Data: bytes moved, file contents, file name text, the statistics of the shared
page and the ethernet, lamps and memory words of the PiDP. Disk addresses and
word counts are in `RhDisk`, lengths of records in `TapeDrive`, and left out
elsewhere. Time, but for "later". `-reset` of a server,
which clears the page with everybody stopped. Device locks on register pages
are in `ShmMS` as the exclusive lock on a controller; probing of the page
(`findev`) is not modelled. Bus arbitration is in `KyDma` and `DlLine` one
step; `KyHalt` has its clocks, for one interrupt level and the simulated
processor. There an instruction is a fetch and some bus cycles; the T bit and
the yellow stack are not told apart from other traps, and power failure comes
only as a reset. Wear of pids: a pid is never reused.

A load of an RH11 drive during its own transfer may put another file under the
daemon, as for RL11 (`MCRlDiskLoad.cfg`); `RhDisk` has the load, and its properties speak of
registers, not of which file was written. A pack of another kind loaded during a
transfer changes the number of cylinders the FPGA checks against (rh11.v:517-530) and
comes only with `Intrude`. A server of the PiDP that restarts is taken to have no
reading on its way that is older than the last it received.

Of the devices: the interrupt of the disks, tape and ethernet (`intreq.v` is
checked with the line); of RH11 rotation, attention and volume valid bits, parity,
read-in preset, offset, and the transfer of the last word of the address space; of TM11 write protection, the end of tape marker and
densities; of the ethernet the control blocks that only report, what
addresses match, and what the endless write of the counters does to memory; of the line the terminal modes and signals of `z11dl`.
The other devices (DZ11, PC11, KW11, memory), the processor's instruction set,
displays, board files and PDP-11 programs are not modelled; `PROJECT.json` says
for each whether it is planned.

## Plan

1. Done: DMA (`DmaLock`, `KyDma`, `DmaService`), shared page (`ShmMutex`,
   `ShmMS`), kernel interrupts (`KmWait`), console and processor (`KyHalt`), disks
   (`RlDisk`, `RhDisk`), tape (`TapeDrive`), ethernet (`XeRings`), PiDP
   (`PidpLink`), console line and interrupt requests (`DlLine`).
2. Proofs: done for `DmaLock`, `KyDma` with `DmaService`, `ShmMutex`, `ShmMS`,
   `KmWait`, `KyHalt`, `RlDisk`, `RhDisk`, `TapeDrive`, `PidpLink`, `DlLine`,
   `XeRings`. Left: `ShmMutex` against the abstract lock of `ShmMS`.
3. `UnibusArb`: the four levels of intctl.v behind each other and the real-bus
   modes of zynq.v; a grant reaches one device.
4. `KyHalt` liveness for callers that wait for `halted` and for `stepreq` to
   clear, as z11pidp.cc:592 and z11ctrlini.tcl:276 do: halts are obeyed, steps
   and snapshots end. (Callers that do not wait meet `MCKyHaltCont.cfg`.)
5. `DzSilo`, `PaperTape`: silo order and alarm; done bits.

The suite is kept to one or two passing runs for each part; a run of a new part takes
the place of one whose state space another run covers or whose properties are
proved.
