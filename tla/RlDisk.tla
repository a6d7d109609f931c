------------------------------- MODULE RlDisk -------------------------------
(***************************************************************************)
(* The RL11 disk controller: the FPGA registers the PDP-11 sees (rl11.v)   *)
(* and the daemon that does the commands on image files (z11rl.cc): an i/o *)
(* thread, one timer thread per drive that ends seeks, and the command     *)
(* thread that loads and unloads files (shmms_svr_proccmds).               *)
(*                                                                         *)
(* The threads share the shared page's mutex (LOCKIT), the array fds, and  *)
(* register 4 of the FPGA, which holds the status bits of all drives and   *)
(* which each of them updates by reading it and writing it back.  A load   *)
(* runs with the mutex released.                                           *)
(*                                                                         *)
(* Disk and bus addresses, word counts and data are left out: a transfer   *)
(* is one use of the file descriptor, which ends well or with one of the   *)
(* controller's errors.  The clock is left out but for the end of a seek,  *)
(* which may come at any moment.                                           *)
(***************************************************************************)
EXTENDS Naturals, FiniteSets

CONSTANTS
  Drives, Files,
  Drive0,       \* the drive a bus reset selects
  FDs,          \* file descriptors, at least one more than drives
  None,         \* no drive, no file, no descriptor, no thread
  Disturb,      \* what may come while others are at work: "INIT", "LOAD"
  MaxInits,     \* bound: bus resets
  MaxCmds,      \* bound: commands the PDP-11 gives
  MaxLoads      \* bound: commands the clients give

ASSUME FDsAssumption == FDs \subseteq Nat /\ Cardinality(Drives) < Cardinality(FDs)
ASSUME NoneAssumption == /\ None \notin FDs
                         /\ None \notin Drives \cup Files \cup {"io", "cmd"}
                         /\ {"io", "cmd"} \cap Drives = {}
ASSUME Drive0Assumption == Drive0 \in Drives
ASSUME DisturbAssumption == Disturb \subseteq {"INIT", "LOAD"}

VARIABLES
  initing,                \* init_in_h: the bus is being reset
  ready, fn, sel, err,    \* rlcs bits 7, 3:1, 9:8, 13:10
  rl4,          \* register 4, per drive: DRDY, DRONL, VOLCK
  opened,       \* per descriptor: the file it is open on, or None
  fds,          \* per drive: the descriptor of its file
  seek,         \* per drive, seekdoneats: "none", "future" or "past"
  lock,         \* the mutex: None, "io", "cmd" or a drive (its timer)
  io, ioloc,    \* the i/o thread: where it is, its local variables
  tpc, tmp,     \* per timer thread: where it is; register 4 as it read it
  cmd, cmdloc,  \* the command thread: where it is, its local variables
  cmdno,        \* history: commands given by the PDP-11
  loadno,       \* commands given by clients
  inits         \* bus resets

fpga == <<initing, ready, fn, sel, err>>
files == <<opened, fds>>
iovars == <<io, ioloc>>
timers == <<tpc, tmp>>
cmdvars == <<cmd, cmdloc>>
counts == <<cmdno, loadno, inits>>
vars == <<fpga, rl4, files, seek, lock, iovars, timers, cmdvars, counts>>

Fns == {"NOP", "WCHECK", "GETSTAT", "RESETSTAT", "SEEK", "HEADER", "WRITE", "READ"}
\* commands rl11.v does by itself; the others wake z11rl
ByFpga == {"NOP", "GETSTAT", "RESETSTAT"}
Status == [drdy : BOOLEAN, dronl : BOOLEAN, volck : BOOLEAN]
NoRl4 == [d \in Drives |-> [drdy |-> FALSE, dronl |-> FALSE, volck |-> FALSE]]
\* file, no and alone are history: the file and the number of the command, and whether
\* no load of its drive has been under way since it was read
NoIo == [fn |-> "NOP", drv |-> None, fd |-> None, err |-> FALSE, rl4 |-> NoRl4,
         file |-> None, no |-> 0, alone |-> FALSE]
NoCmd == [op |-> "none", drv |-> None, file |-> None, fd |-> None, rl4 |-> NoRl4]

TypeOK ==
  /\ initing \in BOOLEAN
  /\ ready \in BOOLEAN /\ fn \in Fns /\ sel \in Drives /\ err \in BOOLEAN
  /\ rl4 \in [Drives -> Status]
  /\ opened \in [FDs -> Files \cup {None}]
  /\ fds \in [Drives -> FDs \cup {None}]
  /\ seek \in [Drives -> {"none", "future", "past"}]
  /\ lock \in {None, "io", "cmd"} \cup Drives
  /\ tpc \in [Drives -> {"top", "update", "sleep", "timed"}]
  /\ ioloc.fd \in FDs \cup {None} /\ ioloc.rl4 \in [Drives -> Status]
  /\ cmdloc.fd \in FDs \cup {None} /\ cmdloc.rl4 \in [Drives -> Status]

\* the daemon has started, and a file of its own was loaded in every drive
Init ==
  /\ initing = FALSE /\ ready = TRUE /\ fn = "NOP" /\ sel = Drive0 /\ err = FALSE
  /\ rl4 = [d \in Drives |-> [drdy |-> TRUE, dronl |-> TRUE, volck |-> FALSE]]
  /\ fds \in [Drives -> FDs]
  /\ \A c, d \in Drives : fds[c] = fds[d] => c = d
  /\ opened \in [FDs -> Files \cup {None}]
  /\ \A n \in FDs : (opened[n] # None) = (\E d \in Drives : fds[d] = n)
  /\ \A m, n \in FDs : opened[m] = opened[n] => m = n \/ opened[m] = None
  /\ \A m, n \in FDs : m < n /\ opened[n] # None => opened[m] # None
  /\ seek = [d \in Drives |-> "none"]
  /\ lock = None
  /\ io = "waitint" /\ ioloc = NoIo
  /\ tpc = [d \in Drives |-> "sleep"]
  /\ tmp = [d \in Drives |-> NoRl4]
  /\ cmd = "idle" /\ cmdloc = NoCmd
  /\ cmdno = 0 /\ loadno = 0 /\ inits = 0

\* the heads are at rest, and the i/o thread has not read a command yet
Unseen == /\ io \in {"waitint", "lock", "read"}
          /\ \A d \in Drives : seek[d] = "none" /\ tpc[d] = "sleep"

\* the controller, its threads and all heads are at rest
Quiet == Unseen /\ ready /\ io = "waitint"

-----------------------------------------------------------------------------
(* The PDP-11 and rl11.v *)

\* a program writes RLCS with bit 7 clear, as it may when the controller is
\* ready; a seek clears the drive ready bit at once
PdpCommand(f, d) ==
  /\ ready /\ ~initing
  /\ "LOAD" \in Disturb \/ cmdloc.op # "LOAD"
  /\ cmdno < MaxCmds
  /\ ready' = FALSE /\ fn' = f /\ sel' = d /\ err' = FALSE
  /\ rl4' = IF f = "SEEK" THEN [rl4 EXCEPT ![d].drdy = FALSE] ELSE rl4
  /\ cmdno' = cmdno + 1
  /\ UNCHANGED <<initing, files, seek, lock, iovars, timers, cmdvars, loadno, inits>>

\* NOP and GET STATUS, the latter clearing the volume check if asked
FpgaCommand ==
  /\ ~ready /\ fn \in ByFpga
  /\ ready' = TRUE
  /\ rl4' = IF fn = "RESETSTAT" THEN [rl4 EXCEPT ![sel].volck = FALSE] ELSE rl4
  /\ UNCHANGED <<initing, fn, sel, err, files, seek, lock, iovars, timers,
                 cmdvars, counts>>

\* RESET instruction or power failure
InitOn ==
  /\ ~initing /\ inits < MaxInits
  /\ "INIT" \in Disturb \/ (Unseen /\ cmd = "idle")
  /\ initing' = TRUE
  /\ ready' = TRUE /\ fn' = "NOP" /\ sel' = Drive0 /\ err' = FALSE
  /\ inits' = inits + 1
  /\ UNCHANGED <<rl4, files, seek, lock, iovars, timers, cmdvars, cmdno, loadno>>

\* an undisturbed reset lasts longer than the i/o thread takes to see it
InitOff ==
  /\ initing /\ initing' = FALSE
  /\ "INIT" \in Disturb \/ io = "waitint"
  /\ UNCHANGED <<ready, fn, sel, err, rl4, files, seek, lock, iovars, timers,
                 cmdvars, counts>>

\* the processor writes register 4; ignored while the bus is being reset
WriteRl4(v) == rl4' = IF initing THEN rl4 ELSE v

Armintrq == ~ready /\ fn \notin ByFpga

-----------------------------------------------------------------------------
(* rliothread *)

Io(from, to) == io = from /\ io' = to

WaitInt ==
  /\ Armintrq
  /\ Io("waitint", "lock")
  /\ UNCHANGED <<fpga, rl4, files, seek, lock, ioloc, timers, cmdvars, counts>>

IoLock ==
  /\ lock = None
  /\ Io("lock", "read")
  /\ lock' = "io"
  /\ UNCHANGED <<fpga, rl4, files, seek, ioloc, timers, cmdvars, counts>>

\* the controller turns out to be ready: nothing to do
IoNothing ==
  /\ ready
  /\ Io("read", "waitint")
  /\ lock' = None
  /\ UNCHANGED <<fpga, rl4, files, seek, ioloc, timers, cmdvars, counts>>

\* read RLCS, pick the descriptor of the drive it names; NOP and GET STATUS
\* are not expected here: ABORT
IoStart ==
  /\ ~ready
  /\ Io("read", IF fn \in ByFpga THEN "abort" ELSE "clear")
  /\ ioloc' = [fn |-> fn, drv |-> sel, fd |-> fds[sel], err |-> FALSE, rl4 |-> rl4,
               file |-> IF fds[sel] = None THEN None ELSE opened[fds[sel]],
               no |-> cmdno, alone |-> ~(cmdloc.op = "LOAD" /\ cmdloc.drv = sel)]
  /\ UNCHANGED <<fpga, rl4, files, seek, lock, timers, cmdvars, counts>>

\* drive ready is cleared while the i/o is in progress
IoClear ==
  /\ Io("clear", CASE ioloc.fn = "SEEK" -> "seek"
                     [] ioloc.fn = "HEADER" -> "header"
                     [] OTHER -> "xfer")
  /\ WriteRl4([ioloc.rl4 EXCEPT ![ioloc.drv].drdy = FALSE])
  /\ UNCHANGED <<fpga, files, seek, lock, ioloc, timers, cmdvars, counts>>

NotOpen == ioloc.fd = None \/ opened[ioloc.fd] = None

\* A transfer ends well or with one of rlcs bits 13:10: incomplete, header not
\* found, no memory, memory parity, write check; always so without an open file.
IoEnds(e) ==
  /\ Io("xfer", "done")
  /\ ioloc.fd = None \/ opened[ioloc.fd] = None => e
  /\ ioloc' = [ioloc EXCEPT !.err = e]
  /\ UNCHANGED <<fpga, rl4, files, seek, lock, timers, cmdvars, counts>>

\* heads in place, pread, dma to memory, for each sector
IoRead == ioloc.fn = "READ" /\ \E e \in BOOLEAN : IoEnds(e)

\* heads in place, dma from memory, pwrite
IoWrite == ioloc.fn = "WRITE" /\ \E e \in BOOLEAN : IoEnds(e)

\* heads in place, pread, compare with memory
IoCheck == ioloc.fn = "WCHECK" /\ \E e \in BOOLEAN : IoEnds(e)

\* the sector now under the heads; needs no file
IoHeader ==
  /\ Io("header", "done")
  /\ UNCHANGED <<fpga, rl4, files, seek, lock, ioloc, timers, cmdvars, counts>>

\* a seek without a file, or with bad bits in RLDA
IoBadSeek ==
  /\ Io("seek", "done")
  /\ ioloc' = [ioloc EXCEPT !.err = TRUE]
  /\ UNCHANGED <<fpga, rl4, files, seek, lock, timers, cmdvars, counts>>

\* the head select bit is for a reader of register 4 to write back too
IoSeekRead ==
  /\ ioloc.fd # None
  /\ Io("seek", "headsel")
  /\ ioloc' = [ioloc EXCEPT !.rl4 = rl4]
  /\ UNCHANGED <<fpga, rl4, files, seek, lock, timers, cmdvars, counts>>

IoSeekWrite ==
  /\ Io("headsel", "settime")
  /\ WriteRl4(ioloc.rl4)
  /\ UNCHANGED <<fpga, files, seek, lock, ioloc, timers, cmdvars, counts>>

\* Variant: the timer thread is not woken.
IoSeekTime_NoWake ==
  /\ Io("settime", "done")
  /\ seek' = [seek EXCEPT ![ioloc.drv] = "future"]
  /\ UNCHANGED <<fpga, rl4, files, lock, ioloc, timers, cmdvars, counts>>

\* when the heads will be there; the timer thread is woken, or kept from
\* going to sleep on the old value.  With fast i/o there is no delay.
IoSeekTime ==
  /\ Io("settime", "done")
  /\ \/ UNCHANGED <<seek, tpc>>
     \/ /\ seek' = [seek EXCEPT ![ioloc.drv] = "future"]
        /\ tpc' = [tpc EXCEPT ![ioloc.drv] = "top"]
  /\ UNCHANGED <<fpga, rl4, files, lock, ioloc, tmp, cmdvars, counts>>

\* Variant: the seek in progress is not considered.
IoDoneRead_IgnoreSeek ==
  /\ Io("done", "drdy")
  /\ ioloc' = [ioloc EXCEPT !.rl4 = [rl4 EXCEPT ![ioloc.drv].drdy =
                 ioloc.fd # None]]
  /\ UNCHANGED <<fpga, rl4, files, seek, lock, timers, cmdvars, counts>>

IoDoneRead ==
  /\ Io("done", "drdy")
  /\ ioloc' = [ioloc EXCEPT !.rl4 = [rl4 EXCEPT ![ioloc.drv].drdy =
                 ioloc.fd # None /\ seek[ioloc.drv] # "future"]]
  /\ UNCHANGED <<fpga, rl4, files, seek, lock, timers, cmdvars, counts>>

\* drive ready before RLCS, so that RLCS<0> is right
IoDoneWrite ==
  /\ Io("drdy", "rlcs")
  /\ WriteRl4(ioloc.rl4)
  /\ UNCHANGED <<fpga, files, seek, lock, ioloc, timers, cmdvars, counts>>

\* RLCS with the done bit, function and drive as they were read
IoDone ==
  /\ Io("rlcs", "waitint")
  /\ IF initing
       THEN UNCHANGED <<ready, fn, sel, err>>
       ELSE ready' = TRUE /\ fn' = ioloc.fn /\ sel' = ioloc.drv /\ err' = ioloc.err
  /\ lock' = None
  /\ ioloc' = NoIo
  /\ UNCHANGED <<initing, rl4, files, seek, timers, cmdvars, counts>>

-----------------------------------------------------------------------------
(* timerthread, one per drive, and the clock *)

EndOfSeek(d) ==
  /\ seek[d] = "future"
  /\ seek' = [seek EXCEPT ![d] = "past"]
  /\ UNCHANGED <<fpga, rl4, files, lock, iovars, timers, cmdvars, counts>>

TimerGo(d, from, to) == tpc[d] = from /\ tpc' = [tpc EXCEPT ![d] = to]

\* nothing to wait for, or the seek goes on: unlock, and FUTEX_WAIT with the
\* time that is left
TimerWaits(d) ==
  /\ lock = None
  /\ \/ (fds[d] = None \/ seek[d] = "none") /\ TimerGo(d, "top", "sleep")
     \/ fds[d] # None /\ seek[d] = "future" /\ TimerGo(d, "top", "timed")
  /\ UNCHANGED <<fpga, rl4, files, seek, lock, iovars, tmp, cmdvars, counts>>

\* the seek is complete: mark the drive ready ...
TimerRead(d) ==
  /\ lock = None
  /\ fds[d] # None /\ seek[d] = "past"
  /\ TimerGo(d, "top", "update")
  /\ lock' = d
  /\ tmp' = [tmp EXCEPT ![d] = rl4]
  /\ UNCHANGED <<fpga, rl4, files, seek, iovars, cmdvars, counts>>

\* ... and wait for another one
TimerWrite(d) ==
  /\ TimerGo(d, "update", "sleep")
  /\ WriteRl4([tmp[d] EXCEPT ![d].drdy = TRUE])
  /\ seek' = [seek EXCEPT ![d] = "none"]
  /\ lock' = None
  /\ tmp' = [tmp EXCEPT ![d] = NoRl4]
  /\ UNCHANGED <<fpga, files, iovars, cmdvars, counts>>

TimerExpires(d) ==
  /\ seek[d] = "past"
  /\ TimerGo(d, "timed", "top")
  /\ UNCHANGED <<fpga, rl4, files, seek, lock, iovars, tmp, cmdvars, counts>>

-----------------------------------------------------------------------------
(* The command thread: shmms_svr_proccmds, loadfile, unloadfile, fileloaded *)

Cmd(from, to) == cmd = from /\ cmd' = to

\* a load: the mutex is taken and released before the work begins
LoadBegins(d, f) ==
  /\ loadno < MaxLoads /\ ("INIT" \in Disturb \/ ~initing)
  /\ "LOAD" \in Disturb \/ Quiet
  /\ lock = None
  /\ Cmd("idle", "unload")
  /\ cmdloc' = [NoCmd EXCEPT !.op = "LOAD", !.drv = d, !.file = f, !.rl4 = rl4]
  /\ ioloc' = [ioloc EXCEPT !.alone = @ /\ d # ioloc.drv]
  /\ loadno' = loadno + 1
  /\ UNCHANGED <<fpga, rl4, files, seek, lock, io, timers, cmdno, inits>>

\* an unload is done with the mutex held
UnloadBegins(d) ==
  /\ loadno < MaxLoads /\ ("INIT" \in Disturb \/ ~initing)
  /\ lock = None
  /\ Cmd("idle", "unload")
  /\ lock' = "cmd"
  /\ cmdloc' = [NoCmd EXCEPT !.op = "UNLD", !.drv = d, !.rl4 = rl4]
  /\ loadno' = loadno + 1
  /\ UNCHANGED <<fpga, rl4, files, seek, iovars, timers, cmdno, inits>>

\* unloadfile: drive offline, as register 4 was read ...
UnloadWrite ==
  /\ Cmd("unload", "close")
  /\ WriteRl4([cmdloc.rl4 EXCEPT ![cmdloc.drv].drdy = FALSE,
                                 ![cmdloc.drv].dronl = FALSE])
  /\ UNCHANGED <<fpga, files, seek, lock, iovars, timers, cmdloc, counts>>

\* ... close the file ...
UnloadClose ==
  /\ Cmd("close", "forget")
  /\ LET n == fds[cmdloc.drv]
     IN  opened' = IF n = None THEN opened ELSE [opened EXCEPT ![n] = None]
  /\ UNCHANGED <<fpga, rl4, fds, seek, lock, iovars, timers, cmdloc, counts>>

\* ... and forget the descriptor
UnloadForget ==
  /\ \/ cmdloc.op = "LOAD" /\ Cmd("forget", "open") /\ UNCHANGED <<lock, cmdloc>>
     \/ /\ cmdloc.op = "UNLD" /\ Cmd("forget", "idle")
        /\ lock' = IF lock = "cmd" THEN None ELSE lock
        /\ cmdloc' = NoCmd
  /\ fds' = [fds EXCEPT ![cmdloc.drv] = None]
  /\ UNCHANGED <<fpga, rl4, opened, seek, iovars, timers, counts>>

\* open the file on the lowest free descriptor; a file in two drives is
\* refused by the lock on it
LoadOpen ==
  /\ Cmd("open", "loaded")
  /\ cmdloc.file \notin {opened[n] : n \in FDs}
  /\ \E n \in FDs :
       /\ opened[n] = None
       /\ \A m \in FDs : opened[m] = None => n <= m
       /\ opened' = [opened EXCEPT ![n] = cmdloc.file]
       /\ cmdloc' = [cmdloc EXCEPT !.fd = n]
  /\ UNCHANGED <<fpga, rl4, fds, seek, lock, iovars, timers, counts>>

\* Variant: the descriptor of a file that cannot be used is not closed.
LoadFails_Leak ==
  /\ Cmd("open", "end")
  /\ \E n \in FDs : opened[n] = None /\ opened' = [opened EXCEPT ![n] = cmdloc.file]
  /\ UNCHANGED <<fpga, rl4, fds, seek, lock, iovars, timers, cmdloc, counts>>

\* bad name, no such file, or one that cannot be locked or extended, whose
\* descriptor is closed again
LoadFails ==
  /\ Cmd("open", "end")
  /\ UNCHANGED <<fpga, rl4, files, seek, lock, iovars, timers, cmdloc, counts>>

\* fileloaded: save the descriptor ...
LoadSaveFd ==
  /\ Cmd("loaded", "online")
  /\ fds' = [fds EXCEPT ![cmdloc.drv] = cmdloc.fd]
  /\ UNCHANGED <<fpga, rl4, opened, seek, lock, iovars, timers, cmdloc, counts>>

\* ... and mark the drive ready and online, with another volume in it
LoadRead ==
  /\ Cmd("online", "mark")
  /\ cmdloc' = [cmdloc EXCEPT !.rl4 = [rl4 EXCEPT ![cmdloc.drv] =
                  [drdy |-> TRUE, dronl |-> TRUE, volck |-> TRUE]]]
  /\ UNCHANGED <<fpga, rl4, files, seek, lock, iovars, timers, counts>>

LoadWrite ==
  /\ Cmd("mark", "end")
  /\ WriteRl4(cmdloc.rl4)
  /\ UNCHANGED <<fpga, files, seek, lock, iovars, timers, cmdloc, counts>>

\* lock again, answer the client, unlock
LoadEnds ==
  /\ lock = None
  /\ Cmd("end", "idle")
  /\ cmdloc' = NoCmd
  /\ UNCHANGED <<fpga, rl4, files, seek, lock, iovars, timers, counts>>

-----------------------------------------------------------------------------
IoStep == \/ WaitInt \/ IoLock \/ IoNothing \/ IoStart \/ IoClear
          \/ IoRead \/ IoWrite \/ IoCheck \/ IoHeader
          \/ IoBadSeek \/ IoSeekRead \/ IoSeekWrite \/ IoSeekTime
          \/ IoDoneRead \/ IoDoneWrite \/ IoDone

TimerStep(d) == TimerWaits(d) \/ TimerRead(d) \/ TimerWrite(d) \/ TimerExpires(d)

CmdStep == \/ UnloadWrite \/ UnloadClose \/ UnloadForget
           \/ LoadOpen \/ LoadFails \/ LoadSaveFd \/ LoadRead \/ LoadWrite
           \/ LoadEnds

Next ==
  \/ \E d \in Drives : \/ \E f \in Fns : PdpCommand(f, d)
                       \/ \E f \in Files : LoadBegins(d, f)
                       \/ UnloadBegins(d)
                       \/ EndOfSeek(d) \/ TimerStep(d)
  \/ FpgaCommand \/ InitOn \/ InitOff \/ IoStep \/ CmdStep

Spec == Init /\ [][Next]_vars

\* The FPGA is clocked, seeks end, INIT ends, the threads are scheduled and
\* get the mutex.
FairSpec ==
  /\ Spec
  /\ WF_vars(FpgaCommand) /\ WF_vars(InitOff) /\ SF_vars(IoStep) /\ SF_vars(CmdStep)
  /\ \A d \in Drives : WF_vars(EndOfSeek(d)) /\ SF_vars(TimerStep(d))

-----------------------------------------------------------------------------
(* Properties. *)

\* the i/o thread may use the descriptor it picked
InUse == io \in {"clear", "seek", "headsel", "xfer"} /\ ioloc.fd # None

\* Files are closed and opened with the mutex released, and descriptors are
\* used again; yet a transfer reads and writes the file that was loaded when it
\* began, unless that drive's own file is being replaced.
FileStaysLoaded ==
  InUse /\ ioloc.alone => fds[ioloc.drv] = ioloc.fd /\ opened[ioloc.fd] = ioloc.file

\* "block disk from being unloaded from under us" (z11rl.cc:146): no load takes
\* the file away from the i/o thread while it uses the descriptor.
UnloadIsBlocked ==
  InUse => fds[ioloc.drv] = ioloc.fd /\ opened[ioloc.fd] = ioloc.file

\* A command for z11rl is finished only after z11rl did that very command:
\* bit 7 is "usually cleared so z11rl.cc will process command" (rl11.v:178).
CommandIsDone ==
  [][io = "rlcs" /\ io' = "waitint" /\ ~ready /\ ready' => ioloc.no = cmdno]_vars

\* No thread writes back an old copy of register 4.  When no load or unload is
\* under way, a drive is online to the PDP-11 exactly if a file is loaded in it
\* ("save the fd and mark drive online", z11rl.cc); and a drive whose heads are
\* moving does not show ready to a PDP-11 that finds the controller ready.
StatusIsTrue ==
  \A d \in Drives :
    /\ cmd = "idle" /\ lock = None => rl4[d].dronl = (fds[d] # None)
    /\ ready /\ seek[d] = "future" => ~rl4[d].drdy

\* Whatever fails, and whatever the other threads do: no two drives share a
\* descriptor, and every open file belongs to a drive or to the load under way,
\* so that the daemon neither runs out of descriptors nor keeps a file locked
\* against the other drives.
DescriptorsOwned ==
  /\ TypeOK
  /\ \A c, d \in Drives : fds[c] = fds[d] /\ fds[c] # None => c = d
  /\ \A n \in FDs : opened[n] # None =>
       n = cmdloc.fd \/ \E d \in Drives : fds[d] = n

\* The controller becomes ready again after every command, and a seek ends:
\* "when time is up, set RL4_DRDY<drivesel> and clear seekdoneats[drivesel]"
\* (z11rl.cc).
CommandsEnd ==
  /\ ~ready ~> ready
  /\ \A d \in Drives :
       (seek[d] # "none" /\ fds[d] # None) ~> (rl4[d].drdy \/ fds[d] = None)

=============================================================================
