---------------------------- MODULE RlDiskProofs ----------------------------
(***************************************************************************)
(* The RL11 daemon, for any number of drives, files, descriptors and       *)
(* commands.  Whatever comes when, no descriptor is leaked or shared, and  *)
(* a transfer keeps its file but for a load of its own drive.  If loads    *)
(* and bus resets keep clear of commands (Disturb = {}), every thread that *)
(* reads register 4 and writes it back has it for itself.                  *)
(***************************************************************************)
EXTENDS RlDisk, TLAPS

IoPCs == {"waitint", "lock", "read", "clear", "seek", "header", "xfer", "headsel",
          "settime", "done", "drdy", "rlcs", "abort"}
CmdPCs == {"idle", "unload", "close", "forget", "open", "loaded", "online", "mark", "end"}

IoLocs == [fn : Fns, drv : Drives \cup {None}, fd : FDs \cup {None}, err : BOOLEAN,
           rl4 : [Drives -> Status], file : Files \cup {None}, no : Nat,
           alone : BOOLEAN]
CmdLocs == [op : {"none", "LOAD", "UNLD"}, drv : Drives \cup {None},
            file : Files \cup {None}, fd : FDs \cup {None}, rl4 : [Drives -> Status]]

\* TypeOK and the variables it leaves out.
Types ==
  /\ TypeOK
  /\ io \in IoPCs /\ cmd \in CmdPCs
  /\ ioloc \in IoLocs /\ cmdloc \in CmdLocs
  /\ tmp \in [Drives -> [Drives -> Status]]
  /\ io \notin {"waitint", "lock", "read"} => ioloc.drv \in Drives
  /\ cmdno \in Nat

\* The command thread has the descriptor it opened, and the drive it opened it
\* for has none, until it has saved it.
CmdOwns ==
  /\ cmd = "idle" <=> cmdloc.op = "none"
  /\ cmd # "idle" => cmdloc.drv \in Drives
  /\ cmdloc.op = "LOAD" => cmdloc.file \in Files
  /\ cmdloc.op = "UNLD" => cmd \in {"unload", "close", "forget"}
  /\ cmd \in {"idle", "unload", "close", "forget", "open"} => cmdloc.fd = None
  /\ cmd \in {"open", "loaded"} => fds[cmdloc.drv] = None
  /\ cmd = "loaded" => /\ cmdloc.fd \in FDs /\ opened[cmdloc.fd] # None
                       /\ \A d \in Drives : fds[d] # cmdloc.fd
  /\ cmd \in {"online", "mark", "end"} /\ cmdloc.fd # None =>
       fds[cmdloc.drv] = cmdloc.fd

\* A drive's descriptor is open until the command thread has closed it and is
\* about to forget it.
FdsOpen ==
  \A d \in Drives : fds[d] # None =>
    (opened[fds[d]] = None <=> cmd = "forget" /\ d = cmdloc.drv)

FilesInv == Types /\ DescriptorsOwned /\ CmdOwns /\ FdsOpen

\* Who has the mutex.
LockHeld ==
  /\ lock = "io" <=> io \notin {"waitint", "lock"}
  /\ \A d \in Drives : lock = d <=> tpc[d] = "update"
  /\ lock = "cmd" <=> cmdloc.op = "UNLD"

\* The i/o thread is past reading a command, and no load of its drive has been
\* under way since: its descriptor is the drive's, open on the drive's file.
FileKept ==
  io \notin {"waitint", "lock", "read"} /\ ioloc.alone =>
    /\ cmdloc.op = "LOAD" => cmdloc.drv # ioloc.drv
    /\ fds[ioloc.drv] = ioloc.fd
    /\ ioloc.fd # None => opened[ioloc.fd] = ioloc.file /\ ioloc.file # None

\* The i/o thread works on the command in the registers, if there is no load
\* and no reset.
IoWorks ==
  /\ io # "abort"
  /\ io \in {"lock", "read"} => Armintrq \/ (ready /\ initing)
  /\ io \notin {"waitint", "lock", "read"} =>
       /\ Armintrq /\ ~initing /\ ioloc.fd = fds[ioloc.drv]
  /\ initing => Unseen /\ cmd = "idle" /\ ready
  /\ cmdloc.op = "LOAD" => Quiet /\ ~initing

\* The copy v of register 4 may be written back: no drive that seeks is ready
\* in it, and the drives are online in it as they are in the register.
Fresh(v) == \A d \in Drives : /\ seek[d] = "future" => ~v[d].drdy
                              /\ v[d].dronl = rl4[d].dronl

Copies ==
  /\ io \in {"clear", "headsel", "drdy"} => Fresh(ioloc.rl4)
  /\ io \in {"seek", "headsel", "settime"} => ~rl4[ioloc.drv].drdy
  /\ io = "headsel" => ~ioloc.rl4[ioloc.drv].drdy
  /\ \A d \in Drives : tpc[d] = "update" => seek[d] = "past" /\ Fresh(tmp[d])
  /\ cmd = "unload" => Fresh(cmdloc.rl4)
  /\ cmd = "mark" => \A d \in Drives :
       IF d = cmdloc.drv THEN cmdloc.rl4[d].dronl
                         ELSE cmdloc.rl4[d].dronl = rl4[d].dronl

\* A drive is online to the PDP-11 if it has a file, but for the one the
\* command thread is at; a drive that seeks is not ready.
Shown ==
  \A d \in Drives :
    /\ d # cmdloc.drv \/ cmd \in {"idle", "unload", "end"} =>
         rl4[d].dronl = (fds[d] # None)
    /\ d = cmdloc.drv /\ cmd \in {"close", "forget", "open", "loaded"} => ~rl4[d].dronl
    /\ d = cmdloc.drv /\ cmd \in {"online", "mark"} => fds[d] # None
    /\ seek[d] = "future" => ~rl4[d].drdy

CalmInv == IoWorks /\ Copies /\ Shown

RlInv == FilesInv /\ LockHeld /\ FileKept /\ (Disturb = {} => CalmInv)

-----------------------------------------------------------------------------
(* Types. *)

\* A write of register 4 leaves status bits in it.
LEMMA WriteType ==
  ASSUME Types, NEW v \in [Drives -> Status], WriteRl4(v)
  PROVE  rl4' \in [Drives -> Status]
  BY DEF Types, TypeOK, WriteRl4

\* An update of one drive's status is again a status.
LEMMA StatusType ==
  ASSUME NEW v \in [Drives -> Status], NEW d, NEW b \in BOOLEAN
  PROVE  /\ [v EXCEPT ![d].drdy = b] \in [Drives -> Status]
         /\ [v EXCEPT ![d].volck = b] \in [Drives -> Status]
         /\ [v EXCEPT ![d].drdy = b, ![d].dronl = b] \in [Drives -> Status]
         /\ [v EXCEPT ![d] = [drdy |-> TRUE, dronl |-> TRUE, volck |-> TRUE]]
              \in [Drives -> Status]
<1>1. d \in Drives => v[d] \in Status
  OBVIOUS
<1>2. d \in Drives => /\ [v[d] EXCEPT !.drdy = b] \in Status
                      /\ [v[d] EXCEPT !.volck = b] \in Status
                      /\ [v[d] EXCEPT !.drdy = b, !.dronl = b] \in Status
  BY <1>1 DEF Status
<1>3. [drdy |-> TRUE, dronl |-> TRUE, volck |-> TRUE] \in Status
  BY DEF Status
<1> QED
  BY <1>2, <1>3

\* The steps of the i/o thread.
LEMMA IoTypes ==
  ASSUME FilesInv, IoStep
  PROVE  Types'
<1> USE DEF FilesInv, Types, TypeOK, fpga, files, timers, cmdvars, counts
<1>0. io' \in IoPCs
  BY DEF IoStep, WaitInt, IoLock, IoNothing, IoStart, IoClear, IoRead, IoWrite, IoCheck,
         IoEnds, IoHeader, IoBadSeek, IoSeekRead, IoSeekWrite, IoSeekTime, IoDoneRead,
         IoDoneWrite, IoDone, Io, IoPCs
<1>a. ioloc.rl4 \in [Drives -> Status] /\ ioloc.fd \in FDs \cup {None}
  BY DEF IoLocs
<1>b. io' \notin {"waitint", "lock", "read"} => ioloc'.drv \in Drives
  BY SMTT(30) DEF IoStep, WaitInt, IoLock, IoNothing, IoStart, IoClear, IoRead, IoWrite, IoCheck,
         IoEnds, IoHeader, IoBadSeek, IoSeekRead, IoSeekWrite, IoSeekTime, IoDoneRead,
         IoDoneWrite, IoDone, Io, IoLocs
<1>1. CASE WaitInt \/ IoLock \/ IoNothing \/ IoHeader
  BY <1>0, <1>b, <1>1 DEF WaitInt, IoLock, IoNothing, IoHeader
<1>2. CASE IoStart
  <2>1. (IF fds[sel] = None THEN None ELSE opened[fds[sel]]) \in Files \cup {None}
    OBVIOUS
  <2>2. ioloc' \in IoLocs
    BY <1>2, <2>1 DEF IoStart, IoLocs
  <2> QED
    BY <1>0, <1>b, <1>2, <2>2 DEF IoStart, IoLocs
<1>3. CASE IoClear
  <2>1. rl4' \in [Drives -> Status]
    BY <1>a, <1>3, StatusType, WriteType DEF IoClear
  <2> QED
    BY <1>0, <1>b, <1>3, <2>1 DEF IoClear
<1>4. ASSUME NEW e \in BOOLEAN, IoEnds(e) PROVE Types'
  <2>1. ioloc' \in IoLocs
    BY <1>4 DEF IoEnds, IoLocs
  <2> QED
    BY <1>0, <1>b, <1>4, <2>1 DEF IoEnds, IoLocs
<1>5. CASE IoBadSeek
  <2>1. ioloc' \in IoLocs
    BY <1>5 DEF IoBadSeek, IoLocs
  <2> QED
    BY <1>0, <1>b, <1>5, <2>1 DEF IoBadSeek, IoLocs
<1>6. CASE IoSeekRead
  <2>1. ioloc' \in IoLocs
    BY <1>6 DEF IoSeekRead, IoLocs
  <2> QED
    BY <1>0, <1>b, <1>6, <2>1 DEF IoSeekRead, IoLocs
<1>7. CASE IoSeekWrite \/ IoDoneWrite
  <2>1. rl4' \in [Drives -> Status]
    BY <1>a, <1>7, WriteType DEF IoSeekWrite, IoDoneWrite
  <2> QED
    BY <1>0, <1>b, <1>7, <2>1 DEF IoSeekWrite, IoDoneWrite
<1>8. CASE IoSeekTime
  BY <1>0, <1>b, <1>8 DEF IoSeekTime
<1>9. CASE IoDoneRead
  <2>1. [rl4 EXCEPT ![ioloc.drv].drdy =
                 ioloc.fd # None /\ seek[ioloc.drv] # "future"] \in [Drives -> Status]
    BY StatusType, Zenon
  <2>2. ioloc' \in IoLocs
    BY <1>9, <2>1 DEF IoDoneRead, IoLocs
  <2> QED
    BY <1>0, <1>b, <1>9, <2>2 DEF IoDoneRead, IoLocs
<1>10. CASE IoDone
  <2>1. NoIo \in IoLocs
    BY DEF NoIo, NoRl4, IoLocs, Fns, Status
  <2>2. ioloc.fn \in Fns /\ ioloc.drv \in Drives /\ ioloc.err \in BOOLEAN
    BY <1>10 DEF IoLocs, IoDone, Io
  <2> QED
    BY <1>0, <1>b, <1>10, <2>1, <2>2 DEF IoDone, IoLocs
<1> QED
  BY <1>1, <1>2, <1>3, <1>4, <1>5, <1>6, <1>7, <1>8, <1>9, <1>10
     DEF IoStep, IoRead, IoWrite, IoCheck

\* The steps of the command thread.
LEMMA CmdTypes ==
  ASSUME FilesInv, CmdStep
  PROVE  Types'
<1> USE DEF FilesInv, Types, TypeOK, fpga, files, iovars, timers, counts
<1>0. cmd' \in CmdPCs
  BY DEF CmdStep, UnloadWrite, UnloadClose, UnloadForget, LoadOpen, LoadFails, LoadSaveFd,
         LoadRead, LoadWrite, LoadEnds, Cmd, CmdPCs
<1>a. cmdloc.rl4 \in [Drives -> Status] /\ cmdloc.fd \in FDs \cup {None}
  BY DEF CmdLocs
<1>b. NoCmd \in CmdLocs /\ NoCmd.fd = None /\ NoCmd.rl4 \in [Drives -> Status]
  BY DEF NoCmd, NoRl4, CmdLocs, Status
<1>1. CASE UnloadWrite
  <2>1. rl4' \in [Drives -> Status]
    BY <1>a, <1>1, StatusType, WriteType DEF UnloadWrite
  <2> QED
    BY <1>0, <1>1, <2>1 DEF UnloadWrite
<1>2. CASE UnloadClose
  BY <1>0, <1>2 DEF UnloadClose
<1>3. CASE UnloadForget
  BY <1>0, <1>a, <1>b, <1>3 DEF UnloadForget
<1>4. CASE LoadOpen
  <2>1. cmdloc' \in CmdLocs /\ cmdloc.file \in Files
    BY <1>4 DEF LoadOpen, Cmd, CmdLocs, CmdOwns
  <2> QED
    BY <1>0, <1>4, <2>1 DEF LoadOpen, CmdLocs
<1>5. CASE LoadFails
  BY <1>0, <1>5 DEF LoadFails
<1>6. CASE LoadSaveFd
  BY <1>0, <1>a, <1>6 DEF LoadSaveFd
<1>7. CASE LoadRead
  <2>1. [rl4 EXCEPT ![cmdloc.drv] = [drdy |-> TRUE, dronl |-> TRUE, volck |-> TRUE]]
          \in [Drives -> Status]
    BY StatusType
  <2>2. cmdloc' \in CmdLocs
    BY <1>7, <2>1 DEF LoadRead, CmdLocs
  <2> QED
    BY <1>0, <1>7, <2>2 DEF LoadRead, CmdLocs
<1>8. CASE LoadWrite
  <2>1. rl4' \in [Drives -> Status]
    BY <1>a, <1>8, WriteType DEF LoadWrite
  <2> QED
    BY <1>0, <1>8, <2>1 DEF LoadWrite
<1>9. CASE LoadEnds
  BY <1>0, <1>b, <1>9 DEF LoadEnds
<1> QED
  BY <1>1, <1>2, <1>3, <1>4, <1>5, <1>6, <1>7, <1>8, <1>9 DEF CmdStep

\* The PDP-11, the timers and the beginnings of commands.
LEMMA OtherTypes ==
  ASSUME FilesInv, NEW d \in Drives,
         \/ \E f \in Fns : PdpCommand(f, d)
         \/ \E f \in Files : LoadBegins(d, f)
         \/ UnloadBegins(d) \/ EndOfSeek(d) \/ TimerStep(d)
         \/ FpgaCommand \/ InitOn \/ InitOff
  PROVE  Types'
<1> USE DEF FilesInv, Types, TypeOK, fpga, files, iovars, timers, counts, cmdvars
<1>1. ASSUME NEW f \in Fns, PdpCommand(f, d) PROVE Types'
  <2>1. rl4' \in [Drives -> Status]
    BY <1>1, StatusType DEF PdpCommand
  <2>2. cmdno' \in Nat
    BY <1>1 DEF PdpCommand
  <2>3. fn' \in Fns /\ sel' \in Drives /\ err' \in BOOLEAN /\ ready' \in BOOLEAN
    BY <1>1 DEF PdpCommand
  <2>4. UNCHANGED <<initing, files, seek, lock, iovars, timers, cmdvars, loadno, inits>>
    BY <1>1 DEF PdpCommand
  <2> QED
    BY <2>1, <2>2, <2>3, <2>4
<1>2. ASSUME NEW f \in Files, LoadBegins(d, f) PROVE Types'
  <2>1. cmdloc' \in CmdLocs /\ cmdloc'.fd = None /\ cmdloc'.rl4 = rl4
    BY <1>2 DEF LoadBegins, CmdLocs, NoCmd
  <2>2. /\ ioloc' \in IoLocs /\ ioloc'.fd = ioloc.fd /\ ioloc'.rl4 = ioloc.rl4
        /\ ioloc'.drv = ioloc.drv /\ io' = io
    BY <1>2 DEF LoadBegins, IoLocs
  <2>3. /\ cmd' \in CmdPCs /\ rl4' = rl4
        /\ UNCHANGED <<initing, ready, fn, sel, err, opened, fds, seek, tpc, tmp, cmdno>>
        /\ lock' = lock
    BY <1>2 DEF LoadBegins, Cmd, CmdPCs, fpga
  <2> QED
    BY <2>1, <2>2, <2>3
<1>3. CASE UnloadBegins(d)
  <2>1. cmdloc' \in CmdLocs /\ cmdloc'.fd = None /\ cmdloc'.rl4 = rl4
    BY <1>3 DEF UnloadBegins, CmdLocs, NoCmd
  <2> QED
    BY <1>3, <2>1 DEF UnloadBegins, Cmd, CmdPCs
<1>4. CASE EndOfSeek(d) \/ TimerWaits(d) \/ TimerExpires(d)
  BY <1>4 DEF EndOfSeek, TimerWaits, TimerExpires, TimerGo
<1>5. CASE TimerRead(d)
  BY <1>5 DEF TimerRead, TimerGo
<1>6. CASE TimerWrite(d)
  <2>1. NoRl4 \in [Drives -> Status]
    BY DEF NoRl4, Status
  <2>2. rl4' \in [Drives -> Status]
    BY <1>6, StatusType, WriteType DEF TimerWrite
  <2> QED
    BY <1>6, <2>1, <2>2 DEF TimerWrite, TimerGo
<1>7. CASE FpgaCommand
  <2>1. rl4' \in [Drives -> Status]
    BY <1>7, StatusType DEF FpgaCommand
  <2> QED
    BY <1>7, <2>1 DEF FpgaCommand
<1>8. CASE InitOn \/ InitOff
  <2>1. /\ initing' \in BOOLEAN
        /\ ready' \in BOOLEAN /\ fn' \in Fns /\ sel' \in Drives /\ err' \in BOOLEAN
    BY <1>8, Drive0Assumption DEF InitOn, InitOff, Fns
  <2>2. UNCHANGED <<rl4, files, seek, lock, iovars, timers, cmdvars, cmdno>>
    BY <1>8 DEF InitOn, InitOff
  <2> QED
    BY <2>1, <2>2
<1> QED
  BY <1>1, <1>2, <1>3, <1>4, <1>5, <1>6, <1>7, <1>8 DEF TimerStep

-----------------------------------------------------------------------------
(* Files and descriptors. *)

\* All threads but the command thread leave files alone; it keeps account of
\* what it opens and closes.
LEMMA FilesPreserved == FilesInv /\ [Next]_vars => FilesInv'
<1> SUFFICES ASSUME FilesInv, [Next]_vars PROVE FilesInv'
  OBVIOUS
<1>0. Types'
  <2>1. CASE UNCHANGED vars
    BY <2>1 DEF FilesInv, Types, TypeOK, vars, fpga, files, iovars, timers, cmdvars, counts
  <2>2. CASE FpgaCommand \/ InitOn \/ InitOff
    BY <2>2, Drive0Assumption, OtherTypes
  <2> QED
    BY <2>1, <2>2, IoTypes, CmdTypes, OtherTypes DEF Next
<1> USE NoneAssumption
    DEF DescriptorsOwned, CmdOwns, FdsOpen, FilesInv, Types, TypeOK, Cmd
<1>1. CASE UNCHANGED <<files, cmdvars>>
  BY <1>0, <1>1 DEF files, cmdvars
<1>2. ASSUME NEW d \in Drives, NEW f \in Files, LoadBegins(d, f) PROVE FilesInv'
  BY <1>0, <1>2 DEF LoadBegins, files, NoCmd
<1>3. ASSUME NEW d \in Drives, UnloadBegins(d) PROVE FilesInv'
  BY <1>0, <1>3 DEF UnloadBegins, files, NoCmd
<1>4. CASE UnloadWrite
  BY <1>0, <1>4 DEF UnloadWrite, files
<1>5. CASE UnloadClose
  BY <1>0, <1>5 DEF UnloadClose
<1>6. CASE UnloadForget
  BY <1>0, <1>6 DEF UnloadForget, NoCmd
<1>7. CASE LoadOpen
  <2>1. PICK n \in FDs : /\ opened[n] = None
                         /\ opened' = [opened EXCEPT ![n] = cmdloc.file]
                         /\ cmdloc' = [cmdloc EXCEPT !.fd = n]
    BY <1>7 DEF LoadOpen
  <2>2. cmdloc'.fd = n /\ cmdloc'.op = cmdloc.op /\ cmdloc'.drv = cmdloc.drv
        /\ cmdloc'.file = cmdloc.file
    BY <2>1 DEF CmdLocs
  <2>3. cmd = "open" /\ cmd' = "loaded" /\ fds' = fds /\ cmdloc.file # None
    BY <1>7 DEF LoadOpen
  <2>4. \A d \in Drives : fds[d] # n
    BY <2>1, <2>3
  <2>5. \A m \in FDs : opened'[m] = IF m = n THEN cmdloc.file ELSE opened[m]
    BY <2>1
  <2>6. CmdOwns'
    BY <2>2, <2>3, <2>4, <2>5
  <2>7. DescriptorsOwned'
    BY <1>0, <2>2, <2>3, <2>4, <2>5
  <2>8. FdsOpen'
    BY <2>2, <2>3, <2>4, <2>5
  <2> QED
    BY <1>0, <2>6, <2>7, <2>8
<1>8. CASE LoadFails \/ LoadRead \/ LoadWrite
  <2>1. cmdloc'.fd = cmdloc.fd /\ cmdloc'.op = cmdloc.op /\ cmdloc'.drv = cmdloc.drv
        /\ cmdloc'.file = cmdloc.file
    BY <1>8 DEF LoadFails, LoadRead, LoadWrite, CmdLocs
  <2> QED
    BY <1>0, <1>8, <2>1 DEF LoadFails, LoadRead, LoadWrite, files
<1>9. CASE LoadSaveFd
  BY <1>0, <1>9 DEF LoadSaveFd
<1>10. CASE LoadEnds
  BY <1>0, <1>10 DEF LoadEnds, files, NoCmd
<1> QED
  BY <1>1, <1>2, <1>3, <1>4, <1>5, <1>6, <1>7, <1>8, <1>9, <1>10
     DEF Next, CmdStep, IoStep, TimerStep, PdpCommand, EndOfSeek, TimerWaits, TimerRead,
         TimerWrite, TimerExpires, FpgaCommand, InitOn, InitOff,
         WaitInt, IoLock, IoNothing, IoStart, IoClear, IoRead, IoWrite, IoCheck, IoEnds,
         IoHeader, IoBadSeek, IoSeekRead, IoSeekWrite, IoSeekTime, IoDoneRead,
         IoDoneWrite, IoDone, vars

-----------------------------------------------------------------------------
(* The mutex. *)

\* The mutex is held by the thread whose pc says so, after every step.
LEMMA LockPreserved == FilesInv /\ LockHeld /\ [Next]_vars => LockHeld'
<1> SUFFICES ASSUME FilesInv, LockHeld, [Next]_vars PROVE LockHeld'
  OBVIOUS
<1> USE NoneAssumption DEF LockHeld, FilesInv, CmdOwns, Types, TypeOK
<1>1. CASE IoStep
  <2>1. UNCHANGED cmdloc
    BY <1>1 DEF IoStep, WaitInt, IoLock, IoNothing, IoStart, IoClear, IoRead, IoWrite, IoCheck,
         IoEnds, IoHeader, IoBadSeek, IoSeekRead, IoSeekWrite, IoSeekTime, IoDoneRead,
         IoDoneWrite, IoDone, cmdvars
  <2>2. CASE WaitInt
    BY <2>1, <2>2 DEF WaitInt, Io, timers
  <2>3. CASE IoLock
    BY <2>1, <2>3 DEF IoLock, Io, timers
  <2>4. CASE IoNothing \/ IoDone
    BY <2>1, <2>4 DEF IoNothing, IoDone, Io, timers
  <2>5. CASE IoSeekTime
    BY <2>1, <2>5 DEF IoSeekTime, Io
  <2>6. CASE io \notin {"waitint", "lock"} /\ io' \notin {"waitint", "lock"}
             /\ UNCHANGED <<lock, timers>>
    BY <2>1, <2>6 DEF timers
  <2> QED
    BY <1>1, <2>2, <2>3, <2>4, <2>5, <2>6
       DEF IoStep, IoStart, IoClear, IoRead, IoWrite, IoCheck, IoEnds, IoHeader, IoBadSeek,
           IoSeekRead, IoSeekWrite, IoDoneRead, IoDoneWrite, Io
<1>2. ASSUME NEW d \in Drives, TimerStep(d) PROVE LockHeld'
  BY <1>2 DEF TimerStep, TimerWaits, TimerRead, TimerWrite, TimerExpires, TimerGo,
              iovars, cmdvars
<1>3. ASSUME NEW d \in Drives, NEW f \in Files, LoadBegins(d, f) PROVE LockHeld'
  BY <1>3 DEF LoadBegins, Cmd, NoCmd, timers
<1>4. ASSUME NEW d \in Drives, UnloadBegins(d) PROVE LockHeld'
  BY <1>4 DEF UnloadBegins, Cmd, NoCmd, iovars, timers
<1>5. CASE UnloadForget
  BY <1>5 DEF UnloadForget, Cmd, NoCmd, iovars, timers
<1>6. CASE LoadEnds
  BY <1>6 DEF LoadEnds, Cmd, NoCmd, iovars, timers
<1>7. CASE LoadOpen \/ LoadRead
  <2>1. cmdloc'.op = cmdloc.op
    BY <1>7 DEF LoadOpen, LoadRead, CmdLocs
  <2> QED
    BY <1>7, <2>1 DEF LoadOpen, LoadRead, iovars, timers
<1>8. CASE UNCHANGED <<lock, iovars, timers, cmdloc>>
  BY <1>8 DEF iovars, timers
<1> QED
  BY <1>1, <1>2, <1>3, <1>4, <1>5, <1>6, <1>7, <1>8
     DEF Next, CmdStep, UnloadWrite, UnloadClose, LoadFails, LoadSaveFd, LoadWrite,
         PdpCommand, EndOfSeek, FpgaCommand, InitOn, InitOff, vars, cmdvars

-----------------------------------------------------------------------------
(* The file of a transfer. *)

\* An unload waits for the mutex, and a load of another drive closes and opens
\* other descriptors.
LEMMA FileKeptPreserved ==
  ASSUME FilesInv, LockHeld, FileKept, [Next]_vars
  PROVE  FileKept'
<1> DEFINE Using == io \notin {"waitint", "lock", "read"}
<1> USE NoneAssumption DEF FileKept
<1>0. /\ cmdloc.op \in {"none", "LOAD", "UNLD"}
      /\ Using => lock = "io" /\ cmdloc.op # "UNLD" /\ ioloc.drv \in Drives
      /\ ioloc \in IoLocs /\ cmdloc \in CmdLocs
      /\ fds \in [Drives -> FDs \cup {None}] /\ opened \in [FDs -> Files \cup {None}]
      /\ sel \in Drives
  BY DEF FilesInv, Types, TypeOK, CmdLocs, LockHeld
<1>1. CASE IoStart
  <2>1. /\ ioloc'.fd = fds[sel] /\ ioloc'.drv = sel
        /\ ioloc'.file = IF fds[sel] = None THEN None ELSE opened[fds[sel]]
        /\ ioloc'.alone => (cmdloc.op = "LOAD" => cmdloc.drv # sel)
        /\ io = "read" /\ UNCHANGED <<fds, opened, cmdloc>>
    BY <1>1 DEF IoStart, Io, files, cmdvars
  <2>2. cmdloc.op # "UNLD"
    BY <2>1 DEF LockHeld
  <2>3. ASSUME ioloc'.alone, fds[sel] # None PROVE opened[fds[sel]] # None
    <3>1. opened[fds[sel]] = None => cmd = "forget" /\ sel = cmdloc.drv
      BY <1>0, <2>3 DEF FilesInv, FdsOpen
    <3>2. cmd = "forget" => cmdloc.op = "LOAD"
      BY <1>0, <2>2 DEF FilesInv, CmdOwns
    <3> QED
      BY <2>1, <2>3, <3>1, <3>2
  <2> QED
    BY <2>1, <2>3
<1>2. CASE \/ WaitInt \/ IoLock \/ IoNothing \/ IoDone
  BY <1>2 DEF WaitInt, IoLock, IoNothing, IoDone, Io
<1>3. CASE IoClear \/ (\E e \in BOOLEAN : IoEnds(e)) \/ IoHeader \/ IoBadSeek \/ IoSeekRead
           \/ IoSeekWrite \/ IoSeekTime \/ IoDoneRead \/ IoDoneWrite
  <2>1. /\ ioloc'.fd = ioloc.fd /\ ioloc'.drv = ioloc.drv /\ ioloc'.file = ioloc.file
        /\ ioloc'.alone = ioloc.alone
    BY <1>0, <1>3 DEF IoClear, IoEnds, IoHeader, IoBadSeek, IoSeekRead, IoSeekWrite,
                IoSeekTime, IoDoneRead, IoDoneWrite, IoLocs
  <2>2. Using /\ UNCHANGED <<fds, opened, cmdloc>>
    BY <1>3 DEF IoClear, IoEnds, IoHeader, IoBadSeek, IoSeekRead, IoSeekWrite,
                IoSeekTime, IoDoneRead, IoDoneWrite, Io, files, cmdvars
  <2> QED
    BY <2>1, <2>2
<1>4. ASSUME NEW d \in Drives, NEW f \in Files, LoadBegins(d, f) PROVE FileKept'
  <2>1. /\ ioloc'.fd = ioloc.fd /\ ioloc'.drv = ioloc.drv /\ ioloc'.file = ioloc.file
        /\ ioloc'.alone => ioloc.alone /\ d # ioloc.drv
    BY <1>0, <1>4 DEF LoadBegins, IoLocs
  <2>2. cmdloc'.drv = d /\ UNCHANGED <<io, fds, opened>>
    BY <1>4 DEF LoadBegins, NoCmd, files
  <2> QED
    BY <2>1, <2>2
<1>5. ASSUME NEW d \in Drives, UnloadBegins(d) PROVE FileKept'
  BY <1>0, <1>5 DEF UnloadBegins, iovars
<1>6. CASE CmdStep
  <2> SUFFICES ASSUME Using, ioloc.alone
               PROVE  /\ cmdloc'.op = "LOAD" => cmdloc'.drv # ioloc.drv
                      /\ fds'[ioloc.drv] = ioloc.fd
                      /\ ioloc.fd # None => opened'[ioloc.fd] = ioloc.file /\ ioloc.file # None
    <3>1. UNCHANGED <<io, ioloc>>
      BY <1>6 DEF CmdStep, UnloadWrite, UnloadClose, UnloadForget, LoadOpen, LoadFails,
         LoadSaveFd, LoadRead, LoadWrite, LoadEnds, iovars
    <3> QED
      BY <3>1
  <2>1. /\ cmd # "idle" /\ cmdloc.op = "LOAD" /\ cmdloc.drv \in Drives
        /\ cmdloc.drv # ioloc.drv
    BY <1>0, <1>6 DEF CmdStep, UnloadWrite, UnloadClose, UnloadForget, LoadOpen, LoadFails,
         LoadSaveFd, LoadRead, LoadWrite, LoadEnds, Cmd, FilesInv, CmdOwns
  <2>2. ioloc.fd # None => ioloc.fd \in FDs /\ fds[cmdloc.drv] # ioloc.fd
    BY <1>0, <2>1 DEF FilesInv, DescriptorsOwned
  <2>3. CASE UnloadClose
    <3>1. /\ UNCHANGED <<fds, cmdloc>>
          /\ opened' = IF fds[cmdloc.drv] = None THEN opened
                       ELSE [opened EXCEPT ![fds[cmdloc.drv]] = None]
      BY <2>3 DEF UnloadClose
    <3> QED
      BY <1>0, <2>1, <2>2, <3>1
  <2>4. CASE UnloadForget
    BY <1>0, <2>1, <2>2, <2>4 DEF UnloadForget
  <2>5. CASE LoadOpen
    <3>1. PICK n \in FDs : opened[n] = None /\ opened' = [opened EXCEPT ![n] = cmdloc.file]
      BY <2>5 DEF LoadOpen
    <3>2. cmdloc'.drv = cmdloc.drv /\ fds' = fds
      BY <1>0, <2>5 DEF LoadOpen, CmdLocs
    <3> QED
      BY <1>0, <2>1, <2>2, <3>1, <3>2
  <2>6. CASE LoadSaveFd
    BY <1>0, <2>1, <2>6 DEF LoadSaveFd
  <2>7. CASE UnloadWrite \/ LoadFails \/ LoadRead \/ LoadWrite
    <3>1. cmdloc'.drv = cmdloc.drv /\ UNCHANGED <<fds, opened>>
      BY <1>0, <2>7 DEF UnloadWrite, LoadFails, LoadRead, LoadWrite, CmdLocs, files
    <3> QED
      BY <2>1, <3>1
  <2>8. CASE LoadEnds
    BY <2>8 DEF LoadEnds, NoCmd, files
  <2> QED
    BY <1>6, <2>3, <2>4, <2>5, <2>6, <2>7, <2>8 DEF CmdStep
<1>7. CASE UNCHANGED <<io, ioloc, fds, opened, cmdloc>>
  BY <1>7
<1> QED
  BY <1>1, <1>2, <1>3, <1>4, <1>5, <1>6, <1>7
     DEF Next, IoStep, IoRead, IoWrite, IoCheck, TimerStep, PdpCommand, EndOfSeek, TimerWaits,
         TimerRead, TimerWrite, TimerExpires, FpgaCommand, InitOn, InitOff, vars, files,
         iovars, cmdvars

-----------------------------------------------------------------------------
(* The i/o thread, when loads and resets keep clear of it. *)

\* Nothing but the command thread is at work during a load, and nobody at all
\* that writes register 4 during a reset.
LEMMA Alone ==
  ASSUME Types, LockHeld, CmdOwns, IoWorks
  PROVE  /\ cmdloc.op = "LOAD" =>
              /\ io = "waitint" /\ ready /\ ~initing
              /\ \A d \in Drives : seek[d] = "none" /\ tpc[d] = "sleep"
         /\ io \notin {"waitint", "lock", "read"} =>
              ~initing /\ ~ready /\ cmdloc.op = "none" /\ cmd = "idle" /\ lock = "io"
         /\ \A d \in Drives : tpc[d] # "sleep" => ~initing /\ cmdloc.op # "LOAD"
         /\ cmd # "idle" => ~initing
<1>1. cmdloc.op \in {"none", "LOAD", "UNLD"}
  BY DEF Types, CmdLocs
<1>2. cmdloc.op = "LOAD" =>
        /\ io = "waitint" /\ ready /\ ~initing
        /\ \A d \in Drives : seek[d] = "none" /\ tpc[d] = "sleep"
  BY DEF IoWorks, Quiet, Unseen
<1>3. io \notin {"waitint", "lock", "read"} =>
        ~initing /\ ~ready /\ cmdloc.op = "none" /\ cmd = "idle" /\ lock = "io"
  BY <1>1, <1>2 DEF LockHeld, CmdOwns, IoWorks, Armintrq
<1>4. initing => cmd = "idle" /\ \A d \in Drives : tpc[d] = "sleep"
  BY DEF IoWorks, Unseen
<1> QED
  BY <1>2, <1>3, <1>4

\* The i/o thread works on the command in the registers.
LEMMA IoWorksPreserved ==
  ASSUME Disturb = {}, FilesInv, LockHeld, IoWorks, [Next]_vars
  PROVE  IoWorks'
<1> USE Alone DEF FilesInv, Types, TypeOK, IoWorks, Quiet, Unseen, Armintrq
<1>1. ASSUME NEW d \in Drives, NEW f \in Fns, PdpCommand(f, d) PROVE IoWorks'
  BY <1>1 DEF PdpCommand, files, iovars, timers, cmdvars, LockHeld
<1>2. CASE FpgaCommand \/ InitOff
  BY <1>2 DEF FpgaCommand, InitOff, files, iovars, timers, cmdvars, counts
<1>3. CASE InitOn
  BY <1>3, Drive0Assumption DEF InitOn, CmdOwns, files, iovars, timers, cmdvars
<1>4. CASE WaitInt \/ IoLock \/ IoNothing
  BY <1>4 DEF WaitInt, IoLock, IoNothing, Io, fpga, files, timers, cmdvars, counts
<1>5. CASE IoStart
  <2>1. /\ ioloc'.fd = fds[sel] /\ ioloc'.drv = sel
        /\ io = "read" /\ io' = IF fn \in ByFpga THEN "abort" ELSE "clear"
    BY <1>5 DEF IoStart, Io
  <2> QED
    BY <1>5, <2>1 DEF IoStart, fpga, files, timers, cmdvars, counts
<1>6. CASE IoClear \/ (\E e \in BOOLEAN : IoEnds(e)) \/ IoHeader \/ IoBadSeek \/ IoSeekRead
           \/ IoSeekWrite \/ IoDoneRead \/ IoDoneWrite
  <2>1. ioloc'.fd = ioloc.fd /\ ioloc'.drv = ioloc.drv
    BY <1>6 DEF IoClear, IoEnds, IoHeader, IoBadSeek, IoSeekRead, IoSeekWrite,
                IoDoneRead, IoDoneWrite, IoLocs
  <2>2. /\ io \notin {"waitint", "lock", "read"}
        /\ io' \notin {"waitint", "lock", "read", "abort"}
    BY <1>6 DEF IoClear, IoEnds, IoHeader, IoBadSeek, IoSeekRead, IoSeekWrite,
                IoDoneRead, IoDoneWrite, Io
  <2>3. UNCHANGED <<fpga, files, seek, timers, cmdvars, cmdno>>
    BY <1>6 DEF IoClear, IoEnds, IoHeader, IoBadSeek, IoSeekRead, IoSeekWrite,
                IoDoneRead, IoDoneWrite, counts
  <2> QED
    BY <2>1, <2>2, <2>3 DEF fpga, files, timers, cmdvars
<1>7. CASE IoSeekTime
  BY <1>7 DEF IoSeekTime, Io, fpga, files, cmdvars, counts
<1>8. CASE IoDone
  BY <1>8 DEF IoDone, Io, files, timers, cmdvars, counts
<1>9. ASSUME NEW d \in Drives, EndOfSeek(d) \/ TimerStep(d) PROVE IoWorks'
  BY <1>9 DEF EndOfSeek, TimerStep, TimerWaits, TimerRead, TimerWrite, TimerExpires,
              TimerGo, fpga, files, iovars, timers, cmdvars, counts
<1>10. ASSUME NEW d \in Drives, NEW f \in Files, LoadBegins(d, f) PROVE IoWorks'
  BY <1>10 DEF LoadBegins, Cmd, fpga, files, timers, NoCmd
<1>11. ASSUME NEW d \in Drives, UnloadBegins(d) PROVE IoWorks'
  BY <1>11 DEF UnloadBegins, Cmd, fpga, files, iovars, timers, NoCmd, CmdOwns
<1>12. CASE CmdStep
  <2>1. cmd # "idle" /\ ~initing
    BY <1>12 DEF CmdStep, UnloadWrite, UnloadClose, UnloadForget, LoadOpen, LoadFails,
         LoadSaveFd, LoadRead, LoadWrite, LoadEnds, Cmd
  <2>2. io \in {"waitint", "lock", "read"} /\ (cmdloc.op = "LOAD" => io = "waitint")
    BY <2>1
  <2>3. UNCHANGED <<fpga, seek, iovars, timers, cmdno>>
    BY <1>12 DEF CmdStep, UnloadWrite, UnloadClose, UnloadForget, LoadOpen, LoadFails,
         LoadSaveFd, LoadRead, LoadWrite, LoadEnds, counts
  <2>4. cmdloc'.op \in {cmdloc.op, "none"}
    BY <1>12 DEF CmdStep, UnloadWrite, UnloadClose, UnloadForget, LoadOpen, LoadFails,
         LoadSaveFd, LoadRead, LoadWrite, LoadEnds, CmdLocs, NoCmd
  <2> QED
    BY <2>1, <2>2, <2>3, <2>4 DEF fpga, iovars, timers
<1>13. CASE UNCHANGED vars
  BY <1>13 DEF vars, fpga, files, iovars, timers, cmdvars, counts
<1> QED
  BY <1>1, <1>2, <1>3, <1>4, <1>5, <1>6, <1>7, <1>8, <1>9, <1>10, <1>11, <1>12, <1>13
     DEF Next, IoStep, IoRead, IoWrite, IoCheck

-----------------------------------------------------------------------------
(* The status in register 4. *)

\* What an update of one drive's bits does to the others.
LEMMA Bits ==
  ASSUME NEW v \in [Drives -> Status], NEW d \in Drives, NEW b \in BOOLEAN,
         NEW c \in Drives
  PROVE  /\ [v EXCEPT ![d].drdy = b][c].dronl = v[c].dronl
         /\ [v EXCEPT ![d].drdy = b][c].drdy = IF c = d THEN b ELSE v[c].drdy
         /\ [v EXCEPT ![d].volck = b][c].dronl = v[c].dronl
         /\ [v EXCEPT ![d].volck = b][c].drdy = v[c].drdy
         /\ [v EXCEPT ![d].drdy = b, ![d].dronl = b][c].dronl =
              IF c = d THEN b ELSE v[c].dronl
         /\ [v EXCEPT ![d].drdy = b, ![d].dronl = b][c].drdy =
              IF c = d THEN b ELSE v[c].drdy
<1>1. v[c] \in Status /\ v[d] \in Status
  OBVIOUS
<1> QED
  BY <1>1 DEF Status

\* The registers, the threads' copies and the files agree after every step.
LEMMA StatusPreserved ==
  ASSUME Disturb = {}, FilesInv, LockHeld, CalmInv, [Next]_vars
  PROVE  Copies' /\ Shown'
<1> USE Alone DEF FilesInv, Types, TypeOK, CalmInv, Copies, Shown, Fresh, LockHeld
<1>0. UNCHANGED <<rl4, files, seek, cmdvars, timers>> /\ io' = io /\ ioloc' = ioloc
      => Copies' /\ Shown'
  BY DEF files, cmdvars, timers
<1>1. ASSUME NEW d \in Drives, NEW f \in Fns, PdpCommand(f, d) PROVE Copies' /\ Shown'
  BY <1>1 DEF PdpCommand, files, iovars, timers, cmdvars
<1>2. CASE FpgaCommand
  <2>1. \A c \in Drives : rl4'[c].dronl = rl4[c].dronl /\ rl4'[c].drdy = rl4[c].drdy
    BY <1>2, Bits DEF FpgaCommand
  <2> QED
    BY <1>2, <2>1 DEF FpgaCommand, files, iovars, timers, cmdvars
<1>3. CASE InitOn \/ InitOff
  BY <1>0, <1>3 DEF InitOn, InitOff, iovars
<1>4. CASE WaitInt \/ IoLock \/ IoNothing \/ IoDone \/ IoHeader \/ IoBadSeek
           \/ \E e \in BOOLEAN : IoEnds(e)
  BY <1>4 DEF WaitInt, IoLock, IoNothing, IoDone, IoHeader, IoBadSeek, IoEnds, Io,
              files, timers, cmdvars
<1>5. CASE IoStart
  <2>1. ioloc'.rl4 = rl4
    BY <1>5 DEF IoStart
  <2> QED
    BY <1>5, <2>1 DEF IoStart, Io, files, timers, cmdvars
<1>a. io \notin {"waitint", "lock", "read"} =>
        cmd = "idle" /\ ioloc.drv \in Drives /\ \A c \in Drives : tpc[c] # "update"
  BY NoneAssumption DEF LockHeld
<1>6. CASE IoClear
  <2> DEFINE b == FALSE
  <2>1. rl4' = [ioloc.rl4 EXCEPT ![ioloc.drv].drdy = b] /\ b \in BOOLEAN
    BY <1>6 DEF IoClear, Io, WriteRl4
  <2>2. ioloc.rl4 \in [Drives -> Status] /\ ioloc.drv \in Drives
    BY <1>6 DEF IoClear, Io, IoLocs
  <2>3. \A c \in Drives : /\ rl4'[c].dronl = ioloc.rl4[c].dronl
                          /\ rl4'[c].drdy = IF c = ioloc.drv THEN b
                                            ELSE ioloc.rl4[c].drdy
    <3> HIDE DEF b
    <3> QED
      BY <2>1, <2>2, Bits
  <2>a. \A c \in Drives : (c = ioloc.drv \/ ~ioloc.rl4[c].drdy) => ~rl4'[c].drdy
    BY <2>3, Zenon
  <2>4. /\ io = "clear" /\ io' \in {"seek", "header", "xfer"}
        /\ UNCHANGED <<ioloc, files, seek, timers, cmdvars>>
    BY <1>6 DEF IoClear, Io
  <2>5. Fresh(ioloc.rl4)
    BY <2>4
  <2>b. \A c \in Drives : rl4'[c].dronl = rl4[c].dronl
    BY <2>3, <2>5, ZenonT(40)
  <2>6. Shown'
    <3>1. UNCHANGED <<fds, cmd, cmdloc, seek>>
      BY <2>4 DEF files, cmdvars
    <3> QED
      BY <2>a, <2>b, <2>5, <3>1
  <2> QED
    BY <1>a, <2>a, <2>4, <2>6 DEF timers, cmdvars
<1>7. CASE IoSeekRead
  <2>1. ioloc'.rl4 = rl4 /\ ioloc'.drv = ioloc.drv
    BY <1>7 DEF IoSeekRead, IoLocs
  <2> QED
    BY <1>7, <2>1 DEF IoSeekRead, Io, files, timers, cmdvars
<1>8. CASE IoSeekWrite \/ IoDoneWrite
  <2>1. rl4' = ioloc.rl4
    BY <1>8 DEF IoSeekWrite, IoDoneWrite, Io, WriteRl4
  <2> QED
    BY <1>8, <2>1 DEF IoSeekWrite, IoDoneWrite, Io, files, timers, cmdvars
<1>9. CASE IoSeekTime
  <2>1. /\ io = "settime" /\ io' = "done" /\ UNCHANGED <<rl4, files, ioloc, cmdvars>>
        /\ \A c \in Drives : tpc'[c] # "update"
        /\ \A c \in Drives : seek'[c] = "future" => seek[c] = "future" \/ c = ioloc.drv
    BY <1>9, <1>a DEF IoSeekTime, Io
  <2> QED
    BY <1>a, <2>1 DEF files, cmdvars
<1>10. CASE IoDoneRead
  <2> DEFINE b == ioloc.fd # None /\ seek[ioloc.drv] # "future"
  <2>1. ioloc'.rl4 = [rl4 EXCEPT ![ioloc.drv].drdy = b] /\ ioloc'.drv = ioloc.drv
    BY <1>10 DEF IoDoneRead, IoLocs
  <2>2. ioloc.drv \in Drives /\ b \in BOOLEAN
    BY <1>10 DEF IoDoneRead, Io
  <2>3. \A c \in Drives : /\ ioloc'.rl4[c].dronl = rl4[c].dronl
                          /\ ioloc'.rl4[c].drdy = IF c = ioloc.drv THEN b
                                                  ELSE rl4[c].drdy
    <3> HIDE DEF b
    <3> QED
      BY <2>1, <2>2, Bits
  <2> QED
    BY <1>10, <2>1, <2>2, <2>3 DEF IoDoneRead, Io, files, timers, cmdvars
<1>11. ASSUME NEW d \in Drives, EndOfSeek(d) \/ TimerWaits(d) \/ TimerExpires(d)
       PROVE  Copies' /\ Shown'
  <2>1. /\ \A c \in Drives : tpc'[c] = "update" <=> tpc[c] = "update"
        /\ \A c \in Drives : seek'[c] = seek[c] \/ (seek[c] = "future" /\ seek'[c] = "past")
        /\ tmp' = tmp /\ UNCHANGED <<rl4, files, iovars, cmdvars>>
    BY <1>11 DEF EndOfSeek, TimerWaits, TimerExpires, TimerGo, timers
  <2> QED
    BY <2>1 DEF files, iovars, cmdvars
<1>12. ASSUME NEW d \in Drives, TimerRead(d) PROVE Copies' /\ Shown'
  BY <1>12 DEF TimerRead, TimerGo, files, iovars, cmdvars
<1>13. ASSUME NEW d \in Drives, TimerWrite(d) PROVE Copies' /\ Shown'
  <2> DEFINE b == TRUE
  <2>1. rl4' = [tmp[d] EXCEPT ![d].drdy = b] /\ b \in BOOLEAN
    BY <1>13 DEF TimerWrite, TimerGo, WriteRl4
  <2>2. \A c \in Drives : /\ rl4'[c].dronl = tmp[d][c].dronl
                          /\ rl4'[c].drdy = IF c = d THEN b ELSE tmp[d][c].drdy
    <3> HIDE DEF b
    <3> QED
      BY <2>1, Bits
  <2>a. \A c \in Drives : c # d /\ ~tmp[d][c].drdy => ~rl4'[c].drdy
    BY <2>2, Zenon
  <2>3. /\ lock = d /\ io \in {"waitint", "lock"} /\ cmdloc.op = "none" /\ cmd = "idle"
        /\ \A c \in Drives : tpc[c] = "update" => c = d
    BY <1>13, NoneAssumption DEF TimerWrite, TimerGo, CmdOwns, CmdLocs
  <2>4. /\ Fresh(tmp[d]) /\ UNCHANGED <<files, iovars, cmdvars>>
        /\ \A c \in Drives : tpc'[c] # "update"
        /\ \A c \in Drives : seek'[c] = IF c = d THEN "none" ELSE seek[c]
    BY <1>13, <2>3 DEF TimerWrite, TimerGo
  <2> QED
    <3>0. \A c \in Drives : tmp[d][c].dronl = rl4[c].dronl
      BY <2>4
    <3>1. \A c \in Drives : rl4'[c].dronl = rl4[c].dronl
      <4>1. \A c \in Drives : rl4'[c].dronl = tmp[d][c].dronl
        BY <2>2, Zenon
      <4> QED
        BY <4>1, <3>0, ZenonT(40)
    <3>2. UNCHANGED <<fds, cmd, cmdloc, io, ioloc>>
      BY <2>4 DEF files, iovars, cmdvars
    <3> QED
      BY <2>a, <2>3, <2>4, <3>1, <3>2
<1>14. ASSUME NEW d \in Drives, NEW f \in Files, LoadBegins(d, f) PROVE Copies' /\ Shown'
  <2>1. cmdloc'.drv = d /\ cmdloc'.rl4 = rl4 /\ cmd' = "unload"
    BY <1>14 DEF LoadBegins, Cmd, NoCmd
  <2> QED
    BY <1>14, <2>1 DEF LoadBegins, Cmd, files, iovars, timers
<1>15. ASSUME NEW d \in Drives, UnloadBegins(d) PROVE Copies' /\ Shown'
  <2>1. cmdloc'.drv = d /\ cmdloc'.rl4 = rl4 /\ cmd' = "unload"
    BY <1>15 DEF UnloadBegins, Cmd, NoCmd
  <2> QED
    BY <1>15, <2>1 DEF UnloadBegins, Cmd, files, iovars, timers
<1>16. CASE UnloadWrite
  <2> DEFINE b == FALSE
  <2>1. rl4' = [cmdloc.rl4 EXCEPT ![cmdloc.drv].drdy = b, ![cmdloc.drv].dronl = b]
        /\ b \in BOOLEAN
    BY <1>16 DEF UnloadWrite, Cmd, WriteRl4
  <2>2. cmdloc.rl4 \in [Drives -> Status] /\ cmdloc.drv \in Drives
    BY <1>16 DEF UnloadWrite, Cmd, CmdLocs, CmdOwns
  <2>3. \A c \in Drives :
          /\ rl4'[c].dronl = IF c = cmdloc.drv THEN b ELSE cmdloc.rl4[c].dronl
          /\ rl4'[c].drdy = IF c = cmdloc.drv THEN b ELSE cmdloc.rl4[c].drdy
    <3> HIDE DEF b
    <3> QED
      BY <2>1, <2>2, Bits
  <2>a. \A c \in Drives :
          /\ (c = cmdloc.drv \/ ~cmdloc.rl4[c].drdy) => ~rl4'[c].drdy
          /\ c = cmdloc.drv => ~rl4'[c].dronl
          /\ c # cmdloc.drv => rl4'[c].dronl = cmdloc.rl4[c].dronl
    BY <2>3, Zenon
  <2>4. /\ cmd = "unload" /\ cmd' = "close" /\ Fresh(cmdloc.rl4)
        /\ UNCHANGED <<cmdloc, files, iovars, timers, seek>>
    BY <1>16 DEF UnloadWrite, Cmd
  <2>5. io \in {"waitint", "lock", "read"} /\ \A c \in Drives : tpc[c] # "update"
    BY <2>4, NoneAssumption DEF CmdOwns, CmdLocs
  <2> QED
    BY <2>a, <2>4, <2>5 DEF files, iovars, timers
<1>b. NoCmd.drv = None /\ \A c \in Drives : c # None
  BY NoneAssumption DEF NoCmd
<1>c. ASSUME UNCHANGED <<rl4, seek, iovars, timers>>, cmd' \notin {"unload", "mark"}
      PROVE  Copies'
  BY <1>c DEF iovars, timers
<1>17. CASE UnloadClose \/ LoadFails
  <2>1. /\ UNCHANGED <<rl4, fds, seek, iovars, timers, cmdloc>>
        /\ \/ cmd = "close" /\ cmd' = "forget"
           \/ cmd = "open" /\ cmd' = "end"
    BY <1>17 DEF UnloadClose, LoadFails, Cmd, files
  <2>2. cmd = "open" => fds[cmdloc.drv] = None /\ ~rl4[cmdloc.drv].dronl
    BY DEF CmdOwns
  <2>3. ASSUME NEW c \in Drives, c # cmdloc.drv \/ cmd' = "end"
        PROVE  rl4'[c].dronl = (fds'[c] # None)
    <3>1. c # cmdloc.drv => rl4'[c].dronl = (fds'[c] # None)
      BY <2>1
    <3>2. c = cmdloc.drv => ~rl4'[c].dronl /\ fds'[c] = None
      BY <2>1, <2>2, <2>3
    <3>3. rl4'[c].dronl \in BOOLEAN
      BY <2>1 DEF Status
    <3> QED
      BY <3>1, <3>2, <3>3
  <2>4. Shown'
    BY <2>1, <2>3
  <2> QED
    BY <1>c, <2>1, <2>4
<1>e. CASE LoadEnds
  <2>1. /\ UNCHANGED <<rl4, fds, seek, iovars, timers>>
        /\ cmd = "end" /\ cmd' = "idle" /\ cmdloc'.drv = None
    BY <1>e, <1>b DEF LoadEnds, Cmd, files
  <2> QED
    BY <1>b, <1>c, <2>1
<1>18. CASE UnloadForget
  <2>1. /\ UNCHANGED <<rl4, seek, iovars, timers>>
        /\ cmd = "forget" /\ cmd' \in {"open", "idle"}
        /\ cmd' = "open" => cmdloc' = cmdloc
        /\ cmd' = "idle" => cmdloc'.drv = None
    BY <1>18, <1>b DEF UnloadForget, Cmd
  <2>2. \A c \in Drives : fds'[c] = IF c = cmdloc.drv THEN None ELSE fds[c]
    BY <1>18 DEF UnloadForget
  <2>3. ~rl4'[cmdloc.drv].dronl
    BY <2>1 DEF CmdOwns
  <2>4. \A c \in Drives : rl4'[c].dronl = (fds'[c] # None)
    <3>1. \A c \in Drives : c # cmdloc.drv => rl4'[c].dronl = (fds'[c] # None)
      BY <2>1, <2>2
    <3>2. \A c \in Drives : c = cmdloc.drv => ~rl4'[c].dronl /\ fds'[c] = None
      BY <2>2, <2>3
    <3>3. \A c \in Drives : rl4'[c].dronl \in BOOLEAN
      BY <2>1 DEF Status
    <3> QED
      BY <3>1, <3>2, <3>3
  <2> QED
    BY <1>c, <2>1, <2>3, <2>4
<1>19. CASE LoadOpen
  <2>1. cmdloc'.drv = cmdloc.drv /\ cmdloc'.rl4 = cmdloc.rl4
    BY <1>19 DEF LoadOpen, CmdLocs
  <2> QED
    BY <1>19, <2>1 DEF LoadOpen, Cmd, iovars, timers
<1>20. CASE LoadSaveFd
  BY <1>20, NoneAssumption DEF LoadSaveFd, Cmd, iovars, timers, CmdOwns
<1>21. CASE LoadRead
  <2>1. cmdloc'.drv = cmdloc.drv /\ cmdloc.drv \in Drives /\ cmd = "online" /\ cmd' = "mark"
        /\ cmdloc'.rl4 = [rl4 EXCEPT ![cmdloc.drv] =
                            [drdy |-> TRUE, dronl |-> TRUE, volck |-> TRUE]]
    BY <1>21 DEF LoadRead, Cmd, CmdLocs, CmdOwns
  <2>2. \A c \in Drives : IF c = cmdloc.drv THEN cmdloc'.rl4[c].dronl
                          ELSE cmdloc'.rl4[c].dronl = rl4[c].dronl
    BY <2>1
  <2> QED
    BY <1>21, <2>1, <2>2 DEF LoadRead, files, iovars, timers
<1>22. CASE LoadWrite
  <2>1. rl4' = cmdloc.rl4 /\ cmdloc.op = "LOAD" /\ cmd = "mark" /\ cmd' = "end"
    BY <1>22 DEF LoadWrite, Cmd, WriteRl4, CmdOwns, CmdLocs
  <2>2. /\ UNCHANGED <<fds, seek, iovars, timers, cmdloc>>
        /\ io = "waitint" /\ \A c \in Drives : tpc[c] = "sleep" /\ seek[c] = "none"
    BY <1>22, <2>1 DEF LoadWrite, files, IoWorks, Quiet, Unseen
  <2>3. \A c \in Drives : c # cmdloc.drv => rl4'[c].dronl = (fds'[c] # None)
    <3>1. \A c \in Drives : c # cmdloc.drv => cmdloc.rl4[c].dronl = rl4[c].dronl
      BY <2>1
    <3>2. \A c \in Drives : c # cmdloc.drv => rl4[c].dronl = (fds[c] # None)
      BY <2>1
    <3>3. fds' = fds /\ rl4' = cmdloc.rl4
      BY <2>1, <2>2
    <3> QED
      BY <3>1, <3>2, <3>3, Zenon
  <2>4. rl4'[cmdloc.drv].dronl = TRUE /\ fds'[cmdloc.drv] # None /\ cmdloc.drv \in Drives
    <3>1. cmdloc.drv \in Drives /\ cmdloc.rl4[cmdloc.drv].dronl \in BOOLEAN
      BY <2>1 DEF CmdOwns, CmdLocs, Status
    <3> QED
      BY <2>1, <2>2, <3>1
  <2>5. \A c \in Drives : rl4'[c].dronl = (fds'[c] # None)
    BY <2>3, <2>4, Zenon
  <2> QED
    BY <2>1, <2>2, <2>5 DEF iovars, timers
<1>23. CASE UNCHANGED vars
  BY <1>0, <1>23 DEF vars, iovars
<1> QED
  BY <1>1, <1>2, <1>3, <1>4, <1>5, <1>6, <1>7, <1>8, <1>9, <1>10, <1>11, <1>12, <1>13,
     <1>14, <1>15, <1>16, <1>17, <1>e, <1>18, <1>19, <1>20, <1>21, <1>22, <1>23
     DEF Next, IoStep, IoRead, IoWrite, IoCheck, TimerStep, CmdStep

-----------------------------------------------------------------------------
\* The initial states satisfy the invariant.
LEMMA RlInitInv == Init => RlInv
<1> SUFFICES ASSUME Init PROVE RlInv
  OBVIOUS
<1> USE NoneAssumption, Drive0Assumption
<1>1. Types
  <2>1. NoRl4 \in [Drives -> Status]
    BY DEF NoRl4, Status
  <2>2. ioloc \in IoLocs /\ cmdloc \in CmdLocs
    BY <2>1 DEF Init, NoIo, NoCmd, IoLocs, CmdLocs, Fns
  <2>3. rl4 \in [Drives -> Status]
    BY DEF Init, Status
  <2>4. ioloc.fd = None /\ ioloc.rl4 = NoRl4 /\ cmdloc.fd = None /\ cmdloc.rl4 = NoRl4
    BY DEF Init, NoIo, NoCmd
  <2> QED
    BY <2>1, <2>2, <2>3, <2>4 DEF Types, TypeOK, Init, Fns, IoPCs, CmdPCs
<1>2. CmdOwns /\ FdsOpen /\ DescriptorsOwned
  BY <1>1 DEF Init, NoCmd, CmdOwns, FdsOpen, DescriptorsOwned, Types
<1>3. LockHeld /\ FileKept
  BY DEF LockHeld, FileKept, Init, NoCmd
<1>4. CalmInv
  <2>1. IoWorks /\ Copies
    BY DEF IoWorks, Copies, Init, NoCmd
  <2>2. ASSUME NEW d \in Drives PROVE rl4[d].dronl = TRUE /\ fds[d] # None
    BY DEF Init
  <2>3. \A d \in Drives : rl4[d].dronl = (fds[d] # None)
    BY <2>2, Zenon
  <2>4. Shown
    BY <2>3 DEF Shown, Init, NoCmd
  <2> QED
    BY <2>1, <2>4 DEF CalmInv
<1> QED
  BY <1>1, <1>2, <1>3, <1>4 DEF RlInv, FilesInv

\* Every step keeps it.
LEMMA RlStepInv == RlInv /\ [Next]_vars => RlInv'
<1> SUFFICES ASSUME RlInv, [Next]_vars PROVE RlInv'
  OBVIOUS
<1>1. FilesInv' /\ LockHeld' /\ FileKept'
  BY FilesPreserved, LockPreserved, FileKeptPreserved DEF RlInv
<1>2. ASSUME Disturb = {} PROVE CalmInv'
  BY <1>2, IoWorksPreserved, StatusPreserved DEF RlInv, CalmInv
<1> QED
  BY <1>1, <1>2 DEF RlInv

\* Every reachable state satisfies the invariant: descriptors, mutex and files
\* always, the register if nothing disturbs a command.
THEOREM RlInvariance == Spec => []RlInv
  BY RlInitInv, RlStepInv, PTL DEF Spec

\* Whatever fails and whatever comes when, no descriptor is shared or leaked.
THEOREM NoLeak == Spec => []DescriptorsOwned
<1>1. RlInv => DescriptorsOwned
  BY DEF RlInv, FilesInv
<1> QED
  BY <1>1, RlInvariance, PTL

\* Whenever loads, unloads and bus resets come, a transfer keeps the file it
\* began on, unless a load of its own drive is under way.
THEOREM FileStays == Spec => []FileStaysLoaded
<1>1. RlInv => FileStaysLoaded
  BY DEF RlInv, FileKept, FileStaysLoaded, InUse
<1> QED
  BY <1>1, RlInvariance, PTL

\* No update of register 4 is lost: online means loaded, seeking not ready.
THEOREM StatusTrue == Disturb = {} => (Spec => []StatusIsTrue)
<1> SUFFICES ASSUME Disturb = {} PROVE Spec => []StatusIsTrue
  OBVIOUS
<1>1. RlInv => StatusIsTrue
  BY DEF RlInv, CalmInv, Shown, StatusIsTrue
<1> QED
  BY <1>1, RlInvariance, PTL

=============================================================================
