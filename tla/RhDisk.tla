------------------------------- MODULE RhDisk -------------------------------
(***************************************************************************)
(* The RH11 disk controller with its RP04/RP06 drives: the FPGA registers  *)
(* the PDP-11 sees, which also do seeks and the other motions (rh11.v), and*)
(* the daemon that does the transfers on image files (z11rh.cc): an i/o    *)
(* thread, and the thread that loads and unloads files                     *)
(* (shmms_svr_proccmds; a load runs without the mutex).                    *)
(*                                                                         *)
(* Registers 2 and 3 carry the transfer from the FPGA to the daemon and its*)
(* end back.  A sector has WPS words; RPWC counts modulo WMax.  A disk     *)
(* address is <<cylinder, track, sector>>.  A bus address counts words; its*)
(* bank, ba \div Bank, are the bits 17:16 that RPCS1 holds, the rest is in *)
(* RPBA.                                                                   *)
(*                                                                         *)
(* The PDP-11 writes RPWC, RPBA and the disk address only for a command it *)
(* is about to give, the first two with the controller ready.  A transfer  *)
(* does not move the last word of the address space, the processor status. *)
(*                                                                         *)
(* Left out: what words say, rotation, attention and volume valid bits,    *)
(* the interrupt, the eight clocks a controller clear takes.               *)
(***************************************************************************)
EXTENDS Integers, FiniteSets, FiniteSetsExt

CONSTANTS
  Drives, Files, None,
  Big,                    \* the files that are RP06 packs; the others are RP04
  ReadOnly,               \* the files that are loaded read only
  Small, Large,           \* cylinders of an RP04 and of an RP06
  Trks, Secs, WPS, WMax, Bank,
  Asks,                   \* what transfers ask: [at, wc, ba, inh]
  Fns,                    \* commands: READ WRITE WCHECK SEEK RECAL DCLR, ILF and, with
                          \* the code of a transfer, ILX for those that do not exist
  MaxCmds, MaxEvents,     \* bounds: commands; clears, resets, loads and unloads
  Intrude                 \* clears and resets may come during transfers, and a pack of
                          \* another kind be loaded

ASSUME RhAssumption ==
  /\ None \notin Drives \cup Files /\ Intrude \in BOOLEAN
  /\ {Small, Large, Trks, Secs, WPS, WMax, Bank} \subseteq Nat \ {0} /\ {MaxCmds, MaxEvents} \subseteq Nat
  /\ Small <= Large
  /\ Asks \subseteq [at : Nat \X Nat \X Nat, wc : 0 .. WMax - 1, ba : 0 .. 4 * Bank - 1, inh : BOOLEAN]

VARIABLES
  init, rdy, cserr, clr,  \* init_in_h; rpcs1_07; rpcs2[15:8]; armctlclr
  wc, ba, inh,            \* rpwc; rpcs1_0908 and rpba; rpcs2[3]
  xfer,                   \* xgo and what goes with it
  dr,                     \* the registers of each drive
  reg1,                   \* mols, wrls, dts
  file, page,             \* fds; rl01 and readonly of the shared page
  io, loc,                \* the i/o thread and its variables
  cmd,                    \* the command thread
  asked, kept, did,       \* history: the transfer last given; inh and bank are still those
                          \* given with it; what the i/o thread did
  cmds, events

ctlr == <<init, rdy, cserr, clr, wc, ba, inh, xfer>>
disks == <<file, page>>
hist == <<asked, kept, did>>
counts == <<cmds, events>>
vars == <<ctlr, dr, reg1, disks, io, loc, cmd, hist, counts>>

Transfers == {"READ", "WRITE", "WCHECK"}
XferClass == Transfers \cup {"ILX"}       \* d_in_h[05]
Idle == [op |-> "none", d |-> None, f |-> None, st |-> <<>>]
NoLoc == [fn |-> "READ", d |-> None, at |-> <<0, 0, 0>>, wc |-> 0, ba |-> 0, inh |-> FALSE,
          cyls |-> 0, wce |-> FALSE, nxm |-> FALSE, fer |-> FALSE, st |-> <<>>]
NoXfer == [go |-> FALSE, fn |-> "READ", d |-> None, at |-> <<0, 0, 0>>,
           wce |-> FALSE, nxm |-> FALSE, fer |-> FALSE]
Nothing == [fn |-> "READ", d |-> None, at |-> <<0, 0, 0>>, wc |-> 0, ba |-> 0, inh |-> FALSE]
NotDone == [o |-> Nothing, cyls |-> 0, k |-> 0, seen |-> 0, ok |-> TRUE]

\* upddrivestats
Status == [d \in Drives |-> [mol |-> file[d] # None, wrl |-> page[d].ro, dt |-> page[d].big]]
PageOf(f) == [big |-> f \in Big, ro |-> f \in ReadOnly]

Init ==
  /\ init = FALSE /\ rdy = TRUE /\ cserr = {} /\ clr = FALSE
  /\ wc = 0 /\ ba = 0 /\ inh = FALSE
  /\ xfer = NoXfer
  /\ dr = [d \in Drives |-> [fn |-> "DCLR", go |-> FALSE, fin |-> FALSE, at |-> <<0, 0, 0>>, cc |-> 0,
                             dry |-> TRUE, err |-> FALSE, pip |-> FALSE, sip |-> FALSE, lst |-> FALSE]]
  /\ file \in [Drives -> Files] /\ \A c, d \in Drives : file[c] = file[d] => c = d
  /\ page = [d \in Drives |-> PageOf(file[d])] /\ reg1 = Status
  /\ io = "wait" /\ loc = NoLoc /\ cmd = Idle
  /\ asked = Nothing /\ kept = TRUE /\ did = NotDone /\ cmds = 0 /\ events = 0

-----------------------------------------------------------------------------
(* The PDP-11.                                                             *)

\* Selecting the drive writes RPCS2, with the address inhibit; RPCS1 holds
\* the bank, and is written whole or its lower byte alone.
WritesBus ==
  /\ inh' \in BOOLEAN
  /\ \E b \in 0 .. 3 : ba' = b * Bank + (ba % Bank)
  /\ kept' = (kept /\ inh' = inh /\ ba' = ba)

Give(d, f, at) ==                          \* RPDA, RPDC, RPCS1 with GO
  /\ ~ init /\ dr[d].dry /\ cmds < MaxCmds /\ cmds' = cmds + 1
  /\ dr' = [dr EXCEPT ![d] = [@ EXCEPT !.fn = f, !.go = TRUE, !.fin = TRUE, !.dry = FALSE, !.at = at]]
  /\ UNCHANGED <<init, clr, xfer, reg1, disks, io, loc, cmd, did, events>>

GiveMotion(d, f, at) ==
  /\ f = "SEEK" \/ at = dr[d].at
  /\ Give(d, f, at) /\ WritesBus /\ UNCHANGED <<rdy, cserr, wc, asked>>

GiveTransfer(d, f, a) ==                   \* RPWC, RPBA too
  /\ rdy /\ Give(d, f, a.at)
  /\ rdy' = FALSE /\ cserr' = {} /\ wc' = a.wc /\ ba' = a.ba /\ inh' = a.inh
  /\ asked' = [fn |-> f, d |-> d, at |-> a.at, wc |-> a.wc, ba |-> a.ba, inh |-> a.inh]
  /\ kept' = TRUE

\* Program error: the drive is busy, or the controller with another transfer.
Refused(d) ==
  /\ ~ init /\ ~ (dr[d].dry /\ rdy) /\ cmds < MaxCmds /\ cmds' = cmds + 1
  /\ cserr' = cserr \cup {"pge"} /\ WritesBus
  /\ UNCHANGED <<init, rdy, clr, wc, xfer, dr, reg1, disks, io, loc, cmd, asked, did, events>>

\* doctlclr: everything but the transfer in progress and the tracks and sectors
ClearAll ==
  /\ rdy' = TRUE /\ cserr' = {} /\ clr' = TRUE /\ wc' = 0 /\ ba' = 0 /\ inh' = FALSE
  /\ dr' = [d \in Drives |-> [dr[d] EXCEPT !.fn = "DCLR", !.fin = FALSE, !.go = FALSE, !.at[1] = 0, !.cc = 0, !.dry = TRUE,
                                           !.err = FALSE, !.pip = FALSE, !.sip = FALSE, !.lst = FALSE]]
  /\ UNCHANGED <<xfer, reg1, disks, io, loc, cmd, hist>>

Resting == rdy /\ ~ xfer.go

Clear ==                                   \* RPCS2<05>
  /\ ~ init /\ events < MaxEvents /\ events' = events + 1 /\ (Intrude \/ Resting)
  /\ ClearAll /\ UNCHANGED <<init, cmds>>

InitOn ==
  /\ ~ init /\ events < MaxEvents /\ events' = events + 1 /\ (Intrude \/ Resting)
  /\ init' = TRUE
  /\ UNCHANGED <<rdy, cserr, clr, wc, ba, inh, xfer, dr, reg1, disks, io, loc, cmd, hist, cmds>>

InitOff ==
  /\ init /\ init' = FALSE /\ ClearAll /\ UNCHANGED counts

-----------------------------------------------------------------------------
(* rh11.v, the drive exeds.                                                *)

MaxCyl(d) == IF reg1[d].dt THEN Large - 1 ELSE Small - 1
Works(d, fns) == ~ init /\ dr[d].go /\ ~ dr[d].sip /\ dr[d].fn \in fns
Ends(r) == [r EXCEPT !.go = FALSE, !.dry = TRUE, !.pip = FALSE, !.fn = "DCLR", !.fin = FALSE]
PdpUnch == UNCHANGED <<init, clr, wc, ba, inh, reg1, disks, io, loc, cmd, counts>>
FpgaUnch == PdpUnch /\ UNCHANGED hist

DriveClear(d) ==
  /\ Works(d, {"DCLR"}) /\ dr' = [dr EXCEPT ![d] = [Ends(@) EXCEPT !.err = FALSE]]
  /\ UNCHANGED <<rdy, cserr, xfer>> /\ FpgaUnch

Illegal(d) ==                              \* GO stays, so this comes again at every scan
  /\ Works(d, {"ILF", "ILX"}) /\ dr' = [dr EXCEPT ![d].err = TRUE, ![d].dry = TRUE]
  /\ rdy' = (rdy \/ dr[d].fn = "ILX")
  /\ UNCHANGED <<cserr, xfer>> /\ FpgaUnch

SeekBad(d) ==
  /\ Works(d, {"SEEK"}) /\ dr[d].at[1] > MaxCyl(d)
  /\ dr' = [dr EXCEPT ![d] = [Ends(@) EXCEPT !.err = TRUE]]
  /\ UNCHANGED <<rdy, cserr, xfer>> /\ FpgaUnch

SeekBegin(d) ==
  /\ Works(d, {"SEEK"}) /\ dr[d].at[1] <= MaxCyl(d) /\ dr[d].cc # dr[d].at[1]
  /\ dr' = [dr EXCEPT ![d].pip = TRUE, ![d].sip = TRUE]
  /\ UNCHANGED <<rdy, cserr, xfer>> /\ FpgaUnch

Step(d) ==                                 \* all steps of an explicit or implied seek
  /\ ~ init /\ dr[d].sip
  /\ dr' = [dr EXCEPT ![d].sip = FALSE, ![d].cc = dr[d].at[1]]
  /\ UNCHANGED <<rdy, cserr, xfer>> /\ FpgaUnch

SeekEnd(d) ==
  /\ Works(d, {"SEEK"}) /\ dr[d].at[1] <= MaxCyl(d) /\ dr[d].cc = dr[d].at[1]
  /\ dr' = [dr EXCEPT ![d] = Ends(@)]
  /\ UNCHANGED <<rdy, cserr, xfer>> /\ FpgaUnch

RecalBegin(d) ==                           \* recalibrate, unload
  /\ Works(d, {"RECAL"}) /\ dr[d].fin
  /\ dr' = [dr EXCEPT ![d].pip = TRUE, ![d].fin = FALSE, ![d].cc = Large]
  /\ UNCHANGED <<rdy, cserr, xfer>> /\ FpgaUnch

RecalEnd(d) ==
  /\ Works(d, {"RECAL"}) /\ ~ dr[d].fin
  /\ dr' = [dr EXCEPT ![d] = [Ends(@) EXCEPT !.cc = 0]]
  /\ UNCHANGED <<rdy, cserr, xfer>> /\ FpgaUnch

BadAddress(d) ==
  LET at == dr[d].at IN at[1] > MaxCyl(d) \/ at[2] > Trks - 1 \/ at[3] > Secs - 1
Locked(d) == dr[d].fn = "WRITE" /\ reg1[d].wrl
CanXfer_Early(d) ==                        \* mistake: does not wait for the daemon
  Works(d, Transfers) /\ ~ BadAddress(d) /\ ~ Locked(d) /\ ~ clr
CanXfer(d) == Works(d, Transfers) /\ ~ BadAddress(d) /\ ~ Locked(d) /\ ~ xfer.go /\ ~ clr

XferBad(d) ==                              \* IAE or WLE
  /\ Works(d, Transfers) /\ (BadAddress(d) \/ Locked(d))
  /\ dr' = [dr EXCEPT ![d] = [Ends(@) EXCEPT !.err = TRUE]] /\ rdy' = TRUE
  /\ asked' = Nothing
  /\ UNCHANGED <<cserr, xfer, kept, did>> /\ PdpUnch

XferSeek(d) ==
  /\ CanXfer(d) /\ dr[d].fin /\ dr[d].cc # dr[d].at[1]
  /\ dr' = [dr EXCEPT ![d].sip = TRUE]
  /\ UNCHANGED <<rdy, cserr, xfer>> /\ FpgaUnch

XferStart(d) ==                            \* tell the daemon
  /\ CanXfer(d) /\ dr[d].fin /\ dr[d].cc = dr[d].at[1]
  /\ xfer' = [xfer EXCEPT !.go = TRUE, !.fn = dr[d].fn, !.d = d, !.at = dr[d].at,
                          !.wce = (dr[d].fn = "WCHECK")]
  /\ dr' = [dr EXCEPT ![d].fin = FALSE]
  /\ UNCHANGED <<rdy, cserr>> /\ FpgaUnch

XferPost(d) ==                             \* the daemon has done it
  /\ CanXfer(d) /\ ~ dr[d].fin
  /\ dr' = [dr EXCEPT ![d] = [Ends(@) EXCEPT
              !.at = xfer.at, !.lst = (xfer.at[1] > MaxCyl(d)), !.cc = Min({xfer.at[1], MaxCyl(d)})]]
  /\ cserr' = (cserr \ {"wce", "nxm"}) \cup {e \in {"wce", "nxm"} : xfer[e]}
  /\ rdy' = TRUE /\ xfer' = NoXfer /\ asked' = Nothing /\ did' = NotDone
  /\ UNCHANGED kept /\ PdpUnch

-----------------------------------------------------------------------------
(* rhiothread and dotransfer.  Writes are dropped during init_in_h.        *)

IoUnch == UNCHANGED <<init, rdy, cserr, inh, dr, disks, cmd, asked, kept, counts>>
Armintrq == xfer.go \/ clr

IoLook ==                                  \* waitint, LOCKIT, read register 3
  /\ io = "wait" /\ Armintrq
  /\ io' = IF clr THEN "upd" ELSE "setup"
  /\ loc' = IF clr THEN NoLoc ELSE [NoLoc EXCEPT !.wc = wc, !.wce = xfer.wce]
  /\ UNCHANGED <<clr, wc, ba, xfer, reg1, did>> /\ IoUnch

IoStatus ==                                \* upddrivestats: look at the files
  /\ io = "upd" /\ io' = "write1" /\ loc' = [loc EXCEPT !.st = Status]
  /\ UNCHANGED <<clr, wc, ba, xfer, reg1, did>> /\ IoUnch

IoWrite1 ==
  /\ io = "write1" /\ io' = "done" /\ loc' = NoLoc
  /\ reg1' = IF init THEN reg1 ELSE loc.st
  /\ UNCHANGED <<clr, wc, ba, xfer, did>> /\ IoUnch

IoCleared_Skip ==                          \* mistake: does not tell the FPGA
  /\ io = "done" /\ io' = "wait"
  /\ UNCHANGED <<clr, loc, wc, ba, xfer, reg1, did>> /\ IoUnch

IoCleared ==                               \* wrreg (3, RH3_CLR)
  /\ io = "done" /\ io' = "wait"
  /\ clr' = (clr /\ init)
  /\ UNCHANGED <<loc, wc, ba, xfer, reg1, did>> /\ IoUnch

Cyls(d) == IF page[d].big THEN Large ELSE Small

IoSetup ==                                 \* registers 2 and 3 again, and the size of the pack
  /\ io = "setup" /\ io' = "move"
  /\ loc' = [loc EXCEPT !.d = xfer.d, !.ba = ba, !.inh = inh, !.at = xfer.at, !.cyls = Cyls(xfer.d),
                        !.fn = IF xfer.fn = "WRITE" THEN "WRITE" ELSE IF loc.wce THEN "WCHECK" ELSE "READ"]
  /\ UNCHANGED <<clr, wc, ba, xfer, reg1, did>> /\ IoUnch

Block(at) == (at[1] * Trks + at[2]) * Secs + at[3]
Left(cyls, at) == Max({cyls * Trks * Secs - Block(at), 0}) * WPS
Words == Min({WMax - loc.wc, Left(loc.cyls, loc.at)})

EndBlock_Floor(seen) == Block(loc.at) + seen \div WPS      \* mistake: a partial sector does not count
EndBlock(seen) == Block(loc.at) + (seen + WPS - 1) \div WPS
Address(b) == <<b \div (Secs * Trks), (b \div Secs) % Trks, b % Secs>>

Order(x) == [fn |-> x.fn, d |-> x.d, at |-> x.at, wc |-> x.wc, ba |-> x.ba, inh |-> x.inh]

\* k words moved, seen words looked at, what went wrong
Moved(k, seen, wce, nxm, fer) ==
  /\ loc.inh \/ loc.ba + k < 4 * Bank
  /\ loc' = [loc EXCEPT !.at = Address(EndBlock(seen)), !.wc = (@ + k) % WMax,
                        !.ba = IF loc.inh THEN @ ELSE @ + k, !.wce = wce, !.nxm = nxm, !.fer = fer]
  /\ did' = [o |-> Order(loc), cyls |-> loc.cyls, k |-> k, seen |-> seen, ok |-> ~ (wce \/ nxm \/ fer)]

MoveAll ==                                 \* the file is read or written, or that fails
  \/ file[loc.d] # None /\ Moved(Words, Words, FALSE, FALSE, FALSE)
  \/ loc.fn = "WRITE" /\ Moved(Words, Words, FALSE, FALSE, TRUE)
  \/ loc.fn # "WRITE" /\ Moved(0, 0, FALSE, FALSE, TRUE)

MoveSome ==                                \* memory does not answer, or is not what the disk has
  \E k \in 0 .. Words - 1 :
    \/ loc.fn = "WRITE" /\ Moved(k, k + 1, FALSE, TRUE, FALSE)
    \/ loc.fn = "READ" /\ file[loc.d] # None /\ Moved(k, k + 1, FALSE, TRUE, FALSE)
    \/ loc.fn = "WCHECK" /\ file[loc.d] # None /\ Moved(k, k, FALSE, TRUE, FALSE)
    \/ loc.fn = "WCHECK" /\ file[loc.d] # None /\ Moved(k, k + 1, TRUE, FALSE, FALSE)

IoMove ==
  /\ io = "move" /\ io' = "end2" /\ (MoveAll \/ MoveSome)
  /\ UNCHANGED <<clr, wc, ba, xfer, reg1>> /\ IoUnch

IoEnd2 ==                                  \* cylinder and bus address
  /\ io = "end2" /\ io' = "end3"
  /\ xfer' = IF init THEN xfer ELSE [xfer EXCEPT !.at[1] = loc.at[1]]
  /\ ba' = IF init THEN ba ELSE loc.ba
  /\ UNCHANGED <<clr, wc, loc, reg1, did>> /\ IoUnch

IoEnd3 ==                                  \* errors, track, sector, word count; xgo clear
  /\ io = "end3" /\ io' = "wait" /\ loc' = NoLoc
  /\ IF init THEN UNCHANGED <<xfer, wc>>
     ELSE /\ xfer' = [xfer EXCEPT !.go = FALSE, !.at = <<@[1], loc.at[2], loc.at[3]>>,
                                  !.wce = loc.wce, !.nxm = loc.nxm, !.fer = loc.fer]
          /\ wc' = loc.wc
  /\ UNCHANGED <<clr, ba, reg1, did>> /\ IoUnch

-----------------------------------------------------------------------------
(* The command thread.  Register 1 is written as it was computed before.   *)

CmdUnch == UNCHANGED <<ctlr, dr, io, loc, hist, cmds>>
MutexFree == io = "wait"

CmdUnload(d) ==                            \* with the mutex held
  /\ events < MaxEvents /\ events' = events + 1
  /\ cmd = Idle /\ MutexFree /\ file[d] # None
  /\ file' = [file EXCEPT ![d] = None] /\ UNCHANGED <<page, cmd>> /\ CmdUnch
  /\ reg1' = IF init THEN reg1 ELSE Status'

LoadBegins(d, f) ==                        \* the client's request; then the mutex is let go
  /\ events < MaxEvents /\ events' = events + 1
  /\ cmd = Idle /\ MutexFree
  /\ Intrude \/ PageOf(f) = page[d]
  /\ page' = [page EXCEPT ![d].ro = f \in ReadOnly]
  /\ cmd' = [op |-> "close", d |-> d, f |-> f, st |-> <<>>]
  /\ UNCHANGED <<file, reg1>> /\ CmdUnch

LoadClose ==                               \* unloadfile
  /\ cmd.op = "close"
  /\ file' = [file EXCEPT ![cmd.d] = None] /\ UNCHANGED page
  /\ cmd' = [cmd EXCEPT !.op = "closed", !.st = Status']
  /\ UNCHANGED <<reg1, events>> /\ CmdUnch

LoadEmpty ==                               \* upddrivestats
  /\ cmd.op = "closed" /\ cmd' = [cmd EXCEPT !.op = "type", !.st = <<>>]
  /\ reg1' = (IF init THEN reg1 ELSE cmd.st)
  /\ UNCHANGED <<disks, events>> /\ CmdUnch

LoadType ==                                \* setdrivetype
  /\ cmd.op = "type" /\ cmd' = [cmd EXCEPT !.op = "open"]
  /\ page' = [page EXCEPT ![cmd.d].big = cmd.f \in Big]
  /\ UNCHANGED <<file, reg1, events>> /\ CmdUnch

LoadOpen ==                                \* fileloaded, unless another drive has the file
  /\ cmd.op = "open" /\ UNCHANGED page
  /\ cmd.f \notin {file[d] : d \in Drives}
  /\ file' = [file EXCEPT ![cmd.d] = cmd.f] /\ cmd' = [cmd EXCEPT !.op = "opened", !.st = Status']
  /\ UNCHANGED <<reg1, events>> /\ CmdUnch

LoadFails ==                               \* no such type; not opened, extended, given a bad block list
  /\ cmd.op \in {"type", "open"} /\ cmd' = Idle
  /\ UNCHANGED <<disks, reg1, events>> /\ CmdUnch

LoadDone ==
  /\ cmd.op = "opened"
  /\ reg1' = (IF init THEN reg1 ELSE cmd.st) /\ cmd' = Idle
  /\ UNCHANGED <<disks, events>> /\ CmdUnch

Load == LoadClose \/ LoadEmpty \/ LoadType \/ LoadOpen \/ LoadFails \/ LoadDone

-----------------------------------------------------------------------------
Fpga(d) == \/ DriveClear(d) \/ Illegal(d) \/ SeekBad(d) \/ SeekBegin(d) \/ Step(d) \/ SeekEnd(d)
           \/ RecalBegin(d) \/ RecalEnd(d) \/ XferBad(d) \/ XferSeek(d) \/ XferStart(d) \/ XferPost(d)
Io == IoLook \/ IoStatus \/ IoWrite1 \/ IoCleared \/ IoSetup \/ IoMove \/ IoEnd2 \/ IoEnd3

Next ==
  \/ \E d \in Drives : \/ Refused(d) \/ Fpga(d) \/ CmdUnload(d)
                       \/ \E f \in Fns \cap XferClass, a \in Asks : GiveTransfer(d, f, a)
                       \/ \E f \in Fns \ XferClass, at \in {a.at : a \in Asks} \cup {dr[d].at} : GiveMotion(d, f, at)
                       \/ \E f \in Files : LoadBegins(d, f)
  \/ Clear \/ InitOn \/ InitOff \/ Io \/ Load

Spec == Init /\ [][Next]_vars

\* The FPGA is clocked, INIT ends, threads run; but the operator need not load anything.
FairSpec ==
  /\ Spec /\ WF_vars(InitOff) /\ WF_vars(Io) /\ WF_vars(Load)
  /\ \A d \in Drives : WF_vars(Fpga(d))

-----------------------------------------------------------------------------
RhTypeOK ==
  /\ {init, rdy, clr, inh} \subseteq BOOLEAN /\ cserr \subseteq {"pge", "wce", "nxm"}
  /\ wc \in 0 .. WMax - 1 /\ ba \in Nat
  /\ io \in {"wait", "upd", "write1", "done", "setup", "move", "end2", "end3"}
  /\ \A d \in Drives : file[d] \in Files \cup {None} /\ dr[d].cc \in 0 .. Large

\* the next sector of a pack
NextSector(at) ==
  IF at[3] < Secs - 1 THEN <<at[1], at[2], at[3] + 1>>
  ELSE IF at[2] < Trks - 1 THEN <<at[1], at[2] + 1, 0>> ELSE <<at[1] + 1, 0, 0>>
Sectors(at, words) ==
  LET s[n \in 0 .. words] == IF n <= 0 THEN at
                             ELSE IF (n - 1) % WPS = 0 THEN NextSector(s[n - 1]) ELSE s[n - 1] IN
  s[words]

Low(o) == [o EXCEPT !.ba = @ % Bank, !.inh = FALSE]
After(o, k) == IF o.inh THEN o.ba ELSE o.ba + k

(* When the FPGA posts the end of a transfer the daemon has done the one   *)
(* the PDP-11 asked for, at the place and with the count it asked for, and *)
(* the registers tell where it ended and whether it failed: "delay starting*)
(* transfer until it finishes" (rh11.v), and the arithmetic of dotransfer. *)
(* Commands to other drives meanwhile may change the address inhibit and   *)
(* the bank, and nothing else; if they leave these alone the bus addresses *)
(* are those asked for, and so is the one in the registers at the end.     *)
EndsAsAsked ==
  [][\A d \in Drives : XferPost(d) =>
       /\ asked.d = d /\ Low(did.o) = Low(asked)
       /\ wc = (asked.wc + did.k) % WMax
       /\ ba % Bank = After(did.o, did.k) % Bank
       /\ kept => did.o = asked /\ ba = After(asked, did.k)
       /\ dr'[d].at = Sectors(asked.at, did.seen)
       /\ did.ok <=> cserr' \cap {"wce", "nxm"} = {} /\ ~ xfer.fer
       /\ did.ok => wc = 0 \/ dr'[d].at[1] >= did.cyls]_vars

(* The i/o thread works on a transfer the FPGA has in progress, of the     *)
(* drive and with the count it was given: "there can only be one of these  *)
(* going at a time ...because they are gated by the RDY bit" (z11rh.cc).   *)
OneTransfer ==
  /\ RhTypeOK
  /\ io \in {"move", "end2"} => /\ xfer.go /\ xfer.d = loc.d /\ asked.d = loc.d /\ ~ rdy
                                /\ wc = asked.wc /\ ~ dr[loc.d].dry

(* Every command ends: the drive is ready again, and the controller, in    *)
(* spite of clears and bus resets the daemon has yet to acknowledge.       *)
RhCommandsEnd ==
  /\ ~ rdy ~> rdy
  /\ \A d \in Drives : ~ dr[d].dry ~> dr[d].dry

(* "make sure drive status is up to date" (z11rh.cc): when all is quiet a  *)
(* drive is online to the PDP-11 exactly if it has a file.                 *)
OnlineShown ==
  io = "wait" /\ ~ Armintrq /\ cmd = Idle /\ ~ init => \A d \in Drives : reg1[d].mol = (file[d] # None)

-----------------------------------------------------------------------------
(* The strengthening, part by part, for a daemon that is left alone while  *)
(* it works (Intrude FALSE).                                               *)

Places == Nat \X Nat \X Nat
Orders == [fn : Fns \cup Transfers, d : Drives \cup {None}, at : Places, wc : 0 .. WMax - 1,
           ba : Nat, inh : BOOLEAN]

Shown == [Drives -> [mol : BOOLEAN, wrl : BOOLEAN, dt : BOOLEAN]]
DriveRegs ==
  [fn : Fns \cup {"DCLR"}, go : BOOLEAN, fin : BOOLEAN, at : Places, cc : 0 .. Large,
   dry : BOOLEAN, err : BOOLEAN, pip : BOOLEAN, sip : BOOLEAN, lst : BOOLEAN]
DrTypes == dr \in [Drives -> DriveRegs]
RegTypes ==
  /\ {init, rdy, clr, inh} \subseteq BOOLEAN /\ cserr \subseteq {"pge", "wce", "nxm"}
  /\ wc \in 0 .. WMax - 1 /\ ba \in Nat
XferTypes ==
  xfer \in [go : BOOLEAN, fn : Fns \cup {"READ"}, d : Drives \cup {None}, at : Places,
            wce : BOOLEAN, nxm : BOOLEAN, fer : BOOLEAN]
DiskTypes ==
  /\ reg1 \in Shown
  /\ file \in [Drives -> Files \cup {None}] /\ page \in [Drives -> [big : BOOLEAN, ro : BOOLEAN]]
IoTypes ==
  /\ io \in {"wait", "upd", "write1", "done", "setup", "move", "end2", "end3"}
  /\ loc \in [fn : {"READ", "WRITE", "WCHECK"}, d : Drives \cup {None}, at : Places, wc : 0 .. WMax - 1,
              ba : Nat, inh : BOOLEAN, cyls : Nat, wce : BOOLEAN, nxm : BOOLEAN, fer : BOOLEAN,
              st : {<<>>} \cup Shown]
  /\ io = "write1" => loc.st \in Shown
CmdTypes ==
  /\ cmd \in [op : {"none", "close", "closed", "type", "open", "opened"}, d : Drives \cup {None}, f : Files \cup {None},
              st : {<<>>} \cup Shown]
  /\ cmd.op # "none" => cmd.d \in Drives /\ cmd.f \in Files
  /\ cmd.op \in {"closed", "opened"} => cmd.st \in Shown
HistTypes ==
  /\ asked \in Orders /\ kept \in BOOLEAN
  /\ did \in [o : Orders, cyls : Nat, k : Nat, seen : Nat, ok : BOOLEAN]

RhTypes == DrTypes /\ RegTypes /\ XferTypes /\ DiskTypes /\ IoTypes /\ CmdTypes /\ HistTypes

\* The FPGA knows what a drive is and whether it is protected, and no write
\* tells it anything else, since packs are replaced by packs of the same kind.
Tells(s) == \A d \in Drives : s[d].dt = page[d].big /\ s[d].wrl = page[d].ro
Told ==
  /\ Tells(reg1)
  /\ io = "write1" => Tells(loc.st)
  /\ cmd.op \in {"closed", "opened"} => Tells(cmd.st)
  /\ cmd.op # "none" => PageOf(cmd.f) = page[cmd.d]

Transferring(d) == dr[d].go /\ dr[d].fn \in Transfers

\* At most one drive has a transfer, the one asked for last.
Alone(d) ==
  /\ Transferring(d) => ~ init /\ ~ rdy /\ asked.d = d
  /\ dr[d].go /\ dr[d].fn # "ILF" => ~ dr[d].dry
  /\ dr[d].sip => dr[d].go /\ dr[d].fn # "ILF" /\ dr[d].at[1] <= MaxCyl(d)
OneDrive ==
  /\ \A d \in Drives : Alone(d)
  /\ init => rdy
  /\ xfer.go => xfer.d \in Drives /\ Transferring(xfer.d) /\ ~ dr[xfer.d].fin
  /\ io \in {"setup", "move", "end2", "end3"} => xfer.go

Same(o) ==
  /\ o.wc = asked.wc /\ o.ba % Bank = asked.ba % Bank
  /\ kept => o.ba = asked.ba /\ o.inh = asked.inh
Regs == [wc |-> wc, ba |-> ba, inh |-> inh]

\* The order reaches the i/o thread as it was given.
AsAsked(d) ==
  Transferring(d) => /\ dr[d].fn = asked.fn /\ dr[d].at = asked.at
                     /\ dr[d].fin => Same(Regs)
                     /\ ~ dr[d].fin => ~ BadAddress(d) /\ ~ Locked(d)
XferAsAsked ==
  xfer.go => /\ wc = asked.wc
             /\ io # "end3" => /\ Same(Regs) /\ xfer.at = asked.at /\ xfer.fn = asked.fn
                               /\ xfer.wce = (asked.fn = "WCHECK")
LocAsAsked ==
  /\ io = "setup" => loc.wc = wc /\ loc.wce = xfer.wce
  /\ io = "move" => Same(loc) /\ loc.fn = asked.fn /\ loc.at = asked.at /\ loc.cyls = Cyls(loc.d)
  /\ io \in {"move", "end2", "end3"} => loc.d = asked.d
Ordered == (\A d \in Drives : AsAsked(d)) /\ XferAsAsked /\ LocAsAsked

\* w, b, at, x: count, bus address, place and errors when what was asked has been done
Ended(w, b, at, x) ==
  /\ Low(did.o) = Low(asked) /\ (kept => did.o = asked)
  /\ w = (asked.wc + did.k) % WMax
  /\ b % Bank = After(did.o, did.k) % Bank /\ (kept => b = After(did.o, did.k))
  /\ at = Sectors(asked.at, did.seen)
  /\ did.ok <=> ~ (x.wce \/ x.nxm \/ x.fer)
  /\ did.ok => w = 0 \/ at[1] >= did.cyls

\* Its end reaches the registers before it is posted.
EndShown ==
  /\ io \in {"end2", "end3"} => Ended(loc.wc, loc.ba, loc.at, loc)
  /\ io = "end3" => /\ ba % Bank = loc.ba % Bank /\ (kept => ba = loc.ba)
                    /\ xfer.at[1] = loc.at[1]
  /\ \A d \in Drives : Transferring(d) /\ ~ dr[d].fin /\ ~ xfer.go => Ended(wc, ba, xfer.at, xfer)

RhInv == RhTypes /\ Told /\ OneDrive /\ Ordered /\ EndShown
=============================================================================
