----------------------------- MODULE TapeDrive -----------------------------
(***************************************************************************)
(* The TM11 tape controller: the registers the PDP-11 sees (tm11.v) and    *)
(* the daemon that does the commands on image files (z11tm.cc, tapelib.cc):*)
(* an i/o thread, a timer thread per drive that ends its rewinds, and the  *)
(* thread that loads and unloads files (shmms_svr_proccmds).               *)
(*                                                                         *)
(* A file is a sequence of words: a record is its length, that many words  *)
(* and its length again; a tape mark is a length of 0.  curposn is the     *)
(* number of words before the head.  The mutex (lockit) is held by the i/o *)
(* thread from taking a command to its end, but for the waits; what the    *)
(* other threads do under it is one step.  A load runs without it.         *)
(*                                                                         *)
(* Left out: what words say, bytes, errors of the file system, the end of  *)
(* tape marker, write protection, the interrupt (intreq.v).                *)
(***************************************************************************)
EXTENDS Integers, Sequences, SequencesExt, FiniteSetsExt

CONSTANTS Drives, Drive0,   \* Drive0: selected after a bus reset
          Tapes,            \* image files
          None,
          Images,           \* what may be on a tape to begin with
          Wrap,             \* values of the byte record counter
          Fns,              \* commands: READ WRITE WMARK SPF SPR REWIND UNLOAD
          MaxCmds,          \* bound: commands of the PDP-11
          MaxLoads,         \* bound: loads and unloads by the operator
          MaxWords,         \* bound: words of a tape
          Intrude           \* files and power clear may come during commands and rewinds

ASSUME TapeAssumption ==
  /\ Drive0 \in Drives /\ None \notin Drives \cup Tapes
  /\ Wrap \in Nat \ {0, 1} /\ {MaxCmds, MaxLoads, MaxWords} \subseteq Nat /\ Intrude \in BOOLEAN
  /\ Images \subseteq Seq(Int)

VARIABLES
  go, pclr, ready, fn, sel, brc, err,      \* mtc bits 0, 12, 7, 3:1, 10:8; mtbrc; mts errors
  st,                                      \* registers 5 and 6, per drive
  fastio,
  file, img,                               \* per drive: the file it has open; per file: its words
  curposn, rewend, late, unload,           \* per drive: rewendsat (0: none); it is past; unload then
  io, loc,                                 \* the i/o thread and its variables
  tpc, saw,                                \* per timer thread
  cmd,                                     \* the command thread
  cmds, loads

regs  == <<go, pclr, ready, fn, sel, brc, err>>
drive == <<file, img, curposn, rewend, late, unload>>
iov   == <<io, loc>>
timer == <<tpc, saw>>
vars  == <<regs, st, fastio, drive, iov, timer, cmd, cmds, loads>>

Word == -1                                 \* a word of data
NoLoc == [d |-> Drive0, fn |-> "REWIND", brc |-> 0, n0 |-> 0, from |-> 0, len |-> 0, saw |-> 0,
          err |-> "none"]

\* where records begin and end, as reading from the beginning finds them
Boundaries(f) ==
  LET ends(q, p) == \/ f[q + 1] = 0 /\ p = q + 1
                    \/ f[q + 1] > 0 /\ p = q + f[q + 1] + 2 /\ f[p] = f[q + 1]
      b[p \in 0 .. Len(f)] == p = 0 \/ \E q \in 0 .. p - 1 : b[q] /\ ends(q, p) IN
  {p \in 0 .. Len(f) : b[p]}

\* updstbits
Status(d) == [sel |-> file[d] # None, bot |-> curposn[d] = 0, rew |-> rewend[d] # 0,
              tur |-> file[d] # None /\ rewend[d] = 0]
Updated == [d \in Drives |-> Status(d)]

Idle == [op |-> "none", d |-> Drive0, t |-> None, st |-> <<>>]

Init ==
  /\ go = FALSE /\ pclr = FALSE /\ ready = TRUE /\ fn = "REWIND" /\ sel = Drive0 /\ brc = 0 /\ err = "none"
  /\ fastio \in BOOLEAN
  /\ img \in [Tapes -> Images]
  /\ file \in {f \in [Drives -> Tapes] : IsInjective(f)}
  /\ curposn = [d \in Drives |-> 0] /\ rewend = [d \in Drives |-> 0]
  /\ late = [d \in Drives |-> FALSE] /\ unload = [d \in Drives |-> FALSE]
  /\ st = Updated
  /\ io = "wait" /\ loc = NoLoc
  /\ tpc = [d \in Drives |-> "asleep"] /\ saw = [d \in Drives |-> 0]
  /\ cmd = Idle /\ cmds = 0 /\ loads = 0

------------------------------------------------------------------------------
(* The PDP-11.                                                             *)

Held == io \in {"clear", "rew", "do", "space", "done"} \/ (io = "skip" /\ fastio)
Resting == ready /\ ~ go /\ ~ pclr /\ io = "wait" /\ cmd = Idle
Polite(d) == Intrude \/ (Resting /\ rewend[d] = 0)

\* Software does not write in the middle of a tape what would leave the words behind it unreadable.
Fits(d, f, n) ==
  LET p == IF rewend[d] = 0 THEN curposn[d] ELSE 0
      w == IF f = "WMARK" THEN 1 ELSE Wrap - n + 2 IN
  file[d] # None =>
    \/ p = Len(img[file[d]]) /\ p + w <= MaxWords
    \/ p < Len(img[file[d]]) /\ img[file[d]][p + 1] = IF f = "WMARK" THEN 0 ELSE Wrap - n

Go(d, f, n) ==                             \* write mtc: go, clearing ready, errors and unit ready
  /\ cmds < MaxCmds /\ cmds' = cmds + 1
  /\ ready /\ (Intrude \/ (~ pclr /\ cmd = Idle))
  /\ f \in {"WRITE", "WMARK"} => Fits(d, f, n)
  /\ f \notin {"READ", "WRITE", "SPF", "SPR"} => n = 0
  /\ go' = TRUE /\ ready' = FALSE /\ fn' = f /\ sel' = d /\ brc' = n /\ err' = "none"
  /\ st' = [st EXCEPT ![d].tur = FALSE]
  /\ UNCHANGED <<pclr, fastio, drive, iov, timer, cmd, loads>>

PowerClear ==                              \* or the end of a bus reset
  /\ cmds < MaxCmds /\ cmds' = cmds + 1
  /\ Intrude \/ Resting
  /\ pclr' = TRUE /\ ready' = TRUE /\ go' = FALSE /\ err' = "none"
  /\ UNCHANGED <<fn, sel, brc, st, fastio, drive, iov, timer, cmd, loads>>

------------------------------------------------------------------------------
(* The i/o thread.                                                         *)

Wake(pc, asleep, awake) == IF pc \in asleep THEN awake ELSE pc

\* a time no thread has seen
Fresh(d) == Min(1 .. 4 \ {rewend[d], saw[d], loc.saw})

\* startrewind of the drives of D, each to unload then or not
StartRewind(D, unl) ==
  LET moves == {d \in D : curposn[d] # 0 /\ ~ fastio} IN
  /\ unload' = [d \in Drives |-> IF d \in D THEN unl ELSE unload[d]]
  /\ rewend' = [d \in Drives |-> IF d \in moves THEN Fresh(d) ELSE rewend[d]]
  /\ late' = [d \in Drives |-> d \notin moves /\ late[d]]
  /\ tpc' = [d \in Drives |-> IF d \in moves THEN Wake(tpc[d], {"asleep", "timed"}, "look") ELSE tpc[d]]
  /\ curposn' = [d \in Drives |-> IF d \in D \ moves THEN 0 ELSE curposn[d]]
  /\ file' = [d \in Drives |-> IF d \in D \ moves /\ unl THEN None ELSE file[d]]
  /\ UNCHANGED <<img, saw>>

IoTake ==                                  \* waitint, lockit, read mtc; a command: write it back
  /\ io = "wait" /\ (go \/ pclr)
  /\ loc' = [NoLoc EXCEPT !.fn = fn, !.d = sel]
  /\ IF pclr THEN io' = "clear" /\ UNCHANGED regs
             ELSE /\ io' = "rew" /\ go' = FALSE /\ err' = "none"
                  /\ UNCHANGED <<pclr, ready, fn, sel, brc>>
  /\ UNCHANGED <<st, fastio, drive, timer, cmd, cmds, loads>>

WriteMtc(e) ==                             \* as read when it was taken, and ready
  /\ go' = FALSE /\ pclr' = FALSE /\ ready' = TRUE /\ fn' = loc.fn /\ sel' = loc.d /\ err' = e

IoClear ==                                 \* resetall
  /\ io = "clear" /\ io' = "wait" /\ loc' = NoLoc
  /\ StartRewind({d \in Drives : file[d] # None}, FALSE)
  /\ st' = Updated' /\ WriteMtc("none")
  /\ UNCHANGED <<brc, fastio, cmd, cmds, loads>>

IoRewound ==                               \* waitrewind: rewendsat is 0, or unlock
  /\ io = "rew"
  /\ IF rewend[loc.d] = 0
     THEN io' = "do" /\ loc' = [loc EXCEPT !.brc = brc, !.n0 = brc, !.from = curposn[loc.d]]
     ELSE io' = "going" /\ loc' = [loc EXCEPT !.saw = rewend[loc.d]]
  /\ UNCHANGED <<regs, st, fastio, drive, timer, cmd, cmds, loads>>

IoFutex ==                                 \* FUTEX_WAIT
  /\ io = "going"
  /\ io' = IF rewend[loc.d] = loc.saw THEN "asleep" ELSE "rew"
  /\ loc' = [loc EXCEPT !.saw = 0]
  /\ UNCHANGED <<regs, st, fastio, drive, timer, cmd, cmds, loads>>

IoUnch == UNCHANGED <<regs, st, fastio, late, rewend, timer, cmd, cmds, loads>>

Pos == curposn[loc.d]
Tape == IF file[loc.d] = None THEN <<>> ELSE img[file[loc.d]]
HasLen(p) == p \in 0 .. Len(Tape) - 1 /\ Tape[p + 1] >= 0
Whole(p) == LET n == Tape[p + 1] IN p + n + 2 <= Len(Tape) /\ (n > 0 => Tape[p + n + 2] = n)
MoveTo(p) == curposn' = [curposn EXCEPT ![loc.d] = p]
Done(b, e) == io' = "done" /\ loc' = [loc EXCEPT !.brc = b % Wrap, !.err = e]
Count == Wrap - loc.brc

DoRead ==
  /\ io = "do" /\ loc.fn = "READ"
  /\ IF ~ HasLen(Pos) THEN Done(loc.brc, "crc") /\ UNCHANGED curposn
     ELSE LET n == Tape[Pos + 1] IN
          IF n = 0 THEN Done(loc.brc, "mark") /\ MoveTo(Pos + 1)
          ELSE IF ~ Whole(Pos) THEN Done(loc.brc, "crc") /\ MoveTo(Pos + 1 + (IF Pos + 1 + n > Len(Tape) THEN 0 ELSE n))
          ELSE /\ MoveTo(Pos + n + 2)
               /\ \/ Done(loc.brc + Min({n, Count}), IF n > Count THEN "long" ELSE "none")
                  \/ Done(loc.brc, "nxm")                       \* dmawrite fails
  /\ UNCHANGED <<file, img, unload>> /\ IoUnch

\* write these words where the head is
Put(w) ==
  LET f == Tape IN
  /\ img' = [img EXCEPT ![file[loc.d]] = SubSeq(f, 1, Pos) \o w \o SubSeq(f, Pos + Len(w) + 1, Len(f))]
  /\ MoveTo(Pos + Len(w))

Record(n) == <<n>> \o [i \in 1 .. n |-> Word] \o <<n>>

DoWrite ==                                 \* all of it is fetched before any of it is written
  /\ io = "do" /\ loc.fn = "WRITE"
  /\ \/ Done(loc.brc, "nxm") /\ UNCHANGED <<img, curposn>>     \* dmaread fails
     \/ file[loc.d] = None /\ Done(0, "crc") /\ UNCHANGED <<img, curposn>>
     \/ file[loc.d] # None /\ Done(0, "none") /\ Put(Record(Count))
  /\ UNCHANGED <<file, unload>> /\ IoUnch

DoMark ==
  /\ io = "do" /\ loc.fn = "WMARK"
  /\ \/ file[loc.d] = None /\ Done(loc.brc, "crc") /\ UNCHANGED <<img, curposn>>
     \/ file[loc.d] # None /\ Done(loc.brc, "none") /\ Put(<<0>>)
  /\ UNCHANGED <<file, unload>> /\ IoUnch

DoRewind ==
  /\ io = "do" /\ loc.fn \in {"REWIND", "UNLOAD"}
  /\ StartRewind({loc.d}, loc.fn = "UNLOAD") /\ Done(loc.brc, "none")
  /\ UNCHANGED <<regs, st, fastio, cmd, cmds, loads>>

SpaceForward ==                            \* skipfwd as far as the delay
  /\ io \in {"do", "space"} /\ loc.fn = "SPF"
  /\ IF HasLen(Pos)
     THEN io' = "skip" /\ loc' = [loc EXCEPT !.len = Tape[Pos + 1]] /\ MoveTo(Pos + 1)
     ELSE Done(loc.brc, "crc") /\ UNCHANGED curposn
  /\ UNCHANGED <<file, img, unload>> /\ IoUnch

SpaceReverse ==                            \* skiprev as far as the delay
  /\ io \in {"do", "space"} /\ loc.fn = "SPR"
  /\ IF Pos = 0 THEN Done(loc.brc, "none") /\ UNCHANGED curposn
     ELSE /\ MoveTo(Pos - 1)
          /\ IF HasLen(Pos - 1) THEN io' = "skip" /\ loc' = [loc EXCEPT !.len = Tape[Pos]]
                               ELSE Done(loc.brc, "crc")
  /\ UNCHANGED <<file, img, unload>> /\ IoUnch

Over_Rev(n) == n                           \* mistake: forgets the length before the data
Over(n) == n + 1

Passed_NoMark(n, len) == IF len = 0 THEN n ELSE n + 1       \* mistake: does not count the mark
Passed(n, len) == n + 1                    \* "count includes tape mark"

IoSkip ==                                  \* the rest of them, and the loop
  /\ io = "skip"
  /\ IF loc.len = 0 THEN Done(Passed(loc.brc, 0), "mark") /\ UNCHANGED <<curposn, brc>>
     ELSE LET b == Passed(loc.brc, loc.len) % Wrap IN
          /\ MoveTo(IF loc.fn = "SPF" THEN Pos + Over(loc.len) ELSE Pos - Over(loc.len))
          /\ brc' = b /\ loc' = [loc EXCEPT !.brc = b, !.len = 0]
          /\ io' = IF b = 0 THEN "done" ELSE "space"
  /\ UNCHANGED <<go, pclr, ready, fn, sel, err, st, fastio, file, img, late, rewend, unload, timer, cmd,
                 cmds, loads>>

IoDone ==
  /\ io = "done" /\ io' = "wait" /\ loc' = NoLoc
  /\ st' = Updated /\ brc' = loc.brc /\ WriteMtc(loc.err)
  /\ UNCHANGED <<fastio, drive, timer, cmd, cmds, loads>>

------------------------------------------------------------------------------
(* The timer threads.                                                      *)

TimePasses(d) ==
  /\ rewend[d] # 0 /\ ~ late[d] /\ late' = [late EXCEPT ![d] = TRUE]
  /\ UNCHANGED <<regs, st, fastio, file, img, curposn, rewend, unload, iov, timer, cmd, cmds, loads>>

RewindEnds_NoWake(d) ==                    \* mistake: wakes nobody
  /\ rewend' = [rewend EXCEPT ![d] = 0] /\ late' = [late EXCEPT ![d] = FALSE]
  /\ curposn' = [curposn EXCEPT ![d] = 0]
  /\ file' = IF unload[d] THEN [file EXCEPT ![d] = None] ELSE file
  /\ st' = Updated' /\ UNCHANGED io

RewindEnds_NoStatus(d) ==                  \* mistake: leaves register 5
  /\ rewend' = [rewend EXCEPT ![d] = 0] /\ late' = [late EXCEPT ![d] = FALSE]
  /\ curposn' = [curposn EXCEPT ![d] = 0]
  /\ file' = IF unload[d] THEN [file EXCEPT ![d] = None] ELSE file
  /\ io' = IF loc.d = d THEN Wake(io, {"asleep"}, "rew") ELSE io
  /\ UNCHANGED st

\* the rewind is over: at the beginning of the tape, unloaded or ready
RewindEnds(d) ==
  /\ rewend' = [rewend EXCEPT ![d] = 0] /\ late' = [late EXCEPT ![d] = FALSE]
  /\ curposn' = [curposn EXCEPT ![d] = 0]
  /\ file' = IF unload[d] THEN [file EXCEPT ![d] = None] ELSE file
  /\ io' = IF loc.d = d THEN Wake(io, {"asleep"}, "rew") ELSE io
  /\ st' = Updated'

TimerLook(d) ==
  /\ tpc[d] = "look" /\ ~ Held
  /\ IF file[d] # None /\ rewend[d] # 0 /\ late[d]
     THEN /\ RewindEnds(d)
          /\ tpc' = [tpc EXCEPT ![d] = "going"] /\ saw' = [saw EXCEPT ![d] = 0]
     ELSE /\ tpc' = [tpc EXCEPT ![d] = IF file[d] # None /\ rewend[d] # 0 THEN "goingtimed" ELSE "going"]
          /\ saw' = [saw EXCEPT ![d] = rewend[d]]
          /\ UNCHANGED <<rewend, late, curposn, file, io, st>>
  /\ UNCHANGED <<regs, fastio, img, unload, loc, cmd, cmds, loads>>

TimerFutex(d) ==                           \* FUTEX_WAIT with or without a time limit
  /\ tpc[d] \in {"going", "goingtimed"}
  /\ tpc' = [tpc EXCEPT ![d] = IF rewend[d] # saw[d] THEN "look" ELSE IF @ = "going" THEN "asleep" ELSE "timed"]
  /\ saw' = [saw EXCEPT ![d] = 0]
  /\ UNCHANGED <<regs, st, fastio, drive, iov, cmd, cmds, loads>>

TimerTimeout(d) ==
  /\ tpc[d] = "timed" /\ (late[d] \/ rewend[d] = 0) /\ tpc' = [tpc EXCEPT ![d] = "look"]
  /\ UNCHANGED <<regs, st, fastio, drive, iov, saw, cmd, cmds, loads>>

------------------------------------------------------------------------------
(* The command thread.  What updstbits writes without the mutex is what    *)
(* it found a moment before.                                               *)

CmdUnload(d) ==
  /\ loads < MaxLoads /\ loads' = loads + 1 /\ Polite(d)
  /\ cmd = Idle /\ ~ Held /\ file[d] # None
  /\ file' = [file EXCEPT ![d] = None]
  /\ UNCHANGED <<regs, fastio, img, curposn, rewend, late, unload, iov, timer, cmd, cmds>>
  /\ st' = Updated'

LoadClose(d, t) ==                         \* unloadfile
  /\ loads < MaxLoads /\ loads' = loads + 1 /\ Polite(d) /\ cmd = Idle /\ (Intrude \/ rewend = [e \in Drives |-> 0])
  /\ file' = [file EXCEPT ![d] = None]
  /\ UNCHANGED <<regs, st, fastio, img, curposn, rewend, late, unload, iov, timer, cmds>>
  /\ cmd' = [op |-> "closing", d |-> d, t |-> t, st |-> Updated']

LoadOpen ==                                \* write the status, open the file unless another drive has it
  /\ cmd.op = "closing" /\ st' = cmd.st
  /\ UNCHANGED <<regs, fastio, img, rewend, late, unload, iov, timer, cmds, loads>>
  /\ IF cmd.t \in {file[d] : d \in Drives}
     THEN cmd' = Idle /\ UNCHANGED <<file, curposn>>
     ELSE /\ file' = [file EXCEPT ![cmd.d] = cmd.t] /\ curposn' = [curposn EXCEPT ![cmd.d] = 0]
          /\ cmd' = [cmd EXCEPT !.op = "opened", !.st = Updated']

LoadDone ==
  /\ cmd.op = "opened" /\ st' = cmd.st /\ cmd' = Idle
  /\ UNCHANGED <<regs, fastio, drive, iov, timer, cmds, loads>>

------------------------------------------------------------------------------
Driver == \/ \E d \in Drives, f \in Fns, n \in 0 .. Wrap - 1 : Go(d, f, n)
          \/ PowerClear
Io == \/ IoTake \/ IoClear \/ IoRewound \/ IoFutex \/ DoRead \/ DoWrite \/ DoMark \/ DoRewind
      \/ SpaceForward \/ SpaceReverse \/ IoSkip \/ IoDone
Timer(d) == TimerLook(d) \/ TimerFutex(d) \/ TimerTimeout(d)
Operator == \/ \E d \in Drives : CmdUnload(d) \/ \E t \in Tapes : LoadClose(d, t)
            \/ LoadOpen \/ LoadDone

Next == Driver \/ Io \/ Operator \/ \E d \in Drives : Timer(d) \/ TimePasses(d)

Spec == Init /\ [][Next]_vars

\* threads run, and time passes
FairSpec ==
  /\ Spec /\ WF_vars(Io) /\ WF_vars(LoadOpen \/ LoadDone)
  /\ \A d \in Drives : SF_vars(TimerLook(d)) /\ WF_vars(Timer(d)) /\ WF_vars(TimePasses(d))

------------------------------------------------------------------------------
TapeTypeOK ==
  /\ {go, pclr, ready, fastio} \subseteq BOOLEAN /\ fn \in Fns \cup {"REWIND"} /\ sel \in Drives
  /\ brc \in 0 .. Wrap - 1 /\ err \in {"none", "mark", "crc", "long", "nxm"}
  /\ \A d \in Drives : /\ file[d] \in Tapes \cup {None} /\ curposn[d] \in Nat /\ rewend[d] \in 0 .. 4
                       /\ {late[d], unload[d]} \subseteq BOOLEAN
                       /\ tpc[d] \in {"look", "going", "goingtimed", "asleep", "timed"}
  /\ io \in {"wait", "clear", "rew", "going", "asleep", "do", "space", "skip", "done"}

(* Whatever sequence of reads, writes, spaces and rewinds: the head of a   *)
(* drive stands where a record begins or ends, unless a command moves it   *)
(* (the arithmetic on curposn in tapelib.cc).                              *)
HeadAtRecord ==
  /\ TapeTypeOK
  /\ \A d \in Drives :
       file[d] # None => curposn[d] \in Boundaries(img[file[d]]) \/ (io = "skip" /\ loc.d = d)

(* When a space ends the counter has counted the records and marks that    *)
(* have gone by, although the lock is let go at each (z11tm.cc).           *)
CountsRecords ==
  [][IoDone /\ loc.fn \in {"SPF", "SPR"} /\ file[loc.d] # None =>
       LET p == curposn[loc.d]
           passed == {q \in Boundaries(img[file[loc.d]]) :
                        IF loc.fn = "SPF" THEN loc.from <= q /\ q < p ELSE p <= q /\ q < loc.from} IN
       (brc' - loc.n0) % Wrap = Cardinality(passed) % Wrap]_vars

(* With all threads at rest registers 5 and 6 say what the drives do       *)
(* (updstbits).                                                            *)
StatusTrue ==
  Resting /\ (\A d \in Drives : tpc[d] \notin {"look", "goingtimed"}) => st = Updated

Stranded == \E d \in Drives : rewend[d] # 0 /\ file[d] = None

(* Commands, power clear and rewinds come to an end, by way of the futex   *)
(* rewendsat, on which the timer threads and the i/o thread wait (tapelib),*)
(* unless a drive without a tape is rewinding.                             *)
TapeEnds ==
  /\ (go \/ pclr) ~> ((ready /\ ~ pclr) \/ Stranded)
  /\ \A d \in Drives : (rewend[d] # 0) ~> (rewend[d] = 0 \/ file[d] = None)

(* What waitrewind waits for comes: "maybe wait for previously started     *)
(* rewind/unload to complete" (z11tm.cc).                                  *)
RewindsEnd == \A d \in Drives : (rewend[d] # 0) ~> (rewend[d] = 0)

(* tm11.v: "don't allow clearing power clear bit so arm will see if was    *)
(* previously set", "only arm should clear power clear bit": it is cleared *)
(* when the drives have been reset.                                        *)
PowerClearSeen == [][pclr /\ ~ pclr' => IoClear]_vars

(* tm11.v: at power clear the controller is "ready immediately so pdp can  *)
(* write new command immediately": such a command is not forgotten.        *)
CommandTaken == [][go /\ ~ go' => IoTake \/ PowerClear]_vars

(* A drive is not ready while a command moves its tape: go clears "tape    *)
(* unit ready" (tm11.v), and the end of the command sets it.               *)
NotReadyWhileMoving == io \in {"space", "skip"} => ~ st[loc.d].tur
------------------------------------------------------------------------------
(* The strengthening, part by part, while files and power clear come only  *)
(* between commands (Intrude FALSE).                                       *)

\* what stands at p can be read: nothing, a mark or a whole record
ReadsAt(f, p) ==
  LET n == f[p + 1] IN
  p < Len(f) /\ n > 0 => p + n + 2 <= Len(f) /\ f[p + n + 2] = n
Readable(f) == \A p \in Boundaries(f) : ReadsAt(f, p)

Statuses == [Drives -> [sel : BOOLEAN, bot : BOOLEAN, rew : BOOLEAN, tur : BOOLEAN]]
Errors == {"none", "mark", "crc", "long", "nxm"}
RegTypes ==
  /\ go \in BOOLEAN /\ pclr \in BOOLEAN /\ ready \in BOOLEAN /\ fastio \in BOOLEAN
  /\ fn \in Fns \cup {"REWIND"} /\ sel \in Drives /\ brc \in 0 .. Wrap - 1 /\ err \in Errors
  /\ st \in Statuses
DriveTypes ==
  /\ file \in [Drives -> Tapes \cup {None}] /\ img \in [Tapes -> Seq(Int)]
  /\ curposn \in [Drives -> Nat] /\ rewend \in [Drives -> 0 .. 4]
  /\ late \in [Drives -> BOOLEAN] /\ unload \in [Drives -> BOOLEAN]
Locs == [d : Drives, fn : Fns \cup {"REWIND"}, brc : 0 .. Wrap - 1, n0 : 0 .. Wrap - 1, from : Nat,
         len : Nat, saw : 0 .. 4, err : Errors]
Orders == [op : {"none", "closing", "opened"}, d : Drives, t : Tapes \cup {None},
           st : {<<>>} \cup Statuses]
ThreadTypes ==
  /\ io \in {"wait", "clear", "rew", "going", "asleep", "do", "space", "skip", "done"}
  /\ loc \in Locs /\ cmd \in Orders
  /\ tpc \in [Drives -> {"look", "going", "goingtimed", "asleep", "timed"}]
  /\ saw \in [Drives -> 0 .. 4]
TapeTypes == RegTypes /\ DriveTypes /\ ThreadTypes

Spacing == {"SPF", "SPR"}

\* One command at a time, and none while the operator is at work.
OneCommand ==
  /\ pclr => ready /\ ~ go
  /\ go => ~ ready /\ io = "wait"
  /\ io = "clear" => pclr
  /\ io \notin {"wait", "clear"} => ~ ready /\ ~ go /\ ~ pclr /\ loc.fn = fn /\ loc.d = sel
  /\ io = "do" => loc.brc = brc
  /\ io \in {"space", "skip"} => loc.fn \in Spacing
  /\ cmd # Idle => ready /\ ~ pclr /\ io = "wait" /\ rewend = [d \in Drives |-> 0]

\* The drive that works does not rewind.
Still ==
  io \in {"do", "space", "skip"} \/ (io = "done" /\ loc.fn \in Spacing) => rewend[loc.d] = 0

\* Whoever writes the status has it as it is.
Shows ==
  /\ ready /\ cmd = Idle => st = Updated
  /\ cmd # Idle => cmd.st = Updated

Apart == \A d, e \in Drives : file[d] = file[e] /\ file[d] # None => d = e

\* what will be written leaves the tape readable: it goes behind the last
\* record or on one of the same length
Room(d, n) ==
  LET p == IF rewend[d] = 0 THEN curposn[d] ELSE 0
      f == img[file[d]] IN
  file[d] # None => p = Len(f) \/ (p < Len(f) /\ f[p + 1] = n)
Fitting ==
  (go \/ io \in {"rew", "going", "asleep", "do"}) /\ fn \in {"WRITE", "WMARK"}
    => Room(sel, IF fn = "WMARK" THEN 0 ELSE Wrap - brc)

\* where the head of the drive at work was, or will be
Before == IF io = "skip" THEN IF loc.fn = "SPF" THEN Pos - 1 ELSE Pos + 1 ELSE Pos
Skipping ==
  io = "skip" => /\ file[loc.d] # None /\ Before \in Boundaries(Tape)
                 /\ Tape[IF loc.fn = "SPF" THEN Pos ELSE Pos + 1] = loc.len
                 /\ IF loc.fn = "SPF" THEN Pos > 0 /\ Pos <= Len(Tape) ELSE Pos >= 0 /\ Pos < Len(Tape)

Headed ==
  \A d \in Drives : file[d] # None =>
    curposn[d] \in Boundaries(img[file[d]]) \/ (io = "skip" /\ loc.d = d)

AllReadable == \A t \in Tapes : Readable(img[t])

\* Spacing has counted what lies between where it began and the head.
Between(low, high) == {q \in Boundaries(Tape) : low <= q /\ q < high}
Gone == IF loc.fn = "SPF" THEN Between(loc.from, Before) ELSE Between(Before, loc.from)
Counted ==
  io \in {"do", "space", "skip", "done"} /\ loc.fn \in Spacing /\ file[loc.d] # None =>
    /\ IF loc.fn = "SPF" THEN loc.from <= Before ELSE Before <= loc.from
    /\ (loc.brc - loc.n0) % Wrap = Cardinality(Gone) % Wrap

TapeInv ==
  /\ TapeTypes /\ OneCommand /\ Still /\ Shows
  /\ Apart /\ AllReadable /\ Fitting /\ Skipping /\ Headed /\ Counted
=============================================================================
