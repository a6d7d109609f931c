------------------------------- MODULE ShmMS -------------------------------
(***************************************************************************)
(* The mass-storage shared page (shmms.cc, shmms.h): client programs       *)
(* (z11ctrl, the GUI) load, unload and query drives through a command word *)
(* served by the daemon z11rl, z11rh or z11tm, which clients start when it *)
(* is not running.                                                         *)
(*                                                                         *)
(* The mutex is the one of ShmMutex, taken here as what that module proves *)
(* it to be: one holder at a time, and the lock of a dead holder may be    *)
(* taken.  Code between taking and releasing it is one action, except      *)
(* where the holder waits or where dying half way leaves a mark.  Waits on *)
(* the command word are futex waits: they start only if the word still has *)
(* the value last seen, and end only when somebody wakes the sleepers.     *)
(***************************************************************************)
EXTENDS Naturals, FiniteSets

CONSTANTS
  Clients,      \* client processes (pids)
  Servers,      \* pids for server processes, each used once
  ByHand,       \* those of servers that users start themselves
  Drives, Files,
  NoPid,        \* 0 in svrpid, cmdpid and msfutex
  NoFile,       \* the empty filename
  Ops,          \* calls the clients make, a subset of AllOps
  MaxCalls,     \* bound: calls of all clients
  MayDie,       \* processes that may be killed
  ForkMayFail,  \* whether fork or the daemon's first steps may fail
  FnseqMax      \* largest fnseq (255 in the code)

AllOps == {"load", "keep", "unload", "stat"}

ASSUME OpsAssumption == Ops \subseteq AllOps
ASSUME PidsAssumption == NoPid \notin Clients \cup Servers
                         /\ Clients \cap Servers = {}
ASSUME ByHandAssumption == ByHand \subseteq Servers
ASSUME ForkMayFailAssumption == ForkMayFail \in BOOLEAN
ASSUME FnseqAssumption == FnseqMax \in Nat \ {0}

VARIABLES
  holder,       \* who holds the mutex
  svrpid, cmdpid, command, negerr,   \* words of the page
  drive,        \* the page's drive entries: filename, readonly, fnseq
  alive,        \* processes that exist
  sleeping,     \* processes asleep on the command word
  cpc, call,    \* per client: where it is, the call's arguments
  next,         \* per client: what mslock returns to
  seen,         \* per client and server: command word to sleep on
  oldsvr,       \* per client: svrpid when mswaitdone began
  calls,        \* calls begun
  spc,          \* per server: where it is
  devlock,      \* server that locked the controller's FPGA registers
  loaded,       \* per server and drive: the file it has open, and how
  asked         \* history: the client that put the current command there

pagevars == <<svrpid, cmdpid, command, negerr, drive, asked>>
clientvars == <<cpc, call, next, oldsvr, calls>>
servervars == <<spc, devlock, loaded>>
vars == <<holder, pagevars, alive, sleeping, clientvars, servervars, seen>>

Idle == [op |-> "IDLE"]
Done == [op |-> "DONE"]
Cmd(op, d) == [op |-> op, drive |-> d]
Commands == {Idle, Done} \cup {Cmd(op, d) : op \in {"LOAD", "UNLD"}, d \in Drives}
Pids == Clients \cup Servers
\* a drive's entry in the page, and what a server has in a drive
Entry == [file : Files \cup {NoFile}, readonly : BOOLEAN, fnseq : 0..FnseqMax]
Medium == [file : Files \cup {NoFile}, readonly : BOOLEAN]
Nothing == [file |-> NoFile, readonly |-> FALSE]
NoCall == [op |-> "none"]
Calls ==
  {r \in [op : {"load"}, drive : Drives, file : Files, readonly : BOOLEAN]
       \cup [op : {"keep"}, drive : Drives, readonly : BOOLEAN]
       \cup [op : {"unload"}, drive : Drives, readonly : {FALSE}]
       \cup [op : {"stat"}] : r.op \in Ops}

TypeOK ==
  /\ holder \in Pids \cup {NoPid}
  /\ svrpid \in Servers \cup {NoPid} /\ cmdpid \in Clients \cup {NoPid}
  /\ command \in Commands /\ negerr \in BOOLEAN
  /\ drive \in [Drives -> Entry]
  /\ alive \subseteq Pids /\ sleeping \subseteq Pids
  /\ devlock \in Servers \cup {NoPid}
  /\ loaded \in [Servers -> [Drives -> Medium]]
  /\ asked \in Clients \cup {NoPid}

Init ==
  /\ holder = NoPid /\ svrpid = NoPid /\ cmdpid = NoPid
  /\ command = Idle /\ negerr = FALSE
  /\ drive = [d \in Drives |-> [file |-> NoFile, readonly |-> FALSE, fnseq |-> 0]]
  /\ alive = Clients
  /\ sleeping = {}
  /\ cpc = [c \in Clients |-> "out"]
  /\ call = [c \in Clients |-> NoCall]
  /\ next = [c \in Clients |-> "idle"]
  /\ seen = [p \in Pids |-> Idle]
  /\ oldsvr = [c \in Clients |-> NoPid]
  /\ calls = 0
  /\ spc = [s \in Servers |-> "none"]
  /\ devlock = NoPid
  /\ loaded = [s \in Servers |-> [d \in Drives |-> Nothing]]
  /\ asked = NoPid

\* kill (pid, 0) fails with ESRCH; it succeeds for 0
Gone(p) == p # NoPid /\ p \notin alive

Free == holder = NoPid \/ Gone(holder)

\* next fnseq: 8 bits, 0 is for the initial condition
NextSeq(n) == IF n = FnseqMax THEN 1 ELSE n + 1

ClientAt(c, from, to) ==
  cpc[c] = from /\ c \in alive /\ cpc' = [cpc EXCEPT ![c] = to]
\* the call returns, and its local variables are no more
ReturnAt(c, from) ==
  /\ ClientAt(c, from, "out")
  /\ call' = [call EXCEPT ![c] = NoCall]
  /\ next' = [next EXCEPT ![c] = "idle"]
  /\ oldsvr' = [oldsvr EXCEPT ![c] = NoPid]
ServerAt(s, from, to) ==
  spc[s] = from /\ s \in alive /\ spc' = [spc EXCEPT ![s] = to]

\* msunlk wakes the sleepers on the command word, shmms_svr_mutexunlk does not
MsUnlk == holder' = NoPid /\ sleeping' = {}

-----------------------------------------------------------------------------
(* Clients: mslock, forkserver *)

\* a call begins by taking the lock and comes back to "idle" or "stat"
Begin(c) ==
  /\ calls < MaxCalls
  /\ ClientAt(c, "out", "lock")
  /\ \E r \in Calls :
       /\ call' = [call EXCEPT ![c] = r]
       /\ next' = [next EXCEPT ![c] = IF r.op = "stat" THEN "stat" ELSE "idle"]
  /\ calls' = calls + 1
  /\ UNCHANGED <<holder, pagevars, alive, sleeping, servervars, seen, oldsvr>>

\* lockmutex, and the server is there
MsLock(c) ==
  /\ Free
  /\ svrpid \in alive
  /\ ClientAt(c, "lock", next[c])
  /\ holder' = c
  /\ UNCHANGED <<pagevars, alive, sleeping, call, next, oldsvr, calls,
                 servervars, seen>>

\* lockmutex, but the server is not running: start it, still locked
MsLockFork(c) ==
  /\ Free
  /\ svrpid \notin alive
  /\ ClientAt(c, "lock", "fork")
  /\ holder' = c
  /\ svrpid' = NoPid
  /\ UNCHANGED <<cmdpid, command, negerr, drive, asked, alive, sleeping, call,
                 next, oldsvr, calls, servervars, seen>>

\* forkserver: a daemon process that will publish its pid itself
Fork(c) ==
  /\ ClientAt(c, "fork", "forked")
  /\ \E s \in Servers :
       /\ spc[s] = "none" /\ s \notin ByHand
       /\ spc' = [spc EXCEPT ![s] = "daemon"]
       /\ alive' = alive \cup {s}
  /\ UNCHANGED <<holder, pagevars, sleeping, call, next, oldsvr, calls,
                 devlock, loaded, seen>>

\* fork or waitpid fails: the call returns the error
ForkFails(c) ==
  /\ ForkMayFail
  /\ ReturnAt(c, "fork")
  /\ MsUnlk
  /\ UNCHANGED <<pagevars, alive, calls, servervars, seen>>

\* svrpid is set up: unlock, pause, check again
Forked(c) ==
  /\ svrpid # NoPid
  /\ ClientAt(c, "forked", "lock")
  /\ MsUnlk
  /\ UNCHANGED <<pagevars, alive, call, next, oldsvr, calls, servervars, seen>>

-----------------------------------------------------------------------------
(* Clients: shmms_stat, shmms_load, mswaitidle, msunload, mswaitdone *)

Stat(c) ==
  /\ ReturnAt(c, "stat")
  /\ MsUnlk
  /\ UNCHANGED <<pagevars, alive, calls, servervars, seen>>

\* stuck in DONE back to a process that is gone: IDLE after all
StaleDone == command = Done /\ Gone(cmdpid)

\* mswaitidle finds the page busy: unlock, then wait for a change
Busy(c) ==
  /\ command # Idle /\ ~StaleDone
  /\ ClientAt(c, "idle", "idlewait")
  /\ seen' = [seen EXCEPT ![c] = command]
  /\ MsUnlk
  /\ UNCHANGED <<pagevars, alive, call, next, oldsvr, calls, servervars>>

\* ... or gives up after many rounds
TooLong(c) ==
  /\ command # Idle /\ ~StaleDone
  /\ ReturnAt(c, "idle")
  /\ MsUnlk
  /\ UNCHANGED <<pagevars, alive, calls, servervars, seen>>

\* Variant: any DONE is taken for a leftover.
IsIdle_AnyDone(c) == command \in {Idle, Done}

IsIdle(c) == command = Idle \/ StaleDone

\* nothing to send: only the readonly flag changes
SetReadonly(c) ==
  /\ IsIdle(c)
  /\ call[c].op = "keep" /\ drive[call[c].drive].file = NoFile
  /\ ReturnAt(c, "idle")
  /\ command' = Idle
  /\ drive' = [drive EXCEPT ![call[c].drive].readonly = call[c].readonly]
  /\ MsUnlk
  /\ UNCHANGED <<svrpid, cmdpid, negerr, asked, alive, calls, servervars, seen>>

\* load, first half: the flag and the sender's pid
PostSender(c) ==
  /\ IsIdle(c)
  /\ \/ call[c].op = "load"
     \/ call[c].op = "keep" /\ drive[call[c].drive].file # NoFile
  /\ ClientAt(c, "idle", "posting")
  /\ command' = Idle
  /\ cmdpid' = c
  /\ drive' = [drive EXCEPT ![call[c].drive].readonly = call[c].readonly]
  /\ UNCHANGED <<holder, svrpid, negerr, asked, alive, sleeping, call, next,
                 oldsvr, calls, servervars, seen>>

\* ... then the command ...
PostLoad(c) ==
  /\ ClientAt(c, "posting", "naming")
  /\ command' = Cmd("LOAD", call[c].drive)
  /\ asked' = c
  /\ UNCHANGED <<holder, svrpid, cmdpid, negerr, drive, alive, sleeping, call,
                 next, oldsvr, calls, servervars, seen>>

\* ... then the name, if one is given, and mswaitdone begins
PostName(c) ==
  /\ ClientAt(c, "naming", "done")
  /\ IF call[c].op = "load"
       THEN drive' = [drive EXCEPT ![call[c].drive].file = call[c].file,
                                   ![call[c].drive].fnseq = NextSeq(@)]
       ELSE UNCHANGED drive
  /\ oldsvr' = [oldsvr EXCEPT ![c] = svrpid]
  /\ UNCHANGED <<holder, svrpid, cmdpid, command, negerr, asked, alive,
                 sleeping, call, next, calls, servervars, seen>>

\* msunload: the command alone
PostUnload(c) ==
  /\ IsIdle(c)
  /\ call[c].op = "unload"
  /\ ClientAt(c, "idle", "done")
  /\ command' = Cmd("UNLD", call[c].drive)
  /\ asked' = c
  /\ oldsvr' = [oldsvr EXCEPT ![c] = svrpid]
  /\ UNCHANGED <<holder, svrpid, cmdpid, negerr, drive, alive, sleeping, call,
                 next, calls, servervars, seen>>

\* mswaitdone: not yet
NotDone(c) ==
  /\ command # Done
  /\ ClientAt(c, "done", "donewait")
  /\ seen' = [seen EXCEPT ![c] = command]
  /\ MsUnlk
  /\ UNCHANGED <<pagevars, alive, call, next, oldsvr, calls, servervars>>

\* DONE: take the result and free the command word
Finish(c) ==
  /\ command = Done
  /\ ReturnAt(c, "done")
  /\ command' = Idle
  /\ drive' = IF call[c].op = "unload"
                THEN [drive EXCEPT ![call[c].drive].readonly = call[c].readonly]
                ELSE drive
  /\ MsUnlk
  /\ UNCHANGED <<svrpid, cmdpid, negerr, asked, alive, calls, servervars, seen>>

\* FUTEX_WAIT on the command word; EAGAIN if it changed
Sleep(c) ==
  /\ \/ ClientAt(c, "idlewait", "idlesleep") \/ ClientAt(c, "donewait", "donesleep")
  /\ sleeping' = IF command = seen[c] THEN sleeping \cup {c} ELSE sleeping
  /\ UNCHANGED <<holder, pagevars, alive, call, next, oldsvr, calls,
                 servervars, seen>>

Woken(c) ==
  /\ c \notin sleeping
  /\ \/ /\ ClientAt(c, "idlesleep", "lock")
        /\ next' = [next EXCEPT ![c] = "idle"]
     \/ /\ ClientAt(c, "donesleep", "lock")
        /\ next' = [next EXCEPT ![c] = "relocked"]
  /\ seen' = [seen EXCEPT ![c] = Idle]
  /\ UNCHANGED <<holder, pagevars, alive, sleeping, call, oldsvr, calls,
                 servervars>>

\* Variant: whoever runs now is taken to have done it.
Relocked_Trusting(c) ==
  /\ ClientAt(c, "relocked", "done")
  /\ UNCHANGED <<holder, pagevars, alive, sleeping, call, next, oldsvr, calls,
                 servervars, seen>>

\* mswaitdone after its mslock: the same server?
Relocked(c) ==
  /\ svrpid = oldsvr[c]
  /\ ClientAt(c, "relocked", "done")
  /\ UNCHANGED <<holder, pagevars, alive, sleeping, call, next, oldsvr, calls,
                 servervars, seen>>

\* server restarted while processing function: give up with EDEADLK
Restarted(c) ==
  /\ svrpid # oldsvr[c]
  /\ ReturnAt(c, "relocked")
  /\ MsUnlk
  /\ UNCHANGED <<pagevars, alive, calls, servervars, seen>>

-----------------------------------------------------------------------------
(* The server: start-up *)

\* the daemon publishes its pid, wakes the client and runs the program
Daemon(s) ==
  /\ ServerAt(s, "daemon", "main")
  /\ svrpid' = s
  /\ UNCHANGED <<holder, cmdpid, command, negerr, drive, asked, alive,
                 sleeping, clientvars, devlock, loaded, seen>>

\* started by hand
StartByHand(s) ==
  /\ spc[s] = "none" /\ s \in ByHand
  /\ spc' = [spc EXCEPT ![s] = "main"]
  /\ alive' = alive \cup {s}
  /\ UNCHANGED <<holder, pagevars, sleeping, clientvars, devlock, loaded, seen>>

\* main: lock the controller's FPGA registers, or abort
LockDevice(s) ==
  /\ devlock \notin alive
  /\ ServerAt(s, "main", "init")
  /\ devlock' = s
  /\ UNCHANGED <<holder, pagevars, alive, sleeping, clientvars, loaded, seen>>

Exit(s) == /\ alive' = alive \ {s}
           /\ spc' = [spc EXCEPT ![s] = "gone"]
           /\ loaded' = [loaded EXCEPT ![s] = [d \in Drives |-> Nothing]]

DeviceTaken(s) ==
  /\ spc[s] = "main" /\ s \in alive
  /\ devlock \in alive
  /\ Exit(s)
  /\ UNCHANGED <<holder, pagevars, sleeping, clientvars, devlock, seen>>

\* shmms_svr_initialize: another server is registered and alive
Duplicate(s) ==
  /\ Free
  /\ spc[s] = "init" /\ s \in alive
  /\ svrpid # s /\ svrpid \in alive
  /\ Exit(s)
  /\ holder' = NoPid
  /\ UNCHANGED <<pagevars, sleeping, clientvars, devlock, seen>>

\* Variant: the pid that forkserver published is taken to be enough.
SvrInitialize_TrustDaemon(s) ==
  /\ Free
  /\ svrpid = s \/ svrpid \notin alive
  /\ ServerAt(s, "init", "setup")
  /\ holder' = s
  /\ drive' = [d \in Drives |-> IF command = Cmd("LOAD", d) THEN drive[d]
                                ELSE [drive[d] EXCEPT !.file = NoFile]]
  /\ UNCHANGED <<svrpid, cmdpid, command, negerr, asked, alive, sleeping,
                 clientvars, devlock, loaded, seen>>

\* drives are empty, except one an outstanding load command is about
SvrInitialize(s) ==
  /\ Free
  /\ svrpid = s \/ svrpid \notin alive
  /\ ServerAt(s, "init", "setup")
  /\ holder' = s
  /\ svrpid' = s
  /\ drive' = [d \in Drives |-> IF command = Cmd("LOAD", d) THEN drive[d]
                                ELSE [drive[d] EXCEPT !.file = NoFile]]
  /\ UNCHANGED <<cmdpid, command, negerr, asked, alive, sleeping, clientvars,
                 devlock, loaded, seen>>

\* main returns from initialize locked, resets the controller and unlocks
Setup(s) ==
  /\ ServerAt(s, "setup", "top")
  /\ holder' = NoPid
  /\ UNCHANGED <<pagevars, alive, sleeping, clientvars, devlock, loaded, seen>>

-----------------------------------------------------------------------------
(* The server: shmms_svr_proccmds *)

\* a load command: unlock while the files are closed and opened
StartLoad(s) ==
  /\ Free
  /\ command.op = "LOAD"
  /\ ServerAt(s, "top", "load")
  /\ seen' = [seen EXCEPT ![s] = command]
  /\ holder' = NoPid
  /\ UNCHANGED <<pagevars, alive, sleeping, clientvars, devlock, loaded>>

\* unloadfile and loadfile, from the names now in the page
LoadFile(s) ==
  LET d == seen[s].drive IN
  /\ \/ /\ ServerAt(s, "load", "loadok")
        /\ drive[d].file # NoFile
        /\ loaded' = [loaded EXCEPT ![s][d] =
             [file |-> drive[d].file, readonly |-> drive[d].readonly]]
     \/ /\ ServerAt(s, "load", "loadfailed")
        /\ loaded' = [loaded EXCEPT ![s][d] = Nothing]
  /\ UNCHANGED <<holder, pagevars, alive, sleeping, clientvars, devlock, seen>>

\* Variant: a failed load leaves the name of the file in the page.
FinishLoad_KeepName(s) ==
  /\ Free
  /\ \/ ServerAt(s, "loadok", "top") /\ negerr' = FALSE
     \/ ServerAt(s, "loadfailed", "top") /\ negerr' = TRUE
  /\ command' = Done
  /\ holder' = NoPid
  /\ sleeping' = {}
  /\ seen' = [seen EXCEPT ![s] = Idle]
  /\ UNCHANGED <<svrpid, cmdpid, drive, asked, alive, clientvars, devlock,
                 loaded>>

FinishLoad(s) ==
  /\ Free
  /\ \/ ServerAt(s, "loadok", "top") /\ negerr' = FALSE /\ UNCHANGED drive
     \/ /\ ServerAt(s, "loadfailed", "top")
        /\ negerr' = TRUE
        /\ drive' = [drive EXCEPT ![seen[s].drive].file = NoFile]
  /\ command' = Done
  /\ holder' = NoPid
  /\ sleeping' = {}
  /\ seen' = [seen EXCEPT ![s] = Idle]
  /\ UNCHANGED <<svrpid, cmdpid, asked, alive, clientvars, devlock, loaded>>

UnloadFile(s) ==
  LET d == command.drive IN
  /\ Free
  /\ command.op = "UNLD"
  /\ ServerAt(s, "top", "top")
  /\ drive' = [drive EXCEPT ![d].file = NoFile, ![d].fnseq = NextSeq(@)]
  /\ loaded' = [loaded EXCEPT ![s][d] = Nothing]
  /\ command' = Done
  /\ holder' = NoPid
  /\ sleeping' = {}
  /\ UNCHANGED <<svrpid, cmdpid, negerr, asked, alive, clientvars, devlock, seen>>

\* nothing to do: unlock and wait for the word to change
NothingToDo(s) ==
  /\ Free
  /\ command \in {Idle, Done}
  /\ ServerAt(s, "top", "wait")
  /\ seen' = [seen EXCEPT ![s] = command]
  /\ holder' = NoPid
  /\ UNCHANGED <<pagevars, alive, sleeping, clientvars, devlock, loaded>>

SvrSleep(s) ==
  /\ ServerAt(s, "wait", "asleep")
  /\ sleeping' = IF command = seen[s] THEN sleeping \cup {s} ELSE sleeping
  /\ UNCHANGED <<holder, pagevars, alive, clientvars, devlock, loaded, seen>>

SvrWoken(s) ==
  /\ s \notin sleeping
  /\ ServerAt(s, "asleep", "top")
  /\ seen' = [seen EXCEPT ![s] = Idle]
  /\ UNCHANGED <<holder, pagevars, alive, sleeping, clientvars, devlock,
                 loaded>>

-----------------------------------------------------------------------------
\* A process is killed between any two of its steps.
Die(p) ==
  /\ p \in MayDie \cap alive
  /\ alive' = alive \ {p}
  /\ sleeping' = sleeping \ {p}
  /\ IF p \in Clients
       THEN /\ cpc' = [cpc EXCEPT ![p] = "gone"]
            /\ call' = [call EXCEPT ![p] = NoCall]
            /\ next' = [next EXCEPT ![p] = "idle"]
            /\ oldsvr' = [oldsvr EXCEPT ![p] = NoPid]
            /\ UNCHANGED <<spc, loaded>>
       ELSE /\ spc' = [spc EXCEPT ![p] = "gone"]
            /\ loaded' = [loaded EXCEPT ![p] = [d \in Drives |-> Nothing]]
            /\ UNCHANGED <<cpc, call, next, oldsvr>>
  /\ seen' = [seen EXCEPT ![p] = Idle]
  /\ UNCHANGED <<holder, pagevars, calls, devlock>>

ClientStep(c) ==
  \/ MsLock(c) \/ MsLockFork(c) \/ Fork(c) \/ Forked(c)
  \/ Stat(c) \/ Busy(c) \/ SetReadonly(c)
  \/ PostSender(c) \/ PostLoad(c) \/ PostName(c) \/ PostUnload(c)
  \/ NotDone(c) \/ Finish(c) \/ Sleep(c) \/ Woken(c)
  \/ Relocked(c) \/ Restarted(c)

ServerStep(s) ==
  \/ Daemon(s) \/ LockDevice(s) \/ DeviceTaken(s) \/ Duplicate(s)
  \/ SvrInitialize(s) \/ Setup(s)
  \/ StartLoad(s) \/ LoadFile(s) \/ FinishLoad(s) \/ UnloadFile(s)
  \/ NothingToDo(s) \/ SvrSleep(s) \/ SvrWoken(s)

Next ==
  \/ \E c \in Clients : Begin(c) \/ ClientStep(c) \/ ForkFails(c) \/ TooLong(c)
  \/ \E s \in Servers : StartByHand(s) \/ ServerStep(s)
  \/ \E p \in Pids : Die(p)

Spec == Init /\ [][Next]_vars

\* A process that can run again and again, be it only while the mutex happens
\* to be free, does run: waiters that wake each other may keep the mutex busy,
\* not keep it for ever from one that wants it.  Calls, failures and deaths
\* are up to the users.
FairSpec ==
  /\ Spec
  /\ \A c \in Clients : SF_vars(ClientStep(c))
  /\ \A s \in Servers : SF_vars(ServerStep(s))

-----------------------------------------------------------------------------
(* Properties. *)

\* the client is waiting for the server's answer
Waiting(c) == \/ cpc[c] \in {"done", "donewait", "donesleep", "relocked"}
              \/ cpc[c] \in {"lock", "fork", "forked"} /\ next[c] = "relocked"

\* One command at a time: no two clients wait for an answer at once, so that
\* the single DONE can only mean one of them (mswaitidle before every post).
OneWaiter == /\ TypeOK
             /\ \A b, c \in Clients : Waiting(b) /\ Waiting(c) => b = c

\* Between commands the page tells the truth about a running server: every
\* drive shows the file the server has open.  So does the write protection,
\* unless a client died in shmms_load, which sets it before it asks.
ShownIsLoaded ==
  command = Idle /\ Free /\ svrpid \in alive
  /\ spc[svrpid] \in {"top", "wait", "asleep"} =>
    \A d \in Drives :
      /\ drive[d].file = loaded[svrpid][d].file
      /\ drive[d].file # NoFile /\ Clients \subseteq alive =>
           drive[d].readonly = loaded[svrpid][d].readonly

\* A client that takes an answer takes its own.  If it is success, the server
\* that runs now has the file open, or after an unload the drive empty, also
\* when a server died in between; only the late daemon of a client that died
\* can spoil that (see WorkerIsRegistered).
SuccessIsReal ==
  \A c \in Clients :
    cpc[c] = "done" /\ command = Done /\ holder = c =>
      /\ asked = c
      /\ Clients \subseteq alive /\ svrpid \in alive
         /\ spc[svrpid] \in {"top", "wait", "asleep"} =>
           /\ call[c].op = "load" /\ ~negerr =>
                loaded[svrpid][call[c].drive].file = call[c].file
           /\ call[c].op = "unload" =>
                loaded[svrpid][call[c].drive].file = NoFile

\* The server doing the work is the one registered in the page, so that
\* clients find it and a second one sees that it is a duplicate: "put our pid
\* in there in case we die when something is waiting for us to do something,
\* exit if there is another one of us already running" (shmms.cc).  Only the
\* daemon of a client that died while it started it may come late and
\* overwrite the pid of a server at work.
WorkerIsRegistered ==
  Clients \subseteq alive =>
    \A s \in Servers : spc[s] \in {"top", "wait", "asleep", "load", "loadok",
                                   "loadfailed"} => svrpid = s

\* The answer to a command is left for the client that sent it, as long as it
\* lives: only for "a process that is gone" (shmms.cc) does another client
\* mark the page idle.
DoneKeptForSender ==
  [][command = Done /\ command' # Done =>
       asked \notin alive \/ ~Waiting(asked) \/ cpc'[asked] = "out"]_vars

\* An answer has somebody to take it, or somebody who is gone for the others
\* to notice; otherwise the page is jammed in DONE for ever.
DoneHasTaker ==
  command = Done => Gone(cmdpid) \/ \E c \in Clients : Waiting(c)

\* fnseq is "incremented each change in filename" (shmms.h), which is how the
\* GUI notices that it must fetch the name again.
FnseqTracksName ==
  [][\A d \in Drives : drive'[d].file # drive[d].file =>
       drive'[d].fnseq # drive[d].fnseq]_vars

\* When nothing dies every call returns.
CallsReturn == \A c \in Clients : cpc[c] # "out" ~> cpc[c] = "out"

\* A client that waits for an idle page is not held up for ever by an answer
\* to a client that is gone: "if stuck in DONE state back to a process that is
\* gone, mark it idle" (shmms.cc).
DoneOfDeadIsCleared ==
  \A c \in Clients :
    (command = Done /\ Gone(cmdpid) /\ cpc[c] = "idlesleep")
      ~> (command # Done \/ cpc[c] # "idlesleep")

=============================================================================
