----------------------------- MODULE ShmMSProofs -----------------------------
(***************************************************************************)
(* The shared page, for any number of clients, servers, drives, files and  *)
(* calls, whoever dies when.  What the page says of a server's files and   *)
(* which server is at work hold always.  Whose answer is whose holds as    *)
(* long as the sender of a command can be known: an unload does not put    *)
(* its sender's pid in the page, so that the pid of a client that died     *)
(* earlier may stand there instead.                                        *)
(***************************************************************************)
EXTENDS ShmMS, TLAPS

ClientPCs == {"out", "gone", "lock", "fork", "forked", "stat", "idle", "idlewait",
              "idlesleep", "posting", "naming", "done", "donewait", "donesleep",
              "relocked"}
ServerPCs == {"none", "gone", "daemon", "main", "init", "setup", "top", "wait", "asleep",
              "load", "loadok", "loadfailed"}
\* a client that has the mutex
Inside  == {"fork", "forked", "stat", "idle", "posting", "naming", "done", "relocked"}
Resting == {"setup", "top", "wait", "asleep"}
Loading == {"load", "loadok", "loadfailed"}
Working == Resting \cup Loading

Types ==
  /\ TypeOK
  /\ cpc \in [Clients -> ClientPCs] /\ spc \in [Servers -> ServerPCs]
  /\ call \in [Clients -> Calls \cup {NoCall}]
  /\ next \in [Clients -> {"idle", "stat", "relocked"}]
  /\ seen \in [Pids -> Commands]
  /\ oldsvr \in [Clients -> Servers \cup {NoPid}]

\* Who is alive, who has the mutex, who has the controller.
Locks ==
  /\ \A c \in Clients : /\ c \in alive <=> cpc[c] # "gone"
                        /\ cpc[c] \in Inside => holder = c
  /\ \A s \in Servers : /\ s \in alive <=> spc[s] \notin {"none", "gone"}
                        /\ spc[s] = "setup" => holder = s
                        /\ spc[s] \in Working \cup {"init"} => devlock = s

\* A client half way through its stores.
Posting ==
  \A c \in Clients :
    /\ cpc[c] = "posting" => command = Idle
    /\ cpc[c] = "naming" => command = Cmd("LOAD", call[c].drive) /\ asked = c
    /\ cpc[c] \in {"posting", "naming"} => call[c].op \in {"load", "keep"}

\* The page shows what the server has open, but for the drive a load is about.
Shows(s, d) == drive[d].file = loaded[s][d].file

Files0 == [d \in Drives |-> Nothing]

Serves(s) ==
  /\ spc[s] \in Resting => \A d \in Drives : command # Cmd("LOAD", d) => Shows(s, d)
  /\ spc[s] \in Loading =>
       /\ command = seen[s] /\ command.op = "LOAD"
       /\ \A c \in Clients : cpc[c] \notin {"posting", "naming"}
       /\ \A d \in Drives : d # command.drive => Shows(s, d)
  /\ spc[s] = "loadok" => LET d == seen[s].drive
                          IN  /\ Shows(s, d)
                              /\ drive[d].readonly = loaded[s][d].readonly
  /\ spc[s] = "loadfailed" => loaded[s][seen[s].drive] = Nothing
  /\ spc[s] \notin Working => loaded[s] = Files0

Serving == \A s \in Servers : Serves(s)

\* As long as no client has died: a daemon that has not published its pid yet
\* is awaited by the client that forked it, with the mutex held.
Registered ==
  Clients \subseteq alive =>
    /\ \A s \in Servers :
         /\ spc[s] \in Working => svrpid = s
         /\ spc[s] = "daemon" => /\ svrpid = NoPid /\ \E c \in Clients : cpc[c] = "forked"
                                 /\ \A t \in Servers : spc[t] = "daemon" => t = s
    /\ \A c \in Clients : cpc[c] = "fork" => svrpid = NoPid

\* The sender of a command that waits for its answer can be told.
SendersKnown == Clients \subseteq alive \/ "unload" \notin Ops

\* Somebody waits: the page is not idle, nor taken for idle.
Answers ==
  SendersKnown =>
    /\ \A b, c \in Clients : Waiting(b) /\ Waiting(c) => b = c
    /\ \A c \in Clients :
         /\ Waiting(c) => /\ command # Idle /\ asked = c
                          /\ "unload" \notin Ops => cmdpid = c
         /\ cpc[c] \in {"posting", "naming"} => /\ cmdpid = c
                                                /\ \A b \in Clients : ~Waiting(b)

\* Nobody is about to change the write protection of the file in the drive.
Settled(s, d) ==
  /\ spc[s] \in Working
  /\ IF spc[s] \in Resting THEN command # Cmd("LOAD", d) ELSE d # command.drive
  /\ drive[d].file # NoFile
  /\ \A c \in Clients : cpc[c] = "posting" => call[c].drive # d

Protected ==
  Clients \subseteq alive =>
    \A s \in Servers, d \in Drives :
      Settled(s, d) => drive[d].readonly = loaded[s][d].readonly

\* What a client that waits finds.
Finds(c) ==
  /\ Waiting(c) =>
       /\ call[c].op \in {"load", "keep", "unload"} /\ call[c].drive \in Drives
       /\ oldsvr[c] \in alive => svrpid = oldsvr[c]
       /\ command = Done \/ command = Cmd(IF call[c].op = "unload" THEN "UNLD" ELSE "LOAD",
                                          call[c].drive)
       /\ command = Done /\ oldsvr[c] \in alive => spc[oldsvr[c]] \in Working
       /\ call[c].op = "unload" /\ command = Done => drive[call[c].drive].file = NoFile
       /\ call[c].op = "load" /\ (command = Done => oldsvr[c] \in alive /\ ~negerr) =>
            drive[call[c].drive].file = call[c].file
  /\ cpc[c] = "done" => svrpid = oldsvr[c]

Results == Clients \subseteq alive => \A c \in Clients : Finds(c)

\* Whoever is or was known as the server has been started.
Started ==
  \A s \in Servers : spc[s] = "none" => svrpid # s /\ \A c \in Clients : oldsvr[c] # s

MsInv == /\ Types /\ Locks /\ Posting /\ Serving /\ Registered
         /\ Answers /\ Protected /\ Started /\ Results

-----------------------------------------------------------------------------
(* Commands and calls. *)

\* Commands are told apart by what they ask and of which drive.
LEMMA CommandFacts ==
  /\ Idle \in Commands /\ Done \in Commands /\ Idle # Done
  /\ Idle.op = "IDLE" /\ Done.op = "DONE"
  /\ \A d \in Drives, op \in {"LOAD", "UNLD"} :
       /\ Cmd(op, d) \in Commands /\ Cmd(op, d).op = op /\ Cmd(op, d).drive = d
       /\ Cmd(op, d) # Idle /\ Cmd(op, d) # Done
  /\ \A c \in Commands :
       /\ c \in {Idle, Done} \/ c.op \in {"LOAD", "UNLD"}
       /\ c.op \in {"LOAD", "UNLD"} => c.drive \in Drives /\ c = Cmd(c.op, c.drive)
<1>1. Idle.op = "IDLE" /\ Done.op = "DONE" /\ Idle # Done
  BY DEF Idle, Done
<1>2. \A d, op : Cmd(op, d).op = op /\ Cmd(op, d).drive = d
  BY DEF Cmd
<1>3. \A d \in Drives, op \in {"LOAD", "UNLD"} :
        Cmd(op, d) \in Commands /\ Cmd(op, d) # Idle /\ Cmd(op, d) # Done
  BY <1>1, <1>2 DEF Commands
<1>4. ASSUME NEW c \in Commands
      PROVE  /\ c \in {Idle, Done} \/ c.op \in {"LOAD", "UNLD"}
             /\ c.op \in {"LOAD", "UNLD"} => c.drive \in Drives /\ c = Cmd(c.op, c.drive)
  <2>1. c \in {Idle, Done} \/ \E op \in {"LOAD", "UNLD"}, d \in Drives : c = Cmd(op, d)
    BY DEF Commands
  <2> QED
    BY <1>1, <1>2, <2>1
<1> QED
  BY <1>1, <1>2, <1>3, <1>4 DEF Commands

\* The arguments of a call.
LEMMA CallFacts ==
  ASSUME NEW r \in Calls \cup {NoCall}
  PROVE  /\ r.op \in {"load", "keep", "unload"} =>
              r.drive \in Drives /\ r.readonly \in BOOLEAN
         /\ r.op = "load" => r.file \in Files
         /\ r.op = "unload" => r.readonly = FALSE
         /\ r.op \in Ops \cup {"none"}
<1>1. CASE r = NoCall
  BY <1>1 DEF NoCall
<1>2. CASE r \in Calls
  <2>1. /\ \/ r \in [op : {"load"}, drive : Drives, file : Files, readonly : BOOLEAN]
           \/ r \in [op : {"keep"}, drive : Drives, readonly : BOOLEAN]
           \/ r \in [op : {"unload"}, drive : Drives, readonly : {FALSE}]
           \/ r \in [op : {"stat"}]
        /\ r.op \in Ops
    BY <1>2 DEF Calls
  <2> QED
    BY <2>1
<1> QED
  BY <1>1, <1>2

\* What the assignments to a drive's entry change.
LEMMA ReadonlySet ==
  ASSUME NEW v \in [Drives -> Entry], NEW d \in Drives, NEW r \in BOOLEAN,
         NEW w, w = [v EXCEPT ![d].readonly = r]
  PROVE  /\ w \in [Drives -> Entry]
         /\ \A e \in Drives : /\ w[e].file = v[e].file
                              /\ e # d => w[e].readonly = v[e].readonly
<1>1. v[d] \in Entry /\ [v[d] EXCEPT !.readonly = r] \in Entry
  BY DEF Entry
<1>2. \A e \in Drives : /\ w[e] \in Entry /\ w[e].file = v[e].file
                        /\ e # d => w[e].readonly = v[e].readonly
  BY <1>1 DEF Entry
<1> QED
  BY <1>1, <1>2

\* The same for the name of the file, with or without its sequence number.
LEMMA FileSet ==
  ASSUME NEW v \in [Drives -> Entry], NEW d \in Drives, NEW f \in Files \cup {NoFile},
         NEW w, \/ w = [v EXCEPT ![d].file = f]
                \/ w = [v EXCEPT ![d].file = f, ![d].fnseq = NextSeq(@)]
  PROVE  /\ w \in [Drives -> Entry]
         /\ \A e \in Drives : /\ w[e].file = IF e = d THEN f ELSE v[e].file
                              /\ w[e].readonly = v[e].readonly
<1>1. v[d] \in Entry /\ NextSeq(v[d].fnseq) \in 0..FnseqMax
  BY FnseqAssumption DEF Entry, NextSeq
<1>2. /\ [v[d] EXCEPT !.file = f] \in Entry
      /\ [v[d] EXCEPT !.file = f, !.fnseq = NextSeq(v[d].fnseq)] \in Entry
  BY <1>1 DEF Entry
<1>3. w \in [Drives -> Entry]
  BY <1>2
<1>4. ASSUME NEW e \in Drives
      PROVE  /\ w[e].file = IF e = d THEN f ELSE v[e].file
             /\ w[e].readonly = v[e].readonly
  <2>1. v[e] \in Entry
    OBVIOUS
  <2> QED
    BY <1>1, <2>1 DEF Entry
<1> QED
  BY <1>3, <1>4

\* Processes that come and go are clients or servers, never both.
LEMMA PidFacts ==
  /\ \A c \in Clients : c \in Pids /\ c # NoPid /\ c \notin Servers
  /\ \A s \in Servers : s \in Pids /\ s # NoPid /\ s \notin Clients
  BY PidsAssumption DEF Pids

\* What each step does to the drives' entries, and the types they keep.
LEMMA ClientDrives ==
  ASSUME Types, Posting, NEW c \in Clients
  PROVE  /\ SetReadonly(c) \/ PostSender(c) =>
              /\ drive' \in [Drives -> Entry] /\ call[c].drive \in Drives
              /\ \A d \in Drives :
                   /\ drive'[d].file = drive[d].file
                   /\ d # call[c].drive => drive'[d].readonly = drive[d].readonly
         /\ PostName(c) =>
              /\ drive' \in [Drives -> Entry] /\ call[c].drive \in Drives
              /\ \A d \in Drives :
                   /\ drive'[d].file = IF call[c].op = "load" /\ d = call[c].drive
                                       THEN call[c].file ELSE drive[d].file
                   /\ drive'[d].readonly = drive[d].readonly
         /\ Finish(c) =>
              /\ drive' \in [Drives -> Entry]
              /\ \A d \in Drives :
                   /\ drive'[d].file = drive[d].file
                   /\ call[c].op # "unload" \/ d # call[c].drive =>
                        drive'[d].readonly = drive[d].readonly
<1>0. /\ call[c].op \in {"load", "keep", "unload"} =>
           call[c].drive \in Drives /\ call[c].readonly \in BOOLEAN
      /\ call[c].op = "load" => call[c].file \in Files \cup {NoFile}
  BY CallFacts DEF Types
<1>t. drive \in [Drives -> Entry]
  BY DEF Types, TypeOK
<1>1. ASSUME SetReadonly(c) \/ PostSender(c) \/ (Finish(c) /\ call[c].op = "unload")
      PROVE  /\ drive' \in [Drives -> Entry] /\ call[c].drive \in Drives
             /\ \A e \in Drives :
                  /\ drive'[e].file = drive[e].file
                  /\ e # call[c].drive => drive'[e].readonly = drive[e].readonly
  <2>1. /\ drive' = [drive EXCEPT ![call[c].drive].readonly = call[c].readonly]
        /\ call[c].op \in {"load", "keep", "unload"}
    BY <1>1 DEF SetReadonly, PostSender, Finish
  <2> QED
    BY <1>0, <1>t, <2>1, ReadonlySet
<1>2. Finish(c) /\ call[c].op # "unload" => drive' = drive
  BY DEF Finish
<1>3. ASSUME PostName(c)
      PROVE  /\ drive' \in [Drives -> Entry] /\ call[c].drive \in Drives
             /\ \A d \in Drives :
                  /\ drive'[d].file = IF call[c].op = "load" /\ d = call[c].drive
                                      THEN call[c].file ELSE drive[d].file
                  /\ drive'[d].readonly = drive[d].readonly
  <2>1. call[c].op \in {"load", "keep"}
    BY <1>3 DEF PostName, ClientAt, Posting
  <2>2. CASE call[c].op = "load"
    <3>1. drive' = [drive EXCEPT ![call[c].drive].file = call[c].file,
                                 ![call[c].drive].fnseq = NextSeq(@)]
      BY <1>3, <2>2 DEF PostName
    <3> QED
      BY <1>0, <1>t, <2>2, <3>1, FileSet
  <2>3. CASE call[c].op = "keep"
    BY <1>0, <1>3, <1>t, <2>3 DEF PostName
  <2> QED
    BY <2>1, <2>2, <2>3
<1> QED
  BY <1>t, <1>1, <1>2, <1>3

\* The same for the steps of a server.
LEMMA ServerDrives ==
  ASSUME Types, Serving, NEW s \in Servers
  PROVE  /\ SvrInitialize(s) =>
              /\ drive' \in [Drives -> Entry]
              /\ \A d \in Drives :
                   /\ drive'[d].file = IF command = Cmd("LOAD", d)
                                       THEN drive[d].file ELSE NoFile
                   /\ drive'[d].readonly = drive[d].readonly
         /\ FinishLoad(s) =>
              /\ drive' \in [Drives -> Entry]
              /\ \A d \in Drives :
                   /\ drive'[d].file = IF spc[s] = "loadfailed" /\ d = command.drive
                                       THEN NoFile ELSE drive[d].file
                   /\ drive'[d].readonly = drive[d].readonly
         /\ UnloadFile(s) =>
              /\ drive' \in [Drives -> Entry]
              /\ \A d \in Drives :
                   /\ drive'[d].file = IF d = command.drive THEN NoFile ELSE drive[d].file
                   /\ drive'[d].readonly = drive[d].readonly
<1>t. drive \in [Drives -> Entry]
  BY DEF Types, TypeOK
<1>1. ASSUME SvrInitialize(s)
      PROVE  /\ drive' \in [Drives -> Entry]
             /\ \A d \in Drives :
                  /\ drive'[d].file = IF command = Cmd("LOAD", d)
                                      THEN drive[d].file ELSE NoFile
                  /\ drive'[d].readonly = drive[d].readonly
  BY <1>1, <1>t DEF SvrInitialize, Entry
<1>2. ASSUME FinishLoad(s)
      PROVE  /\ drive' \in [Drives -> Entry]
             /\ \A d \in Drives :
                  /\ drive'[d].file = IF spc[s] = "loadfailed" /\ d = command.drive
                                      THEN NoFile ELSE drive[d].file
                  /\ drive'[d].readonly = drive[d].readonly
  <2>1. /\ seen[s] = command /\ command.drive \in Drives
        /\ IF spc[s] = "loadfailed"
           THEN drive' = [drive EXCEPT ![command.drive].file = NoFile]
           ELSE drive' = drive
    BY <1>2, CommandFacts DEF FinishLoad, ServerAt, Serving, Serves, Loading, Types, TypeOK
  <2>2. spc[s] = "loadfailed" => drive' \in [Drives -> Entry] /\ \A e \in Drives :
             /\ drive'[e].file = IF e = command.drive THEN NoFile ELSE drive[e].file
             /\ drive'[e].readonly = drive[e].readonly
    BY <1>t, <2>1, FileSet
  <2> QED
    BY <1>t, <2>1, <2>2
<1>3. ASSUME UnloadFile(s)
      PROVE  /\ drive' \in [Drives -> Entry]
             /\ \A d \in Drives :
                  /\ drive'[d].file = IF d = command.drive THEN NoFile ELSE drive[d].file
                  /\ drive'[d].readonly = drive[d].readonly
  <2>1. /\ command.drive \in Drives
        /\ drive' = [drive EXCEPT ![command.drive].file = NoFile,
                                  ![command.drive].fnseq = NextSeq(@)]
    BY <1>3, CommandFacts DEF UnloadFile, Types, TypeOK
  <2> QED
    BY <1>t, <2>1, FileSet
<1> QED
  BY <1>1, <1>2, <1>3

\* A load or an unload changes what its server has in the drive of the command.
LEMMA LoadedChanges ==
  ASSUME Types, Serving, NEW s \in Servers, LoadFile(s) \/ UnloadFile(s)
  PROVE  /\ loaded' \in [Servers -> [Drives -> Medium]] /\ command.drive \in Drives
         /\ \A t \in Servers, d \in Drives :
              t # s \/ d # command.drive => loaded'[t][d] = loaded[t][d]
         /\ loaded'[s][command.drive] =
              IF LoadFile(s) /\ spc'[s] = "loadok"
              THEN [file |-> drive[command.drive].file,
                    readonly |-> drive[command.drive].readonly]
              ELSE Nothing
<1>1. command.drive \in Drives /\ (LoadFile(s) => seen[s] = command)
  BY CommandFacts DEF LoadFile, UnloadFile, ServerAt, Serving, Serves, Loading, Types, TypeOK
<1>2. drive[command.drive] \in Entry
  BY <1>1 DEF Types, TypeOK
<1>3. /\ Nothing \in Medium
      /\ [file |-> drive[command.drive].file,
          readonly |-> drive[command.drive].readonly] \in Medium
  BY <1>2 DEF Entry, Medium, Nothing
<1>4. ~(LoadFile(s) /\ UnloadFile(s)) /\ (LoadFile(s) => spc'[s] \in {"loadok", "loadfailed"})
  BY DEF LoadFile, UnloadFile, ServerAt, Types
<1>5. loaded' = [loaded EXCEPT ![s][command.drive] =
         IF LoadFile(s) /\ spc'[s] = "loadok"
         THEN [file |-> drive[command.drive].file,
               readonly |-> drive[command.drive].readonly]
         ELSE Nothing]
  BY <1>1, <1>4 DEF LoadFile, UnloadFile, ServerAt, Types
<1>6. loaded \in [Servers -> [Drives -> Medium]]
  BY DEF Types, TypeOK
<1> QED
  BY <1>1, <1>3, <1>5, <1>6

-----------------------------------------------------------------------------
(* Types. *)

\* Clients at work keep the types.
LEMMA ClientTypes ==
  ASSUME Types, Posting, NEW c \in Clients,
         Begin(c) \/ ClientStep(c) \/ ForkFails(c) \/ TooLong(c)
  PROVE  Types'
<1> USE DEF Types, TypeOK, pagevars, clientvars, servervars, ClientAt, ReturnAt, MsUnlk
<1>0. /\ call[c].op \in {"load", "keep", "unload"} =>
           call[c].drive \in Drives /\ call[c].readonly \in BOOLEAN
      /\ call[c].op = "load" => call[c].file \in Files
  BY CallFacts
<1>1. cpc' \in [Clients -> ClientPCs]
  <2>1. cpc' = cpc \/ \E pc \in ClientPCs : cpc' = [cpc EXCEPT ![c] = pc]
    <3>1. {"out", "lock", "fork", "forked", "idle", "idlewait", "idlesleep", "posting",
           "naming", "done", "donewait", "donesleep", "relocked", next[c]} \subseteq ClientPCs
      BY DEF ClientPCs
    <3> QED
      BY <3>1 DEF Begin, ClientStep, ForkFails, TooLong, MsLock, MsLockFork, Fork, Forked,
         Stat, Busy, SetReadonly, PostSender, PostLoad, PostName, PostUnload, NotDone,
         Finish, Sleep, Woken, Relocked, Restarted
  <2> QED
    BY <2>1
<1>2. CASE Begin(c)
  BY <1>1, <1>2 DEF Begin
<1>3. CASE MsLock(c) \/ MsLockFork(c)
  BY <1>1, <1>3 DEF MsLock, MsLockFork
<1>4. CASE Fork(c)
  <2>1. PICK s \in Servers : /\ spc' = [spc EXCEPT ![s] = "daemon"]
                             /\ alive' = alive \cup {s}
    BY <1>4 DEF Fork
  <2>2. alive' \subseteq Pids
    BY <2>1, PidFacts
  <2>3. spc' \in [Servers -> ServerPCs]
    BY <2>1 DEF ServerPCs
  <2> QED
    BY <1>1, <1>4, <2>2, <2>3 DEF Fork
<1>5. CASE ForkFails(c) \/ Forked(c) \/ Stat(c) \/ TooLong(c) \/ Restarted(c)
  BY <1>1, <1>5 DEF ForkFails, Forked, Stat, TooLong, Restarted
<1>6. CASE Busy(c) \/ NotDone(c) \/ Relocked(c)
  BY <1>1, <1>6 DEF Busy, NotDone, Relocked
<1>7. CASE SetReadonly(c) \/ PostSender(c) \/ Finish(c)
  <2>1. drive' \in [Drives -> Entry]
    BY <1>7, ClientDrives
  <2>2. command' \in Commands
    BY <1>7, CommandFacts DEF SetReadonly, PostSender, Finish
  <2> QED
    BY <1>1, <1>7, <2>1, <2>2 DEF SetReadonly, PostSender, Finish
<1>8. CASE PostLoad(c) \/ PostUnload(c)
  <2>1. command' \in Commands
    BY <1>0, <1>8, CommandFacts DEF PostLoad, PostUnload, Posting
  <2> QED
    BY <1>1, <1>8, <2>1 DEF PostLoad, PostUnload
<1>9. CASE PostName(c)
  <2>1. drive' \in [Drives -> Entry]
    BY <1>9, ClientDrives
  <2> QED
    BY <1>1, <1>9, <2>1 DEF PostName
<1>10. CASE Sleep(c) \/ Woken(c)
  <2>1. sleeping' \subseteq Pids /\ seen' \in [Pids -> Commands]
    BY <1>10, PidFacts, CommandFacts DEF Sleep, Woken
  <2> QED
    BY <1>1, <1>10, <2>1 DEF Sleep, Woken
<1> QED
  BY <1>2, <1>3, <1>4, <1>5, <1>6, <1>7, <1>8, <1>9, <1>10 DEF ClientStep

\* Servers at work keep the types.
LEMMA ServerTypes ==
  ASSUME Types, Serving, NEW s \in Servers, StartByHand(s) \/ ServerStep(s)
  PROVE  Types'
<1> USE DEF Types, TypeOK, pagevars, clientvars, servervars, ServerAt
<1>1. spc' \in [Servers -> ServerPCs]
  <2>1. \E pc \in ServerPCs : spc' = [spc EXCEPT ![s] = pc]
    BY DEF StartByHand, ServerStep, Daemon, LockDevice, DeviceTaken, Duplicate, Exit,
           SvrInitialize, Setup, StartLoad, LoadFile, FinishLoad, UnloadFile, NothingToDo,
           SvrSleep, SvrWoken, ServerPCs
  <2> QED
    BY <2>1
<1>2. Files0 \in [Drives -> Medium]
  BY DEF Files0, Nothing, Medium
<1>3. CASE StartByHand(s) \/ Daemon(s) \/ LockDevice(s) \/ Setup(s)
  <2>1. alive' \subseteq Pids /\ svrpid' \in Servers \cup {NoPid}
        /\ devlock' \in Servers \cup {NoPid} /\ holder' \in Pids \cup {NoPid}
    BY <1>3, PidFacts DEF StartByHand, Daemon, LockDevice, Setup
  <2> QED
    BY <1>1, <1>3, <2>1 DEF StartByHand, Daemon, LockDevice, Setup
<1>4. CASE DeviceTaken(s) \/ Duplicate(s)
  <2>1. /\ alive' \subseteq Pids /\ holder' \in Pids \cup {NoPid}
        /\ loaded' \in [Servers -> [Drives -> Medium]]
    BY <1>2, <1>4 DEF DeviceTaken, Duplicate, Exit, Files0
  <2> QED
    BY <1>1, <1>4, <2>1 DEF DeviceTaken, Duplicate, Exit
<1>5. CASE SvrInitialize(s)
  <2>1. drive' \in [Drives -> Entry]
    BY <1>5, ServerDrives
  <2> QED
    BY <1>1, <1>5, <2>1, PidFacts DEF SvrInitialize
<1>6. CASE StartLoad(s) \/ NothingToDo(s) \/ SvrSleep(s) \/ SvrWoken(s)
  <2>0. s \in Pids /\ Idle \in Commands
    BY PidFacts, CommandFacts
  <2>1. /\ seen' \in [Pids -> Commands] /\ sleeping' \subseteq Pids
        /\ holder' \in Pids \cup {NoPid}
    BY <1>6, <2>0 DEF StartLoad, NothingToDo, SvrSleep, SvrWoken
  <2> QED
    BY <1>1, <1>6, <2>1 DEF StartLoad, NothingToDo, SvrSleep, SvrWoken
<1>7. CASE LoadFile(s)
  <2>1. loaded' \in [Servers -> [Drives -> Medium]]
    BY <1>7, LoadedChanges
  <2> QED
    BY <1>1, <1>7, <2>1 DEF LoadFile
<1>8. CASE FinishLoad(s)
  <2>1. drive' \in [Drives -> Entry]
    BY <1>8, ServerDrives
  <2>2. seen' \in [Pids -> Commands] /\ command' \in Commands /\ negerr' \in BOOLEAN
    BY <1>8, PidFacts, CommandFacts DEF FinishLoad
  <2> QED
    BY <1>1, <1>8, <2>1, <2>2 DEF FinishLoad
<1>9. CASE UnloadFile(s)
  <2>1. drive' \in [Drives -> Entry]
    BY <1>9, ServerDrives
  <2>2. loaded' \in [Servers -> [Drives -> Medium]]
    BY <1>9, LoadedChanges
  <2> QED
    BY <1>1, <1>9, <2>1, <2>2, CommandFacts DEF UnloadFile
<1> QED
  BY <1>3, <1>4, <1>5, <1>6, <1>7, <1>8, <1>9 DEF ServerStep

\* So do the dying.
LEMMA DeathTypes ==
  ASSUME Types, NEW p \in Pids, Die(p)
  PROVE  Types'
<1> USE DEF Types, TypeOK, pagevars
<1>1. /\ cpc' \in [Clients -> ClientPCs] /\ call' \in [Clients -> Calls \cup {NoCall}]
      /\ next' \in [Clients -> {"idle", "stat", "relocked"}]
      /\ oldsvr' \in [Clients -> Servers \cup {NoPid}]
  BY DEF Die, ClientPCs
<1>2. spc' \in [Servers -> ServerPCs]
  BY DEF Die, ServerPCs
<1>0. Nothing \in Medium
  BY DEF Nothing, Medium
<1>3. loaded' \in [Servers -> [Drives -> Medium]]
  BY <1>0 DEF Die
<1>4. /\ UNCHANGED <<holder, svrpid, cmdpid, command, negerr, drive, asked, devlock>>
      /\ alive' \subseteq Pids /\ sleeping' \subseteq Pids
      /\ seen' \in [Pids -> Commands]
  BY CommandFacts DEF Die
<1> QED
  BY <1>1, <1>2, <1>3, <1>4

\* Every step keeps the types.
LEMMA TypesPreserved == Types /\ Posting /\ Serving /\ [Next]_vars => Types'
<1>1. Types /\ UNCHANGED vars => Types'
  BY DEF Types, TypeOK, vars, pagevars, clientvars, servervars
<1> QED
  BY <1>1, ClientTypes, ServerTypes, DeathTypes DEF Next

-----------------------------------------------------------------------------
(* Locks. *)

\* With the mutex free no client is inside and no server sets up; a client
\* that is inside is alone.
LEMMA Alone ==
  ASSUME Types, Locks
  PROVE  /\ Free => /\ \A c \in Clients : cpc[c] \notin Inside
                    /\ \A s \in Servers : spc[s] # "setup"
         /\ \A c \in Clients : cpc[c] \in Inside =>
              /\ \A b \in Clients : cpc[b] \in Inside => b = c
              /\ \A s \in Servers : spc[s] # "setup"
              /\ ~Free
<1>1. \A c \in Clients : cpc[c] \in Inside => holder = c /\ c \in alive
  BY DEF Locks, Inside
<1>2. \A s \in Servers : spc[s] = "setup" => holder = s /\ s \in alive
  BY DEF Locks
<1> QED
  BY <1>1, <1>2, PidFacts DEF Free, Gone

\* A server at work is alive and is the only one.
LEMMA OneWorker ==
  ASSUME Types, Locks, NEW s \in Servers, spc[s] \in Working \cup {"init"}
  PROVE  /\ s \in alive /\ devlock = s
         /\ \A t \in Servers : spc[t] \in Working \cup {"init"} => t = s
  BY DEF Locks, Working, Resting, Loading

\* fork adds one process.
LEMMA ForkAdds ==
  ASSUME Types, NEW c \in Clients, Fork(c)
  PROVE  \E s \in Servers :
           /\ spc[s] = "none" /\ spc'[s] = "daemon" /\ alive' = alive \cup {s}
           /\ \A t \in Servers : t # s => spc'[t] = spc[t]
<1>1. PICK s \in Servers : /\ spc[s] = "none" /\ spc' = [spc EXCEPT ![s] = "daemon"]
                           /\ alive' = alive \cup {s}
  BY DEF Fork
<1> QED
  BY <1>1 DEF Types

\* A client's step moves that client only.
LEMMA ClientMoves ==
  ASSUME Types, Locks, NEW c \in Clients,
         Begin(c) \/ ClientStep(c) \/ ForkFails(c) \/ TooLong(c)
  PROVE  /\ c \in alive /\ cpc[c] # "gone" /\ cpc'[c] # "gone"
         /\ \A b \in Clients : b # c => /\ cpc'[b] = cpc[b] /\ call'[b] = call[b]
                                        /\ next'[b] = next[b] /\ oldsvr'[b] = oldsvr[b]
         /\ \A b \in Clients : b \in alive' <=> b \in alive
         /\ \/ holder' = holder /\ (cpc'[c] \in Inside => cpc[c] \in Inside)
            \/ Free /\ holder' = c
            \/ holder = c /\ holder' = NoPid /\ cpc'[c] \notin Inside
         /\ devlock' = devlock /\ loaded' = loaded
         /\ Fork(c) \/ UNCHANGED <<spc, alive>>
<1> USE DEF Types, pagevars, servervars, ClientAt, ReturnAt, MsUnlk
<1>1. c \in alive /\ (cpc[c] \in Inside => holder = c) /\ cpc[c] # "gone"
  BY DEF Locks, Begin, ClientStep, ForkFails, TooLong, MsLock, MsLockFork, Fork, Forked,
         Stat, Busy, SetReadonly, PostSender, PostLoad, PostName, PostUnload, NotDone,
         Finish, Sleep, Woken, Relocked, Restarted
<1>2. next[c] \in {"idle", "stat", "relocked"} /\ cpc[c] \in ClientPCs
  OBVIOUS
<1>3. CASE Begin(c) \/ MsLock(c) \/ MsLockFork(c) \/ Sleep(c) \/ Woken(c)
  BY <1>1, <1>2, <1>3 DEF Begin, MsLock, MsLockFork, Sleep, Woken, Inside
<1>4. CASE Fork(c)
  <2>1. \A b \in Clients : b \in alive' <=> b \in alive
    BY <1>4, ForkAdds, PidFacts
  <2> QED
    BY <1>1, <1>4, <2>1 DEF Fork, Inside
<1>5. CASE ForkFails(c) \/ TooLong(c) \/ Forked(c) \/ Stat(c) \/ Busy(c) \/ NotDone(c)
           \/ Restarted(c)
  BY <1>1, <1>5 DEF ForkFails, TooLong, Forked, Stat, Busy, NotDone, Restarted, Inside
<1>6. CASE SetReadonly(c) \/ Finish(c)
  BY <1>1, <1>6 DEF SetReadonly, Finish, Inside
<1>7. CASE PostSender(c) \/ PostLoad(c) \/ PostName(c) \/ PostUnload(c) \/ Relocked(c)
  BY <1>1, <1>7 DEF PostSender, PostLoad, PostName, PostUnload, Relocked, Inside
<1> QED
  BY <1>3, <1>4, <1>5, <1>6, <1>7 DEF ClientStep

\* A server's step moves that server only.
LEMMA ServerMoves ==
  ASSUME Types, Locks, NEW s \in Servers, StartByHand(s) \/ ServerStep(s)
  PROVE  /\ UNCHANGED clientvars
         /\ \A t \in Servers : t # s =>
              spc'[t] = spc[t] /\ (t \in alive' <=> t \in alive)
                /\ seen'[t] = seen[t]
         /\ Clients \cap alive' = Clients \cap alive
         /\ spc'[s] # "none" /\ (s \in alive' <=> spc'[s] # "gone")
         /\ spc[s] = "none" \/ s \in alive
         /\ spc[s] \in Working => spc'[s] \in Working
         /\ spc'[s] \in Working \cup {"init"} => devlock' = s
         /\ \/ devlock' = devlock
            \/ devlock \notin alive /\ spc[s] = "main"
         /\ \/ holder' = holder /\ spc'[s] # "setup"
            \/ Free /\ (spc'[s] = "setup" => holder' = s)
            \/ holder = s /\ spc'[s] # "setup"
<1> USE DEF Types, pagevars, clientvars, servervars, ServerAt
<1>1. /\ s \in Pids /\ s \notin Clients
      /\ spc[s] \in Working \cup {"init"} => devlock = s
      /\ s \in alive <=> spc[s] \notin {"none", "gone"}
      /\ spc[s] = "setup" => holder = s
  BY PidFacts DEF Locks
<1>2. /\ spc \in [Servers -> ServerPCs] /\ seen \in [Pids -> Commands]
      /\ \A t \in Servers : t \in Pids
  BY PidFacts
<1>3. CASE StartByHand(s) \/ Daemon(s) \/ LockDevice(s) \/ Setup(s)
  BY <1>1, <1>2, <1>3 DEF StartByHand, Daemon, LockDevice, Setup, Working, Resting, Loading
<1>4. CASE DeviceTaken(s) \/ Duplicate(s)
  BY <1>1, <1>2, <1>4 DEF DeviceTaken, Duplicate, Exit, Working, Resting, Loading
<1>5. CASE SvrInitialize(s) \/ StartLoad(s) \/ LoadFile(s)
  BY <1>1, <1>2, <1>5 DEF SvrInitialize, StartLoad, LoadFile, Working, Resting, Loading
<1>6. CASE FinishLoad(s) \/ UnloadFile(s)
  BY <1>1, <1>2, <1>6 DEF FinishLoad, UnloadFile, Working, Resting, Loading
<1>7. CASE NothingToDo(s) \/ SvrSleep(s) \/ SvrWoken(s)
  BY <1>1, <1>2, <1>7 DEF NothingToDo, SvrSleep, SvrWoken, Working, Resting, Loading
<1> QED
  BY <1>3, <1>4, <1>5, <1>6, <1>7 DEF ServerStep

\* A death leaves the page, the mutex and the other processes alone.
LEMMA DeathMoves ==
  ASSUME Types, NEW p \in Pids, Die(p)
  PROVE  /\ UNCHANGED <<holder, svrpid, cmdpid, command, negerr, drive, asked, devlock>>
         /\ alive' = alive \ {p} /\ p \in MayDie
         /\ \A c \in Clients :
              IF c = p THEN cpc'[c] = "gone" /\ oldsvr'[c] = NoPid
              ELSE /\ cpc'[c] = cpc[c] /\ call'[c] = call[c]
                   /\ next'[c] = next[c] /\ oldsvr'[c] = oldsvr[c]
         /\ \A s \in Servers :
              IF s = p THEN spc'[s] = "gone" /\ loaded'[s] = Files0
              ELSE spc'[s] = spc[s] /\ loaded'[s] = loaded[s] /\ seen'[s] = seen[s]
<1> USE DEF Types, TypeOK, pagevars
<1>1. CASE p \in Clients
  <2>1. p \notin Servers
    BY <1>1, PidFacts
  <2> QED
    BY <1>1, <2>1, PidFacts DEF Die
<1>2. CASE p \in Servers
  <2>1. p \notin Clients
    BY <1>2, PidFacts
  <2> QED
    BY <1>2, <2>1, PidFacts DEF Die, Files0
<1> QED
  BY <1>1, <1>2 DEF Pids

\* The mutex and the controller have one holder each, and pcs tell who lives.
LEMMA LocksPreserved == Types /\ Locks /\ [Next]_vars => Locks'
<1> SUFFICES ASSUME Types, Locks, [Next]_vars PROVE Locks'
  OBVIOUS
<1>1. ASSUME NEW c \in Clients, Begin(c) \/ ClientStep(c) \/ ForkFails(c) \/ TooLong(c)
      PROVE  Locks'
  <2>1. ASSUME NEW b \in Clients
        PROVE  /\ b \in alive' <=> cpc'[b] # "gone"
               /\ cpc'[b] \in Inside => holder' = b
    BY <1>1, <2>1, ClientMoves, Alone DEF Locks
  <2>2. ASSUME NEW s \in Servers
        PROVE  /\ s \in alive' <=> spc'[s] \notin {"none", "gone"}
               /\ spc'[s] = "setup" => holder' = s
               /\ spc'[s] \in Working \cup {"init"} => devlock' = s
    <3>1. \/ spc'[s] = spc[s] /\ (s \in alive' <=> s \in alive)
          \/ spc'[s] = "daemon" /\ s \in alive'
      BY <1>1, ClientMoves, ForkAdds
    <3>2. spc[s] = "setup" => holder' = s
      BY <1>1, ClientMoves, Alone, PidFacts DEF Locks
    <3> QED
      BY <1>1, <3>1, <3>2, ClientMoves DEF Locks, Working, Resting, Loading
  <2> QED
    BY <2>1, <2>2 DEF Locks
<1>2. ASSUME NEW s \in Servers, StartByHand(s) \/ ServerStep(s)
      PROVE  Locks'
  <2>1. ASSUME NEW c \in Clients
        PROVE  /\ c \in alive' <=> cpc'[c] # "gone"
               /\ cpc'[c] \in Inside => holder' = c
    BY <1>2, ServerMoves, Alone, PidFacts DEF Locks, clientvars
  <2>2. ASSUME NEW t \in Servers
        PROVE  /\ t \in alive' <=> spc'[t] \notin {"none", "gone"}
               /\ spc'[t] = "setup" => holder' = t
               /\ spc'[t] \in Working \cup {"init"} => devlock' = t
    <3>1. CASE t = s
      BY <1>2, <3>1, ServerMoves DEF Locks
    <3>2. CASE t # s
      BY <1>2, <3>2, ServerMoves, Alone, OneWorker DEF Locks
    <3> QED
      BY <3>1, <3>2
  <2> QED
    BY <2>1, <2>2 DEF Locks
<1>3. ASSUME NEW p \in Pids, Die(p)
      PROVE  Locks'
  BY <1>3, DeathMoves DEF Locks, Inside, Working, Resting, Loading
<1>4. CASE UNCHANGED vars
  BY <1>4 DEF Locks, vars, clientvars, servervars
<1> QED
  BY <1>1, <1>2, <1>3, <1>4 DEF Next

-----------------------------------------------------------------------------
(* The command word and the answers. *)

\* Which steps write the command word, and what they find there.
LEMMA ClientCommands ==
  ASSUME Types, Locks, Posting, NEW c \in Clients,
         Begin(c) \/ ClientStep(c) \/ ForkFails(c) \/ TooLong(c)
  PROVE  \/ /\ UNCHANGED <<command, asked>> /\ cpc'[c] \notin {"posting", "naming"}
            /\ cpc[c] # "posting" /\ (Waiting(c)' => Waiting(c) \/ PostName(c))
         \/ /\ SetReadonly(c) \/ PostSender(c) \/ PostUnload(c)
            /\ IsIdle(c) /\ cpc[c] = "idle" /\ asked' \in {asked, c}
         \/ PostLoad(c) /\ cpc[c] = "posting" /\ command = Idle /\ asked' = c
         \/ Finish(c) /\ cpc[c] = "done" /\ command = Done /\ ~Waiting(c)' /\ asked' = asked
<1> USE DEF Types, pagevars, servervars, ClientAt, ReturnAt, MsUnlk
<1>1. CASE SetReadonly(c) \/ PostSender(c) \/ PostUnload(c) \/ PostLoad(c) \/ Finish(c)
  BY <1>1 DEF SetReadonly, PostSender, PostUnload, PostLoad, Finish, Posting, Waiting
<1>2. CASE Begin(c) \/ MsLock(c) \/ MsLockFork(c) \/ Fork(c) \/ ForkFails(c) \/ Forked(c)
           \/ Stat(c) \/ TooLong(c)
  <2>1. UNCHANGED <<command, asked>>
    BY <1>2 DEF Begin, MsLock, MsLockFork, Fork, ForkFails, Forked, Stat, TooLong
  <2>2. cpc'[c] \notin {"posting", "naming"} /\ cpc[c] # "posting"
    BY <1>2 DEF Begin, MsLock, MsLockFork, Fork, ForkFails, Forked, Stat, TooLong
  <2>3. ASSUME Begin(c)
        PROVE  ~Waiting(c)'
    <3>1. \E r \in Calls : next' = [next EXCEPT ![c] = IF r.op = "stat" THEN "stat" ELSE "idle"]
      BY <2>3 DEF Begin
    <3>2. next'[c] # "relocked" /\ cpc'[c] = "lock"
      BY <2>3, <3>1 DEF Begin
    <3> QED
      BY <3>2 DEF Waiting
  <2>4. Waiting(c)' => Waiting(c)
    BY <1>2, <2>3 DEF MsLock, MsLockFork, Fork, ForkFails, Forked, Stat, TooLong, Waiting
  <2> QED
    BY <2>1, <2>2, <2>4
<1>3. CASE Busy(c) \/ PostName(c) \/ NotDone(c) \/ Sleep(c) \/ Woken(c) \/ Relocked(c)
           \/ Restarted(c)
  BY <1>3 DEF Busy, PostName, NotDone, Sleep, Woken, Relocked, Restarted, Waiting
<1> QED
  BY <1>1, <1>2, <1>3 DEF ClientStep

\* Servers write it to answer, and nothing else of the dialogue.
LEMMA ServerCommands ==
  ASSUME Types, Locks, NEW s \in Servers, StartByHand(s) \/ ServerStep(s)
  PROVE  /\ UNCHANGED <<cmdpid, asked>>
         /\ \/ UNCHANGED command
            \/ /\ FinishLoad(s) \/ UnloadFile(s)
               /\ command' = Done /\ Free
  BY DEF StartByHand, ServerStep, Daemon, LockDevice, DeviceTaken, Duplicate, Exit,
         SvrInitialize, Setup, StartLoad, LoadFile, FinishLoad, UnloadFile, NothingToDo,
         SvrSleep, SvrWoken, pagevars

\* Between its stores a client finds what it stored.
LEMMA PostingPreserved == Types /\ Locks /\ Posting /\ Serving /\ [Next]_vars => Posting'
<1> SUFFICES ASSUME Types, Locks, Posting, Serving, [Next]_vars PROVE Posting'
  OBVIOUS
<1>1. ASSUME NEW c \in Clients, Begin(c) \/ ClientStep(c) \/ ForkFails(c) \/ TooLong(c)
      PROVE  Posting'
  <2>1. ASSUME NEW b \in Clients, b # c, cpc'[b] \in {"posting", "naming"}
        PROVE  /\ UNCHANGED <<command, asked>>
               /\ cpc'[b] = cpc[b] /\ call'[b] = call[b]
    <3>1. cpc'[b] = cpc[b] /\ call'[b] = call[b]
      BY <1>1, <2>1, ClientMoves
    <3>2. cpc[c] \notin Inside
      BY <2>1, <3>1, Alone DEF Inside
    <3> QED
      BY <1>1, <3>1, <3>2, ClientCommands DEF Inside
  <2>2. ASSUME cpc'[c] \in {"posting", "naming"}
        PROVE  /\ cpc'[c] = "posting" => command' = Idle
               /\ cpc'[c] = "naming" => command' = Cmd("LOAD", call'[c].drive) /\ asked' = c
               /\ call'[c].op \in {"load", "keep"}
    <3>1. PostSender(c) \/ PostLoad(c)
      BY <1>1, <2>2, ClientCommands
         DEF SetReadonly, PostUnload, PostName, Finish, ClientAt, ReturnAt, Types
    <3> QED
      BY <2>2, <3>1 DEF PostSender, PostLoad, ClientAt, Types, Posting
  <2> QED
    BY <2>1, <2>2 DEF Posting
<1>2. ASSUME NEW s \in Servers, StartByHand(s) \/ ServerStep(s)
      PROVE  Posting'
  <2>1. UNCHANGED <<command, asked>> \/ \A c \in Clients : cpc[c] \notin Inside
    BY <1>2, ServerCommands, Alone
  <2>2. UNCHANGED <<cpc, call>> /\ asked' = asked
    BY <1>2, ServerMoves, ServerCommands DEF clientvars
  <2> QED
    BY <2>1, <2>2 DEF Posting, Inside
<1>3. ASSUME NEW p \in Pids, Die(p)
      PROVE  Posting'
  BY <1>3, DeathMoves DEF Posting
<1>4. CASE UNCHANGED vars
  BY <1>4 DEF Posting, vars, pagevars, clientvars
<1> QED
  BY <1>1, <1>2, <1>3, <1>4 DEF Next

-----------------------------------------------------------------------------
(* What the page shows and what the server has. *)

\* While a server loads no client writes to the page.
LEMMA LoadingUndisturbed ==
  ASSUME Types, Locks, Posting, Serving, NEW s \in Servers, spc[s] \in Loading,
         NEW c \in Clients, Begin(c) \/ ClientStep(c) \/ ForkFails(c) \/ TooLong(c)
  PROVE  UNCHANGED <<command, drive>> /\ cpc'[c] \notin {"posting", "naming"}
<1>1. /\ command.op = "LOAD" /\ command # Idle /\ command # Done
      /\ cpc[c] \notin {"posting", "naming"}
  BY CommandFacts DEF Serving, Serves, Types, TypeOK, Loading
<1>2. UNCHANGED command /\ cpc'[c] \notin {"posting", "naming"}
  BY <1>1, ClientCommands DEF IsIdle, StaleDone
<1>3. ~(\/ SetReadonly(c) \/ PostSender(c) \/ PostUnload(c) \/ PostLoad(c) \/ PostName(c)
        \/ Finish(c))
  BY <1>1 DEF SetReadonly, PostSender, PostUnload, PostLoad, PostName, Finish, IsIdle,
     StaleDone, ClientAt
<1>4. UNCHANGED drive
  BY <1>3 DEF Begin, ClientStep, ForkFails, TooLong, MsLock, MsLockFork, Fork, Forked,
     Stat, Busy, NotDone, Sleep, Woken, Relocked, Restarted, pagevars
<1> QED
  BY <1>2, <1>4

\* A client renames a drive only after it has put the command there.
LEMMA ClientFiles ==
  ASSUME Types, Locks, Posting, NEW c \in Clients,
         Begin(c) \/ ClientStep(c) \/ ForkFails(c) \/ TooLong(c)
  PROVE  \A d \in Drives :
           \/ drive'[d].file = drive[d].file
           \/ /\ PostName(c) /\ cpc[c] = "naming" /\ call[c].op = "load"
              /\ d = call[c].drive /\ drive'[d].file = call[c].file
              /\ command = Cmd("LOAD", d) /\ command' = command
<1>1. CASE SetReadonly(c) \/ PostSender(c) \/ Finish(c)
  BY <1>1, ClientDrives
<1>2. CASE PostName(c)
  <2>1. cpc[c] = "naming" /\ command' = command /\ command = Cmd("LOAD", call[c].drive)
    BY <1>2 DEF PostName, ClientAt, Posting
  <2> QED
    BY <1>2, <2>1, ClientDrives
<1>3. CASE ~(SetReadonly(c) \/ PostSender(c) \/ Finish(c) \/ PostName(c))
  <2>1. UNCHANGED drive
    BY <1>3 DEF Begin, ClientStep, ForkFails, TooLong, MsLock, MsLockFork, Fork, Forked,
       Stat, Busy, NotDone, Sleep, Woken, Relocked, Restarted, PostLoad, PostUnload, pagevars
  <2> QED
    BY <2>1
<1> QED
  BY <1>1, <1>2, <1>3

\* Clients at work.
LEMMA ClientServing ==
  ASSUME Types, Locks, Posting, Serving, NEW c \in Clients,
         Begin(c) \/ ClientStep(c) \/ ForkFails(c) \/ TooLong(c)
  PROVE  Serving'
<1> SUFFICES ASSUME NEW s \in Servers PROVE Serves(s)'
  BY DEF Serving
<1>1. Serves(s) /\ s \in Pids
  BY PidFacts DEF Serving
<1>2. loaded' = loaded /\ seen'[s] = seen[s]
  <2>1. seen' = seen \/ \E v : seen' = [seen EXCEPT ![c] = v]
    BY DEF Begin, ClientStep, ForkFails, TooLong, MsLock, MsLockFork, Fork, Forked, Stat,
       Busy, SetReadonly, PostSender, PostLoad, PostName, PostUnload, NotDone, Finish,
       Sleep, Woken, Relocked, Restarted, pagevars
  <2> QED
    BY <1>1, <2>1, ClientMoves, PidFacts DEF Types
<1>3. CASE spc'[s] # spc[s]
  <2>1. spc[s] = "none" /\ spc'[s] = "daemon"
    BY <1>3, ClientMoves, ForkAdds
  <2> QED
    BY <1>1, <1>2, <2>1 DEF Serves, Resting, Loading, Working
<1>4. CASE spc'[s] = spc[s] /\ spc[s] \in Loading
  <2>1. \A b \in Clients : cpc'[b] \notin {"posting", "naming"}
    BY <1>1, <1>4, ClientMoves, LoadingUndisturbed DEF Serves
  <2> QED
    BY <1>1, <1>2, <1>4, <2>1, LoadingUndisturbed
       DEF Serves, Shows, Resting, Loading, Working
<1>5. CASE spc'[s] = spc[s] /\ spc[s] \in Resting
  <2> SUFFICES ASSUME NEW d \in Drives, command' # Cmd("LOAD", d)
               PROVE  Shows(s, d)'
    BY <1>1, <1>5 DEF Serves, Resting, Loading, Working
  <2>1. drive'[d].file = drive[d].file
    BY ClientFiles
  <2>2. command # Cmd("LOAD", d)
    BY CommandFacts, ClientCommands DEF IsIdle, StaleDone
  <2> QED
    BY <1>1, <1>2, <1>5, <2>1, <2>2 DEF Serves, Shows
<1>6. CASE spc'[s] = spc[s] /\ spc[s] \notin Working
  BY <1>1, <1>2, <1>6 DEF Serves, Resting, Loading, Working
<1> QED
  BY <1>3, <1>4, <1>5, <1>6 DEF Working

\* The steps of a server that change no file.
LEMMA ServerFiles ==
  ASSUME Types, NEW s \in Servers, StartByHand(s) \/ ServerStep(s)
  PROVE  /\ \/ UNCHANGED drive
            \/ SvrInitialize(s) \/ FinishLoad(s) \/ UnloadFile(s)
         /\ \/ UNCHANGED loaded
            \/ DeviceTaken(s) \/ Duplicate(s) \/ LoadFile(s) \/ UnloadFile(s)
         /\ \A t \in Servers : t # s => loaded'[t] = loaded[t]
  BY DEF StartByHand, ServerStep, Daemon, LockDevice, DeviceTaken, Duplicate, Exit,
         SvrInitialize, Setup, StartLoad, LoadFile, FinishLoad, UnloadFile, NothingToDo,
         SvrSleep, SvrWoken, pagevars, servervars, Types, TypeOK

\* A server at rest shows the file of every drive that no load is about.
LEMMA RestingShows ==
  ASSUME NEW s \in Servers, Serves(s), spc[s] \in Resting,
         NEW d \in Drives, command # Cmd("LOAD", d)
  PROVE  drive[d].file = loaded[s][d].file
  BY DEF Serves, Shows

\* The server at its own steps.
LEMMA ServesOwn ==
  ASSUME Types, Locks, Posting, Serving, NEW s \in Servers,
         StartByHand(s) \/ ServerStep(s)
  PROVE  Serves(s)'
<1> USE DEF ServerAt, Types, Resting, Loading, Working
<1>1. Serves(s) /\ s \in Pids /\ spc[s] \in ServerPCs
  BY PidFacts DEF Serving
<1>2. CASE StartByHand(s) \/ Daemon(s) \/ LockDevice(s)
  BY <1>1, <1>2 DEF Serves, StartByHand, Daemon, LockDevice, pagevars
<1>3. CASE DeviceTaken(s) \/ Duplicate(s)
  BY <1>1, <1>3 DEF Serves, DeviceTaken, Duplicate, Exit, TypeOK, Files0
<1>4. CASE SvrInitialize(s)
  <2>1. /\ command' = command /\ spc'[s] = "setup" /\ loaded'[s] = Files0
    BY <1>1, <1>4 DEF SvrInitialize, Serves
  <2>2. \A d \in Drives : command # Cmd("LOAD", d) => drive'[d].file = NoFile
    BY <1>4, ServerDrives
  <2> QED
    BY <2>1, <2>2 DEF Serves, Shows, Files0, Nothing
<1>5. CASE Setup(s) \/ NothingToDo(s) \/ SvrSleep(s) \/ SvrWoken(s)
  <2>1. /\ UNCHANGED <<command, drive, loaded>>
        /\ spc[s] \in Resting /\ spc'[s] \in Resting
    BY <1>5 DEF Setup, NothingToDo, SvrSleep, SvrWoken, pagevars, servervars
  <2> QED
    BY <1>1, <2>1 DEF Serves, Shows
<1>6. CASE StartLoad(s)
  <2>1. /\ UNCHANGED <<command, drive, loaded, cpc>>
        /\ spc[s] = "top" /\ spc'[s] = "load" /\ command.op = "LOAD" /\ seen'[s] = command
    BY <1>1, <1>6 DEF StartLoad, pagevars, clientvars
  <2>2. \A c \in Clients : cpc[c] \notin {"posting", "naming"}
    BY <1>6, Alone DEF StartLoad, Inside
  <2>3. \A d \in Drives : d # command.drive => command # Cmd("LOAD", d)
    BY CommandFacts
  <2> QED
    BY <1>1, <2>1, <2>2, <2>3 DEF Serves, Shows
<1>7. CASE LoadFile(s)
  <2>1. /\ UNCHANGED <<command, drive, cpc, seen>> /\ spc[s] = "load"
        /\ spc'[s] \in {"loadok", "loadfailed"}
    BY <1>1, <1>7 DEF LoadFile, pagevars, clientvars
  <2>2. /\ \A d \in Drives : d # command.drive => loaded'[s][d] = loaded[s][d]
        /\ spc'[s] = "loadok" => loaded'[s][command.drive] =
             [file |-> drive[command.drive].file, readonly |-> drive[command.drive].readonly]
        /\ spc'[s] = "loadfailed" => loaded'[s][command.drive] = Nothing
    BY <1>7, LoadedChanges, <2>1
  <2> QED
    BY <1>1, <2>1, <2>2 DEF Serves, Shows
<1>8. CASE FinishLoad(s)
  <2>1. /\ spc'[s] = "top" /\ spc[s] \in {"loadok", "loadfailed"} /\ loaded' = loaded
        /\ command' = Done /\ command = seen[s]
    BY <1>1, <1>8 DEF FinishLoad, Serves
  <2>2. \A d \in Drives : Shows(s, d)'
    BY <1>1, <1>8, <2>1, ServerDrives DEF Serves, Shows, Nothing
  <2> QED
    BY <2>1, <2>2 DEF Serves
<1>9. CASE UnloadFile(s)
  <2>1. /\ spc'[s] = "top" /\ spc[s] = "top" /\ command' = Done /\ command.op = "UNLD"
    BY <1>1, <1>9 DEF UnloadFile
  <2>2. \A d \in Drives : /\ command # Cmd("LOAD", d)
                          /\ d # command.drive => loaded'[s][d] = loaded[s][d]
                          /\ d = command.drive => loaded'[s][d] = Nothing
    <3>1. \A d \in Drives : command # Cmd("LOAD", d)
      BY <2>1, CommandFacts
    <3> QED
      BY <1>9, <2>1, <3>1, LoadedChanges
  <2>3. \A d \in Drives : drive[d].file = loaded[s][d].file
    <3>1. Serves(s) /\ spc[s] \in Resting /\ \A d \in Drives : command # Cmd("LOAD", d)
      BY <1>1, <2>1, <2>2
    <3> QED
      BY <3>1, RestingShows
  <2>4. \A d \in Drives : drive'[d].file = IF d = command.drive THEN NoFile
                                                               ELSE drive[d].file
    BY <1>9, ServerDrives
  <2>5. ASSUME NEW d \in Drives
        PROVE  drive'[d].file = loaded'[s][d].file
    <3>1. CASE d = command.drive
      BY <2>2, <2>4, <3>1 DEF Nothing
    <3>2. CASE d # command.drive
      BY <2>2, <2>3, <2>4, <3>2
    <3> QED
      BY <3>1, <3>2
  <2> QED
    BY <2>1, <2>5 DEF Serves, Shows
<1> QED
  BY <1>2, <1>3, <1>4, <1>5, <1>6, <1>7, <1>8, <1>9 DEF ServerStep

\* The page shows what the server has, at every step.
LEMMA ServingPreserved == Types /\ Locks /\ Posting /\ Serving /\ [Next]_vars => Serving'
<1> SUFFICES ASSUME Types, Locks, Posting, Serving, [Next]_vars PROVE Serving'
  OBVIOUS
<1>1. ASSUME NEW s \in Servers, StartByHand(s) \/ ServerStep(s), NEW t \in Servers, t # s
      PROVE  Serves(t)'
  <2>1. /\ spc'[t] = spc[t] /\ loaded'[t] = loaded[t] /\ seen'[t] = seen[t]
        /\ cpc' = cpc /\ Serves(t)
    BY <1>1, ServerMoves, ServerFiles DEF clientvars, Serving
  <2>2. CASE spc[t] \in Working
    <3>1. spc[s] \notin Working \cup {"init"}
      BY <1>1, <2>2, OneWorker
    <3>2. UNCHANGED <<command, drive>>
      BY <1>1, <3>1, ServerFiles, ServerCommands
         DEF SvrInitialize, FinishLoad, UnloadFile, ServerAt, Working, Resting, Loading
    <3> QED
      BY <2>1, <3>2 DEF Serves, Shows
  <2>3. CASE spc[t] \notin Working
    BY <2>1, <2>3 DEF Serves, Working, Resting, Loading
  <2> QED
    BY <2>2, <2>3
<1>2. ASSUME NEW p \in Pids, Die(p), NEW s \in Servers
      PROVE  Serves(s)'
  <2>1. CASE s = p
    BY <1>2, <2>1, DeathMoves DEF Serves, Working, Resting, Loading
  <2>2. CASE s # p
    BY <1>2, <2>2, DeathMoves DEF Serving, Serves, Shows
  <2> QED
    BY <2>1, <2>2
<1>3. CASE UNCHANGED vars
  BY <1>3 DEF Serving, Serves, Shows, vars, pagevars, clientvars, servervars
<1> QED
  BY <1>1, <1>2, <1>3, ClientServing, ServesOwn DEF Next, Serving

-----------------------------------------------------------------------------
(* Who is the server. *)

\* Who writes the server's pid, and how the client that forks goes on.
LEMMA PidWriters ==
  /\ \A c \in Clients :
       Types /\ Locks /\ (Begin(c) \/ ClientStep(c) \/ ForkFails(c) \/ TooLong(c)) =>
         /\ \/ svrpid' = svrpid
            \/ MsLockFork(c) /\ Free /\ svrpid \notin alive /\ svrpid' = NoPid
         /\ cpc'[c] = "fork" => svrpid' = NoPid
         /\ cpc[c] = "forked" => cpc'[c] = "forked" \/ svrpid # NoPid
         /\ Fork(c) => cpc[c] = "fork" /\ cpc'[c] = "forked"
         /\ oldsvr'[c] \in {oldsvr[c], svrpid, NoPid}
  /\ \A s \in Servers :
       Types /\ Locks /\ (StartByHand(s) \/ ServerStep(s)) =>
         /\ spc'[s] # "daemon"
         /\ \/ svrpid' = svrpid
            \/ Daemon(s) /\ spc[s] = "daemon" /\ spc'[s] = "main" /\ svrpid' = s
            \/ /\ SvrInitialize(s) /\ Free /\ svrpid' = s
               /\ svrpid = s \/ svrpid \notin alive
         /\ spc'[s] \in Working /\ spc[s] \notin Working => SvrInitialize(s)
<1> USE DEF Types, ClientAt, ReturnAt, ServerAt
<1>1. ASSUME NEW c \in Clients, Types, Locks,
             Begin(c) \/ ClientStep(c) \/ ForkFails(c) \/ TooLong(c)
      PROVE  /\ \/ svrpid' = svrpid
                \/ MsLockFork(c) /\ Free /\ svrpid \notin alive /\ svrpid' = NoPid
             /\ cpc'[c] = "fork" => svrpid' = NoPid
             /\ cpc[c] = "forked" => cpc'[c] = "forked" \/ svrpid # NoPid
             /\ Fork(c) => cpc[c] = "fork" /\ cpc'[c] = "forked"
             /\ oldsvr'[c] \in {oldsvr[c], svrpid, NoPid}
  <2>1. CASE MsLock(c)
    <3>1. cpc[c] = "lock" /\ cpc'[c] \notin {"fork", "forked"}
      BY <1>1, <2>1 DEF MsLock
    <3>2. ~Fork(c) /\ UNCHANGED <<svrpid, oldsvr>>
      BY <2>1, <3>1 DEF MsLock, Fork, pagevars
    <3> QED
      BY <3>1, <3>2
  <2>2. CASE ~MsLock(c)
    BY <1>1, <2>2
       DEF Begin, ClientStep, ForkFails, TooLong, MsLockFork, Fork, Forked, Stat,
         Busy, SetReadonly, PostSender, PostLoad, PostName, PostUnload, NotDone, Finish,
         Sleep, Woken, Relocked, Restarted, pagevars
  <2> QED
    BY <2>1, <2>2
<1>2. ASSUME NEW s \in Servers, Types, Locks, StartByHand(s) \/ ServerStep(s)
      PROVE  /\ spc'[s] # "daemon"
             /\ \/ svrpid' = svrpid
                \/ Daemon(s) /\ spc[s] = "daemon" /\ spc'[s] = "main" /\ svrpid' = s
                \/ /\ SvrInitialize(s) /\ Free /\ svrpid' = s
                   /\ svrpid = s \/ svrpid \notin alive
             /\ spc'[s] \in Working /\ spc[s] \notin Working => SvrInitialize(s)
  BY <1>2 DEF StartByHand, ServerStep, Daemon, LockDevice, DeviceTaken, Duplicate, Exit,
     SvrInitialize, Setup, StartLoad, LoadFile, FinishLoad, UnloadFile, NothingToDo,
     SvrSleep, SvrWoken, pagevars, Working, Resting, Loading
<1> QED
  BY <1>1, <1>2

\* The server at work is the registered one, as long as no client has died.
LEMMA RegisteredPreserved ==
  Types /\ Locks /\ Registered /\ [Next]_vars => Registered'
<1> SUFFICES ASSUME Types, Locks, Registered, [Next]_vars, (Clients \subseteq alive)'
             PROVE  /\ \A s \in Servers :
                         /\ spc'[s] \in Working => svrpid' = s
                         /\ spc'[s] = "daemon" =>
                              /\ svrpid' = NoPid /\ \E c \in Clients : cpc'[c] = "forked"
                              /\ \A t \in Servers : spc'[t] = "daemon" => t = s
                    /\ \A c \in Clients : cpc'[c] = "fork" => svrpid' = NoPid
  BY DEF Registered
<1>1. ASSUME NEW c \in Clients, Begin(c) \/ ClientStep(c) \/ ForkFails(c) \/ TooLong(c)
      PROVE  /\ \A s \in Servers :
                  /\ spc'[s] \in Working => svrpid' = s
                  /\ spc'[s] = "daemon" =>
                       /\ svrpid' = NoPid /\ \E b \in Clients : cpc'[b] = "forked"
                       /\ \A t \in Servers : spc'[t] = "daemon" => t = s
             /\ \A b \in Clients : cpc'[b] = "fork" => svrpid' = NoPid
  <2>0. Clients \subseteq alive
    BY <1>1, ClientMoves
  <2>1. \A b \in Clients : cpc'[b] = "fork" => svrpid' = NoPid
    BY <1>1, <2>0, ClientMoves, PidWriters DEF Registered
  <2>2. ASSUME NEW s \in Servers, spc'[s] \in Working
        PROVE  svrpid' = s
    <3>1. spc'[s] = spc[s]
      BY <1>1, <2>2, ClientMoves, ForkAdds DEF Working, Resting, Loading
    <3>2. svrpid = s /\ s \in alive
      BY <2>0, <2>2, <3>1, OneWorker DEF Registered
    <3> QED
      BY <1>1, <3>2, PidWriters
  <2>3. ASSUME Fork(c)
        PROVE  \A s \in Servers : spc'[s] = "daemon" =>
                 /\ svrpid' = NoPid /\ \E b \in Clients : cpc'[b] = "forked"
                 /\ \A t \in Servers : spc'[t] = "daemon" => t = s
    <3>1. cpc[c] = "fork" /\ cpc'[c] = "forked" /\ svrpid = NoPid /\ svrpid' = svrpid
      BY <1>1, <2>0, <2>3, PidWriters DEF Registered, Fork, pagevars
    <3>2. \A s \in Servers : spc[s] # "daemon"
      BY <2>0, <3>1, Alone DEF Registered, Inside
    <3> QED
      BY <2>3, <3>1, <3>2, ForkAdds
  <2>4. ASSUME ~Fork(c), NEW s \in Servers, spc'[s] = "daemon"
        PROVE  /\ svrpid' = NoPid /\ \E b \in Clients : cpc'[b] = "forked"
               /\ \A t \in Servers : spc'[t] = "daemon" => t = s
    <3>1. spc' = spc
      BY <1>1, <2>4, ClientMoves
    <3>2. PICK b \in Clients : cpc[b] = "forked"
      BY <2>0, <2>4, <3>1 DEF Registered
    <3>3. svrpid = NoPid /\ \A t \in Servers : spc[t] = "daemon" => t = s
      BY <2>0, <2>4, <3>1 DEF Registered
    <3>4. cpc'[b] = "forked" /\ svrpid' = NoPid
      BY <1>1, <3>2, <3>3, ClientMoves, PidWriters
    <3> QED
      BY <3>1, <3>3, <3>4
  <2> QED
    BY <2>1, <2>2, <2>3, <2>4
<1>2. ASSUME NEW s \in Servers, StartByHand(s) \/ ServerStep(s)
      PROVE  /\ \A t \in Servers :
                  /\ spc'[t] \in Working => svrpid' = t
                  /\ spc'[t] = "daemon" =>
                       /\ svrpid' = NoPid /\ \E b \in Clients : cpc'[b] = "forked"
                       /\ \A u \in Servers : spc'[u] = "daemon" => u = t
             /\ \A b \in Clients : cpc'[b] = "fork" => svrpid' = NoPid
  <2>0. Clients \subseteq alive /\ cpc' = cpc
    BY <1>2, ServerMoves DEF clientvars
  <2>1. CASE svrpid' = svrpid /\ ~SvrInitialize(s)
    <3>1. \A t \in Servers : spc'[t] \in Working => svrpid' = t
      BY <1>2, <2>0, <2>1, ServerMoves, PidWriters DEF Registered
    <3>2. \A t \in Servers : spc'[t] = "daemon" => spc[t] = "daemon"
      BY <1>2, ServerMoves, PidWriters
    <3> QED
      BY <2>0, <2>1, <3>1, <3>2 DEF Registered
  <2>2. CASE Daemon(s) /\ spc[s] = "daemon" /\ spc'[s] = "main" /\ svrpid' = s
    <3>1. \A t \in Servers : spc[t] \notin Working
      BY <2>0, <2>2, PidFacts DEF Registered
    <3>2. PICK b \in Clients : cpc[b] = "forked"
      BY <2>0, <2>2 DEF Registered
    <3>3. \A a \in Clients : cpc[a] # "fork"
      BY <3>2, Alone DEF Inside
    <3>4. \A t \in Servers : spc'[t] \notin Working \cup {"daemon"}
      BY <1>2, <2>0, <2>2, <3>1, ServerMoves DEF Registered, Working, Resting, Loading
    <3> QED
      BY <2>0, <3>3, <3>4
  <2>3. CASE SvrInitialize(s)
    <3>1. Free /\ svrpid' = s /\ spc[s] = "init" /\ spc'[s] = "setup"
      BY <2>3 DEF SvrInitialize, ServerAt, Types
    <3>2. \A t \in Servers : spc[t] # "daemon"
      BY <2>0, <3>1, Alone DEF Registered, Inside
    <3>3. \A t \in Servers : spc'[t] \in Working => t = s
      BY <1>2, <3>1, OneWorker, ServerMoves
    <3>4. \A t \in Servers : spc'[t] # "daemon"
      BY <1>2, <3>1, <3>2, ServerMoves
    <3>5. \A a \in Clients : cpc'[a] # "fork"
      BY <2>0, <3>1, Alone DEF Inside
    <3> QED
      BY <3>1, <3>3, <3>4, <3>5
  <2> QED
    BY <1>2, <2>1, <2>2, <2>3, PidWriters
<1>3. ASSUME NEW p \in Pids, Die(p)
      PROVE  /\ \A s \in Servers :
                  /\ spc'[s] \in Working => svrpid' = s
                  /\ spc'[s] = "daemon" =>
                       /\ svrpid' = NoPid /\ \E b \in Clients : cpc'[b] = "forked"
                       /\ \A t \in Servers : spc'[t] = "daemon" => t = s
             /\ \A b \in Clients : cpc'[b] = "fork" => svrpid' = NoPid
  <2>0. p \notin Clients /\ Clients \subseteq alive
    BY <1>3, DeathMoves
  <2>1. /\ svrpid' = svrpid /\ \A c \in Clients : cpc'[c] = cpc[c]
        /\ \A s \in Servers : spc'[s] \in {spc[s], "gone"}
    BY <1>3, <2>0, DeathMoves
  <2> QED
    BY <2>0, <2>1 DEF Registered, Working, Resting, Loading
<1>4. CASE UNCHANGED vars
  BY <1>4 DEF Registered, vars, pagevars, clientvars, servervars
<1> QED
  BY <1>1, <1>2, <1>3, <1>4 DEF Next

\* Nobody is known as the server who has not been started.
LEMMA StartedPreserved == Types /\ Locks /\ Started /\ [Next]_vars => Started'
<1> SUFFICES ASSUME Types, Locks, Started, [Next]_vars, NEW s \in Servers, spc'[s] = "none"
             PROVE  svrpid' # s /\ \A c \in Clients : oldsvr'[c] # s
  BY DEF Started
<1>1. s # NoPid
  BY PidFacts
<1>2. ASSUME NEW c \in Clients, Begin(c) \/ ClientStep(c) \/ ForkFails(c) \/ TooLong(c)
      PROVE  svrpid' # s /\ \A b \in Clients : oldsvr'[b] # s
  <2>1. spc[s] = "none"
    BY <1>2, ClientMoves, ForkAdds
  <2> QED
    BY <1>1, <1>2, <2>1, ClientMoves, PidWriters DEF Started
<1>3. ASSUME NEW t \in Servers, StartByHand(t) \/ ServerStep(t)
      PROVE  svrpid' # s /\ \A b \in Clients : oldsvr'[b] # s
  BY <1>3, ServerMoves, PidWriters DEF Started, clientvars
<1>4. ASSUME NEW p \in Pids, Die(p)
      PROVE  svrpid' # s /\ \A b \in Clients : oldsvr'[b] # s
  BY <1>1, <1>4, DeathMoves DEF Started
<1>5. CASE UNCHANGED vars
  BY <1>5 DEF Started, vars, pagevars, clientvars, servervars
<1> QED
  BY <1>2, <1>3, <1>4, <1>5 DEF Next

-----------------------------------------------------------------------------
(* Whose answer it is. *)

\* A page that is idle, or taken for idle, has nobody waiting.
LEMMA NobodyWaits ==
  ASSUME Types, Locks, Answers, SendersKnown, NEW c \in Clients, IsIdle(c)
  PROVE  \A b \in Clients : ~Waiting(b)
<1> SUFFICES ASSUME NEW b \in Clients, Waiting(b) PROVE FALSE
  OBVIOUS
<1>1. b \in alive
  BY DEF Locks, Waiting
<1>2. command # Idle /\ ("unload" \notin Ops => cmdpid = b)
  BY DEF Answers
<1>3. cmdpid # NoPid /\ cmdpid \notin alive
  BY <1>2 DEF IsIdle, StaleDone, Gone
<1>4. cmdpid \in Clients
  BY <1>3 DEF Types, TypeOK
<1> QED
  BY <1>1, <1>2, <1>3, <1>4 DEF SendersKnown

\* Clients do not come back.
LEMMA NoneReturns ==
  ASSUME Types, Locks, [Next]_vars, (Clients \subseteq alive)'
  PROVE  Clients \subseteq alive
<1>1. ASSUME NEW c \in Clients, Begin(c) \/ ClientStep(c) \/ ForkFails(c) \/ TooLong(c)
      PROVE  Clients \subseteq alive
  BY <1>1, ClientMoves
<1>2. ASSUME NEW s \in Servers, StartByHand(s) \/ ServerStep(s)
      PROVE  Clients \subseteq alive
  BY <1>2, ServerMoves
<1>3. ASSUME NEW p \in Pids, Die(p)
      PROVE  Clients \subseteq alive
  BY <1>3, DeathMoves
<1>4. CASE UNCHANGED vars
  BY <1>4 DEF vars
<1> QED
  BY <1>1, <1>2, <1>3, <1>4 DEF Next

\* Only a load or a keep puts its sender's pid in the page.
LEMMA SenderPosted ==
  ASSUME Types, Posting, NEW c \in Clients,
         Begin(c) \/ ClientStep(c) \/ ForkFails(c) \/ TooLong(c)
  PROVE  /\ cmdpid' = cmdpid \/ PostSender(c)
         /\ PostSender(c) => cmdpid' = c /\ cpc'[c] = "posting"
         /\ PostLoad(c) => /\ cpc[c] = "posting" /\ cpc'[c] = "naming"
                           /\ command' = Cmd("LOAD", call[c].drive)
         /\ PostName(c) => /\ cpc[c] = "naming" /\ cpc'[c] = "done" /\ asked = c
                           /\ command = Cmd("LOAD", call[c].drive) /\ command' = command
                           /\ oldsvr'[c] = svrpid /\ call' = call
                           /\ call[c].op \in {"load", "keep"}
         /\ PostUnload(c) => /\ "unload" \in Ops /\ cpc'[c] = "done" /\ asked' = c
                             /\ command' = Cmd("UNLD", call[c].drive)
                             /\ oldsvr'[c] = svrpid /\ call' = call /\ drive' = drive
                             /\ call[c].op = "unload"
         /\ SetReadonly(c) => cpc'[c] = "out" /\ command' = Idle
<1> USE DEF ClientAt, ReturnAt, Types
<1>1. cmdpid' = cmdpid \/ PostSender(c)
  BY DEF Begin, ClientStep, ForkFails, TooLong, MsLock, MsLockFork, Fork, Forked, Stat,
     Busy, SetReadonly, PostSender, PostLoad, PostName, PostUnload, NotDone, Finish,
     Sleep, Woken, Relocked, Restarted, pagevars
<1>2. PostSender(c) => cmdpid' = c /\ cpc'[c] = "posting"
  BY DEF PostSender
<1>3. PostLoad(c) => /\ cpc[c] = "posting" /\ cpc'[c] = "naming"
                     /\ command' = Cmd("LOAD", call[c].drive)
  BY DEF PostLoad
<1>4. PostName(c) => /\ cpc[c] = "naming" /\ cpc'[c] = "done" /\ asked = c
                     /\ command = Cmd("LOAD", call[c].drive) /\ command' = command
                     /\ oldsvr'[c] = svrpid /\ call' = call
                     /\ call[c].op \in {"load", "keep"}
  BY DEF PostName, Posting
<1>5. PostUnload(c) => /\ "unload" \in Ops /\ cpc'[c] = "done" /\ asked' = c
                       /\ command' = Cmd("UNLD", call[c].drive)
                       /\ oldsvr'[c] = svrpid /\ call' = call /\ drive' = drive
                       /\ call[c].op = "unload"
  <2>1. call[c].op \in Ops \cup {"none"}
    BY CallFacts
  <2> QED
    BY <2>1 DEF PostUnload
<1>6. SetReadonly(c) => cpc'[c] = "out" /\ command' = Idle
  BY DEF SetReadonly
<1> QED
  BY <1>1, <1>2, <1>3, <1>4, <1>5, <1>6

\* Clients at work: a client sends only when nobody waits, and is then the one
\* that does.
LEMMA ClientAnswers ==
  ASSUME Types, Locks, Posting, Answers, SendersKnown, NEW c \in Clients,
         Begin(c) \/ ClientStep(c) \/ ForkFails(c) \/ TooLong(c)
  PROVE  Answers'
<1> DEFINE AnswerOK(b) ==
      /\ Waiting(b) => /\ command # Idle /\ asked = b
                       /\ "unload" \notin Ops => cmdpid = b
      /\ cpc[b] \in {"posting", "naming"} => /\ cmdpid = b
                                             /\ \A a \in Clients : ~Waiting(a)
<1>0. /\ \A a, b \in Clients : Waiting(a) /\ Waiting(b) => a = b
      /\ \A b \in Clients : AnswerOK(b)
  BY DEF Answers
<1> SUFFICES /\ \A a, b \in Clients : Waiting(a)' /\ Waiting(b)' => a = b
             /\ \A b \in Clients : AnswerOK(b)'
  BY DEF Answers
<1>1. \A b \in Clients : b # c => /\ Waiting(b)' <=> Waiting(b)
                                  /\ cpc'[b] = cpc[b]
  BY ClientMoves DEF Waiting
<1>2. cpc[c] \in Inside => \A b \in Clients : b # c => cpc[b] \notin {"posting", "naming"}
  BY Alone DEF Inside
<1>3. CASE /\ UNCHANGED <<command, asked>> /\ cpc'[c] \notin {"posting", "naming"}
           /\ Waiting(c)' => Waiting(c) \/ PostName(c)
  <2>0. ~PostSender(c)
    BY <1>3, SenderPosted
  <2>1. cmdpid' = cmdpid
    BY <2>0, SenderPosted
  <2>2. CASE PostName(c)
    <3>3. command = Cmd("LOAD", call[c].drive) /\ call[c].drive \in Drives
      BY <2>2, SenderPosted, ClientDrives
    <3>1. /\ cpc[c] = "naming" /\ asked = c /\ cmdpid = c
          /\ \A b \in Clients : ~Waiting(b)
          /\ command # Idle
      BY <1>0, <2>2, <3>3, SenderPosted, CommandFacts
    <3>2. \A b \in Clients : cpc'[b] \notin {"posting", "naming"}
      BY <1>1, <1>2, <1>3, <3>1 DEF Inside
    <3> QED
      BY <1>1, <1>3, <2>1, <3>1, <3>2
  <2>3. CASE ~PostName(c)
    <3>1. \A b \in Clients : Waiting(b)' => Waiting(b)
      BY <1>1, <1>3, <2>3
    <3> QED
      BY <1>0, <1>1, <1>3, <2>1, <3>1
  <2> QED
    BY <2>2, <2>3
<1>4. CASE /\ SetReadonly(c) \/ PostSender(c) \/ PostUnload(c)
           /\ IsIdle(c) /\ cpc[c] = "idle" /\ asked' \in {asked, c}
  <2>1. \A b \in Clients : ~Waiting(b)
    BY <1>4, NobodyWaits
  <2>2. \A b \in Clients : b # c => ~Waiting(b)' /\ cpc'[b] \notin {"posting", "naming"}
    BY <1>1, <1>2, <1>4, <2>1 DEF Inside
  <2>3. CASE SetReadonly(c)
    <3>1. ~Waiting(c)' /\ cpc'[c] = "out"
      BY <2>3, SenderPosted DEF Waiting
    <3> QED
      BY <2>2, <3>1
  <2>4. CASE PostSender(c)
    <3>1. ~Waiting(c)' /\ cmdpid' = c
      BY <2>4, SenderPosted DEF Waiting
    <3> QED
      BY <2>2, <3>1
  <2>5. CASE PostUnload(c)
    <3>1. cpc'[c] = "done" /\ asked' = c /\ "unload" \in Ops
      BY <2>5, SenderPosted
    <3>2. command' = Cmd("UNLD", call[c].drive) /\ call[c].op = "unload"
      BY <2>5, SenderPosted
    <3>3. call[c] \in Calls \cup {NoCall}
      BY DEF Types
    <3>4. call[c].drive \in Drives
      BY <3>2, <3>3, CallFacts
    <3>5. command' # Idle
      BY <3>2, <3>4, CommandFacts
    <3> QED
      BY <2>2, <3>1, <3>5
  <2> QED
    BY <1>4, <2>3, <2>4, <2>5
<1>5. CASE PostLoad(c) /\ cpc[c] = "posting" /\ command = Idle /\ asked' = c
  <2>1. cmdpid = c /\ \A b \in Clients : ~Waiting(b)
    BY <1>0, <1>5
  <2>2. cpc'[c] = "naming" /\ cmdpid' = cmdpid
    BY <1>5, SenderPosted
  <2>3. \A b \in Clients : ~Waiting(b)'
    BY <1>1, <2>1, <2>2 DEF Waiting
  <2>4. \A b \in Clients : b # c => cpc'[b] \notin {"posting", "naming"}
    BY <1>1, <1>2, <1>5 DEF Inside
  <2> QED
    BY <2>1, <2>2, <2>3, <2>4
<1>6. CASE Finish(c) /\ cpc[c] = "done" /\ command = Done /\ ~Waiting(c)' /\ asked' = asked
  <2>1. Waiting(c) /\ cpc'[c] = "out"
    BY <1>6 DEF Waiting, Finish, ReturnAt, ClientAt, Types
  <2>2. \A b \in Clients : ~Waiting(b)'
    BY <1>0, <1>1, <1>6, <2>1
  <2>3. \A b \in Clients : cpc'[b] \notin {"posting", "naming"}
    BY <1>1, <1>2, <1>6, <2>1 DEF Inside
  <2> QED
    BY <2>2, <2>3
<1> QED
  BY <1>3, <1>4, <1>5, <1>6, ClientCommands

\* One command at a time, and its answer is for its sender.
LEMMA AnswersPreserved ==
  Types /\ Locks /\ Posting /\ Answers /\ [Next]_vars => Answers'
<1> SUFFICES ASSUME Types, Locks, Posting, Answers, [Next]_vars, SendersKnown'
             PROVE  Answers'
  BY DEF Answers
<1>1. SendersKnown
  BY NoneReturns DEF SendersKnown
<1>2. ASSUME NEW s \in Servers, StartByHand(s) \/ ServerStep(s)
      PROVE  Answers'
  <2>1. /\ UNCHANGED <<cpc, next, cmdpid, asked>>
        /\ command' = command \/ command' # Idle
    BY <1>2, ServerMoves, ServerCommands, CommandFacts DEF clientvars
  <2> QED
    BY <1>1, <2>1 DEF Answers, Waiting
<1>3. ASSUME NEW p \in Pids, Die(p)
      PROVE  Answers'
  <2>1. \A c \in Clients : /\ Waiting(c)' => Waiting(c)
                           /\ cpc'[c] \in {"posting", "naming"} => cpc'[c] = cpc[c]
    BY <1>3, DeathMoves DEF Waiting
  <2> QED
    BY <1>1, <1>3, <2>1, DeathMoves DEF Answers
<1>4. CASE UNCHANGED vars
  <2>1. UNCHANGED <<cpc, next, cmdpid, asked, command>>
    BY <1>4 DEF vars, pagevars, clientvars
  <2> QED
    BY <1>1, <2>1 DEF Answers, Waiting
<1> QED
  BY <1>1, <1>2, <1>3, <1>4, ClientAnswers DEF Next

-----------------------------------------------------------------------------
(* Write protection. *)

\* Who sets a drive's flag, and when.
LEMMA ClientReadonly ==
  ASSUME Types, Locks, Posting, NEW c \in Clients,
         Begin(c) \/ ClientStep(c) \/ ForkFails(c) \/ TooLong(c),
         NEW d \in Drives
  PROVE  \/ drive'[d].readonly = drive[d].readonly
         \/ /\ d = call[c].drive /\ drive'[d].file = drive[d].file
            /\ \/ drive[d].file = NoFile
               \/ cpc'[c] = "posting" /\ call' = call
               \/ cpc[c] = "done" /\ command = Done /\ call[c].op = "unload"
<1>1. CASE SetReadonly(c)
  <2>1. d = call[c].drive => drive[d].file = NoFile
    BY <1>1 DEF SetReadonly
  <2> QED
    BY <1>1, <2>1, ClientDrives
<1>2. CASE PostSender(c)
  <2>1. cpc'[c] = "posting" /\ call' = call
    BY <1>2, SenderPosted DEF PostSender
  <2> QED
    BY <1>2, <2>1, ClientDrives
<1>3. CASE Finish(c)
  <2>1. cpc[c] = "done" /\ command = Done
    BY <1>3 DEF Finish, ReturnAt, ClientAt
  <2> QED
    BY <1>3, <2>1, ClientDrives
<1>4. CASE PostName(c)
  BY <1>4, ClientDrives
<1>5. CASE ~(SetReadonly(c) \/ PostSender(c) \/ Finish(c) \/ PostName(c))
  <2>1. UNCHANGED drive
    BY <1>5 DEF Begin, ClientStep, ForkFails, TooLong, MsLock, MsLockFork, Fork, Forked,
       Stat, Busy, NotDone, Sleep, Woken, Relocked, Restarted, PostLoad, PostUnload, pagevars
  <2> QED
    BY <2>1
<1> QED
  BY <1>1, <1>2, <1>3, <1>4, <1>5

\* Clients at work.
LEMMA ClientProtected ==
  ASSUME Types, Locks, Posting, Serving, Protected, Results, Clients \subseteq alive,
         NEW c \in Clients, Begin(c) \/ ClientStep(c) \/ ForkFails(c) \/ TooLong(c),
         NEW s \in Servers, NEW d \in Drives, Settled(s, d)'
  PROVE  drive'[d].readonly = loaded'[s][d].readonly
<1>1. spc'[s] = spc[s] /\ loaded' = loaded /\ spc[s] \in Working
  <2>1. spc'[s] # "daemon"
    BY DEF Settled, Working, Resting, Loading
  <2> QED
    BY <2>1, ClientMoves, ForkAdds DEF Settled
<1>2. CASE spc[s] \in Loading
  <2>1. UNCHANGED <<command, drive>> /\ \A b \in Clients : cpc[b] # "posting"
    BY <1>2, LoadingUndisturbed DEF Serving, Serves
  <2>2. Settled(s, d)
    BY <1>1, <2>1 DEF Settled
  <2> QED
    BY <1>1, <2>1, <2>2 DEF Protected
<1>3. CASE spc[s] \in Resting
  <2>1. command' # Cmd("LOAD", d) /\ drive'[d].file # NoFile
    BY <1>1, <1>3 DEF Settled
  <2>2. command # Cmd("LOAD", d)
    BY <2>1, CommandFacts, ClientCommands DEF IsIdle, StaleDone
  <2>3. drive[d].file = drive'[d].file
    BY <2>1, ClientFiles
  <2>4. ASSUME NEW b \in Clients, cpc[b] = "posting", call[b].drive = d
        PROVE  FALSE
    <3>1. CASE b = c
      <4>1. PostLoad(c)
        BY <2>4, <3>1, ClientCommands
      <4> QED
        BY <2>1, <2>4, <3>1, <4>1, SenderPosted
    <3>2. CASE b # c
      BY <2>4, <3>2, ClientMoves DEF Settled
    <3> QED
      BY <3>1, <3>2
  <2>5. Settled(s, d)
    BY <1>1, <1>3, <2>1, <2>2, <2>3, <2>4 DEF Settled
  <2>6. drive'[d].readonly = drive[d].readonly
    <3>1. ~(d = call[c].drive /\ cpc'[c] = "posting" /\ call' = call)
      BY DEF Settled
    <3>2. ~(d = call[c].drive /\ cpc[c] = "done" /\ command = Done /\ call[c].op = "unload")
      BY <2>1, <2>3 DEF Results, Finds, Waiting
    <3> QED
      BY <2>1, <2>3, <3>1, <3>2, ClientReadonly
  <2> QED
    BY <1>1, <2>5, <2>6 DEF Protected
<1> QED
  BY <1>1, <1>2, <1>3 DEF Working

\* The server at its own steps.
LEMMA ServerProtected ==
  ASSUME Types, Locks, Posting, Serving, Protected, Clients \subseteq alive,
         NEW s \in Servers, StartByHand(s) \/ ServerStep(s),
         NEW d \in Drives, Settled(s, d)'
  PROVE  drive'[d].readonly = loaded'[s][d].readonly
<1>0. /\ Serves(s) /\ s \in Pids /\ spc[s] \in ServerPCs
      /\ Settled(s, d) => drive[d].readonly = loaded[s][d].readonly
      /\ cpc' = cpc /\ call' = call
  BY PidFacts, ServerMoves DEF Serving, Types, Protected, clientvars
<1>1. /\ spc'[s] \in Working /\ drive'[d].file # NoFile
      /\ \A c \in Clients : cpc[c] = "posting" => call[c].drive # d
  BY <1>0 DEF Settled
<1>2. CASE SvrInitialize(s)
  <2>1. command' # Cmd("LOAD", d)
    BY <1>2 DEF Settled, SvrInitialize, ServerAt, Types, Resting
  <2> QED
    BY <1>1, <1>2, <2>1, ServerDrives DEF SvrInitialize
<1>3. CASE Setup(s) \/ NothingToDo(s) \/ SvrSleep(s) \/ SvrWoken(s)
  <2>1. /\ UNCHANGED <<command, drive, loaded>>
        /\ spc[s] \in Resting /\ spc'[s] \in Resting
    BY <1>3 DEF Setup, NothingToDo, SvrSleep, SvrWoken, pagevars, servervars, ServerAt,
       Types, Resting
  <2>2. Settled(s, d)
    BY <1>1, <2>1 DEF Settled, Working
  <2> QED
    BY <1>0, <2>1, <2>2
<1>4. CASE StartLoad(s)
  <2>1. /\ UNCHANGED <<command, drive, loaded>>
        /\ spc[s] = "top" /\ spc'[s] = "load"
    BY <1>4 DEF StartLoad, pagevars, ServerAt, Types
  <2>2. d # command.drive
    BY <2>1 DEF Settled, Resting
  <2>3. Settled(s, d)
    BY <1>1, <2>1, <2>2, CommandFacts DEF Settled, Working, Resting
  <2> QED
    BY <1>0, <2>1, <2>3
<1>5. CASE LoadFile(s)
  <2>1. /\ UNCHANGED <<command, drive>> /\ spc[s] = "load"
        /\ spc'[s] \in {"loadok", "loadfailed"}
    BY <1>0, <1>5 DEF LoadFile, pagevars, ServerAt, Types
  <2>2. d # command.drive
    BY <2>1 DEF Settled, Resting
  <2>3. Settled(s, d)
    BY <1>1, <2>1, <2>2 DEF Settled, Working, Resting, Loading
  <2> QED
    BY <1>0, <1>5, <2>1, <2>2, <2>3, LoadedChanges
<1>6. CASE FinishLoad(s)
  <2>1. /\ loaded' = loaded /\ spc[s] \in {"loadok", "loadfailed"} /\ command = seen[s]
    BY <1>0, <1>6 DEF FinishLoad, ServerAt, Serves, Loading
  <2>2. /\ drive'[d].readonly = drive[d].readonly
        /\ drive'[d].file = IF spc[s] = "loadfailed" /\ d = command.drive
                            THEN NoFile ELSE drive[d].file
    BY <1>6, ServerDrives
  <2>3. CASE d = command.drive
    <3>1. spc[s] = "loadok"
      BY <1>1, <2>1, <2>2, <2>3
    <3> QED
      BY <1>0, <2>1, <2>2, <2>3, <3>1 DEF Serves
  <2>4. CASE d # command.drive
    <3>1. Settled(s, d)
      BY <1>1, <2>1, <2>2, <2>4 DEF Settled, Working, Resting, Loading
    <3> QED
      BY <1>0, <2>1, <2>2, <3>1
  <2> QED
    BY <2>3, <2>4
<1>7. CASE UnloadFile(s)
  <2>1. spc[s] = "top" /\ command.op = "UNLD"
    BY <1>7 DEF UnloadFile, ServerAt
  <2>2. /\ drive'[d].readonly = drive[d].readonly
        /\ drive'[d].file = IF d = command.drive THEN NoFile ELSE drive[d].file
    BY <1>7, ServerDrives
  <2>3. d # command.drive /\ loaded'[s][d] = loaded[s][d]
    BY <1>1, <1>7, <2>2, LoadedChanges
  <2>4. command # Cmd("LOAD", d)
    BY <2>1, CommandFacts
  <2>5. Settled(s, d)
    BY <1>1, <2>1, <2>2, <2>3, <2>4 DEF Settled, Working, Resting
  <2> QED
    BY <1>0, <2>2, <2>3, <2>5
<1>8. CASE StartByHand(s) \/ Daemon(s) \/ LockDevice(s) \/ DeviceTaken(s) \/ Duplicate(s)
  BY <1>1, <1>8 DEF StartByHand, Daemon, LockDevice, DeviceTaken, Duplicate, Exit, ServerAt,
     Types, Working, Resting, Loading
<1> QED
  BY <1>2, <1>3, <1>4, <1>5, <1>6, <1>7, <1>8 DEF ServerStep

\* Another server's step leaves the one at work, its page and its files alone.
LEMMA OtherServer ==
  ASSUME Types, Locks, NEW s \in Servers, StartByHand(s) \/ ServerStep(s),
         NEW t \in Servers, t # s, spc'[t] \in Working
  PROVE  UNCHANGED <<command, drive>> /\ spc'[t] = spc[t] /\ loaded'[t] = loaded[t]
<1>1. spc'[t] = spc[t] /\ loaded'[t] = loaded[t]
  BY ServerMoves, ServerFiles
<1>2. spc[s] \notin Working \cup {"init"}
  BY <1>1, OneWorker
<1> QED
  BY <1>1, <1>2, ServerFiles, ServerCommands
     DEF SvrInitialize, FinishLoad, UnloadFile, ServerAt, Working, Resting, Loading

\* The page tells the write protection of the server's files.
LEMMA ProtectedPreserved ==
  Types /\ Locks /\ Posting /\ Serving /\ Protected /\ Results /\ [Next]_vars => Protected'
<1> SUFFICES ASSUME Types, Locks, Posting, Serving, Protected, Results, [Next]_vars,
                    (Clients \subseteq alive)',
                    NEW s \in Servers, NEW d \in Drives, Settled(s, d)'
             PROVE  drive'[d].readonly = loaded'[s][d].readonly
  BY DEF Protected
<1>0. Clients \subseteq alive
  BY NoneReturns
<1>1. ASSUME NEW t \in Servers, t # s, StartByHand(t) \/ ServerStep(t)
      PROVE  drive'[d].readonly = loaded'[s][d].readonly
  <2>1. /\ UNCHANGED <<command, drive, cpc, call>> /\ spc'[s] = spc[s]
        /\ loaded'[s] = loaded[s]
    BY <1>1, OtherServer, ServerMoves DEF Settled, clientvars
  <2>2. Settled(s, d)
    BY <2>1 DEF Settled
  <2> QED
    BY <1>0, <2>1, <2>2 DEF Protected
<1>2. ASSUME NEW p \in Pids, Die(p)
      PROVE  drive'[d].readonly = loaded'[s][d].readonly
  <2>1. /\ UNCHANGED <<command, drive>> /\ p \notin Clients
        /\ spc'[s] = spc[s] /\ loaded'[s] = loaded[s]
    BY <1>2, DeathMoves DEF Settled, Working, Resting, Loading
  <2>2. \A c \in Clients : cpc'[c] = cpc[c] /\ call'[c] = call[c]
    BY <1>2, <2>1, DeathMoves
  <2>3. Settled(s, d)
    BY <2>1, <2>2 DEF Settled
  <2> QED
    BY <1>0, <2>1, <2>3 DEF Protected
<1>3. CASE UNCHANGED vars
  <2>1. UNCHANGED <<command, drive, cpc, call, spc, loaded>>
    BY <1>3 DEF vars, pagevars, clientvars, servervars
  <2>2. Settled(s, d)
    BY <2>1 DEF Settled
  <2> QED
    BY <1>0, <2>1, <2>2 DEF Protected
<1> QED
  BY <1>0, <1>1, <1>2, <1>3, ClientProtected, ServerProtected DEF Next

-----------------------------------------------------------------------------
(* Results. *)

\* A process that was known as the server does not come to life again.
LEMMA ServersStayDead ==
  ASSUME Types, Locks, Started, [Next]_vars, NEW p \in Servers \cup {NoPid},
         p = svrpid \/ \E c \in Clients : p = oldsvr[c], p \in alive'
  PROVE  p \in alive /\ p \in Servers
<1>1. p \in Servers
  <2>1. NoPid \notin alive'
    <3>1. NoPid \notin alive /\ NoPid \notin Pids
      BY PidsAssumption DEF Types, TypeOK, Pids
    <3>2. ASSUME NEW c \in Clients, Begin(c) \/ ClientStep(c) \/ ForkFails(c) \/ TooLong(c)
          PROVE  NoPid \notin alive'
      BY <3>1, <3>2, ClientMoves, ForkAdds DEF Pids
    <3>3. ASSUME NEW s \in Servers, StartByHand(s) \/ ServerStep(s)
          PROVE  NoPid \notin alive'
      <4>1. alive' \subseteq alive \cup {s}
        BY <3>3 DEF StartByHand, ServerStep, Daemon, LockDevice, DeviceTaken, Duplicate,
           Exit, SvrInitialize, Setup, StartLoad, LoadFile, FinishLoad, UnloadFile,
           NothingToDo, SvrSleep, SvrWoken
      <4> QED
        BY <3>1, <4>1 DEF Pids
    <3>4. ASSUME NEW q \in Pids, Die(q)
          PROVE  NoPid \notin alive'
      BY <3>1, <3>4, DeathMoves
    <3>5. CASE UNCHANGED vars
      BY <3>1, <3>5 DEF vars
    <3> QED
      BY <3>2, <3>3, <3>4, <3>5 DEF Next
  <2> QED
    BY <2>1
<1>2. spc[p] # "none"
  BY <1>1 DEF Started
<1>3. ASSUME NEW c \in Clients, Begin(c) \/ ClientStep(c) \/ ForkFails(c) \/ TooLong(c)
      PROVE  p \in alive
  BY <1>1, <1>2, <1>3, ClientMoves, ForkAdds
<1>4. ASSUME NEW s \in Servers, StartByHand(s) \/ ServerStep(s)
      PROVE  p \in alive
  BY <1>1, <1>2, <1>4, ServerMoves
<1>5. ASSUME NEW q \in Pids, Die(q)
      PROVE  p \in alive
  BY <1>5, DeathMoves
<1>6. CASE UNCHANGED vars
  <2>1. alive' = alive
    BY <1>6 DEF vars
  <2> QED
    BY <1>1, <2>1
<1> QED
  BY <1>1, <1>3, <1>4, <1>5, <1>6 DEF Next

\* A client that waits and goes on waiting keeps its arguments, and comes to
\* its "done" past the check that the server is still the same.
LEMMA WaitingOn ==
  ASSUME Types, NEW c \in Clients,
         Begin(c) \/ ClientStep(c) \/ ForkFails(c) \/ TooLong(c)
  PROVE  /\ Waiting(c) /\ Waiting(c)' => call'[c] = call[c] /\ oldsvr'[c] = oldsvr[c]
         /\ cpc'[c] = "done" => \/ PostName(c) \/ PostUnload(c)
                                \/ svrpid = oldsvr[c] /\ UNCHANGED <<svrpid, oldsvr>>
         /\ negerr' = negerr
<1> USE DEF ClientAt, ReturnAt, Types
<1>1. CASE MsLock(c) \/ MsLockFork(c)
  <2>1. cpc'[c] \in {"idle", "stat", "relocked", "fork"}
    BY <1>1 DEF MsLock, MsLockFork
  <2>2. UNCHANGED <<call, oldsvr, negerr>>
    BY <1>1 DEF MsLock, MsLockFork, pagevars
  <2> QED
    BY <2>1, <2>2
<1>2. CASE Begin(c) \/ Fork(c) \/ ForkFails(c) \/ Forked(c) \/ Stat(c) \/ TooLong(c)
           \/ Busy(c) \/ SetReadonly(c) \/ Restarted(c) \/ Finish(c)
  BY <1>2 DEF Begin, Fork, ForkFails, Forked, Stat, TooLong, Busy, SetReadonly, Restarted,
     Finish, Waiting, pagevars
<1>3. CASE PostSender(c) \/ PostLoad(c) \/ PostName(c) \/ PostUnload(c)
  BY <1>3 DEF PostSender, PostLoad, PostName, PostUnload, Waiting
<1>4. CASE NotDone(c) \/ Sleep(c) \/ Woken(c) \/ Relocked(c)
  BY <1>4 DEF NotDone, Sleep, Woken, Relocked, Waiting, pagevars
<1> QED
  BY <1>1, <1>2, <1>3, <1>4 DEF ClientStep

\* What a waiting client finds is not touched by a step of a client that
\* leaves the command alone.
LEMMA QuietFinds ==
  ASSUME Types, Locks, Posting, Started, [Next]_vars, NEW b \in Clients,
         Begin(b) \/ ClientStep(b) \/ ForkFails(b) \/ TooLong(b), ~PostName(b),
         NEW c \in Clients, Finds(c), Waiting(c), Waiting(c)',
         call'[c] = call[c], oldsvr'[c] = oldsvr[c], negerr' = negerr, command' = command,
         cpc'[c] = "done" => svrpid' = oldsvr[c]
  PROVE  Finds(c)'
<1>1. oldsvr'[c] \in alive' => /\ oldsvr[c] \in alive /\ oldsvr[c] \in Servers
                               /\ spc[oldsvr[c]] # "none"
  BY ServersStayDead DEF Types, Started
<1>2. oldsvr'[c] \in alive' => svrpid' = oldsvr'[c]
  BY <1>1, PidWriters DEF Finds
<1>3. oldsvr'[c] \in alive' => spc'[oldsvr'[c]] = spc[oldsvr[c]]
  BY <1>1, ClientMoves, ForkAdds
<1>4. \A d \in Drives : drive'[d].file = drive[d].file
  BY ClientFiles
<1> QED
  BY <1>1, <1>2, <1>3, <1>4 DEF Finds

\* Clients at work.
LEMMA ClientFinds ==
  ASSUME Types, Locks, Posting, Started, Answers, Results, [Next]_vars,
         Clients \subseteq alive, NEW b \in Clients,
         Begin(b) \/ ClientStep(b) \/ ForkFails(b) \/ TooLong(b), NEW c \in Clients
  PROVE  Finds(c)'
<1>0. SendersKnown /\ Finds(c)
  BY DEF SendersKnown, Results
<1>1. CASE ~Waiting(c)'
  BY <1>1 DEF Finds, Waiting
<1>2. CASE b = c /\ PostName(c)
  <2>1. /\ cpc'[c] = "done" /\ oldsvr'[c] = svrpid /\ call' = call /\ command' = command
        /\ command = Cmd("LOAD", call[c].drive) /\ call[c].op \in {"load", "keep"}
    BY <1>2, SenderPosted
  <2>2. /\ call[c].drive \in Drives
        /\ call[c].op = "load" => drive'[call[c].drive].file = call[c].file
    BY <1>2, ClientDrives
  <2>3. svrpid' = svrpid
    BY <1>2 DEF PostName
  <2>4. command' # Done
    BY <2>1, <2>2, CommandFacts
  <2> QED
    BY <2>1, <2>2, <2>3, <2>4 DEF Finds
<1>3. CASE b = c /\ PostUnload(c)
  <2>1. /\ cpc'[c] = "done" /\ oldsvr'[c] = svrpid /\ call' = call
        /\ command' = Cmd("UNLD", call[c].drive) /\ call[c].op = "unload"
    BY <1>3, SenderPosted
  <2>2. call[c] \in Calls \cup {NoCall} /\ svrpid' = svrpid
    BY <1>3 DEF PostUnload, Types
  <2>3. call[c].drive \in Drives
    BY <2>1, <2>2, CallFacts
  <2>4. command' # Done
    BY <2>1, <2>3, CommandFacts
  <2> QED
    BY <2>1, <2>2, <2>3, <2>4 DEF Finds
<1>4. CASE b = c /\ Waiting(c)' /\ ~PostName(c) /\ ~PostUnload(c)
  <2>1. command' = command /\ Waiting(c)
    BY <1>4, ClientCommands, SenderPosted DEF Waiting
  <2>2. /\ call'[c] = call[c] /\ oldsvr'[c] = oldsvr[c] /\ negerr' = negerr
        /\ cpc'[c] = "done" => svrpid' = oldsvr[c]
    BY <1>4, <2>1, WaitingOn
  <2> QED
    BY <1>0, <1>4, <2>1, <2>2, QuietFinds
<1>5. CASE b # c /\ Waiting(c)'
  <2>1. /\ cpc'[c] = cpc[c] /\ call'[c] = call[c] /\ oldsvr'[c] = oldsvr[c]
        /\ Waiting(c) /\ negerr' = negerr
    BY <1>5, ClientMoves, WaitingOn DEF Waiting
  <2>2. ~IsIdle(b) /\ cpc[b] \notin {"posting", "naming"} /\ ~Waiting(b)
    BY <1>0, <1>5, <2>1, NobodyWaits DEF Answers
  <2>3. command' = command /\ ~PostName(b)
    BY <2>2, ClientCommands, SenderPosted DEF Waiting
  <2>4. cpc'[c] = "done" => svrpid' = oldsvr[c]
    <3>1. cpc[c] = "done" => ~Free
      BY Alone DEF Inside
    <3> QED
      BY <1>0, <2>1, <3>1, PidWriters DEF Finds
  <2> QED
    BY <1>0, <1>5, <2>1, <2>3, <2>4, QuietFinds
<1> QED
  BY <1>1, <1>2, <1>3, <1>4, <1>5

\* What a server's step does to the files in the page and to the result.
LEMMA ServerResults ==
  ASSUME Types, Locks, Serving, NEW s \in Servers, StartByHand(s) \/ ServerStep(s),
         NEW d \in Drives
  PROVE  \/ UNCHANGED <<command, negerr>> /\ drive'[d].file = drive[d].file
         \/ /\ UNCHANGED <<command, negerr>> /\ spc[s] = "init"
            /\ drive'[d].file = IF command = Cmd("LOAD", d) THEN drive[d].file ELSE NoFile
         \/ /\ command' = Done /\ spc[s] \in Working /\ command.op = "LOAD"
            /\ negerr' \/ drive'[d].file = drive[d].file
         \/ /\ command' = Done /\ spc[s] \in Working /\ command.op = "UNLD"
            /\ drive'[d].file = IF d = command.drive THEN NoFile ELSE drive[d].file
<1>1. CASE SvrInitialize(s)
  BY <1>1, ServerDrives DEF SvrInitialize, ServerAt
<1>2. CASE FinishLoad(s)
  <2>1. /\ command' = Done /\ spc[s] \in Working /\ command.op = "LOAD"
        /\ spc[s] = "loadfailed" => negerr' = TRUE
    BY <1>2 DEF FinishLoad, ServerAt, Serving, Serves, Working, Loading
  <2> QED
    BY <1>2, <2>1, ServerDrives
<1>3. CASE UnloadFile(s)
  <2>1. command' = Done /\ spc[s] \in Working /\ command.op = "UNLD"
    BY <1>3 DEF UnloadFile, ServerAt, Working, Resting
  <2> QED
    BY <1>3, <2>1, ServerDrives
<1>4. CASE ~(SvrInitialize(s) \/ FinishLoad(s) \/ UnloadFile(s))
  <2>1. UNCHANGED <<command, negerr, drive>>
    BY <1>4 DEF StartByHand, ServerStep, Daemon, LockDevice, DeviceTaken, Duplicate, Exit,
       Setup, StartLoad, LoadFile, NothingToDo, SvrSleep, SvrWoken, pagevars
  <2> QED
    BY <2>1
<1> QED
  BY <1>1, <1>2, <1>3, <1>4

\* A server at work.
LEMMA ServerFinds ==
  ASSUME Types, Locks, Serving, Registered, Started, Results, [Next]_vars,
         Clients \subseteq alive, NEW s \in Servers, StartByHand(s) \/ ServerStep(s),
         NEW c \in Clients
  PROVE  Finds(c)'
<1> DEFINE k == call[c]  o == oldsvr[c]
<1>0. /\ Finds(c) /\ o \in Servers \cup {NoPid}
      /\ UNCHANGED <<cpc, call, next, oldsvr>>
      /\ Waiting(c)' <=> Waiting(c)
  BY ServerMoves DEF Results, Types, clientvars, Waiting
<1>1. o \in alive' => o \in alive /\ o \in Servers /\ spc[o] # "none"
  BY <1>0, ServersStayDead DEF Started
<1>2. svrpid' = svrpid \/ (cpc[c] # "done" /\ svrpid \notin alive)
  <2>1. CASE Daemon(s) /\ spc[s] = "daemon"
    <3>1. svrpid = NoPid /\ \E b \in Clients : cpc[b] = "forked"
      BY <2>1 DEF Registered
    <3>2. NoPid \notin alive
      BY PidsAssumption DEF Types, TypeOK, Pids
    <3> QED
      BY <3>1, <3>2, Alone DEF Inside
  <2>2. CASE SvrInitialize(s) /\ Free /\ svrpid' = s /\ (svrpid = s \/ svrpid \notin alive)
    BY <2>2, Alone DEF Inside
  <2> QED
    BY <2>1, <2>2, PidWriters
<1>3. ASSUME Waiting(c)
      PROVE  /\ k.op \in {"load", "keep", "unload"} /\ k.drive \in Drives
             /\ o \in alive' => svrpid' = o
             /\ \/ command' = Done
                \/ command' = Cmd(IF k.op = "unload" THEN "UNLD" ELSE "LOAD", k.drive)
             /\ command' = Done /\ o \in alive' => spc'[o] \in Working
             /\ k.op = "unload" /\ command' = Done => drive'[k.drive].file = NoFile
             /\ k.op = "load" /\ (command' = Done => o \in alive' /\ ~negerr') =>
                  drive'[k.drive].file = k.file
  <2>1. /\ k.op \in {"load", "keep", "unload"} /\ k.drive \in Drives
        /\ o \in alive => svrpid = o
        /\ command = Done \/ command = Cmd(IF k.op = "unload" THEN "UNLD" ELSE "LOAD", k.drive)
        /\ command = Done /\ o \in alive => spc[o] \in Working
        /\ k.op = "unload" /\ command = Done => drive[k.drive].file = NoFile
        /\ k.op = "load" /\ (command = Done => o \in alive /\ ~negerr) =>
             drive[k.drive].file = k.file
    BY <1>0, <1>3 DEF Finds
  <2>2. o \in alive' => svrpid' = o
    BY <1>1, <1>2, <2>1
  <2>3. command' = command \/ command' = Done
    BY ServerCommands
  <2>4. /\ command.op = "LOAD" => k.op # "unload" /\ command # Done
        /\ command.op = "UNLD" => /\ k.op = "unload" /\ command # Done
                                  /\ command.drive = k.drive
        /\ command = Done => command.op \notin {"LOAD", "UNLD"}
    BY <2>1, CommandFacts
  <2>5. command' = Done /\ o \in alive' => spc'[o] \in Working
    <3>1. CASE command' = command
      <4>1. command' = Done /\ o \in alive' => spc[o] \in Working
        BY <1>1, <2>1, <3>1
      <4> QED
        BY <1>1, <4>1, ServerMoves
    <3>2. CASE command' # command
      <4>1. spc[s] \in Working
        BY <3>2, <2>1, ServerResults
      <4>2. svrpid = s /\ spc'[s] \in Working
        BY <4>1, ServerMoves DEF Registered
      <4> QED
        BY <1>1, <2>1, <4>2
    <3> QED
      BY <3>1, <3>2
  <2>6. k.op = "unload" /\ command' = Done => drive'[k.drive].file = NoFile
    BY <2>1, <2>3, <2>4, ServerResults
  <2>7. ASSUME k.op = "load", command' = Done => o \in alive' /\ ~negerr'
        PROVE  drive'[k.drive].file = k.file
    <3>1. CASE command' = command /\ command = Done
      <4>1. spc[s] # "init"
        BY <1>1, <2>1, <2>7, <3>1, OneWorker DEF Working, Resting, Loading
      <4> QED
        BY <1>1, <2>1, <2>4, <2>7, <3>1, <4>1, ServerResults
    <3>2. CASE command # Done
      BY <2>1, <2>4, <2>7, <3>2, ServerResults
    <3> QED
      BY <2>3, <3>1, <3>2
  <2> QED
    BY <2>1, <2>2, <2>3, <2>5, <2>6, <2>7
<1>4. cpc[c] = "done" => svrpid' = o
  BY <1>0, <1>2 DEF Finds
<1> QED
  BY <1>0, <1>3, <1>4 DEF Finds

\* Whoever waits for an answer finds what it asked for.
LEMMA ResultsPreserved ==
  Types /\ Locks /\ Posting /\ Serving /\ Registered /\ Started /\ Answers /\ Results
    /\ [Next]_vars => Results'
<1> SUFFICES ASSUME Types, Locks, Posting, Serving, Registered, Started, Answers, Results,
                    [Next]_vars, (Clients \subseteq alive)', NEW c \in Clients
             PROVE  Finds(c)'
  BY DEF Results
<1>0. Clients \subseteq alive /\ Finds(c)
  BY NoneReturns DEF Results
<1>1. ASSUME NEW p \in Pids, Die(p)
      PROVE  Finds(c)'
  <2>1. /\ UNCHANGED <<svrpid, command, negerr, drive>> /\ p \notin Clients
        /\ cpc'[c] = cpc[c] /\ call'[c] = call[c] /\ next'[c] = next[c]
        /\ oldsvr'[c] = oldsvr[c]
    BY <1>1, DeathMoves
  <2>2. oldsvr[c] \in alive' => /\ oldsvr[c] \in alive /\ oldsvr[c] \in Servers
                                /\ oldsvr[c] # p
    BY <1>1, DeathMoves, ServersStayDead DEF Types
  <2>3. oldsvr[c] \in alive' => spc'[oldsvr[c]] = spc[oldsvr[c]]
    BY <1>1, <2>2, DeathMoves
  <2> QED
    BY <1>0, <2>1, <2>2, <2>3 DEF Finds, Waiting
<1>2. CASE UNCHANGED vars
  <2>1. UNCHANGED <<svrpid, command, negerr, drive, cpc, call, next, oldsvr, alive, spc>>
    BY <1>2 DEF vars, pagevars, clientvars, servervars
  <2> QED
    BY <1>0, <2>1 DEF Finds, Waiting
<1> QED
  BY <1>0, <1>1, <1>2, ClientFinds, ServerFinds DEF Next

-----------------------------------------------------------------------------
(* The invariant and what follows from it. *)

\* The empty page, with no server, satisfies it.
LEMMA MsInitially == Init => MsInv
<1> SUFFICES ASSUME Init PROVE MsInv
  OBVIOUS
<1>1. \A c \in Clients : cpc[c] = "out" /\ call[c] = NoCall /\ next[c] = "idle"
                         /\ oldsvr[c] = NoPid
  BY DEF Init
<1>2. \A s \in Servers : spc[s] = "none" /\ loaded[s] = Files0
  BY DEF Init, Files0
<1>3. alive = Clients /\ \A s \in Servers : s \notin alive /\ s # NoPid
  BY PidFacts DEF Init
<1>4. Types
  <2>1. Files0 \in [Drives -> Medium]
    BY DEF Files0, Nothing, Medium
  <2>2. drive \in [Drives -> Entry]
    BY FnseqAssumption DEF Init, Entry
  <2>3. /\ loaded \in [Servers -> [Drives -> Medium]]
        /\ seen \in [Pids -> Commands] /\ command \in Commands
    BY <2>1, CommandFacts DEF Init, Files0
  <2> QED
    BY <2>2, <2>3 DEF Init, Types, TypeOK, Pids, ClientPCs, ServerPCs
<1>5. Locks /\ Posting /\ Registered /\ Started
  BY <1>1, <1>2, <1>3 DEF Init, Locks, Posting, Registered, Started, Inside, Working, Resting,
     Loading
<1>6. Serving /\ Protected
  BY <1>2 DEF Serving, Serves, Protected, Settled, Working, Resting, Loading
<1>7. Answers /\ Results
  BY <1>1 DEF Answers, Results, Finds, Waiting
<1> QED
  BY <1>4, <1>5, <1>6, <1>7 DEF MsInv

\* Every reachable state satisfies it: the types, the locks, and what client
\* and server each find in the page.
THEOREM MsInvariance == Spec => []MsInv
<1>1. MsInv /\ [Next]_vars => MsInv'
  BY TypesPreserved, LocksPreserved, PostingPreserved, ServingPreserved,
     RegisteredPreserved, StartedPreserved, AnswersPreserved, ProtectedPreserved,
     ResultsPreserved DEF MsInv
<1> QED
  BY MsInitially, <1>1, PTL DEF Spec

\* As long as no client has died, the server at work is the one whose pid is
\* in the page, so that clients find it and a second one exits (shmms.cc).
THEOREM RegisteredServer == Spec => []WorkerIsRegistered
<1>1. MsInv => WorkerIsRegistered
  BY DEF MsInv, Registered, WorkerIsRegistered, Working, Resting, Loading
<1> QED
  BY <1>1, MsInvariance, PTL

\* Between commands the page shows the files that a running server has open,
\* and, unless a client died, their write protection, whatever loads failed
\* and whoever died before.
THEOREM PageIsTrue == Spec => []ShownIsLoaded
<1>1. ASSUME MsInv, command = Idle, Free, svrpid \in alive,
             spc[svrpid] \in {"top", "wait", "asleep"}, NEW d \in Drives
      PROVE  /\ drive[d].file = loaded[svrpid][d].file
             /\ drive[d].file # NoFile /\ Clients \subseteq alive =>
                  drive[d].readonly = loaded[svrpid][d].readonly
  <2>1. svrpid \in Servers
    BY <1>1, PidsAssumption DEF MsInv, Types, TypeOK, Pids
  <2>2. spc[svrpid] \in Resting /\ command # Cmd("LOAD", d)
    BY <1>1, CommandFacts DEF Resting
  <2>3. drive[d].file = loaded[svrpid][d].file
    BY <1>1, <2>1, <2>2, RestingShows DEF MsInv, Serving
  <2>4. \A c \in Clients : cpc[c] # "posting"
    BY <1>1, Alone DEF MsInv, Inside
  <2>5. drive[d].file # NoFile => Settled(svrpid, d)
    BY <2>2, <2>4 DEF Settled, Working
  <2> QED
    BY <1>1, <2>1, <2>3, <2>5 DEF MsInv, Protected
<1>2. MsInv => ShownIsLoaded
  BY <1>1 DEF ShownIsLoaded
<1> QED
  BY <1>2, MsInvariance, PTL

\* No two clients wait for an answer at once, as long as the sender of a
\* command can be told: no client died, or nobody unloads.
THEOREM OneAtATime == Spec => [](SendersKnown => OneWaiter)
<1>1. MsInv => (SendersKnown => OneWaiter)
  BY DEF MsInv, Types, Answers, OneWaiter
<1> QED
  BY <1>1, MsInvariance, PTL

\* A client that takes an answer takes its own; and if that is success and no
\* client died, the server that runs now has done what was asked, also when
\* a server died in between.
THEOREM OwnAnswer == Spec => [](SendersKnown => SuccessIsReal)
<1>1. ASSUME MsInv, SendersKnown, NEW c \in Clients, cpc[c] = "done", command = Done
      PROVE  /\ asked = c
             /\ Clients \subseteq alive /\ svrpid \in alive
                /\ spc[svrpid] \in {"top", "wait", "asleep"} =>
                  /\ call[c].op = "load" /\ ~negerr =>
                       loaded[svrpid][call[c].drive].file = call[c].file
                  /\ call[c].op = "unload" =>
                       loaded[svrpid][call[c].drive].file = NoFile
  <2>1. Waiting(c) /\ asked = c
    BY <1>1 DEF MsInv, Answers, Waiting
  <2>2. ASSUME Clients \subseteq alive, svrpid \in alive,
               spc[svrpid] \in {"top", "wait", "asleep"}
        PROVE  /\ call[c].op = "load" /\ ~negerr =>
                    loaded[svrpid][call[c].drive].file = call[c].file
               /\ call[c].op = "unload" =>
                    loaded[svrpid][call[c].drive].file = NoFile
    <3>1. Finds(c)
      BY <1>1, <2>2 DEF MsInv, Results
    <3>2. svrpid \in Servers /\ oldsvr[c] = svrpid /\ call[c].drive \in Drives
      BY <1>1, <2>1, <2>2, <3>1, PidsAssumption DEF MsInv, Types, TypeOK, Pids, Finds
    <3>3. /\ call[c].op = "load" /\ ~negerr => drive[call[c].drive].file = call[c].file
          /\ call[c].op = "unload" => drive[call[c].drive].file = NoFile
      BY <1>1, <2>1, <2>2, <3>1, <3>2 DEF Finds
    <3>4. command # Cmd("LOAD", call[c].drive)
      BY <1>1, <3>2, CommandFacts
    <3>5. drive[call[c].drive].file = loaded[svrpid][call[c].drive].file
      BY <1>1, <2>2, <3>2, <3>4, RestingShows DEF MsInv, Serving, Resting
    <3> QED
      BY <3>3, <3>5
  <2> QED
    BY <2>1, <2>2
<1>2. MsInv => (SendersKnown => SuccessIsReal)
  BY <1>1 DEF SuccessIsReal
<1> QED
  BY <1>2, MsInvariance, PTL

\* An answer is left in the page for the client that waits for it, as long as
\* it lives, if the sender of a command can always be told.
THEOREM AnswerIsKept ==
  ASSUME "unload" \notin Ops \/ MayDie \cap Clients = {}
  PROVE  Spec => DoneKeptForSender
<1>1. Init => SendersKnown
  BY DEF Init, SendersKnown
<1>2. MsInv /\ SendersKnown /\ [Next]_vars => SendersKnown'
  <2> SUFFICES ASSUME MsInv, [Next]_vars, Clients \subseteq alive, MayDie \cap Clients = {}
               PROVE  Clients \subseteq alive'
    BY DEF SendersKnown
  <2>1. ASSUME NEW c \in Clients, Begin(c) \/ ClientStep(c) \/ ForkFails(c) \/ TooLong(c)
        PROVE  Clients \subseteq alive'
    BY <2>1, ClientMoves DEF MsInv
  <2>2. ASSUME NEW s \in Servers, StartByHand(s) \/ ServerStep(s)
        PROVE  Clients \subseteq alive'
    BY <2>2, ServerMoves DEF MsInv
  <2>3. ASSUME NEW p \in Pids, Die(p)
        PROVE  Clients \subseteq alive'
    BY <2>3, DeathMoves DEF MsInv
  <2>4. CASE UNCHANGED vars
    BY <2>4 DEF vars
  <2> QED
    BY <2>1, <2>2, <2>3, <2>4 DEF Next
<1>3. ASSUME MsInv, SendersKnown, [Next]_vars, command = Done, command' # Done,
             Waiting(asked), asked \in alive
      PROVE  cpc'[asked] = "out"
  <2>0. asked \in Clients
    <3>1. asked # NoPid
      BY <1>3, PidsAssumption DEF MsInv, Types, TypeOK, Pids
    <3> QED
      BY <1>3, <3>1 DEF MsInv, Types, TypeOK
  <2>1. ASSUME NEW c \in Clients, Begin(c) \/ ClientStep(c) \/ ForkFails(c) \/ TooLong(c)
        PROVE  cpc'[asked] = "out"
    <3>1. ~IsIdle(c)
      BY <1>3, <2>0, NobodyWaits DEF MsInv
    <3>2. Finish(c) /\ cpc[c] = "done"
      BY <1>3, <2>1, <3>1, CommandFacts, ClientCommands DEF MsInv
    <3>3. c = asked
      BY <1>3, <3>2 DEF MsInv, Answers, Waiting
    <3>4. cpc' = [cpc EXCEPT ![c] = "out"] /\ cpc \in [Clients -> ClientPCs]
      BY <1>3, <3>2 DEF Finish, ReturnAt, ClientAt, MsInv, Types
    <3> QED
      BY <2>0, <3>3, <3>4
  <2>2. ASSUME NEW s \in Servers, StartByHand(s) \/ ServerStep(s)
        PROVE  FALSE
    BY <1>3, <2>2, ServerCommands DEF MsInv
  <2>3. ASSUME NEW p \in Pids, Die(p)
        PROVE  FALSE
    BY <1>3, <2>3, DeathMoves DEF MsInv
  <2>4. CASE UNCHANGED vars
    BY <1>3, <2>4 DEF vars, pagevars
  <2> QED
    BY <2>1, <2>2, <2>3, <2>4, <1>3 DEF Next
<1>4. MsInv /\ SendersKnown /\ [Next]_vars =>
        [command = Done /\ command' # Done =>
           asked \notin alive \/ ~Waiting(asked) \/ cpc'[asked] = "out"]_vars
  BY <1>3
<1> QED
  BY <1>1, <1>2, <1>4, MsInvariance, PTL DEF Spec, DoneKeptForSender

=============================================================================
