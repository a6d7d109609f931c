------------------------------- MODULE KyDma -------------------------------
(***************************************************************************)
(* The DMA engine of ky11.v and the ARM threads that drive it: dmaread,    *)
(* dmawrite and dmawbyte, each between a dmalock and a dmaunlk (DmaLock).  *)
(*                                                                         *)
(* A thread writes the data and the command registers, polls until the     *)
(* engine says idle and reads the result.  The engine takes the bus, does  *)
(* one cycle and goes back to idle; a bus reset (INIT) throws it back to   *)
(* idle at any moment.  The engine ignores commands while it is busy, so   *)
(* it matters what it was doing when the lock changed hands.               *)
(*                                                                         *)
(* The two byte lanes of DATOB are not told apart: dmawbyte is a write.    *)
(***************************************************************************)
EXTENDS DmaLock

CONSTANTS
  Addrs, Exists, BadParity, Values, NoReq,   \* see DmaService
  MayAbandon   \* whether a thread may die, or give up, with the engine busy

ASSUME MayAbandonAssumption == MayAbandon \in BOOLEAN
ASSUME AddrsAssumption == BadParity \subseteq Exists /\ Exists \subseteq Addrs

VARIABLES
  dmastate,    \* ky11.v: 0 idle, 1 request, 2 wantbus, 4 cycle, 5 latch, 6 finish
  dmatimo, dmaperr, dmactrl, dmaaddr, dmadata,   \* ky11.v registers
  initing,     \* init_in_h
  ssyn, bus,   \* the slave has answered; the data it drives
  mem,         \* memory and registers on the unibus
  dpc,         \* per thread: where it is in dmaread / dmawrite
  req,         \* per thread: the call's arguments
  ret,         \* per thread: what it has read back
  clean,       \* history: no register write of the call was ignored
  last         \* history: the last bus cycle a slave answered

engine == <<dmastate, dmatimo, dmaperr, dmactrl, dmaaddr, dmadata>>
busvars == <<initing, ssyn, bus, mem, last>>
calls == <<dpc, req, ret, clean>>
kyvars == <<engine, busvars, calls>>
dmavars == <<lockvars, kyvars>>

Reads  == [op : {"DATI"}, addr : Addrs]
Writes == [op : {"DATO"}, addr : Addrs, data : Values]
Requests == Reads \cup Writes

NoRet == [timo |-> TRUE, perr |-> FALSE, data |-> NoReq]
NoCycle == [op |-> "none", addr |-> NoReq, data |-> NoReq]

KyTypeOK ==
  /\ LockTypeOK
  /\ dmastate \in {"idle", "request", "wantbus", "cycle", "latch", "finish"}
  /\ dmatimo \in BOOLEAN /\ dmaperr \in BOOLEAN
  /\ dmactrl \in {"DATI", "DATO"} /\ dmaaddr \in Addrs /\ dmadata \in Values
  /\ initing \in BOOLEAN /\ ssyn \in BOOLEAN /\ bus \in Values
  /\ mem \in [Exists -> Values]
  /\ dpc \in [Threads -> {"none", "data", "start", "poll", "fetch", "timo",
                          "reply", "thrown"}]
  /\ req \in [Threads -> Requests \cup {NoReq}]
  /\ ret \in [Threads -> [timo : BOOLEAN, perr : BOOLEAN,
                          data : Values \cup {NoReq}]]
  /\ clean \in [Threads -> BOOLEAN]
  /\ last \in [op : {"DATI", "DATO", "none"}, addr : Addrs \cup {NoReq},
               data : Values \cup {NoReq}]

KyInit ==
  /\ LockInit
  /\ dmastate = "idle" /\ dmatimo = FALSE /\ dmaperr = FALSE
  /\ dmactrl = "DATI" /\ dmaaddr \in Addrs /\ dmadata \in Values
  /\ initing = FALSE /\ ssyn = FALSE /\ bus = dmadata
  /\ mem = [a \in Exists |-> dmadata]
  /\ dpc = [t \in Threads |-> "none"]
  /\ req = [t \in Threads |-> NoReq]
  /\ ret = [t \in Threads |-> NoRet]
  /\ clean = [t \in Threads |-> TRUE]
  /\ last = NoCycle

-----------------------------------------------------------------------------
(* dmareadlocked, dmawritelocked, dmawbytelocked: t holds the lock *)

Step(t, from, to) == dpc[t] = from /\ dpc' = [dpc EXCEPT ![t] = to]

\* the engine takes register writes only when idle
Accepts == dmastate = "idle"

Call(t, r) ==
  /\ pc[t] = "held"
  /\ Step(t, "none", IF r.op = "DATO" THEN "data" ELSE "start")
  /\ req' = [req EXCEPT ![t] = r]
  /\ UNCHANGED <<lockvars, engine, busvars, ret, clean>>

\* ZWR (kyat[4], data)
PutData(t) ==
  /\ Step(t, "data", "start")
  /\ dmadata' = IF Accepts THEN req[t].data ELSE dmadata
  /\ clean' = [clean EXCEPT ![t] = Accepts]
  /\ UNCHANGED <<lockvars, dmastate, dmatimo, dmaperr, dmactrl, dmaaddr,
                 busvars, req, ret>>

\* Variant: dmatimo is not preset, so that a timeout looks like success.
Start_NoPreset(t) ==
  /\ Step(t, "start", "poll")
  /\ clean' = [clean EXCEPT ![t] = @ /\ Accepts]
  /\ IF Accepts
       THEN /\ dmactrl' = req[t].op
            /\ dmaaddr' = req[t].addr
            /\ dmatimo' = FALSE
            /\ dmastate' = IF initing THEN "idle" ELSE "request"
       ELSE UNCHANGED <<dmactrl, dmaaddr, dmatimo, dmastate>>
  /\ UNCHANGED <<lockvars, dmaperr, dmadata, busvars, req, ret>>

\* ZWR (kyat[3], start + control + address); during INIT it starts nothing
Start(t) ==
  /\ Step(t, "start", "poll")
  /\ clean' = [clean EXCEPT ![t] = @ /\ Accepts]
  /\ IF Accepts
       THEN /\ dmactrl' = req[t].op
            /\ dmaaddr' = req[t].addr
            /\ dmatimo' = TRUE
            /\ dmastate' = IF initing THEN "idle" ELSE "request"
       ELSE UNCHANGED <<dmactrl, dmaaddr, dmatimo, dmastate>>
  /\ UNCHANGED <<lockvars, dmaperr, dmadata, busvars, req, ret>>

\* Variant: the poll does not wait.
PollIdle_NoWait(t) ==
  /\ Step(t, "poll", IF req[t].op = "DATI" THEN "fetch" ELSE "timo")
  /\ ret' = [ret EXCEPT ![t].timo = dmatimo, ![t].perr = dmaperr]
  /\ UNCHANGED <<lockvars, engine, busvars, req, clean>>

\* the poll that finds the engine idle; it returns the error bits too
PollIdle(t) ==
  /\ dmastate = "idle"
  /\ Step(t, "poll", IF req[t].op = "DATI" THEN "fetch" ELSE "timo")
  /\ ret' = [ret EXCEPT ![t].timo = dmatimo, ![t].perr = dmaperr]
  /\ UNCHANGED <<lockvars, engine, busvars, req, clean>>

\* a read fetches the data register
ReadData(t) ==
  /\ Step(t, "fetch", "reply")
  /\ ret' = [ret EXCEPT ![t].data = dmadata]
  /\ UNCHANGED <<lockvars, engine, busvars, req, clean>>

\* a write reads the timeout bit once more
ReadTimo(t) ==
  /\ Step(t, "timo", "reply")
  /\ ret' = [ret EXCEPT ![t].timo = dmatimo]
  /\ UNCHANGED <<lockvars, engine, busvars, req, clean>>

Cleared(t) == /\ req' = [req EXCEPT ![t] = NoReq]
              /\ ret' = [ret EXCEPT ![t] = NoRet]
              /\ clean' = [clean EXCEPT ![t] = TRUE]

Return(t) ==
  /\ Step(t, "reply", "none")
  /\ Cleared(t)
  /\ UNCHANGED <<lockvars, engine, busvars>>

\* polled too often: throw "dma stuck"; dmaread and its like unlock and rethrow
GiveUp(t) ==
  /\ MayAbandon
  /\ dmastate # "idle"
  /\ Step(t, "poll", "thrown")
  /\ Cleared(t)
  /\ UNCHANGED <<lockvars, engine, busvars>>

-----------------------------------------------------------------------------
(* ky11.v *)

Busy(from, to) == ~initing /\ dmastate = from /\ dmastate' = to

\* halted, or the processor granted our NPR: bus master next
Grant ==
  /\ Busy("request", "wantbus")
  /\ dmaperr' = FALSE
  /\ UNCHANGED <<lockvars, dmatimo, dmactrl, dmaaddr, dmadata, busvars, calls>>

\* bus free: drive address, control and data, and MSYN 150 ns later
Drive ==
  /\ Busy("wantbus", "cycle")
  /\ UNCHANGED <<lockvars, dmatimo, dmaperr, dmactrl, dmaaddr, dmadata,
                 busvars, calls>>

\* the addressed memory or register does the cycle and raises SSYN
Slave ==
  /\ dmastate = "cycle" /\ ~initing /\ ~ssyn
  /\ dmaaddr \in Exists
  /\ ssyn' = TRUE
  /\ IF dmactrl = "DATI"
       THEN bus' = mem[dmaaddr] /\ UNCHANGED mem
       ELSE mem' = [mem EXCEPT ![dmaaddr] = dmadata] /\ UNCHANGED bus
  /\ last' = [op |-> dmactrl, addr |-> dmaaddr,
              data |-> IF dmactrl = "DATI" THEN mem[dmaaddr] ELSE dmadata]
  /\ UNCHANGED <<lockvars, engine, initing, calls>>

SeeSsyn ==
  /\ ssyn
  /\ Busy("cycle", "latch")
  /\ UNCHANGED <<lockvars, dmatimo, dmaperr, dmactrl, dmaaddr, dmadata,
                 busvars, calls>>

\* no SSYN within 10 us (a slow slave may just have answered): dmatimo stays
Timeout ==
  /\ Busy("cycle", "idle")
  /\ ssyn' = FALSE
  /\ UNCHANGED <<lockvars, dmatimo, dmaperr, dmactrl, dmaaddr, dmadata,
                 initing, bus, mem, last, calls>>

\* Variant: the sense of the control bit is inverted, reads latch nothing.
Latch_Inverted ==
  /\ Busy("latch", "finish")
  /\ IF dmactrl = "DATO"
       THEN dmadata' = bus /\ dmaperr' = (dmaaddr \in BadParity)
       ELSE UNCHANGED <<dmadata, dmaperr>>
  /\ UNCHANGED <<lockvars, dmatimo, dmactrl, dmaaddr, busvars, calls>>

Latch ==
  /\ Busy("latch", "finish")
  /\ IF dmactrl = "DATI"
       THEN dmadata' = bus /\ dmaperr' = (dmaaddr \in BadParity)
       ELSE UNCHANGED <<dmadata, dmaperr>>
  /\ UNCHANGED <<lockvars, dmatimo, dmactrl, dmaaddr, busvars, calls>>

Finish ==
  /\ Busy("finish", "idle")
  /\ dmatimo' = FALSE
  /\ ssyn' = FALSE
  /\ UNCHANGED <<lockvars, dmaperr, dmactrl, dmaaddr, dmadata,
                 initing, bus, mem, last, calls>>

\* RESET instruction, power failure or z11ctrl: everything off the bus
InitOn ==
  /\ ~initing
  /\ initing' = TRUE
  /\ dmastate' = "idle"
  /\ ssyn' = FALSE
  /\ UNCHANGED <<lockvars, dmatimo, dmaperr, dmactrl, dmaaddr, dmadata,
                 bus, mem, last, calls>>

InitOff ==
  /\ initing
  /\ initing' = FALSE
  /\ UNCHANGED <<lockvars, engine, ssyn, bus, mem, last, calls>>

\* the processor or another device writes memory while we are off the bus
OtherWrite(a, v) ==
  /\ dmastate \notin {"cycle", "latch", "finish"}
  /\ mem[a] # v
  /\ mem' = [mem EXCEPT ![a] = v]
  /\ UNCHANGED <<lockvars, engine, initing, ssyn, bus, last, calls>>

-----------------------------------------------------------------------------
\* dmaunlk, by a thread between calls or after the exception
LeaveLock(t) ==
  /\ dpc[t] \in {"none", "thrown"}
  /\ Leave(t)
  /\ dpc' = [dpc EXCEPT ![t] = "none"]
  /\ UNCHANGED <<engine, busvars, req, ret, clean>>

LockStep(t) == /\ \/ MutexLock(t) \/ Claim(t) \/ ReadBack(t) \/ Probe(t)
                  \/ Unstick(t) \/ Release(t) \/ MutexUnlock(t)
               /\ UNCHANGED kyvars

Kill(p) ==
  /\ MayAbandon \/ dmastate = "idle" \/ dmalock # p
  /\ Die(p)
  /\ dpc' = [t \in Threads |-> IF PidOf[t] = p THEN "none" ELSE dpc[t]]
  /\ req' = [t \in Threads |-> IF PidOf[t] = p THEN NoReq ELSE req[t]]
  /\ ret' = [t \in Threads |-> IF PidOf[t] = p THEN NoRet ELSE ret[t]]
  /\ clean' = [t \in Threads |-> IF PidOf[t] = p THEN TRUE ELSE clean[t]]
  /\ UNCHANGED <<engine, busvars>>

CallStep(t) == \/ PutData(t) \/ Start(t) \/ PollIdle(t)
               \/ ReadData(t) \/ ReadTimo(t) \/ Return(t)

EngineStep == Grant \/ Drive \/ SeeSsyn \/ Latch \/ Finish

KyNext ==
  \/ \E t \in Threads : \/ Enter(t) /\ UNCHANGED kyvars
                        \/ LockStep(t) \/ LeaveLock(t) \/ GiveUp(t)
                        \/ \E r \in Requests : Call(t, r)
                        \/ CallStep(t)
  \/ \E p \in Procs : Kill(p)
  \/ EngineStep \/ Slave \/ Timeout \/ InitOn \/ InitOff
  \/ \E a \in Exists, v \in Values : OtherWrite(a, v)

KySpec == KyInit /\ [][KyNext]_dmavars

\* Threads are scheduled; the processor grants requests in the end and the
\* engine's timers run; INIT pulses end and do not come for ever.
KyFairSpec ==
  /\ KySpec
  /\ \A t \in Threads : WF_dmavars(CallStep(t)) /\ WF_dmavars(LockStep(t))
  /\ WF_dmavars(InitOff) /\ SF_dmavars(Grant)
  /\ WF_dmavars(Drive \/ SeeSsyn \/ Latch \/ Finish \/ Timeout)

-----------------------------------------------------------------------------
(* Properties. *)

\* The lock register says whether the engine is in use: "0=dma circuitry not
\* in use; else 32-bit pid of process using dma circuitry" (ky11.v).  A busy
\* engine works for the thread that holds the lock: it polls, and the engine's
\* registers hold its request.  Nothing else may be started or read.
EngineServesOwner ==
  dmastate # "idle" =>
    \E t \in Threads :
      /\ Owns(t) /\ dmalock = PidOf[t] /\ dpc[t] = "poll"
      /\ dmactrl = req[t].op /\ dmaaddr = req[t].addr
      /\ dmactrl = "DATO" => dmadata = req[t].data

\* A call none of whose register writes was ignored, and that does not report
\* a timeout, did the bus cycle it asked for, as the last one on the bus
\* done for any thread, and a read returns the word of that very cycle.
CleanReplies ==
  /\ KyTypeOK
  /\ \A t \in Threads :
       dpc[t] = "reply" /\ clean[t] /\ ~ret[t].timo =>
         /\ last.op = req[t].op /\ last.addr = req[t].addr
         /\ req[t].op = "DATO" => last.data = req[t].data
         /\ req[t].op = "DATI" =>
              ret[t].data = last.data /\ ret[t].perr = (last.addr \in BadParity)

\* Every poll ends: by completion, timeout or bus reset.
CallsEnd == /\ \A t \in Threads : dpc[t] = "poll" ~> dpc[t] # "poll"
            /\ SurvivorGetsLock

\* The calls of all threads behave as one atomic memory (DmaService).
Answer(t) ==
  CASE dpc[t] = "reply" ->
         [timo |-> ret[t].timo, perr |-> ret[t].perr, data |-> ret[t].data]
    [] dpc[t] = "fetch" ->
         [timo |-> ret[t].timo, perr |-> ret[t].perr, data |-> dmadata]
    [] dmastate \in {"cycle", "latch"} ->
         [timo |-> FALSE, perr |-> dmaaddr \in BadParity, data |-> bus]
    [] dmastate = "finish" ->
         [timo |-> FALSE, perr |-> dmaperr, data |-> dmadata]
    [] OTHER -> [timo |-> dmatimo, perr |-> dmaperr, data |-> dmadata]

Phase(t) ==
  CASE dpc[t] \in {"none", "thrown"} -> "idle"
    [] dpc[t] \in {"data", "start"}  -> "called"
    [] dpc[t] = "poll" /\ dmastate \in {"request", "wantbus"} -> "called"
    [] dpc[t] = "poll" /\ dmastate = "cycle" /\ ~ssyn -> "called"
    [] OTHER -> "done"

Dma == INSTANCE DmaService WITH
  Callers <- Threads,
  phase <- [t \in Threads |-> Phase(t)],
  ans <- [t \in Threads |->
            IF Phase(t) # "done" THEN [timo |-> TRUE, none |-> TRUE]
            ELSE IF Answer(t).timo THEN [timo |-> TRUE]
            ELSE IF req[t].op = "DATO" THEN [timo |-> FALSE]
            ELSE Answer(t)]

\* dmaread, dmawrite and dmawbyte implement the atomic service as long as no
\* thread leaves the engine busy behind it.
Atomic == Dma!Spec

=============================================================================
