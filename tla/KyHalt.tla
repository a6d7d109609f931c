------------------------------- MODULE KyHalt -------------------------------
(***************************************************************************)
(* Halting, stepping and looking into the processor: the halt logic, the   *)
(* stepper, the snapshot logic and the bus side of the DMA engine of       *)
(* ky11.v, the bus side of the simulated processor (sim1134.v), one level  *)
(* of interrupt requests (intctl.v), and the ARM program that holds the    *)
(* DMA lock and works the console (z11util.cc).                            *)
(*                                                                         *)
(* All parts change state on the same clock, each from what it sees of the *)
(* others before the clock; the wires between them are those zynq.v makes  *)
(* when it simulates.  Delay counters are abstracted: a wait may end at    *)
(* any clock.  So the model has every timing of the normal and of the      *)
(* turbo mode.  An instruction is a fetch and any number of bus cycles.    *)
(***************************************************************************)
EXTENDS Naturals

CONSTANTS
  Calls,        \* what the ARM program does: see Programs
  MaxCtr,       \* registers in a snapshot, less one
  Unanswered,   \* the programs whose addresses may be such as nobody answers
  MayGiveUp,    \* whether snapregs may find the processor too slow
  MayFault,     \* whether instructions and traps may fault
  MayReset,     \* whether programs contain RESET
  Devices       \* whether a device asks for interrupts

Programs == {"haltreq", "contreq", "stepreq", "snapregs", "dmaread", "resetit"}

ASSUME KyHaltAssumption ==
  /\ Calls \subseteq Programs /\ MaxCtr \in Nat
  /\ Unanswered \subseteq {"dmaread", "snapregs"}
  /\ {MayGiveUp, MayFault, MayReset, Devices} \subseteq BOOLEAN

VARIABLES
  ky2,    \* ky11.v register 2, as far as it is written from two sides
  ky,     \* the rest of ky11.v
  cpu,    \* sim1134.v
  int,    \* intctl.v: request, selection, interrupt being sent
  want,   \* a device wants an interrupt (intvec is a vector)
  dclo,   \* ac_lo and dc_lo: the processor is held in reset
  arm,    \* the program: where it is, what it read from register 2
  ran     \* history: what the processor did since the stepper let go of it,
          \* "free" if somebody else had to do with the halt request since

vars == <<ky2, ky, cpu, int, want, dclo, arm, ran>>

TypeOK ==
  /\ ky2 \in [haltreq : BOOLEAN, stepreq : BOOLEAN, snapreq : BOOLEAN,
              snaphlt : BOOLEAN, snapctr : 0 .. MaxCtr]
  /\ ky \in [halted : BOOLEAN, haltstate : 0 .. 3, hltrq : BOOLEAN,
             sack : BOOLEAN, dmastate : 0 .. 6, dmatimo : BOOLEAN,
             snapwrt : BOOLEAN, npr : BOOLEAN, bbsy : BOOLEAN]
  /\ cpu \in [ps : {"halt", "halt2", "service", "npg", "intr", "trap",
                    "fetch", "addr", "bus", "cycle", "exec", "wait", "reset"},
              haltck : BOOLEAN, hltgr : BOOLEAN, jam : BOOLEAN,
              npg : BOOLEAN, bg : BOOLEAN, bbsy : BOOLEAN, ssyn : BOOLEAN,
              init : BOOLEAN, trapvec : BOOLEAN, trapping : BOOLEAN,
              intrap : BOOLEAN]
  /\ int \in [br : BOOLEAN, sack : BOOLEAN, intr : BOOLEAN]
  /\ want \in BOOLEAN /\ dclo \in BOOLEAN
  /\ arm \in [pc : {"idle", "read", "write", "wr3", "wr2", "poll", "undo",
                    "select", "wait", "down", "up"},
              call : Programs, was : BOOLEAN, busy : BOOLEAN, old : [haltreq : BOOLEAN,
              stepreq : BOOLEAN, snapreq : BOOLEAN, snaphlt : BOOLEAN,
              snapctr : 0 .. MaxCtr]]
  /\ ran \in {"free", "nothing", "trap", "one", "more"}

NoFlags == [haltreq |-> FALSE, stepreq |-> FALSE, snapreq |-> FALSE,
            snaphlt |-> FALSE, snapctr |-> 0]

\* the processor is running, nobody looks
Init ==
  /\ ky2 = NoFlags
  /\ ky = [halted |-> FALSE, haltstate |-> 0, hltrq |-> FALSE, sack |-> FALSE,
           dmastate |-> 0, dmatimo |-> FALSE, snapwrt |-> FALSE,
           npr |-> FALSE, bbsy |-> FALSE]
  /\ cpu = [ps |-> "service", haltck |-> TRUE, hltgr |-> FALSE, jam |-> FALSE,
            npg |-> FALSE, bg |-> FALSE, bbsy |-> FALSE, ssyn |-> FALSE,
            init |-> FALSE, trapvec |-> FALSE, trapping |-> FALSE,
            intrap |-> FALSE]
  /\ int = [br |-> FALSE, sack |-> FALSE, intr |-> FALSE]
  /\ want = FALSE /\ dclo = FALSE
  /\ arm = [pc |-> "idle", call |-> "haltreq", was |-> FALSE, busy |-> FALSE,
            old |-> NoFlags]
  /\ ran = "free"

-----------------------------------------------------------------------------
(* The wires of zynq.v. *)

HltrqIn == ky.hltrq \/ cpu.jam
SackIn  == ky.sack \/ int.sack
BbsyIn  == ky.bbsy \/ cpu.bbsy \/ int.intr

-----------------------------------------------------------------------------
(* The processor. *)

\* held in reset; what follows is the power-up trap
Resetting ==
  /\ dclo
  /\ cpu' = [ps |-> "service", haltck |-> TRUE, hltgr |-> FALSE,
             jam |-> FALSE, npg |-> FALSE, bg |-> FALSE, bbsy |-> FALSE,
             ssyn |-> FALSE, init |-> TRUE, trapvec |-> TRUE,
             trapping |-> FALSE, intrap |-> FALSE]

Halt ==
  /\ cpu.ps = "halt"
  /\ cpu' = [cpu EXCEPT !.hltgr = TRUE, !.ps = IF HltrqIn THEN "halt2" ELSE @]

\* wait until SACK and HLTRQ are both gone
Halt2 ==
  /\ cpu.ps = "halt2"
  /\ IF SackIn THEN cpu' = [cpu EXCEPT !.hltgr = FALSE]
     ELSE IF HltrqIn THEN UNCHANGED cpu
     ELSE cpu' = [cpu EXCEPT !.hltgr = FALSE, !.haltck = FALSE,
                             !.ps = "service"]

\* not checked the first time after a halt, so that a step runs something
HaltWanted == cpu.haltck /\ HltrqIn

\* Between instructions: traps, halt, NPR, interrupts above the processor's
\* priority, else the next instruction.
Service ==
  /\ cpu.ps = "service"
  /\ LET to(s) == cpu' = [cpu EXCEPT !.ps = s, !.haltck = TRUE, !.init = FALSE,
                                     !.bg = @ \/ s = "intr"]
     IN \/ cpu.trapvec /\ to("trap")
        \/ ~cpu.trapvec /\ HaltWanted /\ to("halt")
        \/ /\ ~cpu.trapvec /\ ~HaltWanted
           /\ \/ ~SackIn /\ ky.npr /\ to("npg")
              \/ ~SackIn /\ ~ky.npr /\ int.br /\ to("intr")
              \/ (SackIn \/ ~ky.npr) /\ to("fetch")

\* grant NPRs until nobody uses the bus
Npg ==
  /\ cpu.ps = "npg"
  /\ cpu' = [cpu EXCEPT !.npg = ky.npr,
               !.ps = IF ~BbsyIn /\ ~ky.npr /\ ~SackIn THEN "service" ELSE @]

\* the grant is out; take the vector, if one comes
Intr ==
  /\ cpu.ps = "intr"
  /\ \E due \in BOOLEAN :     \* INTR has been there for 80 ns
       cpu' = [cpu EXCEPT
         !.bg = @ /\ ~SackIn,
         !.ssyn = int.intr /\ (@ \/ due),
         !.trapvec = @ \/ (int.intr /\ ~cpu.ssyn /\ due),
         !.ps = IF ~BbsyIn /\ ~int.intr /\ ~SackIn /\ (~cpu.bg \/ ~int.br)
                THEN "service" ELSE @]

\* A trap within a trap halts, without a halt request.
Trap ==
  /\ cpu.ps = "trap"
  /\ IF cpu.trapping
       THEN cpu' = [cpu EXCEPT !.ps = "halt", !.trapping = FALSE,
                               !.trapvec = FALSE, !.intrap = FALSE]
       ELSE \E t \in BOOLEAN :
              cpu' = [cpu EXCEPT !.ps = "addr", !.trapping = t /\ MayFault,
                                 !.trapvec = FALSE, !.intrap = TRUE]

Fetch ==
  /\ cpu.ps = "fetch"
  /\ cpu' = [cpu EXCEPT !.ps = "addr"]

\* rwstate 0 and 1: translate the address, if the MMU lets it pass
Addr ==
  /\ cpu.ps = "addr"
  /\ \/ cpu' = [cpu EXCEPT !.ps = "bus"]
     \/ MayFault /\ cpu' = [cpu EXCEPT !.ps = "service", !.trapvec = TRUE]

\* rwstate 2: hold off while somebody else has the bus
Bus ==
  /\ cpu.ps = "bus"
  /\ IF BbsyIn \/ cpu.ssyn
       THEN UNCHANGED cpu
       ELSE cpu' = [cpu EXCEPT !.ps = "cycle", !.bbsy = TRUE]

\* rwstates 3 to 7: the cycle, good or bad
Cycle ==
  /\ cpu.ps = "cycle"
  /\ \/ UNCHANGED cpu
     \/ cpu' = [cpu EXCEPT !.ps = "exec", !.bbsy = FALSE]
     \/ /\ MayFault
        /\ cpu' = [cpu EXCEPT !.ps = "service", !.bbsy = FALSE,
                              !.trapvec = TRUE]

\* the rest of the instruction or trap
Exec ==
  /\ cpu.ps = "exec"
  /\ \/ cpu' = [cpu EXCEPT !.ps = "addr"]
     \/ cpu' = [cpu EXCEPT !.ps = "service", !.intrap = FALSE,
                           !.trapping = @ /\ ~cpu.intrap]
     \/ /\ ~cpu.intrap
        /\ \/ cpu' = [cpu EXCEPT !.ps = "wait"]
           \/ MayReset /\ cpu' = [cpu EXCEPT !.ps = "reset"]
           \/ MayFault /\ cpu' = [cpu EXCEPT !.ps = "halt", !.jam = TRUE]
           \/ MayFault /\ cpu' = [cpu EXCEPT !.ps = "service",
                                             !.trapvec = TRUE]

\* WAIT grants NPRs, ends with an interrupt, and starts over after a halt
Wait ==
  /\ cpu.ps = "wait"
  /\ \/ ~cpu.npg /\ (int.br \/ HltrqIn) /\ cpu' = [cpu EXCEPT !.ps = "service"]
     \/ (cpu.npg \/ ~HltrqIn) /\ cpu' = [cpu EXCEPT !.npg = ky.npr]

\* RESET: 10 ms of INIT
Reset ==
  /\ cpu.ps = "reset"
  /\ \/ cpu' = [cpu EXCEPT !.init = TRUE]
     \/ cpu.init /\ cpu' = [cpu EXCEPT !.ps = "service"]

Cpu == \/ Resetting
       \/ /\ ~dclo
          /\ \/ Halt \/ Halt2 \/ Service \/ Npg \/ Intr \/ Trap \/ Fetch
             \/ Addr \/ Bus \/ Cycle \/ Exec \/ Wait \/ Reset

-----------------------------------------------------------------------------
(* intctl.v *)

NoInt == [br |-> FALSE, sack |-> FALSE, intr |-> FALSE]

Request == want /\ ~int.sack /\ ~int.intr /\ ~int.br /\ ~cpu.bg

BusFree == ~BbsyIn /\ ~cpu.bg /\ ~cpu.ssyn

\* request, be selected, send the vector if it is still wanted, let go
IntCtl ==
  IF cpu.init THEN int' = NoInt
  ELSE CASE Request -> int' = [int EXCEPT !.br = TRUE]
         [] int.br  -> \/ UNCHANGED int     \* no grant, or being deglitched
                       \/ /\ cpu.bg
                          /\ int' = [int EXCEPT !.br = FALSE, !.sack = TRUE]
         [] int.sack /\ ~int.br /\ BusFree ->
              int' = [int EXCEPT !.intr = want, !.sack = FALSE]
         [] int.intr /\ ~int.sack /\ cpu.ssyn ->
              int' = [int EXCEPT !.intr = FALSE]
         [] OTHER -> UNCHANGED int

-----------------------------------------------------------------------------
(* The ARM program.  Each access to a register is a step of its own; w is   *)
(* the write it makes in this clock, if any.                                *)

NoWrite == [reg |-> 0]

Goes(from, to) == arm.pc = from /\ arm' = [arm EXCEPT !.pc = to]
Ends(from) ==
  /\ arm.pc = from
  /\ arm' = [arm EXCEPT !.pc = "idle", !.call = "haltreq", !.old = NoFlags,
                        !.was = FALSE, !.busy = FALSE]

Begin(c) ==
  /\ arm.pc = "idle"
  /\ arm' = [arm EXCEPT !.pc = IF c = "dmaread" THEN "wr3" ELSE "read",
                        !.call = c]

\* ZRD (kyat[2])
Read ==
  /\ arm.pc = "read"
  /\ arm' = [arm EXCEPT !.pc = IF arm.call = "snapregs" THEN "wr3"
                               ELSE "write",
                        !.old = ky2, !.was = ky2.haltreq,
                        !.busy = ky2.snapreq \/ ky.dmastate # 0]

\* ZWR (kyat[2], ...) of haltreq, contreq, stepreq and resetit
Written ==
  CASE arm.call = "contreq" -> [arm.old EXCEPT !.haltreq = FALSE]
    [] arm.call = "stepreq" -> [arm.old EXCEPT !.stepreq = TRUE]
    [] OTHER                -> [arm.old EXCEPT !.haltreq = TRUE]

Write(w) ==
  /\ w = [reg |-> 2, val |-> Written]
  /\ IF arm.call = "resetit" THEN Goes("write", "down") ELSE Ends("write")

\* resetit: power down, long enough for all to notice, and up again
PowerDown == Goes("down", "up") /\ dclo' = TRUE
PowerUp   == /\ cpu.init /\ ky.haltstate = 0 /\ ~ky.sack /\ ~ky.hltrq
             /\ Ends("up") /\ dclo' = FALSE

\* ZWR (kyat[3], ...): the address, and for dmaread the start bit
WriteKy3(w) ==
  /\ w = [reg |-> 3, start |-> arm.call = "dmaread"]
  /\ Goes("wr3", IF arm.call = "dmaread" THEN "wait" ELSE "wr2")

\* Variant: a snapshot does not remember a halt request.
SnapRequest_Forget(n) ==
  [NoFlags EXCEPT !.haltreq = TRUE, !.snapreq = TRUE, !.snapctr = n]

\* snapregs: a halt request it found becomes snaphlt
SnapRequest(n) ==
  [NoFlags EXCEPT !.haltreq = TRUE, !.snapreq = TRUE, !.snapctr = n,
                  !.snaphlt = arm.was]

StartSnap(w) ==
  /\ \E n \in 0 .. MaxCtr : w = [reg |-> 2, val |-> SnapRequest(n)]
  /\ Goes("wr2", "poll")

Polled ==
  /\ ~ky2.snapreq
  /\ arm.pc = "poll"
  /\ arm' = [arm EXCEPT !.pc = "select", !.old = ky2]

\* 100000 polls: withdraw the request, unless the processor was to be halted
TooSlow == /\ MayGiveUp /\ ky2.snapreq
           /\ IF arm.was THEN Ends("poll") ELSE Goes("poll", "undo")

Undo(w) == w = [reg |-> 2, val |-> NoFlags] /\ Ends("undo")

\* a write per register selects what is read next, with the halt request as
\* it was at the last poll
Select(w) ==
  /\ w = [reg |-> 2, val |-> [NoFlags EXCEPT !.haltreq = arm.old.haltreq]]
  /\ \/ Ends("select")
     \/ arm.pc = "select" /\ UNCHANGED arm

DmaDone == ky.dmastate = 0 /\ Ends("wait")

Quiet == \/ \E c \in Calls : Begin(c)
         \/ Read \/ Polled \/ TooSlow \/ DmaDone

Writing(w) == Write(w) \/ WriteKy3(w) \/ StartSnap(w) \/ Undo(w) \/ Select(w)

\* the write the program makes if it makes one in this clock
RegWrites == {[reg |-> 3, start |-> s] : s \in BOOLEAN}
          \cup {[reg |-> 2, val |-> v] :
                  v \in {Written, NoFlags, [NoFlags EXCEPT
                         !.haltreq = arm.old.haltreq]}
                        \cup {SnapRequest(n) : n \in 0 .. MaxCtr}}

Arm(w) ==
  \/ w = NoWrite /\ UNCHANGED dclo /\ (Quiet \/ UNCHANGED arm)
  \/ w = NoWrite /\ (PowerDown \/ PowerUp)
  \/ w \in RegWrites /\ UNCHANGED dclo /\ Writing(w)

-----------------------------------------------------------------------------
(* ky11.v.  Where two parts of it assign to a register in one clock, the    *)
(* later one in the source wins.  done says that the delay the DMA engine   *)
(* is in has passed, perr that the word it read has bad parity.             *)

\* the snapshot logic
Snapping  == ~dclo /\ ky.haltstate = 3 /\ ky2.haltreq /\ ky2.snapreq
SnapStart == Snapping /\ ky.dmastate = 0 /\ ~ky.dmatimo
SnapTimo  == Snapping /\ ky.dmastate = 0 /\ ky.dmatimo
SnapSave  == Snapping /\ ky.dmastate = 6 /\ ky.snapwrt

SnapLast(perr) == SnapSave /\ (perr \/ ky2.snapctr = 0)

\* the stepper lets go of the processor, and once that runs it is done
Stepped == ky2.stepreq /\ ~ky.halted

Ky2Next(w, perr) ==
  LET armed  == IF w.reg = 2 THEN w.val ELSE ky2
      jammed == HltrqIn /\ ~ky.hltrq    \* by the processor: HALT
      steps  == w = NoWrite             \* the stepper yields to writes
  IN [haltreq |-> IF steps /\ ky2.stepreq THEN ~ky.halted
                  ELSE IF SnapTimo THEN FALSE
                  ELSE IF SnapLast(perr) THEN ky2.snaphlt
                  ELSE jammed \/ armed.haltreq,
      stepreq |-> armed.stepreq /\ ~(steps /\ Stepped),
      snapreq |-> armed.snapreq /\ ~SnapTimo /\ ~SnapLast(perr),
      snaphlt |-> armed.snaphlt,
      snapctr |-> IF SnapSave /\ ~SnapLast(perr) THEN ky2.snapctr - 1
                  ELSE armed.snapctr]

\* request, granted, acknowledged
HaltStateNext ==
  CASE dclo                          -> 0
    [] ~dclo /\ ky.haltstate = 0     -> IF ky2.haltreq THEN 1 ELSE 0
    [] ~dclo /\ ky.haltstate # 0 /\ ~ky2.haltreq -> 0
    [] ~dclo /\ ky.haltstate = 1 /\ ky2.haltreq /\ cpu.hltgr -> 2
    [] ~dclo /\ ky.haltstate = 2 /\ ky2.haltreq /\ SackIn    -> 3
    [] OTHER                         -> ky.haltstate

HltrqNext ==
  /\ ~dclo
  /\ \/ ky.haltstate = 0 /\ ky2.haltreq
     \/ ky.hltrq /\ ~(ky.haltstate = 2 /\ ky2.haltreq /\ SackIn)

\* Variant: it counts as halted until it uses the bus.
HaltedNext_Bus == cpu.hltgr \/ (ky.halted /\ ~cpu.bbsy)

HaltedNext == cpu.hltgr \/ (ky.halted /\ (HltrqIn \/ SackIn))

\* who asserts or drops SACK: the engine, the halt logic, INIT
Granted(done) == /\ ky.dmastate = 1 /\ ~ky.halted
                 /\ ky.npr /\ cpu.npg /\ done

\* Variant: the engine drops SACK when it has the bus, as any other device.
SackNext_Drop(done) ==
  IF ~cpu.init /\ ky.dmastate = 3 THEN FALSE
  ELSE \/ ~cpu.init /\ Granted(done)
       \/ IF ~dclo /\ ky.haltstate # 0
            THEN ky2.haltreq /\ (\/ ky.haltstate = 1 /\ cpu.hltgr
                                 \/ ky.sack /\ ~cpu.init)
            ELSE ky.sack /\ ~cpu.init

SackNext(done) ==
  IF ~cpu.init /\ ky.dmastate = 3 THEN ky.halted
  ELSE \/ ~cpu.init /\ Granted(done)
       \/ IF ~dclo /\ ky.haltstate # 0
            THEN ky2.haltreq /\ (\/ ky.haltstate = 1 /\ cpu.hltgr
                                 \/ ky.sack /\ ~cpu.init)
            ELSE ky.sack /\ ~cpu.init

\* the bus side of the DMA engine; dmastate as in ky11.v
BusIdle == ~BbsyIn /\ ~cpu.ssyn

DmaStateNext(w, done, answered) ==
  CASE SnapStart                               -> 2
    [] ~SnapStart /\ cpu.init                  -> 0
    [] ~SnapStart /\ ~cpu.init /\ ky.dmastate = 0 ->
         IF w.reg = 3 /\ w.start THEN 1 ELSE 0
    [] ~cpu.init /\ ky.dmastate = 1 -> IF ky.halted \/ Granted(done) THEN 2 ELSE 1
    [] ~cpu.init /\ ky.dmastate = 2 -> IF BusIdle THEN 3 ELSE 2
    [] ~cpu.init /\ ky.dmastate = 4 /\ done -> IF answered THEN 5 ELSE 0
    [] ~cpu.init /\ ky.dmastate \in {3, 5} /\ done -> ky.dmastate + 1
    [] ~cpu.init /\ ky.dmastate = 6 /\ done -> 0
    [] OTHER -> ky.dmastate

TakesBus == ky.dmastate = 2 /\ BusIdle
LeavesBus(done, answered) == /\ done
                             /\ \/ ky.dmastate = 4 /\ ~answered
                                \/ ky.dmastate = 6

DmaTimoNext(w, done) ==
  \/ SnapStart
  \/ /\ IF w.reg = 3 /\ ky.dmastate = 0 THEN w.start ELSE ky.dmatimo
     /\ ~(ky.dmastate = 6 /\ done /\ ~cpu.init)

Ky(w, done, answered, perr) ==
  /\ ky2' = Ky2Next(w, perr)
  /\ ky' = [halted    |-> HaltedNext,
            haltstate |-> HaltStateNext,
            hltrq     |-> HltrqNext,
            sack      |-> SackNext(done),
            dmastate  |-> DmaStateNext(w, done, answered),
            dmatimo   |-> DmaTimoNext(w, done),
            snapwrt   |-> SnapStart \/ (ky.snapwrt /\ ~SnapSave),
            npr       |-> ~cpu.init /\ (\/ ky.dmastate = 1 /\ ~ky.halted
                                        \/ /\ ky.dmastate # 1 /\ ky.npr
                                           /\ ~TakesBus),
            bbsy      |-> ~cpu.init /\ (\/ TakesBus
                                        \/ /\ ky.bbsy
                                           /\ ~LeavesBus(done, answered))]

-----------------------------------------------------------------------------
(* One clock of everything. *)

LetGo == cpu.ps = "halt2" /\ ~SackIn /\ ~HltrqIn

RanNext(w) ==
  IF w.reg = 2 \/ ky2.snapreq THEN "free"
  ELSE CASE w = NoWrite /\ ky2.stepreq /\ ky.haltstate = 3 -> "nothing"
         [] ran # "free" /\ (dclo \/ LetGo)                -> "nothing"
         [] ran = "nothing" /\ ~dclo /\ cpu.ps = "trap"    -> "trap"
         [] ran # "free" /\ ~dclo /\ cpu.ps = "fetch"      ->
              IF ran \in {"nothing", "trap"} THEN "one" ELSE "more"
         [] OTHER                                          -> ran

Waiting == ky.dmastate \in {1, 3, 4, 5, 6}

CycleFor == IF ky2.snapreq THEN "snapregs" ELSE "dmaread"

Clock ==
  /\ \E w \in {NoWrite} \cup RegWrites :
       /\ Arm(w)
       /\ \E done \in (IF Waiting THEN BOOLEAN ELSE {FALSE}),
             answered \in (IF ky.dmastate = 4 /\ CycleFor \in Unanswered
                           THEN BOOLEAN ELSE {TRUE}),
             perr \in (IF SnapSave THEN BOOLEAN ELSE {FALSE}) :
            Ky(w, done, answered, perr)
       /\ ran' = RanNext(w)
  /\ Cpu
  /\ IntCtl
  /\ want' \in (IF Devices THEN BOOLEAN ELSE {FALSE})

Next == Clock

Spec == Init /\ [][Next]_vars

\* The clock runs and delays pass; instructions and bus cycles end; the ARM
\* program runs.  An instruction may have many cycles but not for ever, and
\* a grant may come and go, hence strong fairness there.
FairSpec ==
  /\ Spec
  /\ WF_vars(Clock)
  /\ WF_vars(Clock /\ arm.pc # "idle" /\ arm' # arm)
  /\ WF_vars(Clock /\ cpu.ps \in {"cycle", "reset"} /\ cpu'.ps # cpu.ps)
  /\ SF_vars(Clock /\ cpu.ps = "exec" /\ cpu'.ps = "service")
  /\ WF_vars(Clock /\ int.intr /\ ~cpu.ssyn /\ cpu'.ssyn)
  /\ WF_vars(Clock /\ int.br /\ cpu.bg /\ int'.sack)
  /\ SF_vars(Clock /\ Waiting /\ ky'.dmastate # ky.dmastate)

-----------------------------------------------------------------------------
(* Properties. *)

\* One master of the bus at a time: the processor, the DMA engine or a device
\* that sends its vector.  The engine takes the bus without asking when it
\* believes the processor halted (ky11.v:346), which it learns a clock late.
OneMaster ==
  /\ TypeOK
  /\ ~(cpu.bbsy /\ ky.bbsy)
  /\ ~(cpu.bbsy /\ int.intr)
  /\ ~(ky.bbsy /\ int.intr)

\* While the halt logic is in its last state (ky11.v:251) the processor is
\* stopped: SACK holds it, which the DMA engine and INIT write as well.
HeldWhileHalted ==
  ky.haltstate = 3 /\ ~dclo => cpu.ps \in {"halt", "halt2"}

\* A step (ky11.v:326) runs at most one instruction before the processor is
\* halted again, however slowly the halt logic goes round and whatever
\* interrupts, DMA cycles and traps come between.
StepRunsOne ==
  ~ky2.stepreq /\ ky.haltstate = 3 => ran # "more"

\* A snapshot leaves the halt request as it found it, unless the processor
\* jammed the halt line itself or an earlier snapshot, given up, was still due.
SnapRestores ==
  arm.pc = "select" /\ ~cpu.jam /\ ~arm.busy => arm.old.haltreq = arm.was

\* A processor nobody asks to halt does not stay halted: "maintain SACK until
\* HALT button released, processor should resume processing instructions".
Resumes == ~ky2.haltreq ~> (ky2.haltreq \/ ~ky.halted)

-----------------------------------------------------------------------------
(* The strengthening, part by part. *)

Stopped == cpu.ps \in {"halt", "halt2"}

\* In which states the processor drives which wire; a request for an interrupt
\* is past its first stage only while the processor hands out the grant, or is
\* reset.
CpuInv ==
  /\ cpu.bbsy <=> cpu.ps = "cycle"
  /\ cpu.npg => cpu.ps \in {"npg", "wait"}
  /\ cpu.bg => cpu.ps = "intr" /\ (int.br \/ int.sack)
  /\ cpu.ssyn => cpu.ps = "intr"
  /\ cpu.hltgr => Stopped
  /\ cpu.init => cpu.ps \in {"reset", "service"}
  /\ int.sack \/ int.intr => cpu.ps = "intr" \/ cpu.init
  /\ cpu.ps = "service" /\ cpu.init /\ ~dclo => int = NoInt
  /\ ~(int.br /\ int.sack) /\ ~(int.br /\ int.intr) /\ ~(int.sack /\ int.intr)

\* The processor leaves its halt only when nothing will be granted any more;
\* what the halt logic knows of it is true, but for the first clocks of a reset.
HaltInv ==
  /\ cpu.ps = "halt2" /\ cpu.hltgr => HltrqIn
  /\ ky.haltstate = 1 => ky.hltrq
  /\ ky.haltstate = 2 => cpu.ps = "halt2" /\ ky.halted /\ ky.hltrq
  /\ ky.haltstate = 3 => cpu.ps = "halt2" /\ ky.halted /\ ky.sack
  /\ ky.halted => \/ Stopped
                  \/ dclo /\ cpu.init /\ cpu.ps = "service" /\ ~cpu.jam
  /\ ky.halted => ~int.sack /\ ~int.intr

\* The engine waits for the bus (state 2) only where the processor will not
\* begin a cycle: stopped, or held by an NPR grant, or on its way out of the
\* halt with the bus free.
DmaInv ==
  /\ ky.bbsy <=> ky.dmastate \in 3 .. 6
  /\ ky.dmastate = 2 =>
       \/ Stopped
       \/ cpu.ps = "npg" /\ ky.npr
       \/ cpu.ps = "wait" /\ ky.npr /\ cpu.npg
       \/ cpu.ps = "service" /\ (cpu.init \/ (~int.intr /\ ~cpu.ssyn))
  /\ ~(cpu.bbsy /\ ky.bbsy) /\ ~(ky.bbsy /\ int.intr)

IInv == TypeOK /\ CpuInv /\ HaltInv /\ DmaInv

\* While a step is under way the halt is requested again, and after a fetch so
\* early that the processor meets the request at its next look.  The stepper
\* can be late by the one write to register 3 that the program had begun.
RanInv ==
  /\ ~cpu.haltck => cpu.ps = "service" \/ Stopped
  /\ ran # "more"
  /\ ran # "free" => ky2.stepreq \/ ky2.haltreq
  /\ ran # "free" /\ ~dclo /\ ~Stopped /\ ky2.stepreq =>
       /\ cpu.ps \in {"service", "fetch", "trap", "intr", "npg"}
       /\ cpu.ps # "service" => arm.pc # "wr3"
  /\ ran = "one" => cpu.ps \notin {"fetch", "npg", "intr"}
  /\ ran = "one" /\ ~dclo /\ cpu.ps # "addr" /\ ~Stopped => HltrqIn /\ cpu.haltck

\* How far a snapshot is, for each place in snapregs: it is not disturbed by
\* what the engine did before, and the halt request to restore is in snaphlt.
SnapInv ==
  /\ dclo => arm.pc = "up"
  /\ arm.pc = "wr3" => arm.call \in {"dmaread", "snapregs"}
  /\ arm.pc \in {"wr2", "poll", "undo", "select"} => arm.call = "snapregs"
  /\ arm.pc \in {"wr3", "wr2"} /\ arm.call = "snapregs" /\ ~arm.busy =>
       ~ky2.snapreq /\ ky.dmastate = 0
  /\ arm.pc = "wr2" /\ ~arm.busy => ~ky.dmatimo
  /\ arm.pc = "poll" /\ ~arm.busy =>
       /\ ~ky2.stepreq
       /\ ky2.snapreq =>
            /\ ky2.haltreq /\ (ky2.snaphlt = arm.was)
            /\ IF ky.dmastate = 0 THEN ~ky.dmatimo ELSE ky.haltstate = 3
       /\ ~ky2.snapreq /\ ~cpu.jam => ky2.haltreq = arm.was
  /\ SnapRestores
=============================================================================
