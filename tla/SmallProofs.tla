---------------------------- MODULE SmallProofs ----------------------------
(***************************************************************************)
(* The theorems of three small modules.                                    *)
(*                                                                         *)
(* Waiting for the FPGA (KmWait): no edge is lost, for any number of       *)
(* devices and processes.  Whatever the order of flag changes, ioctl       *)
(* calls, signals and interrupt routine, a process that sleeps has its     *)
(* bits enabled and none of them asserted, unless an interrupt is on its   *)
(* way.                                                                    *)
(*                                                                         *)
(* Waiting for each other (ShmMutex): the mutex of the shared page         *)
(* excludes, for any number of processes and threads and any deaths.  A    *)
(* compare-exchange that succeeds found either a free mutex or a dead      *)
(* owner, so that nobody alive was inside.                                 *)
(*                                                                         *)
(* The console line (DlLine), for any prompts, replies and numbers of      *)
(* keys, prompts and bus resets: a driver that writes only when it is told *)
(* to never overwrites a character the daemon has not read, and the        *)
(* daemon, which gives the line back before it prints, prints in the order *)
(* of writing.                                                             *)
(***************************************************************************)
EXTENDS KmWait, ShmMutex, DlLine, TLAPS

------------------------------------------------------------------------------
(* The kernel module and the mutex.                                        *)

USE DEF Goto

\* The register file of the FPGA remembers every rise of the line.
LEMMA RegistersSeen ==
  ASSUME NEW f, NEW e, Registers(f, e), pending \in BOOLEAN,
         Line(flags, enabs) => pending
  PROVE  flags' = f /\ enabs' = e /\ pending' \in BOOLEAN /\ (pending => pending')
         /\ (Line(f, e) => pending')
BY DEF Registers, Line

\* Nothing runs and no flag is set when the module is loaded.
LEMMA InitInv == WfiInit => IInv
BY MaskAssumption, NobodyAssumption DEF WfiInit, IInv, TypeOK, Line

\* A flag that rises or falls leaves the bits enabled and is seen.
LEMMA FlagInv ==
  ASSUME IInv, NEW s \in Sources, Raise(s) \/ Lower(s)
  PROVE  IInv'
<1>1. flags' \in SUBSET Sources /\ enabs' = enabs /\ pending' \in BOOLEAN
      /\ (Line(flags', enabs') => pending')
  BY RegistersSeen DEF IInv, TypeOK, Raise, Lower
<1>2. UNCHANGED <<isrlock, isrwaits, state, pc, isr, asserted>>
  BY DEF Raise, Lower
<1> QED
  BY <1>1, <1>2 DEF IInv, TypeOK, Line

\* Every step of the ioctl keeps the invariant.
LEMMA ProcInv ==
  ASSUME IInv, NEW p \in Procs, Call(p) \/ ProcStep(p) \/ Signal(p)
  PROVE  IInv'
<1> USE MaskAssumption, NobodyAssumption DEF IInv, TypeOK
<1>1. CASE Call(p)
  BY <1>1 DEF Call, Line
<1>2. CASE WfiCheck(p)
  <2>1. isrlock = Nobody
        /\ UNCHANGED <<flags, enabs, pending, isrwaits, state, isr, asserted>>
    BY <1>2 DEF WfiCheck
  <2>2. CASE pc' = [pc EXCEPT ![p] = "out"] /\ isrlock' = isrlock
    BY <1>2, <2>1, <2>2 DEF WfiCheck, Line
  <2>3. CASE pc' = [pc EXCEPT ![p] = "enable"] /\ isrlock' = p
    BY <1>2, <2>1, <2>3 DEF WfiCheck, Line
  <2> QED
    BY <1>2, <2>2, <2>3 DEF WfiCheck
<1>3. CASE WfiEnable(p)
  <2>1. flags' = flags /\ enabs' = enabs \cup Mask[p] /\ pending' \in BOOLEAN
        /\ (Line(flags', enabs') => pending')
    BY <1>3, RegistersSeen DEF WfiEnable
  <2>2. isrlock = p /\ isr = "idle"
    BY <1>3 DEF WfiEnable
  <2>3. enabs' \in SUBSET Sources
    BY <2>1
  <2>4. \A q \in Procs : state'[q] = "INTERRUPTIBLE" => Mask[q] \subseteq enabs'
    BY <1>3, <2>1, <2>2 DEF WfiEnable
  <2>5. \A q \in Procs : isrlock' # q /\ pc'[q] # "enable"
    BY <1>3, <2>2 DEF WfiEnable
  <2>6. \A q \in Procs : q \in isrwaits' <=> pc'[q] \in {"schedule", "unlist"}
    BY <1>3 DEF WfiEnable
  <2>7. \A q \in Procs : state'[q] = "INTERRUPTIBLE" => pc'[q] = "schedule"
    BY <1>3 DEF WfiEnable
  <2>8. TypeOK'
    BY <1>3, <2>1, <2>3 DEF WfiEnable
  <2> QED
    BY <1>3, <2>1, <2>2, <2>4, <2>5, <2>6, <2>7, <2>8 DEF WfiEnable
<1>4. CASE Schedule(p)
  BY <1>4 DEF Schedule, Line
<1>5. CASE Signal(p)
  BY <1>5 DEF Signal, Line
<1>6. CASE Unlist(p)
  BY <1>6 DEF Unlist, Line
<1> QED
  BY <1>1, <1>2, <1>3, <1>4, <1>5, <1>6 DEF ProcStep

\* Every step of the interrupt routine keeps the invariant.
LEMMA IsrInv ==
  ASSUME IInv, IsrStep
  PROVE  IInv'
<1> USE MaskAssumption, NobodyAssumption DEF IInv, TypeOK
<1>1. CASE IsrStart
  BY <1>1 DEF IsrStart, Line
<1>2. CASE IsrRead
  BY <1>2 DEF IsrRead, Line
<1>3. CASE IsrWake
  <2> DEFINE E == UNION {Mask[p] : p \in isrwaits \ Woken}
  <2>1. flags' = flags /\ enabs' = E /\ pending' \in BOOLEAN
        /\ (Line(flags', enabs') => pending')
    BY <1>3, RegistersSeen DEF IsrWake
  <2>2. E \in SUBSET Sources
    OBVIOUS
  <2>3. \A q \in Procs : state'[q] = "INTERRUPTIBLE" =>
          state[q] = "INTERRUPTIBLE" /\ q \in isrwaits \ Woken
    BY <1>3 DEF IsrWake, Woken
  <2>4. \A q \in Procs : state'[q] = "INTERRUPTIBLE" => Mask[q] \subseteq enabs'
    BY <2>1, <2>3
  <2>5. TypeOK'
    BY <1>3, <2>1, <2>2 DEF IsrWake
  <2> QED
    BY <1>3, <2>1, <2>3, <2>4, <2>5 DEF IsrWake
<1> QED
  BY <1>1, <1>2, <1>3 DEF IsrStep

\* The strengthened invariant holds in every reachable state.
THEOREM Invariance == WfiSpec => []IInv
<1>1. IInv /\ [WfiNext]_wfivars => IInv'
  <2> SUFFICES ASSUME IInv, [WfiNext]_wfivars PROVE IInv'
    OBVIOUS
  <2>1. CASE UNCHANGED wfivars
    BY <2>1 DEF wfivars, IInv, TypeOK, Line
  <2>2. CASE WfiNext
    BY <2>2, FlagInv, ProcInv, IsrInv DEF WfiNext
  <2> QED
    BY <2>1, <2>2
<1> QED
  BY InitInv, <1>1, PTL DEF WfiSpec

\* A sleeping process is armed: the ioctl and the interrupt routine together
\* never lose a wakeup.
THEOREM Armed == WfiSpec => []SleepersAreArmed
<1>1. IInv => SleepersAreArmed
  BY NobodyAssumption DEF IInv, SleepersAreArmed, Line
<1> QED
  BY Invariance, <1>1, PTL

-----------------------------------------------------------------------------
(* The mutex in the shared page. *)

\* Every variable keeps its type along a step.
LEMMA MutexTypes ==
  ASSUME MutexTypeOK, [MutexNext]_mutexvars
  PROVE  MutexTypeOK'
<1> USE PidOfAssumption, MayDieAssumption DEF MutexTypeOK, PCs
<1>1. ASSUME NEW t \in Threads, Lock(t) PROVE MutexTypeOK'
  BY <1>1 DEF Lock, Moves
<1>2. ASSUME NEW t \in Threads, SwapOk(t) PROVE MutexTypeOK'
  BY <1>2 DEF SwapOk, Moves
<1>3. ASSUME NEW t \in Threads, SwapFails(t) PROVE MutexTypeOK'
  BY <1>3 DEF SwapFails, Moves
<1>4. ASSUME NEW t \in Threads, Probe(t) PROVE MutexTypeOK'
  BY <1>4 DEF Probe, Moves
<1>5. ASSUME NEW t \in Threads, Wait(t) PROVE MutexTypeOK'
  BY <1>5 DEF Wait, Moves
<1>6. ASSUME NEW t \in Threads, Unlock(t) PROVE MutexTypeOK'
  BY <1>6 DEF Unlock, Moves
<1>7. ASSUME NEW t \in Threads, Wake(t) PROVE MutexTypeOK'
  BY <1>7 DEF Wake
<1>8. ASSUME NEW p \in Pids, Die(p) PROVE MutexTypeOK'
  BY <1>8 DEF Die
<1>9. CASE UNCHANGED mutexvars
  BY <1>9 DEF mutexvars
<1> QED
  BY <1>1, <1>2, <1>3, <1>4, <1>5, <1>6, <1>7, <1>8, <1>9 DEF MutexNext, Running

\* The initial states satisfy the strengthened invariant.
LEMMA MutexInitInv ==
  ASSUME MutexInit
  PROVE  MutexInv
BY PidOfAssumption, NoPidAssumption DEF MutexInit, MutexInv, MutexTypeOK, PCs

\* Every step keeps the strengthened invariant.
LEMMA MutexStep ==
  ASSUME MutexInv, [MutexNext]_mutexvars
  PROVE  MutexInv'
<1> USE PidOfAssumption, NoPidAssumption, MayDieAssumption
<1>0. MutexTypeOK'
  BY MutexTypes DEF MutexInv
<1> USE DEF MutexInv
<1>1. ASSUME NEW t \in Threads, Lock(t) PROVE MutexInv'
  BY <1>0, <1>1 DEF Lock, Moves, MutexTypeOK
<1>2. ASSUME NEW t \in Threads, SwapOk(t) PROVE MutexInv'
  <2>1. msfutex \notin alive /\ PidOf[t] \in alive
    BY <1>2 DEF SwapOk, Moves
  <2>2. \A s \in Threads : lpc[s] # "in"
    BY <2>1
  <2> QED
    BY <1>0, <1>2, <2>1, <2>2 DEF SwapOk, Moves, MutexTypeOK
<1>3. ASSUME NEW t \in Threads, SwapFails(t) PROVE MutexInv'
  BY <1>0, <1>3 DEF SwapFails, Moves, MutexTypeOK
<1>4. ASSUME NEW t \in Threads, Probe(t) PROVE MutexInv'
  BY <1>0, <1>4 DEF Probe, Moves, MutexTypeOK
<1>5. ASSUME NEW t \in Threads, Wait(t) PROVE MutexInv'
  BY <1>0, <1>5 DEF Wait, Moves, MutexTypeOK
<1>6. ASSUME NEW t \in Threads, Unlock(t) PROVE MutexInv'
  BY <1>0, <1>6 DEF Unlock, Moves, MutexTypeOK
<1>7. ASSUME NEW t \in Threads, Wake(t) PROVE MutexInv'
  BY <1>0, <1>7 DEF Wake, MutexTypeOK
<1>8. ASSUME NEW p \in Pids, Die(p) PROVE MutexInv'
  BY <1>0, <1>8 DEF Die, MutexTypeOK
<1>9. CASE UNCHANGED mutexvars
  BY <1>0, <1>9 DEF mutexvars, MutexTypeOK
<1> QED
  BY <1>1, <1>2, <1>3, <1>4, <1>5, <1>6, <1>7, <1>8, <1>9 DEF MutexNext, Running

\* The strengthened invariant holds in every reachable state.
THEOREM MutexInvariance == MutexSpec => []MutexInv
<1>1. MutexInit => MutexInv
  BY MutexInitInv
<1>2. MutexInv /\ [MutexNext]_mutexvars => MutexInv'
  BY MutexStep
<1> QED
  BY <1>1, <1>2, PTL DEF MutexSpec

\* At most one thread of all the processes is inside the mutex.
THEOREM Exclusion == MutexSpec => []MutualExclusion
<1>1. MutexInv => MutualExclusion
  BY DEF MutexInv, MutualExclusion
<1> QED
  BY <1>1, MutexInvariance, PTL

\* Unlocking never aborts: the word still holds the owner's pid.
THEOREM UnlockSafe == MutexSpec => []UnlockFindsOwner
<1>1. MutexInv => UnlockFindsOwner
  BY DEF MutexInv, UnlockFindsOwner
<1> QED
  BY <1>1, MutexInvariance, PTL

------------------------------------------------------------------------------
(* The console line.                                                       *)

\* The records have their fields; characters may be anything.
DlTypes(d) ==
  d \in [rrdy : BOOLEAN, rie : BOOLEAN, rbuf : {d.rbuf},
         xrdy : BOOLEAN, xie : BOOLEAN, xbuf : [n : Nat, c : {d.xbuf.c}]]

Detectors == [lastr : BOOLEAN, lastx : BOOLEAN, redge : BOOLEAN, xedge : BOOLEAN]

Driver(p) ==
  p \in [isr : {"no", "r", "x"}, up : {p.up}, busy : {p.busy}, out : {p.out}, asking : {p.asking}]

Types ==
  /\ DlTypes(dl) /\ det \in Detectors /\ Driver(pdp)
  /\ grant \in {"no", "r", "x"} /\ init \in BOOLEAN
  /\ daemon \in [pc : {"loop", "ready", "print"}, xreg : [n : Nat, c : {daemon.xreg.c}]]
  /\ look \in [Looks -> [matched : Nat, echoed : Nat]]
  /\ \A l \in Looks : look[l].echoed <= Len(Reply[l])
  /\ hist \in [nwrote : Nat, printed : Nat, asks : Nat, typed : Nat, inits : Nat]

\* A pending edge has its level unless a grant freezes the detector, so that
\* the processor is sent to the printer's handler only if the printer is ready.
Edges ==
  /\ det.redge => RLevel(dl) \/ grant # "no"
  /\ det.xedge => XLevel(dl) \/ grant # "no"
  /\ grant = "x" \/ pdp.isr = "x" => dl.xrdy
  /\ init => dl.xrdy

\* Which character is where: before a bus reset at most one is in the buffer
\* and one with the daemon.
Numbers ==
  /\ dl.xbuf.n = hist.nwrote /\ hist.printed <= hist.nwrote
  /\ daemon.pc # "loop" => hist.printed < daemon.xreg.n /\ daemon.xreg.n <= hist.nwrote
  /\ daemon.pc = "loop" /\ ~dl.xrdy => hist.printed < hist.nwrote
  /\ daemon.pc = "print" /\ ~dl.xrdy => daemon.xreg.n < hist.nwrote
  /\ hist.inits = 0 =>
       /\ daemon.pc = "loop" => hist.nwrote = hist.printed + (IF dl.xrdy THEN 0 ELSE 1)
       /\ daemon.pc = "ready" => ~dl.xrdy /\ hist.nwrote = hist.printed + 1
       /\ daemon.pc = "print" => hist.nwrote = hist.printed + (IF dl.xrdy THEN 1 ELSE 2)
       /\ daemon.pc # "loop" => daemon.xreg.n = hist.printed + 1
       /\ ~init

DlInv == Types /\ Edges /\ Numbers

-----------------------------------------------------------------------------
(* The line. *)

\* The registers change: the detector follows, or stays as it is in a grant.
LEMMA DriveIs ==
  ASSUME Types, Edges, NEW d, DlTypes(d), Drive(d), UNCHANGED grant
  PROVE  /\ DlTypes(dl') /\ det' \in Detectors /\ dl' = d
         /\ (det.redge => RLevel(dl) \/ grant # "no")'
         /\ (det.xedge => XLevel(dl) \/ grant # "no")'
<1>1. dl' = d
  BY DEF Drive
<1>2. CASE grant = "no"
  <2>1. det' = Sensed(d)
    BY <1>2 DEF Drive
  <2>2. /\ RLevel(d) \in BOOLEAN /\ XLevel(d) \in BOOLEAN
        /\ Edge(RLevel(d), det.lastr, det.redge) \in BOOLEAN
        /\ Edge(XLevel(d), det.lastx, det.xedge) \in BOOLEAN
    BY DEF RLevel, XLevel, Edge, DlTypes
  <2>3. det' \in Detectors
    BY <2>1, <2>2 DEF Sensed, Detectors
  <2>4. /\ det'.redge = Edge(RLevel(d), det.lastr, det.redge)
        /\ det'.xedge = Edge(XLevel(d), det.lastx, det.xedge)
    BY <2>1 DEF Sensed
  <2>5. (det'.redge => RLevel(d)) /\ (det'.xedge => XLevel(d))
    BY <2>4, Zenon DEF Edge
  <2>6. RLevel(dl)' = RLevel(d) /\ XLevel(dl)' = XLevel(d)
    BY <1>1 DEF RLevel, XLevel
  <2> QED
    BY <1>1, <2>3, <2>5, <2>6
<1>3. CASE grant # "no"
  <2>1. det' = det /\ grant' # "no"
    BY <1>3 DEF Drive
  <2> QED
    BY <1>1, <2>1 DEF Types
<1> QED
  BY <1>2, <1>3

\* The numbers stand as long as nobody writes or takes a character.
LEMMA NumbersStand ==
  ASSUME Numbers,
         UNCHANGED <<daemon, init, dl.xbuf.n, dl.xrdy, hist.nwrote, hist.printed, hist.inits>>
  PROVE  Numbers'
  BY DEF Numbers

\* A grant, taken and given; the end of a bus reset.
LEMMA LineSteps ==
  ASSUME DlInv, Fabric
  PROVE  DlInv'
<1> USE DEF DlInv
<1>1. CASE Grant
  <2>1. /\ grant = "no" /\ grant' = IrVec /\ IrVec \in {"r", "x"} /\ pdp.isr = "no" /\ ~init
        /\ det' = Cleared(IrVec) /\ (det.redge \/ det.xedge)
        /\ UNCHANGED <<dl, init, daemon, look, pdp, hist>>
    BY <1>1 DEF Grant, IrVec
  <2>2. det' \in Detectors
    <3>1. det.redge \in BOOLEAN /\ det.xedge \in BOOLEAN /\ det \in Detectors
      BY DEF Types, Detectors
    <3>2. (det.redge /\ IrVec # "r") \in BOOLEAN /\ (det.xedge /\ IrVec # "x") \in BOOLEAN
      OBVIOUS
    <3> QED
      BY <2>1, <3>1, <3>2 DEF Cleared, Detectors
  <2>3. IrVec = "x" => dl.xrdy
    <3>1. det.redge => RLevel(dl)
      BY <2>1 DEF Edges
    <3>2. det.xedge => XLevel(dl)
      BY <2>1 DEF Edges
    <3>3. IrVec = "x" => ~RLevel(dl)
      BY DEF IrVec
    <3> QED
      BY <2>1, <3>1, <3>2, <3>3 DEF XLevel
  <2>4. Edges'
    BY <2>1, <2>3 DEF Edges
  <2>5. Types'
    BY <2>1, <2>2 DEF Types
  <2> QED
    BY <2>1, <2>4, <2>5, NumbersStand
<1>2. CASE Granted
  <2>1. /\ grant # "no" /\ grant' = "no" /\ pdp' = [pdp EXCEPT !.isr = grant]
        /\ det' = Sensed(dl) /\ UNCHANGED <<dl, init, daemon, look, hist>>
    BY <1>2 DEF Granted
  <2>2. Driver(pdp') /\ pdp'.isr = grant
    BY <2>1 DEF Types, Driver
  <2>3. /\ RLevel(dl) \in BOOLEAN /\ XLevel(dl) \in BOOLEAN
        /\ Edge(RLevel(dl), det.lastr, det.redge) \in BOOLEAN
        /\ Edge(XLevel(dl), det.lastx, det.xedge) \in BOOLEAN
    BY DEF RLevel, XLevel, Edge, DlTypes, Types
  <2>4. det' \in Detectors
    BY <2>1, <2>3 DEF Sensed, Detectors
  <2>5. /\ det'.redge = Edge(RLevel(dl), det.lastr, det.redge)
        /\ det'.xedge = Edge(XLevel(dl), det.lastx, det.xedge)
    BY <2>1 DEF Sensed
  <2>6. (det'.redge => RLevel(dl)) /\ (det'.xedge => XLevel(dl))
    BY <2>5, Zenon DEF Edge
  <2>7. RLevel(dl)' = RLevel(dl) /\ XLevel(dl)' = XLevel(dl)
    BY <2>1 DEF RLevel, XLevel
  <2>8. Edges'
    BY <2>1, <2>2, <2>6, <2>7 DEF Edges
  <2>9. Types'
    BY <2>1, <2>2, <2>4 DEF Types
  <2> QED
    BY <2>1, <2>8, <2>9, NumbersStand
<1>3. CASE InitOff
  <2>1. init /\ init' = FALSE /\ UNCHANGED <<dl, det, grant, daemon, look, pdp, hist>>
    BY <1>3 DEF InitOff
  <2>2. Types' /\ Edges'
    BY <2>1 DEF Types, Edges, RLevel, XLevel
  <2>3. Numbers'
    BY <2>1 DEF Numbers
  <2> QED
    BY <2>2, <2>3
<1> QED
  BY <1>1, <1>2, <1>3 DEF Fabric

\* A bus reset: the character in the buffer may never be printed.
LEMMA InitSteps ==
  ASSUME DlInv, InitOn
  PROVE  DlInv'
<1> USE DEF DlInv
<1>1. /\ init' = TRUE /\ hist' = [hist EXCEPT !.inits = @ + 1]
      /\ dl' = ResetDl(dl) /\ det' = NoEdges /\ grant' = "no" /\ pdp' = Booting
      /\ UNCHANGED <<daemon, look>>
  BY DEF InitOn
<1>2. DlTypes(dl') /\ dl'.xbuf = dl.xbuf /\ dl'.xrdy = TRUE
  BY <1>1 DEF ResetDl, Types, DlTypes
<1>3. det' \in Detectors /\ det'.redge = FALSE /\ det'.xedge = FALSE
  BY <1>1 DEF NoEdges, Detectors
<1>4. Driver(pdp') /\ pdp'.isr = "no"
  BY <1>1 DEF Booting, Driver
<1>5. /\ hist' \in [nwrote : Nat, printed : Nat, asks : Nat, typed : Nat, inits : Nat]
      /\ hist'.nwrote = hist.nwrote /\ hist'.printed = hist.printed /\ hist'.inits = hist.inits + 1
      /\ hist.inits \in Nat
  BY SMTT(30), <1>1 DEF Types
<1>6. Types'
  BY <1>1, <1>2, <1>3, <1>4, <1>5 DEF Types
<1>7. Edges'
  BY <1>1, <1>2, <1>3, <1>4 DEF Edges
<1>8. Numbers'
  <2>1. hist'.inits # 0
    BY <1>5
  <2> QED
    BY <1>1, <1>2, <1>5, <2>1 DEF Numbers
<1> QED
  BY <1>6, <1>7, <1>8

-----------------------------------------------------------------------------
(* The program. *)

Counts == [nwrote : Nat, printed : Nat, asks : Nat, typed : Nat, inits : Nat]

\* The next character goes into a buffer whose last one the daemon has read.
LEMMA WriteIs ==
  ASSUME DlInv, WriteXbuf, dl.xrdy, ~init, UNCHANGED <<grant, init, daemon>>
  PROVE  /\ DlTypes(dl') /\ det' \in Detectors
         /\ (det.redge => RLevel(dl) \/ grant # "no")'
         /\ (det.xedge => XLevel(dl) \/ grant # "no")'
         /\ hist' \in Counts /\ Numbers'
<1> DEFINE b == [n |-> hist.nwrote + 1, c |-> Head(pdp.out)]
           d == [dl EXCEPT !.xbuf = b, !.xrdy = FALSE]
<1>1. DlTypes(dl) /\ hist \in Counts
  BY DEF DlInv, Types, Counts
<1>2. b.n = hist.nwrote + 1 /\ b \in [n : Nat, c : {b.c}]
  BY <1>1 DEF Counts
<1>3. DlTypes(d) /\ d.xbuf = b /\ d.xrdy = FALSE
  <2> HIDE DEF b
  <2> QED
    BY <1>1, <1>2 DEF DlTypes
<1>4. Drive(d) /\ hist' = [hist EXCEPT !.nwrote = @ + 1]
  BY DEF WriteXbuf
<1> HIDE DEF b, d
<1>5. /\ DlTypes(dl') /\ det' \in Detectors /\ dl' = d
      /\ (det.redge => RLevel(dl) \/ grant # "no")'
      /\ (det.xedge => XLevel(dl) \/ grant # "no")'
  BY <1>3, <1>4, DriveIs DEF DlInv
<1>6. /\ hist' \in Counts /\ hist'.nwrote = hist.nwrote + 1 /\ hist'.printed = hist.printed
      /\ hist'.inits = hist.inits
  BY <1>1, <1>4 DEF Counts
<1>7. /\ dl'.xbuf.n = hist.nwrote + 1 /\ dl'.xrdy = FALSE
      /\ hist.nwrote \in Nat /\ hist.printed \in Nat /\ daemon.xreg.n \in Nat
      /\ daemon.pc \in {"loop", "ready", "print"}
  BY <1>1, <1>2, <1>3, <1>5 DEF DlInv, Types, Counts
<1>8. Numbers'
  BY <1>6, <1>7 DEF DlInv, Numbers
<1> QED
  BY <1>5, <1>6, <1>8

\* The program's driver keeps the invariant.
LEMMA ProgramSteps ==
  ASSUME DlInv, Program \/ Ask
  PROVE  DlInv'
<1>0. Types /\ Edges /\ Numbers /\ hist \in Counts /\ Driver(pdp) /\ DlTypes(dl)
  BY DEF DlInv, Types, Counts
<1>1. CASE Boot
  <2> DEFINE d == [dl EXCEPT !.rie = TRUE, !.xie = TRUE]
  <2>1. /\ pdp' = [pdp EXCEPT !.up = TRUE] /\ Drive(d)
        /\ UNCHANGED <<grant, init, daemon, look, hist>>
    BY <1>1 DEF Boot
  <2>2. DlTypes(d) /\ d.xbuf = dl.xbuf /\ d.xrdy = dl.xrdy
    BY <1>0 DEF DlTypes
  <2> HIDE DEF d
  <2>3. /\ DlTypes(dl') /\ det' \in Detectors /\ dl' = d
        /\ (det.redge => RLevel(dl) \/ grant # "no")'
        /\ (det.xedge => XLevel(dl) \/ grant # "no")'
    BY <1>0, <2>1, <2>2, DriveIs
  <2>4. Driver(pdp') /\ pdp'.isr = pdp.isr
    BY <1>0, <2>1 DEF Driver
  <2> QED
    BY <1>0, <2>1, <2>2, <2>3, <2>4, NumbersStand DEF DlInv, Types, Edges
<1>2. CASE StartOutput
  <2>1. /\ ~init /\ dl.xrdy /\ WriteXbuf /\ pdp.isr = "no" /\ grant = "no"
        /\ pdp' = [pdp EXCEPT !.busy = TRUE, !.out = Tail(@)]
        /\ UNCHANGED <<grant, init, daemon, look>>
    BY <1>2 DEF StartOutput, Runs
  <2>2. Driver(pdp') /\ pdp'.isr = "no"
    BY <1>0, <2>1 DEF Driver
  <2> QED
    BY <1>0, <2>1, <2>2, WriteIs DEF DlInv, Types, Edges, Counts
<1>3. CASE XHandler
  <2>1. pdp.isr = "x" /\ ~init /\ grant = "no" /\ UNCHANGED <<grant, init, daemon, look>>
    BY <1>3 DEF XHandler, Runs
  <2>2. CASE pdp.out = <<>>
    <3>1. pdp' = [pdp EXCEPT !.isr = "no", !.busy = FALSE] /\ UNCHANGED <<dl, det, hist>>
      BY <1>3, <2>2 DEF XHandler
    <3>2. Driver(pdp') /\ pdp'.isr = "no"
      BY <1>0, <3>1 DEF Driver
    <3>3. Types'
      BY <1>0, <2>1, <3>1, <3>2 DEF Types
    <3>4. Edges'
      BY <1>0, <2>1, <3>1, <3>2 DEF Edges, RLevel, XLevel
    <3> QED
      BY <1>0, <2>1, <3>1, <3>3, <3>4, NumbersStand DEF DlInv
  <2>3. CASE pdp.out # <<>>
    <3>1. WriteXbuf /\ pdp' = [pdp EXCEPT !.isr = "no", !.busy = TRUE, !.out = Tail(@)]
      BY <1>3, <2>3 DEF XHandler
    <3>2. Driver(pdp') /\ pdp'.isr = "no"
      BY <1>0, <3>1 DEF Driver
    <3>3. dl.xrdy
      BY <1>0, <2>1 DEF Edges
    <3> QED
      BY <1>0, <2>1, <3>1, <3>2, <3>3, WriteIs DEF DlInv, Types, Edges, Counts
  <2> QED
    BY <2>2, <2>3
<1>4. CASE RHandler
  <2> DEFINE d == [dl EXCEPT !.rrdy = FALSE]
  <2>1. /\ Drive(d) /\ UNCHANGED <<grant, init, daemon, look, hist>>
        /\ \E o, a : pdp' = [pdp EXCEPT !.isr = "no", !.out = o, !.asking = a]
    BY <1>4 DEF RHandler
  <2>2. DlTypes(d) /\ d.xbuf = dl.xbuf /\ d.xrdy = dl.xrdy
    BY <1>0 DEF DlTypes
  <2> HIDE DEF d
  <2>3. /\ DlTypes(dl') /\ det' \in Detectors /\ dl' = d
        /\ (det.redge => RLevel(dl) \/ grant # "no")'
        /\ (det.xedge => XLevel(dl) \/ grant # "no")'
    BY <1>0, <2>1, <2>2, DriveIs
  <2>4. Driver(pdp') /\ pdp'.isr = "no"
    BY <1>0, <2>1 DEF Driver
  <2> QED
    BY <1>0, <2>1, <2>2, <2>3, <2>4, NumbersStand DEF DlInv, Types, Edges
<1>5. CASE Ask
  <2>1. /\ UNCHANGED <<dl, det, grant, init, daemon, look>>
        /\ \E o, a : pdp' = [pdp EXCEPT !.out = o, !.asking = a]
        /\ hist' = [hist EXCEPT !.asks = @ + 1]
    BY <1>5 DEF Ask
  <2>2. Driver(pdp') /\ pdp'.isr = pdp.isr
    BY <1>0, <2>1 DEF Driver
  <2>3. /\ hist' \in Counts /\ hist'.nwrote = hist.nwrote /\ hist'.printed = hist.printed
        /\ hist'.inits = hist.inits
    BY <1>0, <2>1 DEF Counts
  <2>4. Types'
    BY <1>0, <2>1, <2>2, <2>3 DEF Types, Counts
  <2>5. Edges'
    BY <1>0, <2>1, <2>2 DEF Edges, RLevel, XLevel
  <2> QED
    BY <1>0, <2>1, <2>3, <2>4, <2>5, NumbersStand DEF DlInv
<1> QED
  BY <1>1, <1>2, <1>3, <1>4, <1>5 DEF Program

-----------------------------------------------------------------------------
(* The daemon. *)

\* A LookFor object stays within its reply.
LEMMA LookIs ==
  ASSUME Types, NEW l \in Looks, NEW c
  PROVE  /\ GotPRChar(l, c) \in [matched : Nat, echoed : Nat]
         /\ GotPRChar(l, c).echoed <= Len(Reply[l])
<1> DEFINE m == look[l].matched  e == look[l].echoed
<1>1. /\ look[l] \in [matched : Nat, echoed : Nat] /\ m \in Nat /\ e \in Nat
      /\ e <= Len(Reply[l]) /\ Len(Reply[l]) \in Nat \ {0}
  BY DlAssumption DEF Types
<1>2. \/ GotPRChar(l, c) = Idle
      \/ GotPRChar(l, c) = [matched |-> m + 1, echoed |-> 1]
      \/ GotPRChar(l, c) = [matched |-> m + 1, echoed |-> 0]
      \/ e # Len(Reply[l]) /\ GotPRChar(l, c) = [look[l] EXCEPT !.echoed = e + 1]
  BY DEF GotPRChar
<1>3. e # Len(Reply[l]) => e + 1 <= Len(Reply[l])
  BY <1>1
<1> QED
  BY <1>1, <1>2, <1>3 DEF Idle

\* A register write of the daemon takes effect unless INIT lasts.
LEMMA ArmIs ==
  ASSUME Types, Edges, NEW d, DlTypes(d), ArmWrite(d), UNCHANGED grant
  PROVE  /\ DlTypes(dl') /\ det' \in Detectors /\ dl' = IF init THEN dl ELSE d
         /\ (det.redge => RLevel(dl) \/ grant # "no")'
         /\ (det.xedge => XLevel(dl) \/ grant # "no")'
<1>1. CASE init
  <2>1. UNCHANGED <<dl, det>>
    BY <1>1 DEF ArmWrite
  <2> QED
    BY <1>1, <2>1 DEF Types, Edges, RLevel, XLevel
<1>2. CASE ~init
  BY <1>2, DriveIs DEF ArmWrite
<1> QED
  BY <1>1, <1>2

\* A key typed by the user or by a LookFor object.
LEMMA TypeIs ==
  ASSUME DlInv, NEW c, Type(c), UNCHANGED <<grant, init, daemon, look, pdp>>, hist' \in Counts,
         UNCHANGED <<hist.nwrote, hist.printed, hist.inits>>
  PROVE  DlInv'
<1> DEFINE d == [dl EXCEPT !.rrdy = TRUE, !.rbuf = c]
<1>1. ArmWrite(d)
  BY DEF Type
<1>2. DlTypes(d) /\ d.xbuf = dl.xbuf /\ d.xrdy = dl.xrdy
  BY DEF DlInv, Types, DlTypes
<1> HIDE DEF d
<1>3. /\ DlTypes(dl') /\ det' \in Detectors /\ dl' = IF init THEN dl ELSE d
      /\ (det.redge => RLevel(dl) \/ grant # "no")'
      /\ (det.xedge => XLevel(dl) \/ grant # "no")'
  BY <1>1, <1>2, ArmIs DEF DlInv
<1>4. dl'.xbuf = dl.xbuf /\ dl'.xrdy = dl.xrdy
  BY <1>2, <1>3
<1>5. Types'
  BY <1>3 DEF DlInv, Types, Counts
<1>6. Edges'
  BY <1>3, <1>4 DEF DlInv, Edges
<1>7. Numbers'
  BY <1>4, NumbersStand DEF DlInv
<1> QED
  BY <1>5, <1>6, <1>7 DEF DlInv

\* So does the daemon: it reads, gives the line back, prints.
LEMMA DaemonSteps ==
  ASSUME DlInv, Daemon \/ KbReply \/ KbType
  PROVE  DlInv'
<1>0. Types /\ Edges /\ Numbers /\ hist \in Counts /\ DlTypes(dl)
  BY DEF DlInv, Types, Counts
<1>1. CASE PrPoll
  <2>1. /\ daemon.pc = "loop" /\ ~dl.xrdy /\ daemon' = [pc |-> "ready", xreg |-> dl.xbuf]
        /\ UNCHANGED <<dl, det, grant, init, look, pdp, hist>>
    BY <1>1 DEF PrPoll
  <2>2. /\ daemon' \in [pc : {"loop", "ready", "print"}, xreg : [n : Nat, c : {daemon'.xreg.c}]]
        /\ daemon'.xreg.n = dl.xbuf.n
    BY <1>0, <2>1 DEF DlTypes
  <2>3. Types'
    BY <1>0, <2>1, <2>2 DEF Types
  <2>4. Edges'
    BY <1>0, <2>1 DEF Edges, RLevel, XLevel
  <2>5. Numbers'
    BY <1>0, <2>1, <2>2 DEF Numbers, Types
  <2> QED
    BY <2>3, <2>4, <2>5 DEF DlInv
<1>2. CASE PrReady
  <2> DEFINE d == [dl EXCEPT !.xrdy = TRUE]
  <2>1. /\ daemon.pc = "ready" /\ ArmWrite(d) /\ daemon' = [daemon EXCEPT !.pc = "print"]
        /\ UNCHANGED <<grant, init, look, pdp, hist>>
    BY <1>2 DEF PrReady
  <2>2. DlTypes(d) /\ d.xbuf = dl.xbuf /\ d.xrdy = TRUE
    BY <1>0 DEF DlTypes
  <2> HIDE DEF d
  <2>3. /\ DlTypes(dl') /\ det' \in Detectors /\ dl' = IF init THEN dl ELSE d
        /\ (det.redge => RLevel(dl) \/ grant # "no")'
        /\ (det.xedge => XLevel(dl) \/ grant # "no")'
    BY <1>0, <2>1, <2>2, ArmIs
  <2>4. dl'.xbuf = dl.xbuf /\ dl'.xrdy
    BY <1>0, <2>2, <2>3 DEF Edges
  <2>5. /\ daemon' \in [pc : {"loop", "ready", "print"}, xreg : [n : Nat, c : {daemon'.xreg.c}]]
        /\ daemon'.xreg = daemon.xreg /\ daemon'.pc = "print"
    BY <1>0, <2>1 DEF Types
  <2>6. Types'
    BY <1>0, <2>1, <2>3, <2>5 DEF Types
  <2>7. Edges'
    BY <1>0, <2>1, <2>3, <2>4 DEF Edges
  <2>8. Numbers'
    BY <1>0, <2>1, <2>4, <2>5 DEF Numbers
  <2> QED
    BY <2>6, <2>7, <2>8 DEF DlInv
<1>3. CASE PrPrint
  <2>1. /\ daemon.pc = "print" /\ hist' = [hist EXCEPT !.printed = daemon.xreg.n]
        /\ look' = [l \in Looks |-> GotPRChar(l, daemon.xreg.c)]
        /\ daemon' = [daemon EXCEPT !.pc = "loop"]
        /\ UNCHANGED <<dl, det, grant, init, pdp>>
    BY <1>3 DEF PrPrint
  <2>2. /\ daemon' \in [pc : {"loop", "ready", "print"}, xreg : [n : Nat, c : {daemon'.xreg.c}]]
        /\ daemon'.xreg = daemon.xreg /\ daemon'.pc = "loop" /\ daemon.xreg.n \in Nat
    BY <1>0, <2>1 DEF Types
  <2>3. /\ hist' \in Counts /\ hist'.nwrote = hist.nwrote /\ hist'.printed = daemon.xreg.n
        /\ hist'.inits = hist.inits
    BY <1>0, <2>1, <2>2 DEF Counts
  <2>4. /\ look' \in [Looks -> [matched : Nat, echoed : Nat]]
        /\ \A l \in Looks : look'[l].echoed <= Len(Reply[l])
    BY <1>0, <2>1, LookIs
  <2>5. Types'
    BY <1>0, <2>1, <2>2, <2>3, <2>4 DEF Types, Counts
  <2>6. Edges'
    BY <1>0, <2>1 DEF Edges, RLevel, XLevel
  <2>7. Numbers'
    BY <1>0, <2>1, <2>2, <2>3 DEF Numbers, Counts
  <2> QED
    BY <2>5, <2>6, <2>7 DEF DlInv
<1>4. CASE KbReply
  <2>1. \E c : Type(c)
    BY <1>4 DEF KbReply
  <2>2. UNCHANGED <<grant, init, daemon, look, pdp, hist>>
    BY <1>4 DEF KbReply
  <2> QED
    BY <1>0, <2>1, <2>2, TypeIs
<1>5. CASE KbType
  <2>1. \E c : Type(c)
    BY <1>5 DEF KbType
  <2>2. UNCHANGED <<grant, init, daemon, look, pdp>> /\ hist' = [hist EXCEPT !.typed = @ + 1]
    BY <1>5 DEF KbType
  <2>3. /\ hist' \in Counts /\ hist'.nwrote = hist.nwrote /\ hist'.printed = hist.printed
        /\ hist'.inits = hist.inits
    BY <1>0, <2>2 DEF Counts
  <2> QED
    BY <1>0, <2>1, <2>2, <2>3, TypeIs
<1> QED
  BY <1>1, <1>2, <1>3, <1>4, <1>5 DEF Daemon

-----------------------------------------------------------------------------
(* The invariant. *)

\* Nothing is written or pending at first.
LEMMA DlInitInv == Init => DlInv
<1> SUFFICES ASSUME Init PROVE DlInv
  OBVIOUS
<1>1. DlTypes(dl) /\ dl.xbuf.n = 0 /\ dl.xrdy
  BY DEF Init, DlTypes
<1>2. det \in Detectors /\ ~det.redge /\ ~det.xedge
  BY DEF Init, NoEdges, Detectors
<1>3. Driver(pdp) /\ pdp.isr = "no"
  BY DEF Init, Booting, Driver
<1>4. /\ daemon \in [pc : {"loop", "ready", "print"}, xreg : [n : Nat, c : {daemon.xreg.c}]]
      /\ daemon.pc = "loop"
  BY DEF Init
<1>5. look \in [Looks -> [matched : Nat, echoed : Nat]] /\ \A l \in Looks : look[l].echoed <= Len(Reply[l])
  BY DlAssumption DEF Init, Idle
<1>6. hist \in Counts /\ hist.nwrote = 0 /\ hist.printed = 0
  BY DEF Init, Counts
<1>7. grant = "no" /\ init = FALSE
  BY DEF Init
<1>8. Types
  BY <1>1, <1>2, <1>3, <1>4, <1>5, <1>6, <1>7 DEF Types, Counts
<1>9. Edges /\ Numbers
  BY <1>1, <1>2, <1>3, <1>4, <1>6, <1>7 DEF Edges, Numbers
<1> QED
  BY <1>8, <1>9 DEF DlInv

\* Every reachable state satisfies the invariant, whatever is asked and typed.
THEOREM DlInvariance == Spec => []DlInv
<1>1. DlInv /\ Next => DlInv'
  BY LineSteps, ProgramSteps, DaemonSteps, InitSteps DEF Next
<1>2. DlInv /\ UNCHANGED vars => DlInv'
  BY DEF vars, DlInv, Types, Edges, Numbers, RLevel, XLevel, DlTypes, Driver
<1>3. DlInv /\ [Next]_vars => DlInv'
  BY <1>1, <1>2
<1> QED
  BY <1>3, DlInitInv, PTL DEF Spec

\* What is printed is what was written, in order, nothing twice and, before any
\* bus reset, nothing left out, although the daemon makes the printer ready
\* before it prints.
THEOREM InOrder == Spec => []PrintedInOrder
<1>1. ASSUME Types, Edges, Numbers PROVE PrintedInOrder
  <2>1. \A l \in Looks : look[l].echoed \in 0 .. Len(Reply[l])
    BY <1>1, DlAssumption DEF Types
  <2>2. dl.xbuf.n <= hist.nwrote /\ hist.printed <= hist.nwrote
    BY <1>1 DEF Numbers, Types
  <2>3. DlTypeOK
    BY <1>1, <2>1, <2>2 DEF DlTypeOK, Edges
  <2> QED
    BY <1>1, <2>3 DEF PrintedInOrder, Numbers, Types
<1>2. DlInv => PrintedInOrder
  BY <1>1 DEF DlInv
<1> QED
  BY <1>2, DlInvariance, PTL
=============================================================================
