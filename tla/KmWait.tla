------------------------------- MODULE KmWait -------------------------------
(***************************************************************************)
(* Waiting for interrupts from the FPGA: the WFI ioctl and the interrupt   *)
(* routine of the kernel module (zynqpdp11.c), under the daemons' waitint. *)
(*                                                                         *)
(* INTFLAGS has a bit per device, high while the device wants its daemon;  *)
(* INTENABS says which of them may interrupt.  The interrupt controller    *)
(* takes the line as edge triggered: it remembers a rise of                *)
(* INTFLAGS & INTENABS # 0, and a line that stays high is not seen again.  *)
(* The flags change at any moment, also between two accesses of a section  *)
(* protected by the spin lock.                                             *)
(***************************************************************************)
EXTENDS Naturals, FiniteSets

CONSTANTS
  Sources,     \* interrupt flag bits
  Procs,       \* processes
  Mask,        \* per process: the bits it waits for
  Nobody       \* the spin lock is free

ASSUME MaskAssumption == Mask \in [Procs -> SUBSET Sources]
ASSUME NobodyAssumption == Nobody \notin Procs \cup {"isr"} /\ "isr" \notin Procs

VARIABLES
  flags, enabs,   \* the registers ZG_INTFLAGS and ZG_INTENABS
  pending,        \* the interrupt controller has seen the line rise
  isrlock,        \* the spin lock: Nobody, "isr" or a process
  isrwaits,       \* processes on the list of waiters
  state,          \* per process: "RUNNING" or "INTERRUPTIBLE"
  pc,             \* per process: where it is in the ioctl
  isr, asserted   \* the interrupt routine: where it is, the flags it read

wfivars == <<flags, enabs, pending, isrlock, isrwaits, state, pc, isr, asserted>>

TypeOK ==
  /\ flags \in SUBSET Sources /\ enabs \in SUBSET Sources /\ pending \in BOOLEAN
  /\ isrlock \in Procs \cup {"isr", Nobody} /\ isrwaits \in SUBSET Procs
  /\ state \in [Procs -> {"RUNNING", "INTERRUPTIBLE"}]
  /\ pc \in [Procs -> {"out", "call", "enable", "schedule", "unlist"}]
  /\ isr \in {"idle", "read", "wake"} /\ asserted \in SUBSET Sources

WfiInit ==
  /\ flags = {} /\ enabs = {} /\ pending = FALSE
  /\ isrlock = Nobody /\ isrwaits = {}
  /\ state = [p \in Procs |-> "RUNNING"]
  /\ pc = [p \in Procs |-> "out"]
  /\ isr = "idle" /\ asserted = {}

Line(f, e) == f \cap e # {}

\* the registers become f and e; the controller sees a rise of the line
Registers(f, e) ==
  /\ flags' = f /\ enabs' = e
  /\ pending' = (pending \/ (~Line(flags, enabs) /\ Line(f, e)))

Goto(p, from, to) == pc[p] = from /\ pc' = [pc EXCEPT ![p] = to]

-----------------------------------------------------------------------------
(* The devices *)

\* the PDP-11 gives a command, a packet arrives
Raise(s) ==
  /\ s \notin flags
  /\ Registers(flags \cup {s}, enabs)
  /\ UNCHANGED <<isrlock, isrwaits, state, pc, isr, asserted>>

\* the daemon has done the command, or the bus is reset
Lower(s) ==
  /\ s \in flags
  /\ Registers(flags \ {s}, enabs)
  /\ UNCHANGED <<isrlock, isrwaits, state, pc, isr, asserted>>

-----------------------------------------------------------------------------
(* zg_ioctl (ZGIOCTL_WFI) *)

Call(p) ==
  /\ Goto(p, "out", "call")
  /\ UNCHANGED <<flags, enabs, pending, isrlock, isrwaits, state, isr, asserted>>

\* take the spin lock, look at the flags: return at once if one is asserted
WfiCheck(p) ==
  /\ isrlock = Nobody
  /\ IF Mask[p] \cap flags # {}
       THEN Goto(p, "call", "out") /\ UNCHANGED isrlock
       ELSE Goto(p, "call", "enable") /\ isrlock' = p
  /\ UNCHANGED <<flags, enabs, pending, isrwaits, state, isr, asserted>>

\* Variant: enable the flags, then join the list after the lock is released.
WfiEnable_LateList(p) ==
  /\ Goto(p, "enable", "schedule")
  /\ Registers(flags, enabs \cup Mask[p])
  /\ state' = [state EXCEPT ![p] = "INTERRUPTIBLE"]
  /\ isrlock' = Nobody
  /\ UNCHANGED <<isrwaits, isr, asserted>>

\* join the list, enable the flags, be ready to sleep; unlock
WfiEnable(p) ==
  /\ Goto(p, "enable", "schedule")
  /\ isrwaits' = isrwaits \cup {p}
  /\ Registers(flags, enabs \cup Mask[p])
  /\ state' = [state EXCEPT ![p] = "INTERRUPTIBLE"]
  /\ isrlock' = Nobody
  /\ UNCHANGED <<isr, asserted>>

\* schedule () comes back once the process was woken
Schedule(p) ==
  /\ state[p] = "RUNNING"
  /\ Goto(p, "schedule", "unlist")
  /\ UNCHANGED <<flags, enabs, pending, isrlock, isrwaits, state, isr, asserted>>

\* ... or a signal arrives, or had arrived before
Signal(p) ==
  /\ state[p] = "INTERRUPTIBLE"
  /\ Goto(p, "schedule", "unlist")
  /\ state' = [state EXCEPT ![p] = "RUNNING"]
  /\ UNCHANGED <<flags, enabs, pending, isrlock, isrwaits, isr, asserted>>

\* off the list, under the spin lock
Unlist(p) ==
  /\ isrlock = Nobody
  /\ Goto(p, "unlist", "out")
  /\ isrwaits' = isrwaits \ {p}
  /\ state' = [state EXCEPT ![p] = "RUNNING"]
  /\ UNCHANGED <<flags, enabs, pending, isrlock, isr, asserted>>

-----------------------------------------------------------------------------
(* zg_isr *)

\* Variant: the enable register is left as it is.
IsrStart_NoShutOff ==
  /\ pending /\ pending' = FALSE
  /\ isrlock = Nobody /\ isrlock' = "isr"
  /\ isr = "idle" /\ isr' = "read"
  /\ UNCHANGED <<flags, enabs, isrwaits, state, pc, asserted>>

\* always shut it off for a few cycles for edge triggering
IsrStart ==
  /\ pending /\ pending' = FALSE
  /\ isrlock = Nobody /\ isrlock' = "isr"
  /\ enabs' = {}
  /\ isr = "idle" /\ isr' = "read"
  /\ UNCHANGED <<flags, isrwaits, state, pc, asserted>>

IsrRead ==
  /\ isr = "read" /\ isr' = "wake"
  /\ asserted' = flags
  /\ UNCHANGED <<flags, enabs, pending, isrlock, isrwaits, state, pc>>

Woken == {p \in isrwaits : Mask[p] \cap asserted # {}}

\* wake whatever is waiting for an asserted bit, enable what the rest wait for
IsrWake ==
  /\ isr = "wake" /\ isr' = "idle"
  /\ state' = [p \in Procs |-> IF p \in Woken THEN "RUNNING" ELSE state[p]]
  /\ Registers(flags, UNION {Mask[p] : p \in isrwaits \ Woken})
  /\ isrlock' = Nobody
  /\ asserted' = {}
  /\ UNCHANGED <<isrwaits, pc>>

-----------------------------------------------------------------------------
ProcStep(p) == WfiCheck(p) \/ WfiEnable(p) \/ Schedule(p) \/ Unlist(p)
IsrStep == IsrStart \/ IsrRead \/ IsrWake

WfiNext ==
  \/ \E s \in Sources : Raise(s) \/ Lower(s)
  \/ \E p \in Procs : Call(p) \/ ProcStep(p) \/ Signal(p)
  \/ IsrStep

WfiSpec == WfiInit /\ [][WfiNext]_wfivars

\* The interrupt is taken when the spin lock allows, runnable processes run
\* and get the spin lock.
WfiFairSpec == /\ WfiSpec /\ SF_wfivars(IsrStep)
               /\ \A p \in Procs : SF_wfivars(ProcStep(p))

-----------------------------------------------------------------------------
(* Properties. *)

\* A sleeping process is sure to hear from its devices: unless someone is in
\* the middle of a locked section or an interrupt is on its way, its bits are
\* enabled and none is asserted.  An edge is lost in no interleaving of the
\* ioctl, the interrupt routine and the devices.
SleepersAreArmed ==
  isrlock = Nobody /\ ~pending =>
    \A p \in Procs : pc[p] = "schedule" /\ state[p] = "INTERRUPTIBLE" =>
      Mask[p] \subseteq enabs /\ Mask[p] \cap flags = {}

\* A device that goes on asking gets its daemon back from the ioctl.
WaitersWake ==
  \A p \in Procs :
    (pc[p] = "schedule" /\ Mask[p] \cap flags # {})
      ~> (pc[p] # "schedule" \/ Mask[p] \cap flags = {})

\* waitint "clears the bits from regarmintena (unless something else waiting
\* for them)" (z11util.cc): bits nobody waits for are not enabled.
OnlyWaitedEnabled ==
  isrlock = Nobody /\ ~pending => enabs \subseteq UNION {Mask[p] : p \in isrwaits}

\* The strengthening: who holds the spin lock, who is on the list; outside the
\* interrupt routine a line that is high has been seen, and the bits of every
\* sleeper are enabled, even while an interrupt is on its way.
IInv ==
  /\ TypeOK
  /\ isrlock = "isr" <=> isr # "idle"
  /\ \A p \in Procs : isrlock = p <=> pc[p] = "enable"
  /\ \A p \in Procs : p \in isrwaits <=> pc[p] \in {"schedule", "unlist"}
  /\ \A p \in Procs : state[p] = "INTERRUPTIBLE" => pc[p] = "schedule"
  /\ isr # "idle" => enabs = {}
  /\ Line(flags, enabs) => pending
  /\ isr = "idle" =>
       \A p \in Procs : state[p] = "INTERRUPTIBLE" => Mask[p] \subseteq enabs

=============================================================================
