------------------------------ MODULE DmaLock ------------------------------
(***************************************************************************)
(* Exclusive access to the one DMA circuit of the FPGA (ky11.v), as the    *)
(* ARM processes take and release it: Z11Page::dmalock and dmaunlk.        *)
(*                                                                         *)
(* The lock has two levels.  Threads of a process exclude each other with  *)
(* a pthread mutex; processes exclude each other with register 5 of the    *)
(* KY section, a word the FPGA toggles: a write to a free lock stores the  *)
(* value, a write of the value it holds frees it, any other write is       *)
(* ignored.  A process that finds the lock owned by a pid that no longer   *)
(* exists frees it by writing that dead pid.                               *)
(*                                                                         *)
(* One action per access to shared state; what a thread does between two   *)
(* accesses touches only its own variables.                                *)
(***************************************************************************)
EXTENDS Naturals, FiniteSets

CONSTANTS
  Procs,        \* process ids (nonzero); a pid is not reused after death
  Threads,      \* the threads of all the processes
  PidOf,        \* the process each thread runs in (mypid)
  NoPid,        \* 0 in the lock register
  NoThread      \* an unlocked pthread mutex

ASSUME PidOfAssumption == PidOf \in [Threads -> Procs]
ASSUME NoPidAssumption == NoPid \notin Procs
ASSUME NoThreadAssumption == NoThread \notin Threads

VARIABLES
  dmalock,      \* ky11.v register 5: NoPid or the pid that owns the circuit
  dmamutex,     \* per process: the thread that holds the pthread mutex
  alive,        \* processes that exist, for kill (pid, 0)
  pc,           \* where each thread is
  lkpid         \* per thread: the local lkpid, last value read back

lockvars == <<dmalock, dmamutex, alive, pc, lkpid>>

PCs == {"out", "mutex", "claim", "readback", "probe", "unstick",
        "held", "release", "mutexunlk", "gone"}

LockTypeOK ==
  /\ dmalock \in Procs \cup {NoPid}
  /\ dmamutex \in [Procs -> Threads \cup {NoThread}]
  /\ alive \in SUBSET Procs
  /\ pc \in [Threads -> PCs]
  /\ lkpid \in [Threads -> Procs \cup {NoPid}]

LockInit ==
  /\ dmalock = NoPid
  /\ dmamutex = [p \in Procs |-> NoThread]
  /\ alive = Procs
  /\ pc = [t \in Threads |-> "out"]
  /\ lkpid = [t \in Threads |-> NoPid]

Goto(t, from, to) == pc[t] = from /\ pc' = [pc EXCEPT ![t] = to]

\* What the register holds after v is written to it.
LockWrite(v) == CASE dmalock = NoPid -> v
                  [] dmalock = v     -> NoPid
                  [] OTHER           -> dmalock

-----------------------------------------------------------------------------
(* dmalock () *)

Enter(t) ==
  /\ Goto(t, "out", "mutex")
  /\ UNCHANGED <<dmalock, dmamutex, alive, lkpid>>

MutexLock(t) ==
  /\ dmamutex[PidOf[t]] = NoThread
  /\ dmamutex' = [dmamutex EXCEPT ![PidOf[t]] = t]
  /\ Goto(t, "mutex", "claim")
  /\ UNCHANGED <<dmalock, alive, lkpid>>

\* top of the loop: write our pid, hoping to find the lock free
Claim(t) ==
  /\ dmalock' = LockWrite(PidOf[t])
  /\ Goto(t, "claim", "readback")
  /\ UNCHANGED <<dmamutex, alive, lkpid>>

\* Variant: the lock is taken for ours without reading it back.
ReadBack_Trusting(t) ==
  /\ lkpid' = [lkpid EXCEPT ![t] = dmalock]
  /\ Goto(t, "readback", "held")
  /\ UNCHANGED <<dmalock, dmamutex, alive>>

\* read the lock back: ours, or someone else's
ReadBack(t) ==
  /\ lkpid' = [lkpid EXCEPT ![t] = dmalock]
  /\ Goto(t, "readback", IF dmalock = PidOf[t] THEN "held" ELSE "probe")
  /\ UNCHANGED <<dmalock, dmamutex, alive>>

\* Variant: any owner is evicted, dead or alive.
Probe_NoKill(t) ==
  /\ Goto(t, "probe", IF lkpid[t] # NoPid THEN "unstick" ELSE "claim")
  /\ UNCHANGED <<dmalock, dmamutex, alive, lkpid>>

\* kill (lkpid, 0): retry later if the owner exists or there was none
Probe(t) ==
  /\ Goto(t, "probe", IF lkpid[t] # NoPid /\ lkpid[t] \notin alive
                        THEN "unstick" ELSE "claim")
  /\ UNCHANGED <<dmalock, dmamutex, alive, lkpid>>

\* Variant: a dead owner is reported but not evicted.
Unstick_ReportOnly(t) ==
  /\ Goto(t, "unstick", "claim")
  /\ UNCHANGED <<dmalock, dmamutex, alive, lkpid>>

\* the owner is dead: write its pid to free the lock, then retry
Unstick(t) ==
  /\ dmalock' = LockWrite(lkpid[t])
  /\ Goto(t, "unstick", "claim")
  /\ UNCHANGED <<dmamutex, alive, lkpid>>

-----------------------------------------------------------------------------
(* dmaunlk () *)

Leave(t) ==
  /\ Goto(t, "held", "release")
  /\ UNCHANGED <<dmalock, dmamutex, alive, lkpid>>

Release(t) ==
  /\ dmalock' = LockWrite(PidOf[t])
  /\ Goto(t, "release", "mutexunlk")
  /\ UNCHANGED <<dmamutex, alive, lkpid>>

MutexUnlock(t) ==
  /\ dmamutex' = [dmamutex EXCEPT ![PidOf[t]] = NoThread]
  /\ Goto(t, "mutexunlk", "out")
  /\ UNCHANGED <<dmalock, alive, lkpid>>

-----------------------------------------------------------------------------
\* A process is killed, or aborts, between any two of its steps.
Die(p) ==
  /\ p \in alive
  /\ alive' = alive \ {p}
  /\ pc' = [t \in Threads |-> IF PidOf[t] = p THEN "gone" ELSE pc[t]]
  /\ UNCHANGED <<dmalock, dmamutex, lkpid>>

\* The steps a thread takes by itself once it wants the lock; wanting it
\* (Enter) is the caller's choice.
Running(t) == \/ MutexLock(t) \/ Claim(t) \/ ReadBack(t) \/ Probe(t)
              \/ Unstick(t) \/ Leave(t) \/ Release(t) \/ MutexUnlock(t)

LockNext == \/ \E t \in Threads : Enter(t) \/ Running(t)
        \/ \E p \in Procs : Die(p)

LockSpec == LockInit /\ [][LockNext]_lockvars

\* The Linux scheduler runs every runnable thread, and no caller keeps the
\* lock for ever.
LockFairSpec == LockSpec /\ \A t \in Threads : WF_lockvars(Running(t))

-----------------------------------------------------------------------------
(* Properties. *)

\* threads that may use the DMA registers
Owns(t) == pc[t] \in {"held", "release"}

\* threads that hold their process' mutex, and those among them that have
\* written their pid and not yet found it refused
InMutex(t) == pc[t] \in {"claim", "readback", "probe", "unstick",
                         "held", "release", "mutexunlk"}
PastClaim(t) == pc[t] \in {"readback", "held", "release"}

\* Two threads never use the DMA circuit at once, whatever processes died
\* holding the lock and however many found them dead at the same moment
\* (dmalock / dmaunlk: "acquire exclusive access to dma controller").
MutualExclusion == \A s, t \in Threads : Owns(s) /\ Owns(t) => s = t

\* The ASSERTs of dmalock and dmaunlk on the lock register hold whenever
\* they are evaluated: not ours before the first claim, ours while we own it,
\* no longer ours once released.
AssertsHold ==
  \A t \in Threads :
    /\ pc[t] \in {"claim", "mutexunlk"} => dmalock # PidOf[t]
    /\ Owns(t) => dmalock = PidOf[t]

\* A live owner never loses the lock to another process: the register moves
\* away from the pid of a process that stays alive only when a thread of that
\* process executes dmaunlk.  Only the dead are evicted.
OnlyDeadAreEvicted ==
  [][\A p \in alive \cap alive' : dmalock = p /\ dmalock' # p =>
       \E t \in Threads : /\ PidOf[t] = p
                          /\ pc[t] = "release"
                          /\ pc'[t] = "mutexunlk"]_lockvars

\* A lock left behind by dead processes does not block the survivor: a
\* thread of the only process still alive that waits in dmalock gets the lock
\* (or its process dies too).
SurvivorGetsLock ==
  \A t \in Threads :
    (alive = {PidOf[t]} /\ pc[t] \in {"claim", "readback", "probe", "unstick"})
      ~> (Owns(t) \/ PidOf[t] \notin alive)

\* The strengthening that makes mutual exclusion inductive.  A thread inside
\* the mutex is recorded in it; the register holds a live process' pid only
\* while a thread of that process is between claim and release; the pid a
\* thread is about to free the lock from belongs to a dead process.
LockInv ==
  /\ LockTypeOK
  /\ \A t \in Threads : pc[t] # "gone" => PidOf[t] \in alive
  /\ \A t \in Threads : InMutex(t) => dmamutex[PidOf[t]] = t
  /\ \A t \in Threads : InMutex(t) /\ ~PastClaim(t) => dmalock # PidOf[t]
  /\ \A t \in Threads : Owns(t) => dmalock = PidOf[t]
  /\ \A t \in Threads : pc[t] = "unstick" => lkpid[t] \notin alive
  /\ \A p \in alive : dmalock = p =>
        \E t \in Threads : PidOf[t] = p /\ PastClaim(t)

=============================================================================
