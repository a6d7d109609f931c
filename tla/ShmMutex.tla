------------------------------ MODULE ShmMutex ------------------------------
(***************************************************************************)
(* The futex mutex of the mass-storage shared page (shmms.cc): lockmutex   *)
(* and msunlk in the clients, shmms_svr_mutexlock and shmms_svr_mutexunlk  *)
(* in the server's threads, which all use the server's pid.                *)
(*                                                                         *)
(* msfutex holds 0 or the owner's pid.  A thread that cannot take it       *)
(* probes the owner with kill (pid, 0): if the owner is gone it tries to   *)
(* swap the dead pid for its own, else it sleeps on the futex until an     *)
(* unlock wakes everybody.                                                 *)
(***************************************************************************)
EXTENDS Naturals

CONSTANTS
  Pids,       \* process ids; a pid is not reused after death
  Threads,    \* the threads that use the page
  PidOf,      \* the process each thread runs in (mypid)
  NoPid,      \* 0
  MayDie      \* the processes that may be killed

ASSUME PidOfAssumption == PidOf \in [Threads -> Pids]
ASSUME NoPidAssumption == NoPid \notin Pids
ASSUME MayDieAssumption == MayDie \subseteq Pids

VARIABLES
  msfutex,    \* the futex word: NoPid or the owner's pid
  alive,      \* processes that exist
  lpc,        \* where each thread is
  tmpfutex    \* per thread: the value the next compare-exchange expects

mutexvars == <<msfutex, alive, lpc, tmpfutex>>

PCs == {"out", "swap", "probe", "wait", "asleep", "in", "wake", "gone"}

MutexTypeOK ==
  /\ msfutex \in Pids \cup {NoPid}
  /\ alive \in SUBSET Pids
  /\ lpc \in [Threads -> PCs]
  /\ tmpfutex \in [Threads -> Pids \cup {NoPid}]

MutexInit ==
  /\ msfutex = NoPid
  /\ alive = Pids
  /\ lpc = [t \in Threads |-> "out"]
  /\ tmpfutex = [t \in Threads |-> NoPid]

Moves(t, from, to) == lpc[t] = from /\ lpc' = [lpc EXCEPT ![t] = to]

-----------------------------------------------------------------------------
(* lockmutex, shmms_svr_mutexlock *)

Lock(t) ==
  /\ Moves(t, "out", "swap")
  /\ tmpfutex' = [tmpfutex EXCEPT ![t] = NoPid]
  /\ UNCHANGED <<msfutex, alive>>

\* atomic_compare_exchange: take the word, or learn what it is
SwapOk(t) ==
  /\ msfutex = tmpfutex[t]
  /\ msfutex' = PidOf[t]
  /\ Moves(t, "swap", "in")
  /\ UNCHANGED <<alive, tmpfutex>>

SwapFails(t) ==
  /\ msfutex # tmpfutex[t]
  /\ tmpfutex' = [tmpfutex EXCEPT ![t] = msfutex]
  /\ Moves(t, "swap", "probe")
  /\ UNCHANGED <<msfutex, alive>>

\* Variant: any failed probe counts as a death, as if errno were not tested.
Probe_AnyError(t) ==
  /\ Moves(t, "probe", IF tmpfutex[t] # NoPid THEN "swap" ELSE "wait")
  /\ UNCHANGED <<msfutex, alive, tmpfutex>>

\* kill (tmpfutex, 0); it succeeds for 0, which names the caller's own group
Probe(t) ==
  /\ Moves(t, "probe", IF tmpfutex[t] # NoPid /\ tmpfutex[t] \notin alive
                         THEN "swap" ELSE "wait")
  /\ UNCHANGED <<msfutex, alive, tmpfutex>>

\* FUTEX_WAIT sleeps only while the word still has the expected value
Wait(t) ==
  /\ Moves(t, "wait", IF msfutex = tmpfutex[t] THEN "asleep" ELSE "swap")
  /\ tmpfutex' = [tmpfutex EXCEPT ![t] = NoPid]
  /\ UNCHANGED <<msfutex, alive>>

-----------------------------------------------------------------------------
(* msunlk, shmms_svr_mutexunlk *)

\* Variant: the sleepers are not woken.
Unlock_NoWake(t) ==
  /\ msfutex = PidOf[t]
  /\ msfutex' = NoPid
  /\ Moves(t, "in", "out")
  /\ UNCHANGED <<alive, tmpfutex>>

\* a compare-exchange too, which aborts unless the word is our pid
Unlock(t) ==
  /\ msfutex = PidOf[t]
  /\ msfutex' = NoPid
  /\ Moves(t, "in", "wake")
  /\ UNCHANGED <<alive, tmpfutex>>

\* FUTEX_WAKE of every sleeper
Wake(t) ==
  /\ lpc[t] = "wake"
  /\ lpc' = [s \in Threads |-> IF lpc[s] = "asleep" THEN "swap"
                               ELSE IF s = t THEN "out" ELSE lpc[s]]
  /\ UNCHANGED <<msfutex, alive, tmpfutex>>

-----------------------------------------------------------------------------
Die(p) ==
  /\ p \in MayDie \cap alive
  /\ alive' = alive \ {p}
  /\ lpc' = [t \in Threads |-> IF PidOf[t] = p THEN "gone" ELSE lpc[t]]
  /\ UNCHANGED <<msfutex, tmpfutex>>

Running(t) == \/ SwapOk(t) \/ SwapFails(t) \/ Probe(t) \/ Wait(t)
              \/ Unlock(t) \/ Wake(t)

MutexNext == \/ \E t \in Threads : Lock(t) \/ Running(t)
             \/ \E p \in Pids : Die(p)

MutexSpec == MutexInit /\ [][MutexNext]_mutexvars

\* Runnable threads run; nobody keeps the page for ever.
MutexFairSpec == MutexSpec /\ \A t \in Threads : WF_mutexvars(Running(t))

-----------------------------------------------------------------------------
(* Properties. *)

\* At most one thread is inside, though dead owners are robbed of the lock by
\* whoever comes first and the server's threads cannot be told apart by pid.
MutualExclusion == \A s, t \in Threads : lpc[s] = "in" /\ lpc[t] = "in" => s = t

\* The compare-exchange of msunlk finds the caller's pid: its ABORT is dead
\* code, whoever tried to take the lock meanwhile.
UnlockFindsOwner == \A t \in Threads : lpc[t] = "in" => msfutex = PidOf[t]

\* While nobody has died the mutex loses no wakeup: as long as a thread wants
\* it, some thread gets it.
SomeoneGetsIn ==
  (alive = Pids /\ \E t \in Threads : lpc[t] \in {"swap", "probe", "wait", "asleep"})
    ~> (alive # Pids \/ \E t \in Threads : lpc[t] = "in")

\* With deaths too, a thread that wants the page gets it once it is the only
\* one left to want it ("lock RH/RL/TM shared memory").
LastWaiterGetsIn ==
  \A t \in Threads :
    (lpc[t] \in {"swap", "probe", "wait", "asleep"}
       /\ alive = {PidOf[t]}
       /\ \A s \in Threads \ {t} : PidOf[s] # PidOf[t])
      ~> (lpc[t] \in {"in", "gone"})

\* A thread goes to sleep only while some process holds the mutex and so
\* will wake it ("pid of what has it locked", shmms.h).
SleepOnlyIfHeld ==
  [][\A t \in Threads : lpc[t] = "wait" /\ lpc'[t] = "asleep" =>
       msfutex # NoPid]_mutexvars

\* The strengthening: a live pid in the word belongs to the thread inside,
\* and the value a thread tries to replace is 0 or the pid of a dead process.
MutexInv ==
  /\ MutexTypeOK
  /\ \A t \in Threads : lpc[t] # "gone" => PidOf[t] \in alive
  /\ \A t \in Threads : lpc[t] = "in" => msfutex = PidOf[t]
  /\ \A s, t \in Threads : lpc[s] = "in" /\ lpc[t] = "in" => s = t
  /\ \A t \in Threads : lpc[t] \in {"swap", "asleep"} => tmpfutex[t] \notin alive

=============================================================================
