------------------------------ MODULE KyProofs ------------------------------
(***************************************************************************)
(* What the console chip ky11.v promises, proved of its two models.        *)
(*                                                                         *)
(* KyDma: the DMA engine and the calls that use it, for any number of      *)
(* processes, threads, addresses and words.  The lock keeps what it        *)
(* promises, with the engine running under it; a call that came through    *)
(* clean did its own bus cycle, whoever died with the engine busy; and,    *)
(* while nobody leaves a busy engine behind, every step is a step of the   *)
(* atomic service or changes nothing that a caller can see.                *)
(*                                                                         *)
(* KyHalt: the halt logic, the stepper, the snapshot logic and the engine, *)
(* for every program, every device, every timing and any number of         *)
(* registers in a snapshot.                                                *)
(***************************************************************************)
EXTENDS KyDma, KyHalt, TLAPS

------------------------------------------------------------------------------
(* The lock itself, for any processes and threads, and any deaths at any   *)
(* moment.  The register can only be moved off a pid by that pid's own     *)
(* thread at "release", or by a thread that found that pid dead, and death *)
(* is for ever: that is LockInv of DmaLock.                                *)

\* Every variable keeps its type along a step.
LEMMA TypePreserved == LockTypeOK /\ [LockNext]_lockvars => LockTypeOK'
<1> SUFFICES ASSUME LockTypeOK, [LockNext]_lockvars PROVE LockTypeOK'
  OBVIOUS
<1> USE PidOfAssumption DEF LockTypeOK, PCs
<1>1. ASSUME NEW t \in Threads, Enter(t) PROVE LockTypeOK'
  BY <1>1 DEF Enter, Goto
<1>2. ASSUME NEW t \in Threads, MutexLock(t) PROVE LockTypeOK'
  BY <1>2 DEF MutexLock, Goto
<1>3. ASSUME NEW t \in Threads, Claim(t) PROVE LockTypeOK'
  BY <1>3 DEF Claim, Goto, LockWrite
<1>4. ASSUME NEW t \in Threads, ReadBack(t) PROVE LockTypeOK'
  BY <1>4 DEF ReadBack, Goto
<1>5. ASSUME NEW t \in Threads, Probe(t) PROVE LockTypeOK'
  BY <1>5 DEF Probe, Goto
<1>6. ASSUME NEW t \in Threads, Unstick(t) PROVE LockTypeOK'
  BY <1>6 DEF Unstick, Goto, LockWrite
<1>7. ASSUME NEW t \in Threads, Leave(t) PROVE LockTypeOK'
  BY <1>7 DEF Leave, Goto
<1>8. ASSUME NEW t \in Threads, Release(t) PROVE LockTypeOK'
  BY <1>8 DEF Release, Goto, LockWrite
<1>9. ASSUME NEW t \in Threads, MutexUnlock(t) PROVE LockTypeOK'
  BY <1>9 DEF MutexUnlock, Goto
<1>10. ASSUME NEW p \in Procs, Die(p) PROVE LockTypeOK'
  BY <1>10 DEF Die
<1>11. CASE UNCHANGED lockvars
  BY <1>11 DEF lockvars
<1> QED
  BY <1>1, <1>2, <1>3, <1>4, <1>5, <1>6, <1>7, <1>8, <1>9, <1>10, <1>11
     DEF LockNext, Running

\* The initial states satisfy the strengthened invariant.
LEMMA InitInv == LockInit => LockInv
  BY PidOfAssumption, NoPidAssumption
     DEF LockInit, LockInv, LockTypeOK, PCs, InMutex, PastClaim, Owns

\* Every step keeps the strengthened invariant.
LEMMA StepInv == LockInv /\ [LockNext]_lockvars => LockInv'
<1> SUFFICES ASSUME LockInv, [LockNext]_lockvars PROVE LockInv'
  OBVIOUS
<1> USE PidOfAssumption, NoPidAssumption, NoThreadAssumption
<1>0. LockTypeOK'
  BY TypePreserved DEF LockInv
<1> USE DEF LockInv, InMutex, PastClaim, Owns
<1>1. ASSUME NEW t \in Threads, Enter(t) PROVE LockInv'
  BY <1>0, <1>1 DEF Enter, Goto, LockTypeOK
<1>2. ASSUME NEW t \in Threads, MutexLock(t) PROVE LockInv'
  BY <1>0, <1>2 DEF MutexLock, Goto, LockTypeOK
<1>3. ASSUME NEW t \in Threads, Claim(t) PROVE LockInv'
  BY <1>0, <1>3 DEF Claim, Goto, LockWrite, LockTypeOK
<1>4. ASSUME NEW t \in Threads, ReadBack(t) PROVE LockInv'
  BY <1>0, <1>4 DEF ReadBack, Goto, LockTypeOK
<1>5. ASSUME NEW t \in Threads, Probe(t) PROVE LockInv'
  BY <1>0, <1>5 DEF Probe, Goto, LockTypeOK
<1>6. ASSUME NEW t \in Threads, Unstick(t) PROVE LockInv'
  BY <1>0, <1>6 DEF Unstick, Goto, LockWrite, LockTypeOK
<1>7. ASSUME NEW t \in Threads, Leave(t) PROVE LockInv'
  BY <1>0, <1>7 DEF Leave, Goto, LockTypeOK
<1>8. ASSUME NEW t \in Threads, Release(t) PROVE LockInv'
  BY <1>0, <1>8 DEF Release, Goto, LockWrite, LockTypeOK
<1>9. ASSUME NEW t \in Threads, MutexUnlock(t) PROVE LockInv'
  BY <1>0, <1>9 DEF MutexUnlock, Goto, LockTypeOK
<1>10. ASSUME NEW p \in Procs, Die(p) PROVE LockInv'
  BY <1>0, <1>10 DEF Die, LockTypeOK
<1>11. CASE UNCHANGED lockvars
  BY <1>0, <1>11 DEF lockvars, LockTypeOK
<1> QED
  BY <1>1, <1>2, <1>3, <1>4, <1>5, <1>6, <1>7, <1>8, <1>9, <1>10, <1>11
     DEF LockNext, Running

\* The strengthened invariant holds in every reachable state.
THEOREM Invariance == LockSpec => []LockInv
  BY InitInv, StepInv, PTL DEF LockSpec

\* Types are respected in every reachable state.
THEOREM TypeCorrect == LockSpec => []LockTypeOK
<1>1. LockInv => LockTypeOK
  BY DEF LockInv
<1> QED
  BY <1>1, Invariance, PTL

\* At most one thread of all the processes uses the DMA circuit at a time.
THEOREM Exclusion == LockSpec => []MutualExclusion
<1>1. LockInv => MutualExclusion
  BY DEF LockInv, MutualExclusion, Owns, InMutex
<1> QED
  BY <1>1, Invariance, PTL

\* The ASSERTs of dmalock and dmaunlk never fail.
THEOREM Asserts == LockSpec => []AssertsHold
<1>1. LockInv => AssertsHold
  BY DEF LockInv, AssertsHold, Owns, InMutex, PastClaim
<1> QED
  BY <1>1, Invariance, PTL

\* Only a dead owner is evicted from the lock register.
THEOREM Eviction == LockSpec => OnlyDeadAreEvicted
<1> DEFINE Kept == \A p \in alive \cap alive' : dmalock = p /\ dmalock' # p =>
                     \E t \in Threads : /\ PidOf[t] = p
                                        /\ pc[t] = "release"
                                        /\ pc'[t] = "mutexunlk"
<1>1. ASSUME LockInv, [LockNext]_lockvars PROVE [Kept]_lockvars
  <2> SUFFICES ASSUME NEW p \in alive \cap alive', dmalock = p, dmalock' # p
               PROVE \E t \in Threads : /\ PidOf[t] = p
                                        /\ pc[t] = "release"
                                        /\ pc'[t] = "mutexunlk"
    OBVIOUS
  <2>1. PICK t \in Threads : Claim(t) \/ Unstick(t) \/ Release(t)
    BY <1>1 DEF LockNext, Running, Enter, MutexLock, ReadBack, Probe, Leave,
                MutexUnlock, Die, lockvars
  <2>2. CASE Claim(t)
    BY <1>1, <2>2, NoPidAssumption
       DEF Claim, Goto, LockWrite, LockInv, LockTypeOK, InMutex, PastClaim
  <2>3. CASE Unstick(t)
    BY <1>1, <2>3, NoPidAssumption DEF Unstick, Goto, LockWrite, LockInv, LockTypeOK
  <2>4. CASE Release(t)
    BY <1>1, <2>4, NoPidAssumption
       DEF Release, Goto, LockWrite, LockInv, LockTypeOK, Owns
  <2> QED
    BY <2>1, <2>2, <2>3, <2>4
<1> QED
  BY <1>1, Invariance, PTL DEF LockSpec, OnlyDeadAreEvicted

------------------------------------------------------------------------------
(* The engine and the calls.                                               *)

\* A thread is in a call only while it holds the lock, with a request.
CallsHeld ==
  \A t \in Threads :
    /\ dpc[t] # "none" => pc[t] = "held"
    /\ dpc[t] \in {"none", "thrown"} =>
         req[t] = NoReq /\ ret[t] = NoRet /\ clean[t]
    /\ dpc[t] \notin {"none", "thrown"} => req[t] \in Requests
    /\ dpc[t] \in {"data", "timo"} => req[t].op = "DATO"
    /\ dpc[t] = "fetch" => req[t].op = "DATI"

\* The cycle whose answer the slave has put on the bus is that of the registers.
Answered ==
  /\ last.op = dmactrl /\ last.addr = dmaaddr
  /\ dmactrl = "DATO" => last.data = dmadata
  /\ dmactrl = "DATI" /\ dmastate # "finish" => bus = last.data
  /\ dmactrl = "DATI" /\ dmastate = "finish" =>
       dmadata = last.data /\ dmaperr = (dmaaddr \in BadParity)

\* What the state of the engine says of its registers and the bus.
EngineInv ==
  /\ initing => dmastate = "idle"
  /\ dmastate # "idle" => dmatimo
  /\ dmastate \in {"latch", "finish"} => ssyn
  /\ ssyn => dmastate \in {"cycle", "latch", "finish"} /\ Answered

\* The engine's registers hold the request of thread t.
Loaded(t) ==
  /\ dmactrl = req[t].op /\ dmaaddr = req[t].addr
  /\ dmactrl = "DATO" => dmadata = req[t].data

\* The last cycle on the bus is the one the thread t asked for.
Did(t) ==
  /\ last.op = req[t].op /\ last.addr = req[t].addr
  /\ req[t].op = "DATO" => last.data = req[t].data

\* How far a call whose writes were all accepted has come.
CleanCall(t) ==
  /\ dpc[t] = "start" /\ req[t].op = "DATO" =>
       dmastate = "idle" /\ dmadata = req[t].data
  /\ dpc[t] = "poll" =>
       /\ Loaded(t)
       /\ dmastate = "idle" /\ ~dmatimo =>
            /\ Did(t)
            /\ req[t].op = "DATI" =>
                 dmadata = last.data /\ dmaperr = (last.addr \in BadParity)
  /\ dpc[t] \in {"timo", "fetch", "reply"} => dmastate = "idle"
  /\ dpc[t] \in {"timo", "fetch"} /\ ~dmatimo => Did(t)
  /\ dpc[t] = "fetch" /\ ~ret[t].timo =>
       Did(t) /\ dmadata = last.data /\ ret[t].perr = (last.addr \in BadParity)
  /\ dpc[t] = "reply" /\ ~ret[t].timo =>
       /\ Did(t)
       /\ req[t].op = "DATI" =>
            ret[t].data = last.data /\ ret[t].perr = (last.addr \in BadParity)

\* While nobody may leave a busy engine behind, it works for a thread that polls.
Serves ==
  /\ EngineServesOwner
  /\ \A t \in Threads : clean[t]

KyInv ==
  /\ KyTypeOK
  /\ LockInv
  /\ CallsHeld
  /\ EngineInv
  /\ \A t \in Threads : clean[t] => CleanCall(t)
  /\ ~MayAbandon => Serves

-----------------------------------------------------------------------------
(* The lock, with the engine under it. *)

\* What the engine and the calls do to the lock are steps of DmaLock.
LEMMA LockSteps == [KyNext]_dmavars => [LockNext]_lockvars
<1> SUFFICES ASSUME [KyNext]_dmavars PROVE [LockNext]_lockvars
  OBVIOUS
<1>1. ASSUME NEW t \in Threads, LeaveLock(t) \/ LockStep(t) \/ Enter(t)
      PROVE [LockNext]_lockvars
  BY <1>1 DEF LeaveLock, LockStep, LockNext, Running
<1>2. ASSUME NEW p \in Procs, Kill(p) PROVE [LockNext]_lockvars
  BY <1>2 DEF Kill, LockNext
<1>3. ASSUME NEW t \in Threads, CallStep(t) \/ GiveUp(t) \/ \E r \in Requests : Call(t, r)
      PROVE UNCHANGED lockvars
  BY <1>3 DEF CallStep, PutData, Start, PollIdle, ReadData, ReadTimo, Return, GiveUp, Call
<1>4. CASE EngineStep \/ Slave \/ Timeout \/ InitOn \/ InitOff
             \/ \E a \in Exists, v \in Values : OtherWrite(a, v)
  BY <1>4 DEF EngineStep, Grant, Drive, SeeSsyn, Latch, Finish, Slave, Timeout,
              InitOn, InitOff, OtherWrite
<1>5. CASE UNCHANGED dmavars
  BY <1>5 DEF dmavars
<1> QED
  BY <1>1, <1>2, <1>3, <1>4, <1>5 DEF KyNext

\* Every behaviour of the engine and its callers is one of the lock.
LEMMA LockRuns == KySpec => LockSpec
<1>1. KyInit => LockInit
  BY DEF KyInit
<1> QED
  BY <1>1, LockSteps, PTL DEF KySpec, LockSpec

\* At most one thread uses the DMA circuit, whatever the engine is doing when
\* a process dies or gives up.
THEOREM KyExclusion == KySpec => []MutualExclusion
  BY LockRuns, Exclusion, PTL

\* A live owner of the engine is never evicted.
THEOREM KyEviction == KySpec => OnlyDeadAreEvicted
  BY LockRuns, Eviction, PTL

-----------------------------------------------------------------------------
(* Types. *)

\* Every step, of a thread or of the engine, keeps the types.
LEMMA KyTypePreserved == KyTypeOK /\ CallsHeld /\ [KyNext]_dmavars => KyTypeOK'
<1> SUFFICES ASSUME KyTypeOK, CallsHeld, [KyNext]_dmavars PROVE KyTypeOK'
  OBVIOUS
<1> USE AddrsAssumption
<1>0. LockTypeOK'
  BY LockSteps, TypePreserved DEF KyTypeOK
<1>1. ASSUME NEW t \in Threads, LeaveLock(t) PROVE KyTypeOK'
  BY <1>0, <1>1 DEF KyTypeOK, LeaveLock, engine, busvars
<1>2. ASSUME NEW t \in Threads, LockStep(t) \/ (Enter(t) /\ UNCHANGED kyvars)
      PROVE KyTypeOK'
  BY <1>0, <1>2 DEF KyTypeOK, LockStep, kyvars, engine, busvars, calls
<1>3. ASSUME NEW p \in Procs, Kill(p) PROVE KyTypeOK'
  BY ZenonT(40), <1>0, <1>3 DEF KyTypeOK, Kill, engine, busvars, NoRet
<1>4. ASSUME NEW t \in Threads, NEW r \in Requests, Call(t, r) PROVE KyTypeOK'
  BY <1>0, <1>4 DEF KyTypeOK, Call, Step, engine, busvars
<1>5. ASSUME NEW t \in Threads, GiveUp(t) PROVE KyTypeOK'
  BY <1>0, <1>5 DEF KyTypeOK, GiveUp, Cleared, Step, engine, busvars, NoRet
<1>6. ASSUME NEW t \in Threads, Return(t) PROVE KyTypeOK'
  BY <1>0, <1>6 DEF KyTypeOK, Return, Cleared, Step, engine, busvars, NoRet
<1>7. ASSUME NEW t \in Threads, PutData(t) PROVE KyTypeOK'
  <2>1. req[t].data \in Values
    BY <1>7 DEF KyTypeOK, CallsHeld, PutData, Step, Requests, Reads, Writes
  <2> QED
    BY <1>0, <1>7, <2>1 DEF KyTypeOK, PutData, Step, Accepts, busvars
<1>8. ASSUME NEW t \in Threads, Start(t) PROVE KyTypeOK'
  <2>1. req[t].op \in {"DATI", "DATO"} /\ req[t].addr \in Addrs
    BY <1>8 DEF KyTypeOK, CallsHeld, Start, Step, Requests, Reads, Writes
  <2>2. (clean[t] /\ Accepts) \in BOOLEAN
    OBVIOUS
  <2>3. clean' \in [Threads -> BOOLEAN]
    BY <1>8, <2>2 DEF KyTypeOK, Start
  <2> QED
    BY ZenonT(40), <1>0, <1>8, <2>1, <2>3 DEF KyTypeOK, Start, Step, Accepts, busvars
<1>9. ASSUME NEW t \in Threads, PollIdle(t) \/ ReadData(t) \/ ReadTimo(t)
      PROVE KyTypeOK'
  <2> DEFINE R == [timo : BOOLEAN, perr : BOOLEAN, data : Values \cup {NoReq}]
  <2>1. ret[t] \in R
    BY DEF KyTypeOK
  <2>2. /\ [ret[t] EXCEPT !.timo = dmatimo] \in R
        /\ [ret[t] EXCEPT !.timo = dmatimo, !.perr = dmaperr] \in R
        /\ [ret[t] EXCEPT !.data = dmadata] \in R
    BY <2>1 DEF KyTypeOK
  <2>3. ret' \in [Threads -> R]
    BY <1>9, <2>2 DEF KyTypeOK, PollIdle, ReadData, ReadTimo
  <2> QED
    BY <1>0, <1>9, <2>3 DEF KyTypeOK, PollIdle, ReadData, ReadTimo, Step, engine, busvars
<1>10. CASE Latch
  <2>1. (dmaaddr \in BadParity) \in BOOLEAN
    OBVIOUS
  <2>2. dmaperr' \in BOOLEAN /\ dmadata' \in Values
    BY <1>10, <2>1 DEF KyTypeOK, Latch
  <2> QED
    BY <1>0, <1>10, <2>2 DEF KyTypeOK, Latch, Busy, busvars, calls
<1>11. CASE Grant \/ Drive \/ SeeSsyn \/ Finish
  BY <1>0, <1>11 DEF KyTypeOK, Grant, Drive, SeeSsyn, Finish, Busy, busvars, calls
<1>12. CASE Slave
  BY <1>0, <1>12 DEF KyTypeOK, Slave, engine, calls
<1>13. CASE Timeout \/ InitOn \/ InitOff
  BY <1>0, <1>13 DEF KyTypeOK, Timeout, InitOn, InitOff, Busy, engine, calls
<1>14. ASSUME NEW a \in Exists, NEW v \in Values, OtherWrite(a, v) PROVE KyTypeOK'
  BY <1>0, <1>14 DEF KyTypeOK, OtherWrite, engine, calls
<1>15. CASE UNCHANGED dmavars
  BY <1>0, <1>15 DEF KyTypeOK, dmavars, kyvars, engine, busvars, calls
<1> QED
  BY <1>1, <1>2, <1>3, <1>4, <1>5, <1>6, <1>7, <1>8, <1>9, <1>10, <1>11, <1>12,
     <1>13, <1>14, <1>15 DEF KyNext, CallStep, EngineStep

-----------------------------------------------------------------------------
(* The calls and the engine. *)

\* Only one thread at a time is in a call.
LEMMA OneCaller ==
  ASSUME LockInv, CallsHeld, NEW s \in Threads, NEW t \in Threads,
         dpc[s] # "none", dpc[t] # "none"
  PROVE  s = t
  BY DEF LockInv, CallsHeld, Owns, InMutex

\* A call begins and ends with the lock held.
LEMMA CallsHeldPreserved == KyTypeOK /\ LockInv /\ CallsHeld /\ [KyNext]_dmavars => CallsHeld'
<1> SUFFICES ASSUME KyTypeOK, LockInv, CallsHeld, [KyNext]_dmavars PROVE CallsHeld'
  OBVIOUS
<1> USE DEF CallsHeld, KyTypeOK, LockTypeOK
<1>1. ASSUME NEW t \in Threads, LeaveLock(t) PROVE CallsHeld'
  BY <1>1 DEF LeaveLock, Leave, Goto
<1>2. ASSUME NEW t \in Threads, LockStep(t) \/ (Enter(t) /\ UNCHANGED kyvars)
      PROVE CallsHeld'
  BY <1>2 DEF LockStep, kyvars, calls, Enter, MutexLock, Claim, ReadBack, Probe, Unstick,
              Release, MutexUnlock, Goto
<1>3. ASSUME NEW p \in Procs, Kill(p) PROVE CallsHeld'
  BY <1>3 DEF Kill, Die
<1>4. ASSUME NEW t \in Threads, NEW r \in Requests, Call(t, r) PROVE CallsHeld'
  BY <1>4 DEF Call, Step, lockvars, Requests, Reads, Writes
<1>5. ASSUME NEW t \in Threads, GiveUp(t) \/ Return(t) PROVE CallsHeld'
  BY <1>5 DEF GiveUp, Return, Cleared, Step, lockvars
<1>6. ASSUME NEW t \in Threads,
             PutData(t) \/ Start(t) \/ PollIdle(t) \/ ReadData(t) \/ ReadTimo(t)
      PROVE CallsHeld'
  <2>1. req[t] \in Requests => req[t].op \in {"DATI", "DATO"}
    BY DEF Requests, Reads, Writes
  <2> QED
    BY <1>6, <2>1 DEF PutData, Start, PollIdle, ReadData, ReadTimo, Step, lockvars
<1>7. CASE UNCHANGED <<lockvars, calls>>
  BY <1>7 DEF lockvars, calls
<1> QED
  BY <1>1, <1>2, <1>3, <1>4, <1>5, <1>6, <1>7
     DEF KyNext, CallStep, EngineStep, Grant, Drive, SeeSsyn, Latch, Finish, Slave,
         Timeout, InitOn, InitOff, OtherWrite, dmavars, kyvars

\* The engine's registers, the bus and the last cycle go together, whoever
\* writes the registers.
LEMMA EngineInvPreserved ==
  KyTypeOK /\ CallsHeld /\ EngineInv /\ [KyNext]_dmavars => EngineInv'
<1> SUFFICES ASSUME KyTypeOK, CallsHeld, EngineInv, [KyNext]_dmavars PROVE EngineInv'
  OBVIOUS
<1> USE DEF EngineInv, Answered, KyTypeOK
<1>1. ASSUME NEW t \in Threads, PutData(t) \/ Start(t) PROVE EngineInv'
  BY <1>1 DEF PutData, Start, Accepts, busvars
<1>2. CASE EngineStep
  BY <1>2 DEF EngineStep, Grant, Drive, SeeSsyn, Latch, Finish, Busy, busvars
<1>3. CASE Slave
  BY <1>3 DEF Slave, engine
<1>4. CASE Timeout \/ InitOn \/ InitOff
  BY <1>4 DEF Timeout, InitOn, InitOff, Busy, engine
<1>5. CASE UNCHANGED <<engine, initing, ssyn, bus, last>>
  BY <1>5 DEF engine
<1> QED
  BY <1>1, <1>2, <1>3, <1>4, <1>5
     DEF KyNext, CallStep, PollIdle, ReadData, ReadTimo, Return, GiveUp, Call, LeaveLock,
         LockStep, Kill, OtherWrite, dmavars, kyvars, busvars

\* A call all of whose writes were accepted is not disturbed: by its own steps
\* it goes from one stage to the next, and no other thread is in a call.
LEMMA CleanPreserved ==
  /\ KyTypeOK /\ LockInv /\ CallsHeld /\ EngineInv
  /\ \A t \in Threads : clean[t] => CleanCall(t)
  /\ [KyNext]_dmavars
  => (\A t \in Threads : clean[t] => CleanCall(t))'
<1> SUFFICES ASSUME KyTypeOK, LockInv, CallsHeld, EngineInv,
                    \A t \in Threads : clean[t] => CleanCall(t),
                    [KyNext]_dmavars,
                    NEW t \in Threads, clean'[t]
             PROVE  CleanCall(t)'
  OBVIOUS
<1> USE DEF CleanCall, Loaded, Did, KyTypeOK
<1>0. dpc'[t] = "none" => CleanCall(t)'
  OBVIOUS
<1>1. ASSUME NEW s \in Threads, s # t,
             \/ PutData(s) \/ Start(s) \/ PollIdle(s) \/ ReadData(s) \/ ReadTimo(s)
             \/ Return(s) \/ GiveUp(s)
      PROVE  CleanCall(t)'
  <2>1. dpc[s] # "none"
    BY <1>1 DEF PutData, Start, PollIdle, ReadData, ReadTimo, Return, GiveUp, Step
  <2>2. dpc[t] = "none"
    BY <1>1, <2>1, OneCaller
  <2>3. dpc'[t] = dpc[t]
    BY <1>1 DEF PutData, Start, PollIdle, ReadData, ReadTimo, Return, GiveUp, Step
  <2> QED
    BY <2>2, <2>3, <1>0
<1>2. CASE PutData(t)
  BY <1>2 DEF PutData, Step, Accepts, busvars
<1>3. CASE Start(t)
  BY ZenonT(40), <1>3 DEF Start, Step, Accepts, busvars, CallsHeld, Requests, Reads, Writes
<1>4. CASE PollIdle(t)
  BY <1>4 DEF PollIdle, Step, engine, busvars
<1>5. CASE ReadData(t) \/ ReadTimo(t)
  BY <1>5 DEF ReadData, ReadTimo, Step, engine, busvars, CallsHeld
<1>6. CASE Return(t) \/ GiveUp(t)
  BY <1>6 DEF Return, GiveUp, Step
<1>7. ASSUME NEW s \in Threads, NEW r \in Requests, Call(s, r) PROVE CleanCall(t)'
  BY <1>7 DEF Call, Step, engine, busvars
<1>8. ASSUME NEW s \in Threads, LeaveLock(s) PROVE CleanCall(t)'
  BY <1>8 DEF LeaveLock, engine, busvars
<1>9. ASSUME NEW p \in Procs, Kill(p) PROVE CleanCall(t)'
  BY <1>9 DEF Kill, engine, busvars
<1>10. CASE Grant \/ Drive \/ SeeSsyn \/ Timeout \/ InitOn
  BY <1>10 DEF Grant, Drive, SeeSsyn, Timeout, InitOn, Busy, busvars, calls, EngineInv
<1>11. CASE Latch
  BY <1>11 DEF Latch, Busy, busvars, calls, EngineInv, Answered
<1>12. CASE Finish
  BY <1>12 DEF Finish, Busy, busvars, calls, EngineInv, Answered
<1>13. CASE Slave
  BY <1>13 DEF Slave, engine, calls
<1>14. CASE UNCHANGED <<engine, calls, last>>
  BY <1>14 DEF engine, calls
<1> QED
  BY <1>1, <1>2, <1>3, <1>4, <1>5, <1>6, <1>7, <1>8, <1>9, <1>10, <1>11, <1>12,
     <1>13, <1>14
     DEF KyNext, CallStep, EngineStep, LockStep, InitOff, OtherWrite, dmavars, kyvars,
         busvars

\* Nobody leaves a busy engine behind, so every register write is accepted
\* and a busy engine has the request of the thread that polls.
LEMMA ServesPreserved ==
  ~MayAbandon /\ KyInv /\ [KyNext]_dmavars => Serves'
<1> SUFFICES ASSUME ~MayAbandon, KyInv, [KyNext]_dmavars PROVE Serves'
  OBVIOUS
<1> USE DEF Serves, EngineServesOwner, KyTypeOK, LockTypeOK, KyInv
<1>1. ASSUME NEW t \in Threads, PutData(t) \/ Start(t) PROVE Serves'
  <2>1. dpc[t] \in {"data", "start"} /\ pc[t] = "held"
    BY <1>1 DEF PutData, Start, Step, CallsHeld
  <2>2. dmastate = "idle"
    BY <2>1, OneCaller
  <2>3. CASE PutData(t)
    BY <2>2, <2>3 DEF PutData, Step, Accepts, busvars
  <2>4. CASE Start(t)
    <3>1. dmactrl' = "DATO" => dmadata = req[t].data
      BY <2>1, <2>2, <2>4 DEF Start, Step, Accepts, CleanCall
    <3>2. \A s \in Threads : clean'[s]
      BY <2>2, <2>4 DEF Start, Accepts
    <3>3. Owns(t)' /\ dmalock' = PidOf[t] /\ dpc'[t] = "poll"
      BY <2>1, <2>4 DEF Start, Step, LockInv, Owns, lockvars
    <3> QED
      BY <2>2, <2>4, <3>1, <3>2, <3>3 DEF Start, Accepts
  <2> QED
    BY <1>1, <2>3, <2>4
<1>2. ASSUME NEW t \in Threads, PollIdle(t) PROVE Serves'
  BY <1>2 DEF PollIdle, Step, engine
<1>3. ASSUME NEW t \in Threads,
             ReadData(t) \/ ReadTimo(t) \/ Return(t) \/ \E r \in Requests : Call(t, r)
      PROVE  Serves'
  <2>1. dpc[t] # "poll" /\ lockvars' = lockvars /\ engine' = engine
    BY <1>3 DEF ReadData, ReadTimo, Return, Call, Step
  <2>2. \A s \in Threads : dpc[s] = "poll" => dpc'[s] = "poll" /\ req'[s] = req[s]
    BY <1>3, <2>1 DEF ReadData, ReadTimo, Return, Call, Step, Cleared
  <2>3. \A s \in Threads : clean'[s]
    BY <1>3 DEF ReadData, ReadTimo, Return, Call, Cleared
  <2> QED
    BY <2>1, <2>2, <2>3 DEF Owns, lockvars, engine
<1>4. ASSUME NEW t \in Threads, GiveUp(t) PROVE Serves'
  BY <1>4 DEF GiveUp
<1>5. ASSUME NEW t \in Threads, LeaveLock(t) PROVE Serves'
  BY <1>5 DEF LeaveLock, Leave, Goto, Owns, engine, CallsHeld
<1>6. ASSUME NEW t \in Threads, LockStep(t) \/ (Enter(t) /\ UNCHANGED kyvars)
      PROVE  Serves'
  <2>1. UNCHANGED <<engine, calls>>
    BY <1>6 DEF LockStep, kyvars
  <2>2. ASSUME NEW s \in Threads, dpc[s] = "poll"
        PROVE  Owns(s)' /\ dmalock' = PidOf[s]
    BY <1>6, <2>2, NoPidAssumption, PidOfAssumption
       DEF LockStep, Enter, MutexLock, Claim, ReadBack, Probe, Unstick, Release,
           MutexUnlock, Goto, CallsHeld, LockInv, Owns, InMutex, LockWrite
  <2> QED
    BY <2>1, <2>2 DEF engine, calls
<1>7. ASSUME NEW p \in Procs, Kill(p) PROVE Serves'
  BY <1>7 DEF Kill, Die, Owns, engine
<1>8. CASE EngineStep \/ Timeout \/ InitOn
  BY <1>8 DEF EngineStep, Grant, Drive, SeeSsyn, Latch, Finish, Timeout, InitOn,
              Busy, lockvars, busvars, calls, Owns
<1>9. CASE UNCHANGED <<lockvars, engine, calls>>
  BY <1>9 DEF lockvars, engine, calls, Owns
<1> QED
  BY <1>1, <1>2, <1>3, <1>4, <1>5, <1>6, <1>7, <1>8, <1>9
     DEF KyNext, CallStep, Slave, InitOff, OtherWrite, dmavars, kyvars

-----------------------------------------------------------------------------
\* The initial states satisfy the invariant.
LEMMA KyInitInv == KyInit => KyInv
<1> SUFFICES ASSUME KyInit PROVE KyInv
  OBVIOUS
<1>1. LockInv
  BY InitInv DEF KyInit
<1>2. KyTypeOK
  BY <1>1, AddrsAssumption DEF KyInit, KyTypeOK, LockInv, NoRet, NoCycle
<1>3. CallsHeld /\ EngineInv /\ Serves
  BY DEF KyInit, CallsHeld, EngineInv, Serves, EngineServesOwner
<1>4. \A t \in Threads : CleanCall(t)
  BY DEF KyInit, CleanCall
<1> QED
  BY <1>1, <1>2, <1>3, <1>4 DEF KyInv

\* Every step keeps it.
LEMMA KyStepInv == KyInv /\ [KyNext]_dmavars => KyInv'
<1> SUFFICES ASSUME KyInv, [KyNext]_dmavars PROVE KyInv'
  OBVIOUS
<1> USE DEF KyInv
<1>1. LockInv'
  BY LockSteps, StepInv
<1>2. KyTypeOK' /\ CallsHeld' /\ EngineInv'
  BY KyTypePreserved, CallsHeldPreserved, EngineInvPreserved
<1>3. (\A t \in Threads : clean[t] => CleanCall(t))'
  BY CleanPreserved
<1>4. (~MayAbandon => Serves)'
  BY ServesPreserved
<1> QED
  BY <1>1, <1>2, <1>3, <1>4

\* The invariant of lock, engine and calls holds in every reachable state.
THEOREM KyInvariance == KySpec => []KyInv
  BY KyInitInv, KyStepInv, PTL DEF KySpec

\* A call that came through clean and reports no timeout did its own bus cycle
\* and returns its word, also when the thread before it left the engine busy.
THEOREM RepliesAreClean == KySpec => []CleanReplies
<1>1. KyInv => CleanReplies
  BY DEF KyInv, CleanReplies, CleanCall, Did
<1> QED
  BY <1>1, KyInvariance, PTL

\* As long as nobody leaves it busy, the engine only works for the thread that
\* holds the lock and polls.
THEOREM ServesOwner == ~MayAbandon => (KySpec => []EngineServesOwner)
<1> SUFFICES ASSUME ~MayAbandon PROVE KySpec => []EngineServesOwner
  OBVIOUS
<1>1. KyInv => EngineServesOwner
  BY DEF KyInv, Serves
<1> QED
  BY <1>1, KyInvariance, PTL

-----------------------------------------------------------------------------
(* The refinement of DmaService. *)

\* What a caller of the service sees: Dma maps phase and ans to these.
Silent == [timo |-> TRUE, none |-> TRUE]
Seen(t) == IF Phase(t) # "done" THEN Silent
           ELSE IF Answer(t).timo THEN [timo |-> TRUE]
           ELSE IF req[t].op = "DATO" THEN [timo |-> FALSE]
           ELSE Answer(t)

\* If no caller sees a difference, the service stutters.
LEMMA Stutters ==
  ASSUME mem' = mem, req' = req,
         \A t \in Threads : Phase(t)' = Phase(t) /\ Seen(t)' = Seen(t)
  PROVE  UNCHANGED Dma!servicevars
  BY DEF Dma!servicevars, Seen, Silent

\* A thread that is not in a call is idle.
LEMMA NotCalling ==
  ASSUME NEW t \in Threads, dpc[t] \in {"none", "thrown"}
  PROVE  Phase(t) = "idle" /\ Seen(t) = Silent
  BY DEF Phase, Seen

\* A step of one call is felt by its thread alone.
LEMMA OneFeels ==
  ASSUME KyInv, NEW t \in Threads, dpc[t] # "none",
         \A s \in Threads : s # t => dpc'[s] = dpc[s]
  PROVE  \A s \in Threads : s # t =>
           Phase(s)' = Phase(s) /\ Seen(s)' = Seen(s)
<1> SUFFICES ASSUME NEW s \in Threads, s # t
             PROVE  Phase(s)' = Phase(s) /\ Seen(s)' = Seen(s)
  OBVIOUS
<1>1. dpc[s] = "none" /\ dpc'[s] = "none"
  BY OneCaller DEF KyInv
<1> QED
  BY <1>1 DEF Phase, Seen

\* What the service does when one caller's phase and answer change.
LEMMA OneChanges ==
  ASSUME NEW t \in Threads,
         \A s \in Threads : s # t => Phase(s)' = Phase(s) /\ Seen(s)' = Seen(s),
         NEW ph, NEW an, Phase(t)' = ph, Seen(t)' = an
  PROVE  /\ [s \in Threads |-> Phase(s)]' =
              [[s \in Threads |-> Phase(s)] EXCEPT ![t] = ph]
         /\ [s \in Threads |-> Seen(s)]' =
              [[s \in Threads |-> Seen(s)] EXCEPT ![t] = an]
  OBVIOUS

\* The call fails: no answer, or a bus reset.
LEMMA Fails ==
  ASSUME NEW t \in Threads, Phase(t) \in {"called", "done"},
         \A s \in Threads : s # t => Phase(s)' = Phase(s) /\ Seen(s)' = Seen(s),
         Phase(t)' = "done", Seen(t)' = [timo |-> TRUE], mem' = mem, req' = req
  PROVE  Dma!Fail(t)
  BY OneChanges DEF Dma!Fail, Dma!TimedOut, Seen, Silent

\* The steps of a thread.
LEMMA CallRefines ==
  ASSUME ~MayAbandon, KyInv, NEW t \in Threads,
         CallStep(t) \/ \E r \in Requests : Call(t, r)
  PROVE  Dma!Next \/ UNCHANGED Dma!servicevars
<1> USE DEF KyInv, KyTypeOK
<1>0. req[t] \in Requests => req[t].op \in {"DATI", "DATO"}
  BY DEF Requests, Reads, Writes
<1>1. ASSUME NEW r \in Requests, Call(t, r) PROVE Dma!Next
  <2>1. r.op \in {"DATI", "DATO"} /\ r \in Dma!Requests
    BY DEF Requests, Reads, Writes, Dma!Requests, Dma!Reads, Dma!Writes
  <2>2. Phase(t) = "idle" /\ Phase(t)' = "called" /\ Seen(t) = Silent /\ Seen(t)' = Silent
    BY <1>1, <2>1, NotCalling DEF Call, Step, Phase, Seen
  <2>3. ASSUME NEW s \in Threads, s # t
        PROVE  Phase(s)' = Phase(s) /\ Seen(s)' = Seen(s)
    BY <1>1, <2>3 DEF Call, Step, engine, busvars, Phase, Seen, Answer
  <2>4. /\ [s \in Threads |-> Phase(s)]' =
             [[s \in Threads |-> Phase(s)] EXCEPT ![t] = "called"]
        /\ [s \in Threads |-> Seen(s)]' = [s \in Threads |-> Seen(s)]
    BY <2>2, <2>3
  <2>5. Dma!Call(t, r)
    BY <1>1, <2>2, <2>4 DEF Dma!Call, Call, busvars, Seen, Silent
  <2> QED
    BY <2>1, <2>5 DEF Dma!Next
<1>2. ASSUME CallStep(t) PROVE dpc[t] \notin {"none", "thrown"} /\ req[t] \in Requests
  BY <1>2 DEF CallStep, PutData, Start, PollIdle, ReadData, ReadTimo, Return, Step, CallsHeld
<1>3. ASSUME CallStep(t)
      PROVE  \A s \in Threads : s # t => Phase(s)' = Phase(s) /\ Seen(s)' = Seen(s)
  BY <1>2, <1>3, OneFeels
     DEF CallStep, PutData, Start, PollIdle, ReadData, ReadTimo, Return, Step
<1>4. CASE PutData(t)
  <2>1. Phase(t)' = Phase(t) /\ Seen(t)' = Seen(t)
    BY <1>4 DEF PutData, Step, Phase, Seen
  <2> QED
    BY <1>3, <1>4, <2>1, Stutters DEF CallStep, PutData, busvars
<1>5. CASE Start(t)
  <2>1. dpc[t] = "start" /\ dpc'[t] = "poll" /\ dmastate = "idle" /\ dmatimo'
    BY <1>5, OneCaller DEF Start, Step, Accepts, Serves, EngineServesOwner
  <2>2. CASE initing
    <3>1. Phase(t) = "called" /\ Phase(t)' = "done" /\ Seen(t)' = [timo |-> TRUE]
      BY <1>5, <2>1, <2>2 DEF Start, Accepts, Phase, Seen, Answer
    <3>2. Dma!Fail(t)
      BY <1>3, <1>5, <3>1, Fails DEF CallStep, Start, busvars
    <3> QED
      BY <3>2 DEF Dma!Next
  <2>3. CASE ~initing
    <3>1. Phase(t)' = Phase(t) /\ Seen(t)' = Seen(t)
      BY <1>5, <2>1, <2>3 DEF Start, Accepts, Phase, Seen
    <3> QED
      BY <1>3, <1>5, <3>1, Stutters DEF CallStep, Start, busvars
  <2> QED
    BY <2>2, <2>3
<1>6. CASE PollIdle(t)
  <2>1. dpc[t] = "poll" /\ dmastate = "idle" /\ engine' = engine /\ req' = req
        /\ dpc'[t] = IF req[t].op = "DATI" THEN "fetch" ELSE "timo"
    BY <1>6 DEF PollIdle, Step
  <2>2. Phase(t) = "done" /\ Phase(t)' = "done"
    BY <2>1 DEF Phase, engine
  <2>3. ret'[t].timo = dmatimo /\ ret'[t].perr = dmaperr
    BY <1>6 DEF PollIdle
  <2>4. Answer(t)' = Answer(t)
    BY <2>1, <2>3 DEF Answer, engine
  <2>5. Seen(t)' = Seen(t)
    BY <2>1, <2>2, <2>4 DEF Seen
  <2> QED
    BY <1>3, <1>6, <2>2, <2>5, Stutters DEF CallStep, PollIdle, busvars
<1>7. CASE ReadData(t)
  <2>1. dpc[t] = "fetch" /\ dpc'[t] = "reply" /\ req' = req
        /\ dmastate = "idle" /\ dmastate' = "idle"
    BY <1>7 DEF ReadData, Step, engine, CleanCall, Serves
  <2>2. Phase(t) = "done" /\ Phase(t)' = "done"
    BY <2>1 DEF Phase
  <2>3. ret'[t].timo = ret[t].timo /\ ret'[t].perr = ret[t].perr /\ ret'[t].data = dmadata
    BY <1>7 DEF ReadData
  <2>4. Answer(t)' = Answer(t)
    BY <2>1, <2>3 DEF Answer
  <2>5. Seen(t)' = Seen(t)
    BY <2>1, <2>2, <2>4 DEF Seen
  <2> QED
    BY <1>3, <1>7, <2>2, <2>5, Stutters DEF CallStep, ReadData, busvars
<1>8. CASE ReadTimo(t)
  <2>1. dpc[t] = "timo" /\ dpc'[t] = "reply" /\ req' = req /\ req[t].op = "DATO"
        /\ dmastate = "idle" /\ dmastate' = "idle"
    BY <1>8 DEF ReadTimo, Step, engine, CallsHeld, CleanCall, Serves
  <2>2. Phase(t) = "done" /\ Phase(t)' = "done"
    BY <2>1 DEF Phase
  <2>3. Answer(t).timo = dmatimo /\ Answer(t)'.timo = dmatimo
    BY <1>8, <2>1 DEF ReadTimo, Answer
  <2>4. Seen(t)' = Seen(t)
    BY <2>1, <2>2, <2>3 DEF Seen
  <2> QED
    BY <1>3, <1>8, <2>2, <2>4, Stutters DEF CallStep, ReadTimo, busvars
<1>9. CASE Return(t)
  <2>1. Phase(t) = "done" /\ Phase(t)' = "idle" /\ Seen(t)' = Silent
    BY <1>9 DEF Return, Step, Phase, Seen
  <2>2. /\ [s \in Threads |-> Phase(s)]' =
             [[s \in Threads |-> Phase(s)] EXCEPT ![t] = "idle"]
        /\ [s \in Threads |-> Seen(s)]' =
             [[s \in Threads |-> Seen(s)] EXCEPT ![t] = Silent]
    BY <1>3, <1>9, <2>1, OneChanges DEF CallStep
  <2>3. Dma!Return(t)
    BY <1>9, <2>1, <2>2
       DEF Dma!Return, Dma!Forget, Dma!NoAnswer, Return, Cleared, busvars,
           Seen, Silent
  <2> QED
    BY <2>3 DEF Dma!Next
<1> QED
  BY <1>1, <1>4, <1>5, <1>6, <1>7, <1>8, <1>9 DEF CallStep

\* The steps of the engine and the bus while a call polls.
LEMMA EngineRefines ==
  ASSUME ~MayAbandon, KyInv,
         EngineStep \/ Slave \/ Timeout \/ InitOn
  PROVE  Dma!Next \/ UNCHANGED Dma!servicevars
<1> USE DEF KyInv, KyTypeOK
<1>1. CASE dmastate = "idle"
  <2>1. InitOn
    BY <1>1 DEF EngineStep, Grant, Drive, SeeSsyn, Latch, Finish, Slave, Timeout, Busy
  <2>2. \A s \in Threads : Phase(s)' = Phase(s) /\ Seen(s)' = Seen(s)
    BY <1>1, <2>1 DEF InitOn, calls, Phase, Seen, Answer
  <2> QED
    BY <2>1, <2>2, Stutters DEF InitOn, calls
<1>2. CASE dmastate # "idle"
  <2>1. PICK t \in Threads : dpc[t] = "poll" /\ Loaded(t)
    BY <1>2 DEF Serves, EngineServesOwner, Loaded
  <2>2. req' = req /\ dpc' = dpc /\ ret' = ret /\ dmatimo /\ req[t] \in Requests
    BY <1>2, <2>1 DEF EngineStep, Grant, Drive, SeeSsyn, Latch, Finish, Slave, Timeout,
                      InitOn, calls, EngineInv, CallsHeld
  <2>3. \A s \in Threads : s # t => Phase(s)' = Phase(s) /\ Seen(s)' = Seen(s)
    BY <2>1, <2>2, OneFeels
  <2>4. CASE Grant \/ Drive \/ SeeSsyn
    <3>1. Phase(t)' = Phase(t)
      BY <2>1, <2>2, <2>4 DEF Grant, Drive, SeeSsyn, Busy, busvars, Phase, EngineInv
    <3>2. Phase(t) = "done" => Answer(t)' = Answer(t)
      BY <2>1, <2>2, <2>4 DEF Grant, Drive, SeeSsyn, Busy, busvars, Phase, Answer
    <3>3. Seen(t)' = Seen(t)
      BY <2>2, <3>1, <3>2 DEF Seen
    <3> QED
      BY <2>2, <2>3, <2>4, <3>1, <3>3, Stutters DEF Grant, Drive, SeeSsyn, busvars
  <2>5. CASE Latch
    <3>1. Phase(t) = "done" /\ Phase(t)' = "done"
      BY <2>1, <2>2, <2>5 DEF Latch, Busy, Phase
    <3>2. Answer(t).timo = FALSE /\ Answer(t)'.timo = FALSE
      BY <2>1, <2>2, <2>5 DEF Latch, Busy, Answer
    <3>3. req[t].op # "DATO" => Answer(t)' = Answer(t)
      BY <2>1, <2>2, <2>5 DEF Latch, Busy, Answer, Loaded
    <3>4. Seen(t)' = Seen(t)
      BY <2>2, <3>1, <3>2, <3>3 DEF Seen
    <3> QED
      BY <2>2, <2>3, <2>5, <3>1, <3>4, Stutters DEF Latch, busvars
  <2>6. CASE Finish
    <3>1. Phase(t) = "done" /\ Phase(t)' = "done"
      BY <2>1, <2>2, <2>6 DEF Finish, Busy, Phase
    <3>2. Answer(t)' = Answer(t)
      BY <2>1, <2>2, <2>6 DEF Finish, Busy, Answer
    <3>3. Seen(t)' = Seen(t)
      BY <2>2, <3>1, <3>2 DEF Seen
    <3> QED
      BY <2>2, <2>3, <2>6, <3>1, <3>3, Stutters DEF Finish
  <2>7. CASE Timeout \/ InitOn
    <3>1. Phase(t) \in {"called", "done"}
      BY <2>1 DEF Phase
    <3>2. dmastate' = "idle" /\ dmatimo' = dmatimo
      BY <2>7 DEF Timeout, InitOn, Busy
    <3>3. Phase(t)' = "done" /\ Answer(t)'.timo
      BY <2>1, <2>2, <3>2 DEF Phase, Answer
    <3>4. Dma!Fail(t)
      BY <2>2, <2>3, <2>7, <3>1, <3>3, Fails DEF Timeout, InitOn, Seen
    <3> QED
      BY <3>4 DEF Dma!Next
  <2>8. CASE Slave
    <3>1. Phase(t) = "called" /\ Phase(t)' = "done" /\ dmaaddr = req[t].addr
          /\ dmactrl = req[t].op /\ dmaaddr \in Exists
      BY <2>1, <2>2, <2>8 DEF Slave, engine, Phase, Loaded
    <3>2. Answer(t)' = [timo |-> FALSE, perr |-> dmaaddr \in BadParity, data |-> bus']
      BY <2>1, <2>2, <2>8 DEF Slave, engine, Answer
    <3>3. CASE dmactrl = "DATI"
      <4>0. bus' = mem[req[t].addr] /\ req'[t].op # "DATO"
        BY <2>2, <2>8, <3>1, <3>3 DEF Slave
      <4>1. Seen(t)' = Dma!Word(req[t].addr \in BadParity, mem[req[t].addr])
        <5>1. Answer(t)' = Dma!Word(req[t].addr \in BadParity, mem[req[t].addr])
          BY <3>1, <3>2, <4>0, Zenon DEF Dma!Word
        <5>2. ~Answer(t)'.timo
          BY <3>2
        <5> QED
          BY <3>1, <4>0, <5>1, <5>2 DEF Seen
      <4>2. Dma!PerformRead(t)
        BY <2>2, <2>3, <2>8, <3>1, <3>3, <4>1, OneChanges
           DEF Dma!PerformRead, Slave, Seen, Silent
      <4> QED
        BY <4>2 DEF Dma!Next
    <3>4. CASE dmactrl = "DATO"
      <4>1. Seen(t)' = Dma!Done
        BY <2>2, <3>1, <3>2, <3>4 DEF Seen, Dma!Done
      <4>2. mem' = [mem EXCEPT ![req[t].addr] = req[t].data]
        BY <2>1, <2>8, <3>1, <3>4 DEF Slave, Loaded
      <4>3. Dma!PerformWrite(t)
        BY <2>2, <2>3, <3>1, <3>4, <4>1, <4>2, OneChanges
           DEF Dma!PerformWrite, Seen, Silent
      <4> QED
        BY <4>3 DEF Dma!Next
    <3> QED
      BY <3>3, <3>4
  <2> QED
    BY <2>4, <2>5, <2>6, <2>7, <2>8 DEF EngineStep
<1> QED
  BY <1>1, <1>2

\* Every step of the engine and its callers is a step of the service, or one
\* no caller can see.
LEMMA StepRefines ==
  ~MayAbandon /\ KyInv /\ [KyNext]_dmavars => [Dma!Next]_Dma!servicevars
<1> SUFFICES ASSUME ~MayAbandon, KyInv, [KyNext]_dmavars
             PROVE  Dma!Next \/ UNCHANGED Dma!servicevars
  OBVIOUS
<1> USE DEF KyInv, KyTypeOK
<1>1. ASSUME NEW t \in Threads, CallStep(t) \/ \E r \in Requests : Call(t, r)
      PROVE  Dma!Next \/ UNCHANGED Dma!servicevars
  BY <1>1, CallRefines
<1>2. CASE EngineStep \/ Slave \/ Timeout \/ InitOn
  BY <1>2, EngineRefines
<1>3. ASSUME NEW t \in Threads, LeaveLock(t)
      PROVE  UNCHANGED Dma!servicevars
  <2>1. ASSUME NEW s \in Threads
        PROVE  Phase(s)' = Phase(s) /\ Seen(s)' = Seen(s)
    BY <1>3 DEF LeaveLock, engine, busvars, Phase, Seen, Answer
  <2> QED
    BY <1>3, <2>1, Stutters DEF LeaveLock, busvars
<1>4. ASSUME NEW p \in Procs, Kill(p) PROVE Dma!Next
  <2> DEFINE T == {t \in Threads : PidOf[t] = p}
  <2>1. ASSUME NEW s \in T
        PROVE  Phase(s)' = "idle" /\ Seen(s)' = Silent /\ req'[s] = NoReq
    BY <1>4, <2>1 DEF Kill, Phase, Seen
  <2>2. ASSUME NEW s \in Threads \ T
        PROVE  Phase(s)' = Phase(s) /\ Seen(s)' = Seen(s) /\ req'[s] = req[s]
    BY <1>4, <2>2 DEF Kill, engine, busvars, Phase, Seen, Answer
  <2>3. Dma!Abandon(T)
    BY <1>4, <2>1, <2>2
       DEF Dma!Abandon, Dma!NoAnswer, Kill, busvars, Seen, Silent
  <2>4. T \in SUBSET Threads
    OBVIOUS
  <2> QED
    BY <2>3, <2>4 DEF Dma!Next
<1>5. ASSUME NEW a \in Exists, NEW v \in Values, OtherWrite(a, v)
      PROVE  Dma!Next
  <2>1. ASSUME NEW s \in Threads
        PROVE  Phase(s)' = Phase(s) /\ Seen(s)' = Seen(s)
    BY <1>5 DEF OtherWrite, calls, engine, Phase, Seen, Answer
  <2>2. Dma!OtherWrite(a, v)
    BY <1>5, <2>1 DEF Dma!OtherWrite, OtherWrite, calls, Seen, Silent
  <2> QED
    BY <2>2 DEF Dma!Next
<1>6. ASSUME UNCHANGED <<engine, busvars, calls>> \/ InitOff
      PROVE  UNCHANGED Dma!servicevars
  <2>1. UNCHANGED <<engine, calls, ssyn, bus, mem>>
    BY <1>6 DEF InitOff, busvars
  <2>2. ASSUME NEW s \in Threads
        PROVE  Phase(s)' = Phase(s) /\ Seen(s)' = Seen(s)
    BY <2>1 DEF calls, engine, Phase, Seen, Answer
  <2> QED
    BY <2>1, <2>2, Stutters DEF calls
<1> QED
  BY <1>1, <1>2, <1>3, <1>4, <1>5, <1>6
     DEF KyNext, LockStep, GiveUp, dmavars, kyvars

\* While nobody leaves the engine busy behind it, dmaread, dmawrite and dmawbyte
\* are the atomic memory of DmaService.
THEOREM ImplementsService == ~MayAbandon => (KySpec => Atomic)
<1> SUFFICES ASSUME ~MayAbandon PROVE KySpec => Atomic
  OBVIOUS
<1>1. KyInit => Dma!Init
  <2> SUFFICES ASSUME KyInit PROVE Dma!Init
    OBVIOUS
  <2>1. mem \in [Exists -> Values]
    BY KyInitInv DEF KyInv, KyTypeOK
  <2>2. ASSUME NEW t \in Threads PROVE Phase(t) = "idle" /\ Seen(t) = Silent
    BY NotCalling DEF KyInit
  <2>3. req = [t \in Threads |-> NoReq]
    BY DEF KyInit
  <2> QED
    BY <2>1, <2>2, <2>3 DEF Dma!Init, Dma!NoAnswer, Seen, Silent
<1>2. KyInv /\ [KyNext]_dmavars => [Dma!Next]_Dma!servicevars
  BY StepRefines
<1> QED
  BY <1>1, <1>2, KyInvariance, PTL DEF KySpec, Atomic, Dma!Spec

------------------------------------------------------------------------------
(* The halt logic (KyHalt).  One clock changes all the parts at once.  So  *)
(* the proof of a clock has a lemma per part that says what its registers  *)
(* become (the "Moves"), and a lemma per conjunct of the invariant that    *)
(* puts them together (the "Steps").                                       *)


\* The flags of register 2.
Flags == [haltreq : BOOLEAN, stepreq : BOOLEAN, snapreq : BOOLEAN,
          snaphlt : BOOLEAN, snapctr : 0 .. MaxCtr]

\* One clock, with the write of the program and what the engine finds.
Edge(w, done, answered, perr) ==
  /\ w \in {NoWrite} \cup RegWrites
  /\ Arm(w)
  /\ done \in BOOLEAN /\ answered \in BOOLEAN /\ perr \in BOOLEAN
  /\ ~answered => CycleFor \in Unanswered
  /\ Ky(w, done, answered, perr)
  /\ ran' = RanNext(w)
  /\ Cpu /\ IntCtl
  /\ want' \in BOOLEAN

\* A clock is an edge with some values of them.
LEMMA ClockEdge ==
  ASSUME Clock
  PROVE  \E w, done, answered, perr : Edge(w, done, answered, perr)
<1>1. PICK w \in {NoWrite} \cup RegWrites :
        /\ Arm(w)
        /\ \E done \in (IF Waiting THEN BOOLEAN ELSE {FALSE}),
              answered \in (IF ky.dmastate = 4 /\ CycleFor \in Unanswered
                            THEN BOOLEAN ELSE {TRUE}),
              perr \in (IF SnapSave THEN BOOLEAN ELSE {FALSE}) :
             Ky(w, done, answered, perr)
        /\ ran' = RanNext(w)
  BY DEF Clock
<1>2. PICK done \in (IF Waiting THEN BOOLEAN ELSE {FALSE}),
           answered \in (IF ky.dmastate = 4 /\ CycleFor \in Unanswered
                         THEN BOOLEAN ELSE {TRUE}),
           perr \in (IF SnapSave THEN BOOLEAN ELSE {FALSE}) :
        Ky(w, done, answered, perr)
  BY <1>1
<1>3. done \in BOOLEAN /\ answered \in BOOLEAN /\ perr \in BOOLEAN
      /\ (~answered => CycleFor \in Unanswered)
  BY <1>2
<1>4. Cpu /\ IntCtl /\ want' \in BOOLEAN
  BY DEF Clock
<1>5. Edge(w, done, answered, perr)
  BY <1>1, <1>2, <1>3, <1>4 DEF Edge
<1> QED
  BY <1>5

\* What the program writes is a register value.
LEMMA WriteTypes ==
  ASSUME TypeOK, NEW w \in {NoWrite} \cup RegWrites
  PROVE  \/ w = NoWrite /\ w.reg = 0
         \/ w # NoWrite /\ w.reg = 3 /\ w.start \in BOOLEAN
         \/ w # NoWrite /\ w.reg = 2 /\ w.val \in Flags
<1>0. NoFlags \in Flags /\ arm.old \in Flags /\ arm.old.haltreq \in BOOLEAN
  BY KyHaltAssumption DEF TypeOK, Flags, NoFlags
<1>1. Written \in Flags /\ NoFlags \in Flags
      /\ [NoFlags EXCEPT !.haltreq = arm.old.haltreq] \in Flags
  <2>1. /\ [arm.old EXCEPT !.haltreq = FALSE] \in Flags
        /\ [arm.old EXCEPT !.stepreq = TRUE] \in Flags
        /\ [arm.old EXCEPT !.haltreq = TRUE] \in Flags
        /\ [NoFlags EXCEPT !.haltreq = arm.old.haltreq] \in Flags
    BY <1>0 DEF Flags
  <2> QED
    BY <1>0, <2>1 DEF Written
<1>2. \A n \in 0 .. MaxCtr : SnapRequest(n) \in Flags
  BY KyHaltAssumption DEF TypeOK, SnapRequest, Flags, NoFlags
<1>3. NoWrite.reg = 0
  BY DEF NoWrite
<1> QED
  BY <1>1, <1>2, <1>3 DEF RegWrites

-----------------------------------------------------------------------------
(* Types. *)

CpuStates == {"halt", "halt2", "service", "npg", "intr", "trap",
              "fetch", "addr", "bus", "cycle", "exec", "wait", "reset"}
CpuRecords ==
  [ps : CpuStates,
   haltck : BOOLEAN, hltgr : BOOLEAN, jam : BOOLEAN,
   npg : BOOLEAN, bg : BOOLEAN, bbsy : BOOLEAN, ssyn : BOOLEAN,
   init : BOOLEAN, trapvec : BOOLEAN, trapping : BOOLEAN,
   intrap : BOOLEAN]
CpuType == cpu \in CpuRecords

\* The processor keeps its type, state by state.
LEMMA CpuTypes ==
  ASSUME TypeOK, Cpu
  PROVE  CpuType'
<1>1. CpuType /\ int.br \in BOOLEAN /\ int.sack \in BOOLEAN /\ int.intr \in BOOLEAN
      /\ ky.npr \in BOOLEAN /\ ky.hltrq \in BOOLEAN /\ ky.sack \in BOOLEAN
  BY DEF TypeOK, CpuType, CpuRecords, CpuStates
<1>2. MayFault \in BOOLEAN
  BY KyHaltAssumption
<1> USE <1>1, <1>2 DEF CpuType, CpuRecords, CpuStates
<1>3. CASE Resetting
  BY <1>3 DEF Resetting
<1>4. CASE Halt
  BY <1>4 DEF Halt
<1>5. CASE Halt2
  BY <1>5 DEF Halt2
<1>6. CASE Service
  <2>1. PICK s \in {"trap", "halt", "npg", "intr", "fetch"} :
          cpu' = [cpu EXCEPT !.ps = s, !.haltck = TRUE, !.init = FALSE,
                             !.bg = @ \/ s = "intr"]
    BY <1>6 DEF Service
  <2>2. (cpu.bg \/ s = "intr") \in BOOLEAN
    OBVIOUS
  <2> QED
    BY ZenonT(40), <2>1, <2>2
<1>7. CASE Npg
  BY <1>7 DEF Npg
<1>8. CASE Intr
  <2>1. PICK due \in BOOLEAN : cpu' = [cpu EXCEPT
           !.bg = @ /\ ~SackIn,
           !.ssyn = int.intr /\ (@ \/ due),
           !.trapvec = @ \/ (int.intr /\ ~cpu.ssyn /\ due),
           !.ps = IF ~BbsyIn /\ ~int.intr /\ ~SackIn /\ (~cpu.bg \/ ~int.br)
                  THEN "service" ELSE @]
    BY <1>8 DEF Intr
  <2>2. PICK bg, syn, trapvec \in BOOLEAN :
          /\ bg = (cpu.bg /\ ~SackIn)
          /\ syn = (int.intr /\ (cpu.ssyn \/ due))
          /\ trapvec = (cpu.trapvec \/ (int.intr /\ ~cpu.ssyn /\ due))
    BY Zenon
  <2>3. PICK s \in {"service", cpu.ps} :
          s = IF ~BbsyIn /\ ~int.intr /\ ~SackIn /\ (~cpu.bg \/ ~int.br)
              THEN "service" ELSE cpu.ps
    OBVIOUS
  <2>4. cpu' = [cpu EXCEPT !.bg = bg, !.ssyn = syn, !.trapvec = trapvec, !.ps = s]
    BY <2>1, <2>2, <2>3, Zenon
  <2>5. PICK c : c = [cpu EXCEPT !.bg = bg, !.ssyn = syn]
    OBVIOUS
  <2>6. c \in CpuRecords
    BY <2>5
  <2>7. cpu' = [c EXCEPT !.trapvec = trapvec, !.ps = s]
    BY <2>4, <2>5
  <2>8. s \in CpuStates
    OBVIOUS
  <2> QED
    BY ONLY <2>6, <2>7, <2>8, trapvec \in BOOLEAN DEF CpuType, CpuRecords, CpuStates
<1>9. CASE Trap
  <2>1. CASE cpu.trapping
    <3>1. PICK c : c = [cpu EXCEPT !.ps = "halt", !.trapping = FALSE]
      OBVIOUS
    <3>2. c \in CpuRecords
      BY <3>1
    <3>3. cpu' = [c EXCEPT !.trapvec = FALSE, !.intrap = FALSE]
      BY <1>9, <2>1, <3>1 DEF Trap
    <3> QED
      BY ONLY <3>2, <3>3 DEF CpuType, CpuRecords
  <2>2. CASE ~cpu.trapping
    <3>1. PICK t \in BOOLEAN :
            cpu' = [cpu EXCEPT !.ps = "addr", !.trapping = t /\ MayFault,
                               !.trapvec = FALSE, !.intrap = TRUE]
      BY <1>9, <2>2 DEF Trap
    <3>2. PICK t2 \in BOOLEAN : t2 = (t /\ MayFault)
      OBVIOUS
    <3>3. cpu' = [cpu EXCEPT !.ps = "addr", !.trapping = t2,
                             !.trapvec = FALSE, !.intrap = TRUE]
      BY <3>1, <3>2, Zenon
    <3> HIDE <1>9, <2>2
    <3> QED
      BY <3>3
  <2> QED
    BY <2>1, <2>2
<1>10. CASE Fetch \/ Addr
  BY <1>10 DEF Fetch, Addr
<1>11. CASE Bus \/ Cycle
  BY ZenonT(40), <1>11 DEF Bus, Cycle
<1>12. CASE Exec
  BY ZenonT(40), <1>12 DEF Exec
<1>13. CASE Wait \/ Reset
  BY <1>13 DEF Wait, Reset
<1> QED
  BY <1>3, <1>4, <1>5, <1>6, <1>7, <1>8, <1>9, <1>10, <1>11, <1>12, <1>13
  DEF Cpu

\* A request for an interrupt keeps its type.
LEMMA IntTypes ==
  ASSUME TypeOK, IntCtl
  PROVE  int' \in [br : BOOLEAN, sack : BOOLEAN, intr : BOOLEAN]
<1>1. int \in [br : BOOLEAN, sack : BOOLEAN, intr : BOOLEAN] /\ want \in BOOLEAN
  BY DEF TypeOK
<1>2. \/ int' = NoInt \/ UNCHANGED int
      \/ int' = [int EXCEPT !.br = TRUE]
      \/ int' = [int EXCEPT !.br = FALSE, !.sack = TRUE]
      \/ int' = [int EXCEPT !.intr = want, !.sack = FALSE]
      \/ int' = [int EXCEPT !.intr = FALSE]
  BY DEF IntCtl
<1>3. CASE int' = NoInt
  BY <1>3 DEF NoInt
<1>7. CASE UNCHANGED int
  BY <1>1, <1>7
<1>4. CASE int' = [int EXCEPT !.br = TRUE] \/ int' = [int EXCEPT !.intr = FALSE]
  BY <1>1, <1>4
<1>5. CASE int' = [int EXCEPT !.br = FALSE, !.sack = TRUE]
  BY <1>1, <1>5
<1>6. CASE int' = [int EXCEPT !.intr = want, !.sack = FALSE]
  BY <1>1, <1>6
<1> QED
  BY <1>2, <1>3, <1>4, <1>5, <1>6, <1>7

\* The program keeps its type.
LEMMA ArmTypes ==
  ASSUME TypeOK, NEW w, w \in {NoWrite} \cup RegWrites, Arm(w)
  PROVE  /\ dclo' \in BOOLEAN
         /\ arm' \in [pc : {"idle", "read", "write", "wr3", "wr2", "poll", "undo",
                            "select", "wait", "down", "up"},
                      call : Programs, was : BOOLEAN, busy : BOOLEAN, old : Flags]
<1>1. arm \in [pc : {"idle", "read", "write", "wr3", "wr2", "poll", "undo",
                     "select", "wait", "down", "up"},
               call : Programs, was : BOOLEAN, busy : BOOLEAN, old : Flags]
      /\ dclo \in BOOLEAN /\ ky2 \in Flags /\ (ky2.snapreq \/ ky.dmastate # 0) \in BOOLEAN
  BY DEF TypeOK, Flags
<1>2. NoFlags \in Flags /\ Calls \subseteq Programs /\ "haltreq" \in Programs
  BY KyHaltAssumption DEF NoFlags, Flags, Programs
<1>3. ky2.haltreq \in BOOLEAN
  BY <1>1 DEF Flags
<1> HIDE DEF Flags, Programs
<1>4. CASE Quiet /\ UNCHANGED dclo
  BY ZenonT(40), <1>1, <1>2, <1>3, <1>4 DEF Quiet, Begin, Read, Polled, TooSlow, DmaDone, Goes, Ends
<1>5. CASE PowerDown \/ PowerUp
  BY <1>1, <1>2, <1>5 DEF PowerDown, PowerUp, Goes, Ends
<1>6. CASE Writing(w) /\ UNCHANGED dclo
  BY ZenonT(40), <1>1, <1>2, <1>6 DEF Writing, Write, WriteKy3, StartSnap, Undo, Select, Goes, Ends
<1> QED
  BY <1>1, <1>4, <1>5, <1>6 DEF Arm

\* Register 2 keeps its type; the count of a snapshot stays in its range.
LEMMA Ky2Types ==
  ASSUME TypeOK, NEW w, w \in {NoWrite} \cup RegWrites, NEW perr \in BOOLEAN,
         ky2' = Ky2Next(w, perr)
  PROVE  ky2' \in Flags
<1>1. ky2 \in Flags /\ MaxCtr \in Nat /\ ky.halted \in BOOLEAN /\ ky.hltrq \in BOOLEAN
      /\ cpu.jam \in BOOLEAN
  BY KyHaltAssumption DEF TypeOK, Flags
<1>2. PICK a : a = IF w.reg = 2 THEN w.val ELSE ky2
  OBVIOUS
<1>3. a \in Flags
  BY <1>1, <1>2, WriteTypes
<1>4. ky2.snapctr = 0 \/ ky2.snapctr - 1 \in 0 .. MaxCtr
  BY <1>1 DEF Flags
<1>5. ky2'.haltreq \in BOOLEAN
  BY <1>1, <1>2, <1>3 DEF Ky2Next, Flags, HltrqIn
<1>6. ky2'.snapctr \in 0 .. MaxCtr
  BY <1>1, <1>2, <1>3, <1>4 DEF Ky2Next, Flags, SnapLast
<1> QED
  BY <1>1, <1>2, <1>3, <1>5, <1>6 DEF Ky2Next, Flags

KyType ==
  ky \in [halted : BOOLEAN, haltstate : 0 .. 3, hltrq : BOOLEAN,
          sack : BOOLEAN, dmastate : 0 .. 6, dmatimo : BOOLEAN,
          snapwrt : BOOLEAN, npr : BOOLEAN, bbsy : BOOLEAN]

\* The rest of ky11.v keeps its type.
LEMMA KyTypes ==
  ASSUME TypeOK, NEW w, w \in {NoWrite} \cup RegWrites,
         NEW done \in BOOLEAN, NEW answered \in BOOLEAN, NEW perr,
         Ky(w, done, answered, perr)
  PROVE  KyType'
<1>1. KyType /\ dclo \in BOOLEAN /\ cpu.init \in BOOLEAN /\ cpu.hltgr \in BOOLEAN
      /\ ky2.haltreq \in BOOLEAN
  BY DEF TypeOK, KyType
<1>2. HaltedNext \in BOOLEAN /\ HltrqNext \in BOOLEAN
  BY <1>1 DEF KyType, HaltedNext, HltrqNext
<1>3. HaltStateNext \in 0 .. 3
  BY <1>1 DEF KyType, HaltStateNext
<1>4. SackNext(done) \in BOOLEAN
  BY <1>1 DEF KyType, SackNext
<1>5. DmaStateNext(w, done, answered) \in 0 .. 6
  BY <1>1 DEF KyType, DmaStateNext
<1>6. DmaTimoNext(w, done) \in BOOLEAN
  BY <1>1 DEF DmaTimoNext
<1> QED
  BY <1>2, <1>3, <1>4, <1>5, <1>6 DEF Ky, KyType

\* The history keeps its type.
LEMMA RanTypes ==
  ASSUME TypeOK, NEW w, ran' = RanNext(w)
  PROVE  ran' \in {"free", "nothing", "trap", "one", "more"}
BY DEF TypeOK, RanNext

\* Every variable keeps its type along a clock.
LEMMA TypeStep ==
  ASSUME TypeOK, NEW w, NEW done, NEW answered, NEW perr,
         Edge(w, done, answered, perr)
  PROVE  TypeOK'
<1>1. w \in {NoWrite} \cup RegWrites /\ Arm(w)
      /\ done \in BOOLEAN /\ answered \in BOOLEAN /\ perr \in BOOLEAN
      /\ Ky(w, done, answered, perr) /\ ky2' = Ky2Next(w, perr)
      /\ ran' = RanNext(w) /\ Cpu /\ IntCtl /\ want' \in BOOLEAN
  BY DEF Edge, Ky
<1>2. CpuType'
  BY <1>1, CpuTypes
<1>3. int' \in [br : BOOLEAN, sack : BOOLEAN, intr : BOOLEAN]
  BY <1>1, IntTypes
<1>4. dclo' \in BOOLEAN
      /\ arm' \in [pc : {"idle", "read", "write", "wr3", "wr2", "poll", "undo",
                         "select", "wait", "down", "up"},
                   call : Programs, was : BOOLEAN, busy : BOOLEAN, old : Flags]
  BY <1>1, ArmTypes
<1>5. ky2' \in Flags
  BY <1>1, Ky2Types
<1>6. KyType'
  BY <1>1, KyTypes
<1>7. ran' \in {"free", "nothing", "trap", "one", "more"}
  BY <1>1, RanTypes
<1> QED
  BY <1>1, <1>2, <1>3, <1>4, <1>5, <1>6, <1>7 DEF TypeOK, CpuType, CpuRecords, CpuStates, KyType, Flags

-----------------------------------------------------------------------------
(* The processor. *)

\* What the processor drives in each of its states.
CpuOwn ==
  /\ cpu.bbsy <=> cpu.ps = "cycle"
  /\ cpu.npg => cpu.ps \in {"npg", "wait"}
  /\ cpu.bg => cpu.ps = "intr"
  /\ cpu.ssyn => cpu.ps = "intr"
  /\ cpu.hltgr => Stopped
  /\ cpu.init => cpu.ps \in {"reset", "service"}

\* Between instructions the processor goes on to one of these.
LEMMA ServiceMoves ==
  ASSUME TypeOK, Service
  PROVE  /\ cpu.ps = "service"
         /\ \E s \in {"trap", "halt", "npg", "intr", "fetch"} :
              /\ cpu' = [cpu EXCEPT !.ps = s, !.haltck = TRUE, !.init = FALSE,
                                    !.bg = @ \/ s = "intr"]
              /\ s = "trap" <=> cpu.trapvec
              /\ s = "halt" <=> ~cpu.trapvec /\ HaltWanted
              /\ s = "npg" => ky.npr /\ ~SackIn
              /\ s = "intr" => int.br
BY DEF Service

\* The processor waits until the device has let go.
LEMMA IntrMoves ==
  ASSUME TypeOK, CpuType', Intr
  PROVE  /\ cpu.ps = "intr"
         /\ cpu'.bg <=> cpu.bg /\ ~SackIn
         /\ cpu'.ssyn => int.intr
         /\ \/ cpu'.ps = "intr"
            \/ /\ cpu'.ps = "service"
               /\ ~BbsyIn /\ ~int.intr /\ ~SackIn /\ (~cpu.bg \/ ~int.br)
         /\ UNCHANGED <<cpu.haltck, cpu.hltgr, cpu.jam, cpu.npg, cpu.bbsy, cpu.init>>
<1>1. PICK due \in BOOLEAN : cpu' = [cpu EXCEPT
         !.bg = @ /\ ~SackIn,
         !.ssyn = int.intr /\ (@ \/ due),
         !.trapvec = @ \/ (int.intr /\ ~cpu.ssyn /\ due),
         !.ps = IF ~BbsyIn /\ ~int.intr /\ ~SackIn /\ (~cpu.bg \/ ~int.br)
                THEN "service" ELSE @]
  BY DEF Intr
<1>2. cpu \in CpuRecords /\ cpu' \in CpuRecords
  BY DEF TypeOK, CpuType, CpuRecords, CpuStates
<1>3. cpu.ps = "intr"
  BY DEF Intr
<1>4. cpu'.bg = (cpu.bg /\ ~SackIn)
  BY <1>1, <1>2 DEF CpuRecords
<1>5. cpu'.ssyn = (int.intr /\ (cpu.ssyn \/ due))
  BY <1>1, <1>2 DEF CpuRecords
<1>6. cpu'.ps = IF ~BbsyIn /\ ~int.intr /\ ~SackIn /\ (~cpu.bg \/ ~int.br)
                THEN "service" ELSE cpu.ps
  BY <1>1, <1>2 DEF CpuRecords
<1>7. UNCHANGED <<cpu.haltck, cpu.hltgr, cpu.jam, cpu.npg, cpu.bbsy, cpu.init>>
  BY <1>1, <1>2 DEF CpuRecords
<1> QED
  BY <1>3, <1>4, <1>5, <1>6, <1>7

\* The processor drives its wires only in the states they belong to.
LEMMA OwnStep ==
  ASSUME TypeOK, CpuType', CpuOwn, Cpu, cpu.bg => int.br \/ int.sack
  PROVE  CpuOwn'
<1>1. cpu \in CpuRecords /\ cpu' \in CpuRecords
  BY DEF TypeOK, CpuType, CpuRecords, CpuStates
<1> USE <1>1 DEF CpuRecords, CpuOwn, Stopped
<1>3. CASE Resetting
  BY <1>3 DEF Resetting
<1>4. CASE Halt
  BY <1>4 DEF Halt
<1>5. CASE Halt2
  BY <1>5 DEF Halt2
<1>6. CASE Service
  <2>1. PICK s \in {"trap", "halt", "npg", "intr", "fetch"} :
          cpu' = [cpu EXCEPT !.ps = s, !.haltck = TRUE, !.init = FALSE,
                             !.bg = @ \/ s = "intr"]
    BY <1>6, Zenon, ServiceMoves
  <2>2. cpu.ps = "service" /\ ~cpu.bg /\ ~cpu.npg /\ ~cpu.ssyn /\ ~cpu.hltgr /\ ~cpu.bbsy
    BY <1>6 DEF Service
  <2> QED
    BY <2>1, <2>2
<1>7. CASE Npg
  BY <1>7 DEF Npg
<1>8. CASE Intr
  BY <1>8, IntrMoves DEF SackIn
<1>9. CASE Trap
  BY ZenonT(40), <1>9 DEF Trap
<1>10. CASE Fetch \/ Addr
  BY <1>10 DEF Fetch, Addr
<1>11. CASE Bus \/ Cycle
  BY <1>11 DEF Bus, Cycle
<1>12. CASE Exec
  BY ZenonT(40), <1>12 DEF Exec
<1>13. CASE Wait \/ Reset
  BY <1>13 DEF Wait, Reset
<1> QED
  BY <1>3, <1>4, <1>5, <1>6, <1>7, <1>8, <1>9, <1>10, <1>11, <1>12, <1>13
  DEF Cpu

\* How a request for an interrupt goes through its stages.
LEMMA IntMoves ==
  ASSUME TypeOK, int' \in [br : BOOLEAN, sack : BOOLEAN, intr : BOOLEAN], IntCtl,
         ~(int.br /\ int.sack) /\ ~(int.br /\ int.intr) /\ ~(int.sack /\ int.intr)
  PROVE  /\ cpu.init => ~int'.br /\ ~int'.sack /\ ~int'.intr
         /\ ~cpu.init /\ int.br => int'.br \/ int'.sack
         /\ ~cpu.init /\ int.sack /\ cpu.bg => int'.sack
         /\ int'.br => int.br \/ (~int.sack /\ ~int.intr /\ ~cpu.bg)
         /\ int'.sack => int.sack \/ (int.br /\ cpu.bg)
         /\ int'.intr => int.intr \/ (int.sack /\ BusFree)
         /\ ~(int'.br /\ int'.sack) /\ ~(int'.br /\ int'.intr) /\ ~(int'.sack /\ int'.intr)
<1>1. int \in [br : BOOLEAN, sack : BOOLEAN, intr : BOOLEAN] /\ want \in BOOLEAN
      /\ cpu.bg \in BOOLEAN /\ cpu.ssyn \in BOOLEAN
  BY DEF TypeOK
<1>2. CASE cpu.init
  <2>1. int' = NoInt
    BY <1>2 DEF IntCtl
  <2> QED
    BY <2>1, <1>2 DEF NoInt
<1>3. CASE ~cpu.init /\ int.br
  <2>1. UNCHANGED int \/ (cpu.bg /\ int' = [int EXCEPT !.br = FALSE, !.sack = TRUE])
    BY <1>3 DEF IntCtl, Request
  <2> QED
    BY <1>1, <1>3, <2>1
<1>4. CASE ~cpu.init /\ int.sack
  <2>1. ~int.br /\ ~int.intr
    BY <1>4
  <2>2. CASE BusFree
    <3>1. int' = [int EXCEPT !.intr = want, !.sack = FALSE]
      BY <1>4, <2>1, <2>2 DEF IntCtl, Request
    <3> QED
      BY <1>1, <1>4, <2>1, <2>2, <3>1 DEF BusFree
  <2>3. CASE ~BusFree
    <3>1. UNCHANGED int
      BY <1>4, <2>1, <2>3 DEF IntCtl, Request
    <3> QED
      BY <1>1, <1>4, <2>1, <3>1
  <2> QED
    BY <2>2, <2>3
<1>5. CASE ~cpu.init /\ ~int.br /\ ~int.sack
  <2>1. CASE int.intr
    <3>1. UNCHANGED int \/ int' = [int EXCEPT !.intr = FALSE]
      BY <1>5, <2>1 DEF IntCtl, Request
    <3> QED
      BY <1>1, <1>5, <2>1, <3>1
  <2>2. CASE ~int.intr
    <3>1. UNCHANGED int \/ (~cpu.bg /\ int' = [int EXCEPT !.br = TRUE])
      BY <1>5, <2>2 DEF IntCtl, Request
    <3> QED
      BY <1>1, <1>5, <2>2, <3>1
  <2> QED
    BY <2>1, <2>2
<1> QED
  BY <1>2, <1>3, <1>4, <1>5

\* Who leaves the states of the grants, and who gets there.
LEMMA GrantMoves ==
  ASSUME TypeOK, CpuType', Cpu, ~dclo
  PROVE  /\ cpu'.bg => cpu.bg \/ (cpu.ps = "service" /\ int.br)
         /\ cpu.ps = "intr" /\ cpu'.ps # "intr" =>
              ~int.intr /\ ~SackIn /\ (~cpu.bg \/ ~int.br)
         /\ cpu.ps = "service" => ~cpu'.init
         /\ cpu'.ps = "service" /\ cpu'.init => cpu.init
<1>1. cpu \in CpuRecords /\ cpu' \in CpuRecords
  BY DEF TypeOK, CpuType, CpuRecords, CpuStates
<1> USE <1>1 DEF CpuRecords
<1>3. CASE Service
  <2>1. PICK s \in {"trap", "halt", "npg", "intr", "fetch"} :
          /\ cpu' = [cpu EXCEPT !.ps = s, !.haltck = TRUE, !.init = FALSE,
                                !.bg = @ \/ s = "intr"]
          /\ s = "intr" => int.br
    BY <1>3, Zenon, ServiceMoves
  <2>2. cpu'.bg = (cpu.bg \/ s = "intr")
    BY <2>1
  <2>3. cpu.ps = "service" /\ ~cpu'.init
    BY <1>3, <2>1 DEF Service
  <2> QED
    BY <2>1, <2>2, <2>3
<1>4. CASE Intr
  BY <1>4, IntrMoves
<1>5. CASE Halt \/ Halt2
  BY <1>5 DEF Halt, Halt2
<1>6. CASE Trap
  BY <1>6 DEF Trap
<1>7. CASE Npg \/ Wait \/ Reset
  BY <1>7 DEF Npg, Wait, Reset
<1>8. CASE Fetch \/ Addr \/ Bus \/ Cycle
  BY <1>8 DEF Fetch, Addr, Bus, Cycle
<1>9. CASE Exec
  BY <1>9 DEF Exec
<1> QED
  BY <1>3, <1>4, <1>5, <1>6, <1>7, <1>8, <1>9 DEF Cpu, Resetting

\* In reset.
LEMMA ResetMoves ==
  ASSUME Cpu, dclo
  PROVE  /\ cpu'.ps = "service" /\ cpu'.init /\ cpu'.trapvec /\ cpu'.haltck
         /\ ~cpu'.hltgr /\ ~cpu'.jam /\ ~cpu'.bg /\ ~cpu'.ssyn /\ ~cpu'.npg
         /\ ~cpu'.bbsy
BY DEF Cpu, Resetting

\* A clock keeps the processor and the interrupt request in step, where the
\* power comes back only to a processor that has seen INIT.
LEMMA CpuStep ==
  ASSUME TypeOK, TypeOK', CpuInv, Cpu, IntCtl, dclo /\ ~dclo' => cpu.init
  PROVE  CpuInv'
<1>1. CpuOwn /\ (cpu.bg => int.br \/ int.sack)
  BY DEF CpuInv, CpuOwn
<1>2. CpuType' /\ int' \in [br : BOOLEAN, sack : BOOLEAN, intr : BOOLEAN]
  BY DEF TypeOK, CpuType, CpuRecords, CpuStates
<1>3. CpuOwn'
  BY <1>1, <1>2, OwnStep
<1>4. ~(int.br /\ int.sack) /\ ~(int.br /\ int.intr) /\ ~(int.sack /\ int.intr)
  BY DEF CpuInv
<1>5. /\ cpu.init => ~int'.br /\ ~int'.sack /\ ~int'.intr
      /\ ~cpu.init /\ int.br => int'.br \/ int'.sack
      /\ ~cpu.init /\ int.sack /\ cpu.bg => int'.sack
      /\ int'.sack => int.sack \/ (int.br /\ cpu.bg)
      /\ int'.intr => int.intr \/ int.sack
      /\ ~(int'.br /\ int'.sack) /\ ~(int'.br /\ int'.intr) /\ ~(int'.sack /\ int'.intr)
  BY <1>2, <1>4, IntMoves
<1>6. cpu.init => int' = NoInt
  BY DEF IntCtl
<1>7. CASE dclo
  BY <1>3, <1>5, <1>6, <1>7, ResetMoves DEF CpuInv, CpuOwn
<1>8. CASE ~dclo
  <2>1. /\ cpu'.bg => cpu.bg \/ (cpu.ps = "service" /\ int.br)
        /\ cpu.ps = "intr" /\ cpu'.ps # "intr" =>
             ~int.intr /\ ~SackIn /\ (~cpu.bg \/ ~int.br)
        /\ cpu.ps = "service" => ~cpu'.init
        /\ cpu'.ps = "service" /\ cpu'.init => cpu.init
    BY <1>2, <1>8, GrantMoves
  <2>2. cpu'.bg => int'.br \/ int'.sack
    BY <1>5, <1>8, <2>1 DEF CpuInv, NoInt
  <2>3. int'.sack \/ int'.intr => cpu'.ps = "intr" \/ cpu'.init
    BY <1>5, <1>8, <2>1 DEF CpuInv, SackIn
  <2>4. cpu'.ps = "service" /\ cpu'.init /\ ~dclo' => int' = NoInt
    BY <1>5, <1>6, <1>8, <2>1 DEF CpuInv
  <2> QED
    BY <1>3, <1>5, <2>2, <2>3, <2>4 DEF CpuInv, CpuOwn
<1> QED
  BY <1>7, <1>8

\* The processor stops and goes on.
LEMMA StoppedMoves ==
  ASSUME TypeOK, CpuType', Cpu, ~dclo
  PROVE  /\ cpu.jam => cpu'.jam
         /\ Stopped => (cpu'.jam <=> cpu.jam)
         /\ cpu.ps = "halt" /\ HltrqIn => cpu'.ps = "halt2"
         /\ cpu.ps = "halt" => cpu'.ps \in {"halt", "halt2"}
         /\ cpu.ps = "halt2" /\ (SackIn \/ HltrqIn) => cpu'.ps = "halt2"
         /\ cpu.ps = "halt2" => cpu'.ps \in {"halt2", "service"}
         /\ cpu.ps = "halt2" /\ cpu'.hltgr => cpu.hltgr /\ ~SackIn
         /\ cpu'.ps = "halt2" => \/ cpu.ps = "halt" /\ HltrqIn
                                 \/ cpu.ps = "halt2"
<1>1. cpu \in CpuRecords /\ cpu' \in CpuRecords
  BY DEF TypeOK, CpuType, CpuRecords, CpuStates
<1> USE <1>1 DEF CpuRecords, Stopped
<1>3. CASE Service
  <2>1. PICK s \in {"trap", "halt", "npg", "intr", "fetch"} :
          cpu' = [cpu EXCEPT !.ps = s, !.haltck = TRUE, !.init = FALSE,
                             !.bg = @ \/ s = "intr"]
    BY <1>3, Zenon, ServiceMoves
  <2>2. cpu.ps = "service"
    BY <1>3 DEF Service
  <2> QED
    BY <2>1, <2>2
<1>4. CASE Intr
  BY <1>4, IntrMoves
<1>5. CASE Halt
  BY <1>5 DEF Halt
<1>10. CASE Halt2
  BY <1>10 DEF Halt2
<1>6. CASE Trap
  BY <1>6 DEF Trap
<1>7. CASE Npg \/ Wait \/ Reset
  BY <1>7 DEF Npg, Wait, Reset
<1>8. CASE Fetch \/ Addr \/ Bus \/ Cycle
  BY <1>8 DEF Fetch, Addr, Bus, Cycle
<1>9. CASE Exec
  BY <1>9 DEF Exec
<1> QED
  BY <1>3, <1>4, <1>5, <1>6, <1>7, <1>8, <1>9, <1>10 DEF Cpu, Resetting

\* Grants hold the processor; it begins a cycle only on a free bus.
LEMMA BusMoves ==
  ASSUME TypeOK, CpuType', Cpu, ~dclo
  PROVE  /\ cpu.ps = "npg" /\ ky.npr => cpu'.ps = "npg"
         /\ cpu.ps = "wait" /\ ky.npr /\ cpu.npg => cpu'.ps = "wait" /\ cpu'.npg
         /\ cpu'.ps = "cycle" => \/ cpu.ps = "cycle"
                                 \/ cpu.ps = "bus" /\ ~BbsyIn
<1>1. cpu \in CpuRecords /\ cpu' \in CpuRecords /\ ky.npr \in BOOLEAN
  BY DEF TypeOK, CpuType, CpuRecords, CpuStates
<1> USE <1>1 DEF CpuRecords
<1>3. CASE Service
  <2>1. PICK s \in {"trap", "halt", "npg", "intr", "fetch"} :
          cpu' = [cpu EXCEPT !.ps = s, !.haltck = TRUE, !.init = FALSE,
                             !.bg = @ \/ s = "intr"]
    BY <1>3, Zenon, ServiceMoves
  <2>2. cpu.ps = "service"
    BY <1>3 DEF Service
  <2> QED
    BY <2>1, <2>2
<1>4. CASE Intr
  BY <1>4, IntrMoves
<1>5. CASE Halt \/ Halt2
  BY <1>5 DEF Halt, Halt2
<1>6. CASE Trap
  BY <1>6 DEF Trap
<1>7. CASE Npg \/ Wait \/ Reset
  BY <1>7 DEF Npg, Wait, Reset
<1>8. CASE Fetch \/ Addr \/ Bus \/ Cycle
  BY <1>8 DEF Fetch, Addr, Bus, Cycle
<1>9. CASE Exec
  BY <1>9 DEF Exec
<1> QED
  BY <1>3, <1>4, <1>5, <1>6, <1>7, <1>8, <1>9 DEF Cpu, Resetting

-----------------------------------------------------------------------------
(* ky11.v, register by register. *)

\* The next value of each register of ky11.v.
LEMMA KyMoves ==
  ASSUME TypeOK, NEW w, NEW done \in BOOLEAN, NEW answered \in BOOLEAN, NEW perr,
         Ky(w, done, answered, perr), KyType'
  PROVE  /\ ky'.halted <=> HaltedNext
         /\ ky'.haltstate = HaltStateNext
         /\ ky'.hltrq <=> HltrqNext
         /\ ky'.sack <=> SackNext(done)
         /\ ky'.dmastate = DmaStateNext(w, done, answered)
         /\ ky'.dmatimo <=> DmaTimoNext(w, done)
         /\ ky'.npr <=> ~cpu.init /\ (\/ ky.dmastate = 1 /\ ~ky.halted
                                      \/ ky.dmastate # 1 /\ ky.npr /\ ~TakesBus)
         /\ ky'.bbsy <=> ~cpu.init /\ (\/ TakesBus
                                       \/ ky.bbsy /\ ~LeavesBus(done, answered))
<1>1. ky'.halted = HaltedNext /\ ky'.haltstate = HaltStateNext /\ ky'.hltrq = HltrqNext
      /\ ky'.sack = SackNext(done) /\ ky'.dmastate = DmaStateNext(w, done, answered)
      /\ ky'.dmatimo = DmaTimoNext(w, done)
  BY DEF Ky
<1>2. ky'.npr = (~cpu.init /\ (\/ ky.dmastate = 1 /\ ~ky.halted
                               \/ ky.dmastate # 1 /\ ky.npr /\ ~TakesBus))
  BY DEF Ky
<1>3. ky'.bbsy = (~cpu.init /\ (\/ TakesBus
                                \/ ky.bbsy /\ ~LeavesBus(done, answered)))
  BY DEF Ky
<1> QED
  BY <1>1, <1>2, <1>3, Zenon

\* The halt logic goes from request to grant to acknowledge and back.
LEMMA HaltStates ==
  ASSUME TypeOK, ky'.haltstate = HaltStateNext
  PROVE  /\ dclo => ky'.haltstate = 0
         /\ ky'.haltstate = 1 => /\ ~dclo /\ ky2.haltreq
                                 /\ ky.haltstate \in {0, 1}
         /\ ky'.haltstate = 2 =>
              /\ ~dclo /\ ky2.haltreq
              /\ \/ ky.haltstate = 1 /\ cpu.hltgr
                 \/ ky.haltstate = 2 /\ ~SackIn
         /\ ky'.haltstate = 3 =>
              /\ ~dclo /\ ky2.haltreq
              /\ \/ ky.haltstate = 2 /\ SackIn
                 \/ ky.haltstate = 3
         /\ ky.haltstate = 0 => ky'.haltstate \in {0, 1}
         /\ ky.haltstate = 3 /\ ky2.haltreq /\ ~dclo => ky'.haltstate = 3
         /\ ~ky2.haltreq => ky'.haltstate = 0
<1>1. ky.haltstate \in 0 .. 3 /\ ky2.haltreq \in BOOLEAN /\ dclo \in BOOLEAN
      /\ cpu.hltgr \in BOOLEAN
  BY DEF TypeOK
<1>2. CASE dclo
  BY <1>1, <1>2 DEF HaltStateNext
<1>3. CASE ~dclo /\ ky.haltstate = 0
  BY <1>1, <1>3 DEF HaltStateNext
<1>4. CASE ~dclo /\ ky.haltstate # 0 /\ ~ky2.haltreq
  BY <1>1, <1>4 DEF HaltStateNext
<1>5. CASE ~dclo /\ ky.haltstate = 1 /\ ky2.haltreq
  BY <1>1, <1>5 DEF HaltStateNext
<1>6. CASE ~dclo /\ ky.haltstate = 2 /\ ky2.haltreq
  BY <1>1, <1>6 DEF HaltStateNext
<1>7. CASE ~dclo /\ ky.haltstate = 3 /\ ky2.haltreq
  BY <1>1, <1>7 DEF HaltStateNext
<1> QED
  BY <1>1, <1>2, <1>3, <1>4, <1>5, <1>6, <1>7

\* When the power comes back the halt logic has let go.
LEMMA PowerMoves ==
  ASSUME NEW w, Arm(w), dclo, ~dclo'
  PROVE  cpu.init /\ ky.haltstate = 0 /\ ~ky.sack /\ ~ky.hltrq /\ arm.pc = "up"
         /\ w = NoWrite
BY DEF Arm, PowerUp, PowerDown, Ends

\* A clock keeps what the halt logic believes of the processor true.
LEMMA HaltStep ==
  ASSUME TypeOK, TypeOK', CpuInv, CpuInv', HaltInv, NEW w, NEW done \in BOOLEAN,
         Cpu, IntCtl, Arm(w),
         ky'.halted <=> HaltedNext, ky'.haltstate = HaltStateNext,
         ky'.hltrq <=> HltrqNext, ky'.sack <=> SackNext(done)
  PROVE  HaltInv'
<1>1. CpuType' /\ int' \in [br : BOOLEAN, sack : BOOLEAN, intr : BOOLEAN]
  BY DEF TypeOK, CpuType, CpuRecords, CpuStates
<1>2. ~(int.br /\ int.sack) /\ ~(int.br /\ int.intr) /\ ~(int.sack /\ int.intr)
  BY DEF CpuInv
<1>3. /\ cpu.init => ~int'.sack /\ ~int'.intr
      /\ int'.sack => int.sack \/ (int.br /\ cpu.bg)
      /\ int'.intr => int.intr \/ int.sack
  BY <1>1, <1>2, IntMoves
<1>4. cpu.hltgr => Stopped
  BY DEF CpuInv
<1>5. Stopped => ~cpu.init /\ ~cpu.bg /\ ~int.sack /\ ~int.intr
  BY DEF CpuInv, Stopped
<1>6. ky'.halted => ~int'.sack /\ ~int'.intr
  BY <1>3, <1>4, <1>5 DEF HaltedNext, HaltInv, CpuInv, Stopped
<1>7. CASE dclo
  <2>1. cpu'.ps = "service" /\ cpu'.init /\ ~cpu'.jam
    BY <1>7, ResetMoves
  <2>2. ky'.haltstate = 0
    BY <1>7, HaltStates
  <2>3. ASSUME ky'.halted PROVE dclo'
    <3>1. SUFFICES ASSUME ~dclo' PROVE FALSE
      OBVIOUS
    <3>2. cpu.init /\ ~ky.sack /\ ~ky.hltrq
      BY <1>7, <3>1, PowerMoves
    <3>3. ky.halted /\ (HltrqIn \/ SackIn)
      BY <2>3, <3>2, <1>4, <1>5 DEF HaltedNext
    <3> QED
      BY <1>5, <3>2, <3>3 DEF HaltInv, HltrqIn, SackIn
  <2> QED
    BY <1>6, <2>1, <2>2, <2>3 DEF HaltInv, Stopped
<1>8. CASE ~dclo
  <2> USE <1>8
  <2>1. /\ Stopped => (cpu'.jam <=> cpu.jam)
        /\ cpu.ps = "halt" /\ HltrqIn => cpu'.ps = "halt2"
        /\ cpu.ps = "halt" => cpu'.ps \in {"halt", "halt2"}
        /\ cpu.ps = "halt2" /\ (SackIn \/ HltrqIn) => cpu'.ps = "halt2"
        /\ cpu.ps = "halt2" /\ cpu'.hltgr => cpu.hltgr /\ ~SackIn
        /\ cpu'.ps = "halt2" => \/ cpu.ps = "halt" /\ HltrqIn
                                \/ cpu.ps = "halt2"
    BY <1>1, StoppedMoves
  <2>2. cpu'.ps = "halt2" /\ cpu'.hltgr => HltrqIn'
    <3>1. SUFFICES ASSUME cpu'.ps = "halt2", cpu'.hltgr PROVE HltrqIn'
      OBVIOUS
    <3>2. HltrqIn /\ Stopped /\ (cpu.ps = "halt2" => ~SackIn)
      BY <2>1, <3>1 DEF HaltInv, Stopped
    <3>3. CASE cpu.jam
      BY <2>1, <3>2, <3>3 DEF HltrqIn
    <3>4. CASE ky.hltrq
      <4>1. ~(ky.haltstate = 2 /\ ky2.haltreq /\ SackIn)
        BY <3>2 DEF HaltInv
      <4> QED
        BY <3>4, <4>1 DEF HltrqNext, HltrqIn
    <3> QED
      BY <3>2, <3>3, <3>4 DEF HltrqIn
  <2>3. ky'.haltstate = 1 => ky'.hltrq
    BY HaltStates DEF HaltInv, HltrqNext
  <2>4. ky'.haltstate = 2 => cpu'.ps = "halt2" /\ ky'.halted /\ ky'.hltrq
    <3>1. SUFFICES ASSUME ky'.haltstate = 2
                   PROVE  cpu'.ps = "halt2" /\ ky'.halted /\ ky'.hltrq
      OBVIOUS
    <3>2. CASE ky.haltstate = 1 /\ cpu.hltgr
      BY <1>4, <2>1, <3>2 DEF HaltInv, HltrqIn, HltrqNext, HaltedNext, Stopped
    <3>3. CASE ky.haltstate = 2 /\ ~SackIn
      BY <2>1, <3>3 DEF HaltInv, HltrqIn, HltrqNext, HaltedNext
    <3> QED
      BY <3>1, <3>2, <3>3, HaltStates
  <2>5. ky'.haltstate = 3 => cpu'.ps = "halt2" /\ ky'.halted /\ ky'.sack
    <3>1. SUFFICES ASSUME ky'.haltstate = 3
                   PROVE  cpu'.ps = "halt2" /\ ky'.halted /\ ky'.sack
      OBVIOUS
    <3>2. ky2.haltreq /\ ((ky.haltstate = 2 /\ SackIn) \/ ky.haltstate = 3)
      BY <3>1, HaltStates
    <3>3. cpu.ps = "halt2" /\ ky.halted /\ ~cpu.init
      BY <3>2, <1>5 DEF HaltInv, Stopped
    <3>4. ky.sack
      BY <3>2, <3>3, <1>5 DEF HaltInv, SackIn, Stopped
    <3>5. cpu'.ps = "halt2" /\ ky'.halted
      BY <2>1, <3>3, <3>4 DEF HaltedNext, SackIn
    <3>6. ky'.sack
      BY <3>2, <3>3, <3>4 DEF SackNext
    <3> QED
      BY <3>5, <3>6
  <2>6. ky'.halted => Stopped'
    <3>1. SUFFICES ASSUME ky'.halted PROVE Stopped'
      OBVIOUS
    <3>2. Stopped
      BY <3>1, <1>4 DEF HaltedNext, HaltInv
    <3>3. CASE cpu.ps = "halt2" /\ ~SackIn /\ ~HltrqIn
      BY <3>1, <3>3 DEF HaltedNext, HaltInv
    <3> QED
      BY <2>1, <3>2, <3>3 DEF Stopped
  <2> QED
    BY <1>6, <2>2, <2>3, <2>4, <2>5, <2>6 DEF HaltInv
<1> QED
  BY <1>7, <1>8

-----------------------------------------------------------------------------
(* The DMA engine. *)

\* The engine holds the bus in states 3 to 6 and gets to wait for it in three
\* ways.
LEMMA DmaMoves ==
  ASSUME TypeOK, NEW w, NEW done \in BOOLEAN, NEW answered \in BOOLEAN,
         ky'.dmastate = DmaStateNext(w, done, answered),
         ky'.bbsy <=> ~cpu.init /\ (\/ TakesBus
                                    \/ ky.bbsy /\ ~LeavesBus(done, answered)),
         ky.bbsy <=> ky.dmastate \in 3 .. 6
  PROVE  /\ ky'.bbsy <=> ky'.dmastate \in 3 .. 6
         /\ ky'.dmastate = 2 =>
              \/ SnapStart
              \/ ~cpu.init /\ ky.dmastate = 1 /\ (ky.halted \/ Granted(done))
              \/ ~cpu.init /\ ky.dmastate = 2 /\ ~BusIdle
         /\ ky'.bbsy => ~cpu.init /\ (ky.bbsy \/ TakesBus)
<1>1. ky.dmastate \in 0 .. 6 /\ cpu.init \in BOOLEAN
  BY DEF TypeOK
<1>2. CASE SnapStart
  <2>1. ky'.dmastate = 2 /\ ky.dmastate = 0
    BY <1>2 DEF DmaStateNext, SnapStart
  <2> QED
    BY <1>2, <2>1 DEF TakesBus
<1>3. CASE ~SnapStart /\ cpu.init
  BY <1>3 DEF DmaStateNext
<1>4. CASE ~SnapStart /\ ~cpu.init
  <2>1. CASE ky.dmastate = 0
    BY <1>4, <2>1 DEF DmaStateNext, TakesBus
  <2>2. CASE ky.dmastate = 1
    BY <1>4, <2>2 DEF DmaStateNext, TakesBus
  <2>3. CASE ky.dmastate = 2
    BY <1>4, <2>3 DEF DmaStateNext, TakesBus
  <2>4. CASE ky.dmastate = 3
    BY <1>4, <2>4 DEF DmaStateNext, TakesBus, LeavesBus
  <2>5. CASE ky.dmastate = 4
    BY <1>4, <2>5 DEF DmaStateNext, TakesBus, LeavesBus
  <2>6. CASE ky.dmastate = 5
    BY <1>4, <2>6 DEF DmaStateNext, TakesBus, LeavesBus
  <2>7. CASE ky.dmastate = 6
    BY <1>4, <2>7 DEF DmaStateNext, TakesBus, LeavesBus
  <2> QED
    BY <1>1, <2>1, <2>2, <2>3, <2>4, <2>5, <2>6, <2>7
<1> QED
  BY <1>2, <1>3, <1>4

\* No clock of the processor, the engine and the halt logic gives the bus a
\* second master.
LEMMA DmaStep ==
  ASSUME TypeOK, TypeOK', CpuInv, CpuInv', HaltInv, HaltInv', DmaInv, NEW w,
         NEW done \in BOOLEAN, NEW answered \in BOOLEAN, NEW perr,
         Cpu, IntCtl, Ky(w, done, answered, perr)
  PROVE  DmaInv'
<1>1. CpuType' /\ int' \in [br : BOOLEAN, sack : BOOLEAN, intr : BOOLEAN] /\ KyType'
  BY DEF TypeOK, CpuType, CpuRecords, CpuStates, KyType
<1>2. ~(int.br /\ int.sack) /\ ~(int.br /\ int.intr) /\ ~(int.sack /\ int.intr)
  BY DEF CpuInv
<1>3. /\ cpu.init => ~int'.br /\ ~int'.sack /\ ~int'.intr
      /\ int'.intr => int.intr \/ (int.sack /\ BusFree)
  BY <1>1, <1>2, IntMoves
<1>4. /\ ky'.dmastate = DmaStateNext(w, done, answered)
      /\ ky'.npr <=> ~cpu.init /\ (\/ ky.dmastate = 1 /\ ~ky.halted
                                   \/ ky.dmastate # 1 /\ ky.npr /\ ~TakesBus)
      /\ ky'.bbsy <=> ~cpu.init /\ (\/ TakesBus
                                    \/ ky.bbsy /\ ~LeavesBus(done, answered))
  BY <1>1, KyMoves
<1>5. /\ ky'.bbsy <=> ky'.dmastate \in 3 .. 6
      /\ ky'.dmastate = 2 =>
           \/ SnapStart
           \/ ~cpu.init /\ ky.dmastate = 1 /\ (ky.halted \/ Granted(done))
           \/ ~cpu.init /\ ky.dmastate = 2 /\ ~BusIdle
      /\ ky'.bbsy => ~cpu.init /\ (ky.bbsy \/ TakesBus)
  BY <1>4, DmaMoves DEF DmaInv
<1>6. ky'.dmastate = 2 =>
        \/ Stopped'
        \/ cpu'.ps = "npg" /\ ky'.npr
        \/ cpu'.ps = "wait" /\ ky'.npr /\ cpu'.npg
        \/ cpu'.ps = "service" /\ (cpu'.init \/ (~int'.intr /\ ~cpu'.ssyn))
  <2>1. SUFFICES ASSUME ky'.dmastate = 2
                 PROVE  \/ Stopped'
                        \/ cpu'.ps = "npg" /\ ky'.npr
                        \/ cpu'.ps = "wait" /\ ky'.npr /\ cpu'.npg
                        \/ cpu'.ps = "service" /\ (cpu'.init \/ (~int'.intr /\ ~cpu'.ssyn))
    OBVIOUS
  <2>2. CASE dclo
    BY <2>2, ResetMoves
  <2>3. CASE ~dclo
    <3>1. /\ cpu.ps = "halt" => cpu'.ps \in {"halt", "halt2"}
          /\ cpu.ps = "halt2" => cpu'.ps \in {"halt2", "service"}
          /\ cpu.ps = "halt2" /\ (SackIn \/ HltrqIn) => cpu'.ps = "halt2"
      BY <1>1, <2>3, StoppedMoves
    <3>2. /\ cpu.ps = "npg" /\ ky.npr => cpu'.ps = "npg"
          /\ cpu.ps = "wait" /\ ky.npr /\ cpu.npg => cpu'.ps = "wait" /\ cpu'.npg
      BY <1>1, <2>3, BusMoves
    <3>3. cpu'.ssyn => cpu'.ps = "intr"
      BY DEF CpuInv
    <3>4. CASE SnapStart
      <4>1. cpu.ps = "halt2" /\ ky.sack
        BY <3>4 DEF SnapStart, Snapping, HaltInv
      <4> QED
        BY <3>1, <4>1 DEF SackIn, Stopped
    <3>5. CASE ~cpu.init /\ Stopped
      <4>1. Stopped' \/ cpu'.ps = "service"
        BY <3>1, <3>5 DEF Stopped
      <4>2. ~int'.intr
        BY <1>3, <3>5 DEF CpuInv, Stopped
      <4> QED
        BY <3>3, <4>1, <4>2
    <3>6. CASE ~cpu.init /\ ky.npr /\ cpu.ps = "npg" /\ ky'.npr
      BY <3>2, <3>6
    <3>7. CASE ~cpu.init /\ ky.npr /\ cpu.ps = "wait" /\ cpu.npg /\ ky'.npr
      BY <3>2, <3>7
    <3>8. CASE ~cpu.init /\ ky.dmastate = 1 /\ (ky.halted \/ Granted(done))
      <4>1. CASE ky.halted
        BY <2>3, <3>5, <3>8, <4>1 DEF HaltInv
      <4>2. CASE ~ky.halted /\ ky.npr /\ cpu.npg
        <5>1. cpu.ps \in {"npg", "wait"} /\ ky'.npr
          BY <1>4, <3>8, <4>2 DEF CpuInv
        <5> QED
          BY <3>6, <3>7, <3>8, <4>2, <5>1
      <4> QED
        BY <3>8, <4>1, <4>2 DEF Granted
    <3>9. CASE ~cpu.init /\ ky.dmastate = 2 /\ ~BusIdle
      <4>1. ky.npr => ky'.npr
        BY <1>4, <3>9 DEF TakesBus
      <4>2. ~(cpu.ps = "service")
        BY <3>9 DEF BusIdle, BbsyIn, DmaInv, CpuInv
      <4> QED
        BY <3>5, <3>6, <3>7, <3>9, <4>1, <4>2 DEF DmaInv
    <3> QED
      BY <1>5, <2>1, <3>4, <3>8, <3>9
  <2> QED
    BY <2>2, <2>3
<1>7. ~(cpu'.bbsy /\ ky'.bbsy)
  <2>1. SUFFICES ASSUME cpu'.bbsy, ky'.bbsy PROVE FALSE
    OBVIOUS
  <2>2. cpu'.ps = "cycle"
    BY <2>1 DEF CpuInv
  <2>3. ~dclo
    BY <2>2, ResetMoves
  <2>4. cpu.ps = "cycle" \/ (cpu.ps = "bus" /\ ~BbsyIn)
    BY <1>1, <2>2, <2>3, BusMoves
  <2>5. ky.dmastate = 2 /\ BusIdle
    BY <1>5, <2>1, <2>4 DEF BbsyIn, DmaInv, CpuInv, TakesBus
  <2> QED
    BY <2>4, <2>5 DEF DmaInv, Stopped, CpuInv, BusIdle, BbsyIn
<1>8. ~(ky'.bbsy /\ int'.intr)
  <2>1. SUFFICES ASSUME int'.intr, ky'.bbsy PROVE FALSE
    OBVIOUS
  <2>2. ~cpu.init /\ (ky.bbsy \/ TakesBus)
    BY <1>5, <2>1
  <2>3. CASE int.intr
    BY <2>2, <2>3 DEF DmaInv, TakesBus, BusIdle, BbsyIn
  <2>4. CASE int.sack /\ BusFree
    <3>1. cpu.ps = "intr" /\ ~ky.bbsy
      BY <2>2, <2>4 DEF CpuInv, BusFree, BbsyIn
    <3> QED
      BY <2>2, <3>1 DEF DmaInv, TakesBus, Stopped
  <2> QED
    BY <1>3, <2>1, <2>3, <2>4
<1> QED
  BY <1>5, <1>6, <1>7, <1>8 DEF DmaInv

-----------------------------------------------------------------------------
(* The specification. *)

\* One clock keeps the invariant.
LEMMA IInvStep ==
  ASSUME IInv, Clock
  PROVE  IInv'
<1>1. PICK w, done, answered, perr : Edge(w, done, answered, perr)
  BY ClockEdge
<1>2. TypeOK /\ CpuInv /\ HaltInv /\ DmaInv
  BY DEF IInv
<1>3. /\ Arm(w) /\ Cpu /\ IntCtl /\ Ky(w, done, answered, perr)
      /\ done \in BOOLEAN /\ answered \in BOOLEAN
  BY <1>1 DEF Edge
<1>4. TypeOK'
  BY <1>1, <1>2, TypeStep
<1>5. KyType'
  BY <1>4 DEF TypeOK, KyType
<1>6. dclo /\ ~dclo' => cpu.init
  BY <1>3, PowerMoves
<1>7. CpuInv'
  BY <1>2, <1>3, <1>4, <1>6, CpuStep
<1>8. /\ ky'.halted <=> HaltedNext
      /\ ky'.haltstate = HaltStateNext
      /\ ky'.hltrq <=> HltrqNext
      /\ ky'.sack <=> SackNext(done)
  BY <1>2, <1>3, <1>5, KyMoves
<1>9. HaltInv'
  BY <1>2, <1>3, <1>4, <1>7, <1>8, HaltStep
<1>10. DmaInv'
  BY <1>2, <1>3, <1>4, <1>7, <1>9, DmaStep
<1> QED
  BY <1>4, <1>7, <1>9, <1>10 DEF IInv

\* At the start the processor runs and nothing is requested.
LEMMA IInvInit ==
  ASSUME Init
  PROVE  IInv
<1>1. TypeOK
  <2>1. "haltreq" \in Programs /\ NoFlags \in Flags
    BY KyHaltAssumption DEF Programs, NoFlags, Flags
  <2>2. ky2 \in Flags /\ ran \in {"free"} /\ ~want /\ ~dclo
    BY <2>1 DEF Init
  <2>3. KyType /\ CpuType
    BY DEF Init, KyType, CpuType, CpuRecords, CpuStates
  <2>4. arm \in [pc : {"idle"}, call : Programs, was : BOOLEAN, busy : BOOLEAN,
                old : Flags]
    BY <2>1 DEF Init
  <2>5. int \in [br : BOOLEAN, sack : BOOLEAN, intr : BOOLEAN]
        /\ want \in BOOLEAN /\ dclo \in BOOLEAN
    BY DEF Init
  <2> QED
    BY <2>2, <2>3, <2>4, <2>5 DEF TypeOK, Flags, KyType, CpuType, CpuRecords, CpuStates
<1>2. CpuInv /\ HaltInv /\ DmaInv
  BY DEF Init, CpuInv, HaltInv, DmaInv, Stopped, HltrqIn
<1> QED
  BY <1>1, <1>2 DEF IInv

\* IInv does not change while nothing does.
LEMMA IInvStutter ==
  ASSUME IInv, UNCHANGED vars
  PROVE  IInv'
BY DEF IInv, vars, TypeOK, CpuInv, HaltInv, DmaInv, Stopped, HltrqIn

\* The halt logic, the DMA engine and the processor agree on who has the bus
\* and on whether the processor is stopped, at every clock.
THEOREM HaltInvariance == Spec => []IInv
<1>1. Init => IInv
  BY IInvInit
<1>2. IInv /\ [Next]_vars => IInv'
  BY IInvStep, IInvStutter DEF Next
<1> QED
  BY <1>1, <1>2, PTL DEF Spec

\* The processor, the engine and a device that sends its vector never hold the
\* bus together.
THEOREM OneMasterHolds == Spec => []OneMaster
<1>1. IInv => OneMaster
  BY DEF IInv, CpuInv, DmaInv, HaltInv, OneMaster, TypeOK
<1> QED
  BY <1>1, HaltInvariance, PTL

\* In the last state of the halt logic the processor stands still.
THEOREM HeldHalted == Spec => []HeldWhileHalted
<1>1. IInv => HeldWhileHalted
  BY DEF IInv, HaltInv, HeldWhileHalted
<1> QED
  BY <1>1, HaltInvariance, PTL

-----------------------------------------------------------------------------
(* The stepper. *)

\* Which way instructions go, and when the processor looks at the halt line.
LEMMA RunMoves ==
  ASSUME TypeOK, CpuType', Cpu, ~dclo
  PROVE  /\ ~cpu'.haltck => \/ cpu.ps = "halt2" /\ cpu'.ps = "service"
                            \/ ~cpu.haltck /\ cpu.ps # "service"
         /\ cpu'.ps \in {"fetch", "npg", "intr"} =>
              cpu.ps = "service" \/ cpu.ps \in {"npg", "intr"}
         /\ cpu.ps = "service" =>
              /\ cpu'.ps \in {"trap", "halt", "npg", "intr", "fetch"}
              /\ HaltWanted => cpu'.ps \in {"trap", "halt"}
         /\ cpu.ps = "fetch" => cpu'.ps = "addr"
<1>1. cpu \in CpuRecords /\ cpu' \in CpuRecords
  BY DEF TypeOK, CpuType, CpuRecords, CpuStates
<1> USE <1>1 DEF CpuRecords
<1>3. CASE Service
  <2>1. PICK s \in {"trap", "halt", "npg", "intr", "fetch"} :
          /\ cpu' = [cpu EXCEPT !.ps = s, !.haltck = TRUE, !.init = FALSE,
                                !.bg = @ \/ s = "intr"]
          /\ s = "trap" <=> cpu.trapvec
          /\ s = "halt" <=> ~cpu.trapvec /\ HaltWanted
    BY <1>3, Zenon, ServiceMoves
  <2>2. cpu.ps = "service"
    BY <1>3 DEF Service
  <2>3. cpu'.ps = s /\ cpu'.haltck
    BY <2>1
  <2> QED
    BY <2>1, <2>2, <2>3
<1>4. CASE Intr
  BY <1>4, IntrMoves
<1>5. CASE Halt \/ Halt2
  BY <1>5 DEF Halt, Halt2
<1>6. CASE Trap
  BY <1>6 DEF Trap
<1>7. CASE Npg \/ Wait \/ Reset
  BY <1>7 DEF Npg, Wait, Reset
<1>8. CASE Fetch \/ Addr \/ Bus \/ Cycle
  BY <1>8 DEF Fetch, Addr, Bus, Cycle
<1>9. CASE Exec
  BY <1>9 DEF Exec
<1> QED
  BY <1>3, <1>4, <1>5, <1>6, <1>7, <1>8, <1>9 DEF Cpu, Resetting

\* Without a write to register 2 and without a snapshot only the stepper and
\* the HALT instruction change its flags.
LEMMA StepperMoves ==
  ASSUME TypeOK, NEW w, NEW perr, ky2' = Ky2Next(w, perr), w.reg # 2, ~ky2.snapreq
  PROVE  /\ ky2'.stepreq => /\ ky2.stepreq
                            /\ w # NoWrite \/ ky.halted
         /\ w = NoWrite /\ ky2.stepreq => ky2'.stepreq \/ ky2'.haltreq
         /\ w # NoWrite /\ ky2.stepreq => ky2'.stepreq
         /\ ~ky2.stepreq /\ ky2.haltreq => ky2'.haltreq
<1>1. ~SnapTimo /\ ~SnapSave /\ ~SnapLast(perr)
  BY DEF SnapTimo, SnapSave, SnapLast, Snapping
<1>2. ky2'.stepreq = (ky2.stepreq /\ ~(w = NoWrite /\ Stepped))
  BY DEF Ky2Next
<1>3. ky2'.haltreq = IF w = NoWrite /\ ky2.stepreq THEN ~ky.halted
                     ELSE (HltrqIn /\ ~ky.hltrq) \/ ky2.haltreq
  BY <1>1 DEF Ky2Next
<1>4. ky2.stepreq \in BOOLEAN /\ ky2.haltreq \in BOOLEAN /\ ky.halted \in BOOLEAN
  BY DEF TypeOK
<1> QED
  BY <1>2, <1>3, <1>4 DEF Stepped

\* What the history of a step becomes.
LEMMA RanMoves ==
  ASSUME TypeOK, HaltInv, NEW w, ran' = RanNext(w), ran' # "free"
  PROVE  /\ w.reg # 2 /\ ~ky2.snapreq
         /\ ran = "free" => w = NoWrite /\ ky2.stepreq /\ ky.haltstate = 3
         /\ ran' \in {"one", "more"} => ~dclo /\ ~LetGo
         /\ ran' = "one" => \/ cpu.ps = "fetch"
                            \/ ran = "one" /\ cpu.ps # "fetch"
         /\ ran' = "more" => ran = "more" \/ (ran = "one" /\ cpu.ps = "fetch")
<1>1. w.reg # 2 /\ ~ky2.snapreq
  BY DEF RanNext
<1>2. ran \in {"free", "nothing", "trap", "one", "more"}
  BY DEF TypeOK
<1>3. CASE w = NoWrite /\ ky2.stepreq /\ ky.haltstate = 3
  <2>1. dclo \/ cpu.ps = "halt2"
    BY <1>3 DEF HaltInv
  <2>2. ran' = "nothing"
    BY <1>1, <1>3, <2>1 DEF RanNext
  <2> QED
    BY <1>1, <1>3, <2>2
<1>4. CASE /\ ~(w = NoWrite /\ ky2.stepreq /\ ky.haltstate = 3)
           /\ ran # "free" /\ (dclo \/ LetGo)
  <2>1. dclo \/ cpu.ps = "halt2"
    BY <1>4 DEF LetGo
  <2>2. ran' = "nothing"
    BY <1>1, <1>4, <2>1 DEF RanNext
  <2> QED
    BY <1>1, <1>4, <2>2
<1>5. CASE /\ ~(w = NoWrite /\ ky2.stepreq /\ ky.haltstate = 3)
           /\ ~(ran # "free" /\ (dclo \/ LetGo))
  <2>1. CASE ran = "free"
    BY <1>1, <1>5, <2>1 DEF RanNext
  <2>2. CASE ran # "free" /\ cpu.ps = "fetch"
    <3>1. ran' = IF ran \in {"nothing", "trap"} THEN "one" ELSE "more"
      BY <1>1, <1>5, <2>2 DEF RanNext
    <3> QED
      BY <1>1, <1>2, <1>5, <2>2, <3>1
  <2>3. CASE ran # "free" /\ cpu.ps # "fetch"
    <3>1. ran' \in {"trap", ran}
      BY <1>1, <1>5, <2>3 DEF RanNext
    <3> QED
      BY <1>1, <1>5, <2>3, <3>1
  <2> QED
    BY <2>1, <2>2, <2>3
<1> QED
  BY <1>3, <1>4, <1>5

\* Only dmaread and snapregs write to register 3, and then they go on.
LEMMA WriteMoves ==
  ASSUME TypeOK, NEW w, w \in {NoWrite} \cup RegWrites, Arm(w), w.reg # 2, w # NoWrite
  PROVE  arm.pc = "wr3" /\ arm'.pc # "wr3"
BY DEF TypeOK, Arm, Writing, Write, WriteKy3, StartSnap, Undo, Select, Goes

\* One clock keeps the step in bounds.
LEMMA RanStep ==
  ASSUME IInv, IInv', RanInv, NEW w, NEW done, NEW answered, NEW perr,
         Edge(w, done, answered, perr)
  PROVE  RanInv'
<1>1. TypeOK /\ CpuType' /\ KyType' /\ Cpu /\ Arm(w) /\ w \in {NoWrite} \cup RegWrites
      /\ ky2' = Ky2Next(w, perr) /\ ran' = RanNext(w) /\ CpuInv /\ HaltInv
      /\ Ky(w, done, answered, perr)
  BY DEF IInv, Edge, Ky, TypeOK, CpuType, CpuRecords, CpuStates, KyType
<1>2. ~dclo => /\ cpu.jam => cpu'.jam
               /\ cpu.ps = "halt" => cpu'.ps \in {"halt", "halt2"}
               /\ cpu.ps = "halt2" /\ (SackIn \/ HltrqIn) => cpu'.ps = "halt2"
               /\ cpu.ps = "halt2" => cpu'.ps \in {"halt2", "service"}
  BY <1>1, StoppedMoves
<1>3. ~dclo =>
        /\ ~cpu'.haltck => \/ cpu.ps = "halt2" /\ cpu'.ps = "service"
                           \/ ~cpu.haltck /\ cpu.ps # "service"
        /\ cpu'.ps \in {"fetch", "npg", "intr"} =>
             cpu.ps = "service" \/ cpu.ps \in {"npg", "intr"}
        /\ cpu.ps = "service" =>
             /\ cpu'.ps \in {"trap", "halt", "npg", "intr", "fetch"}
             /\ HaltWanted => cpu'.ps \in {"trap", "halt"}
        /\ cpu.ps = "fetch" => cpu'.ps = "addr"
  BY <1>1, RunMoves
<1>4. dclo => cpu'.ps = "service" /\ cpu'.haltck
  BY <1>1, ResetMoves
<1>5. ran' # "free" =>
        /\ w.reg # 2 /\ ~ky2.snapreq
        /\ ran = "free" => w = NoWrite /\ ky2.stepreq /\ ky.haltstate = 3
        /\ ran' \in {"one", "more"} => ~dclo /\ ~LetGo
        /\ ran' = "one" => \/ cpu.ps = "fetch"
                           \/ ran = "one" /\ cpu.ps # "fetch"
        /\ ran' = "more" => ran = "more" \/ (ran = "one" /\ cpu.ps = "fetch")
  BY <1>1, RanMoves
<1>6. ran' # "free" =>
        /\ ky2'.stepreq => ky2.stepreq /\ (w # NoWrite \/ ky.halted)
        /\ ky2.stepreq => ky2'.stepreq \/ ky2'.haltreq
        /\ ~ky2.stepreq /\ ky2.haltreq => ky2'.haltreq
  BY <1>1, <1>5, StepperMoves
<1>7. ~cpu'.haltck => cpu'.ps = "service" \/ Stopped'
  BY <1>2, <1>3, <1>4 DEF RanInv, Stopped
<1>8. ran' # "more"
  BY <1>5 DEF RanInv
<1>9. ran' # "free" => ky2'.stepreq \/ ky2'.haltreq
  BY <1>5, <1>6 DEF RanInv
<1>10. ran' # "free" /\ ~dclo' /\ ~Stopped' /\ ky2'.stepreq =>
         /\ cpu'.ps \in {"service", "fetch", "trap", "intr", "npg"}
         /\ cpu'.ps # "service" => arm'.pc # "wr3"
  <2>1. SUFFICES ASSUME ran' # "free", ~Stopped', ky2'.stepreq, ~dclo, cpu'.ps # "service"
                 PROVE  /\ cpu'.ps \in {"fetch", "trap", "intr", "npg"}
                        /\ arm'.pc # "wr3"
    BY <1>4
  <2>2. ~Stopped
    BY <1>2, <2>1 DEF Stopped
  <2>3. ky2.stepreq /\ w # NoWrite /\ ran # "free"
    BY <1>1, <1>5, <1>6, <2>1, <2>2 DEF HaltInv
  <2>4. arm.pc = "wr3" /\ arm'.pc # "wr3"
    BY <1>1, <1>5, <2>1, <2>3, WriteMoves
  <2>5. cpu.ps = "service"
    BY <2>1, <2>2, <2>3, <2>4 DEF RanInv
  <2> QED
    BY <1>3, <2>1, <2>4, <2>5 DEF Stopped
<1>11. ran' = "one" => cpu'.ps \notin {"fetch", "npg", "intr"}
  <2>1. SUFFICES ASSUME ran' = "one", cpu.ps # "fetch"
                 PROVE  cpu'.ps \notin {"fetch", "npg", "intr"}
    BY <1>3, <1>5
  <2>2. ran = "one" /\ ~dclo
    BY <1>5, <2>1
  <2>3. cpu.ps = "service" => HaltWanted
    BY <2>2 DEF RanInv, HaltWanted, Stopped
  <2> QED
    BY <1>3, <2>2, <2>3 DEF RanInv
<1>12. ran' = "one" /\ ~dclo' /\ cpu'.ps # "addr" /\ ~Stopped' =>
         HltrqIn' /\ cpu'.haltck
  <2>1. SUFFICES ASSUME ran' = "one", cpu'.ps # "addr", ~Stopped'
                 PROVE  HltrqIn' /\ cpu'.haltck
    OBVIOUS
  <2>2. ran = "one" /\ ~dclo /\ ~LetGo /\ cpu.ps # "fetch" /\ ~ky2.snapreq
    BY <1>3, <1>5, <2>1
  <2>3. ~Stopped
    BY <1>2, <2>1, <2>2 DEF Stopped, LetGo
  <2>4. cpu.haltck
    BY <2>2, <2>3 DEF RanInv
  <2>5. cpu'.haltck
    BY <1>3, <2>2, <2>3, <2>4 DEF Stopped
  <2>6. ky.haltstate \in {0, 1} /\ (ky.haltstate = 1 => ky.hltrq)
    BY <1>1, <2>3 DEF HaltInv, TypeOK, Stopped
  <2>7. ky'.hltrq <=> HltrqNext
    BY <1>1, KyMoves DEF Edge
  <2>8. CASE HltrqIn
    BY <1>2, <2>2, <2>5, <2>6, <2>7, <2>8 DEF HltrqIn, HltrqNext
  <2>9. CASE cpu.ps = "addr"
    <3>1. ky2.haltreq
      BY <2>2, <2>3, <2>9 DEF RanInv
    <3> QED
      BY <2>2, <2>5, <2>6, <2>7, <3>1 DEF HltrqIn, HltrqNext
  <2> QED
    BY <2>2, <2>3, <2>8, <2>9 DEF RanInv
<1> QED
  BY <1>7, <1>8, <1>9, <1>10, <1>11, <1>12 DEF RanInv

\* However slowly the halt logic goes round, a step never runs more than one
\* instruction; the argument needs that the processor stands still while the
\* halt logic believes so.
THEOREM StepRunsOneHolds == Spec => []StepRunsOne
<1>1. Init => RanInv
  BY DEF Init, RanInv, Stopped
<1>2. IInv /\ IInv' /\ RanInv /\ [Next]_vars => RanInv'
  <2>1. ASSUME IInv, IInv', RanInv, Clock PROVE RanInv'
    BY <2>1, ClockEdge, RanStep
  <2>2. ASSUME RanInv, UNCHANGED vars PROVE RanInv'
    BY <2>2 DEF RanInv, vars, Stopped, HltrqIn
  <2> QED
    BY <2>1, <2>2 DEF Next
<1>3. RanInv => StepRunsOne
  BY DEF RanInv, StepRunsOne
<1> QED
  BY <1>1, <1>2, <1>3, HaltInvariance, PTL DEF Spec

-----------------------------------------------------------------------------
(* The snapshot. *)

\* How the program gets to each place of a snapshot, and what it writes there.
LEMMA ArmMoves ==
  ASSUME TypeOK, TypeOK', NEW w, Arm(w), w \in {NoWrite} \cup RegWrites
  PROVE  /\ arm'.pc = "wr3" =>
              \/ arm.pc = "wr3" /\ UNCHANGED arm /\ w = NoWrite
              \/ arm'.call = "dmaread"
              \/ /\ arm'.call = "snapregs" /\ w = NoWrite
                 /\ arm'.busy <=> ky2.snapreq \/ ky.dmastate # 0
         /\ arm'.pc = "wr2" =>
              \/ arm.pc = "wr2" /\ UNCHANGED arm /\ w = NoWrite
              \/ /\ arm.pc = "wr3" /\ arm.call # "dmaread"
                 /\ UNCHANGED <<arm.call, arm.was, arm.busy>>
                 /\ w = [reg |-> 3, start |-> FALSE]
         /\ arm'.pc = "poll" =>
              \/ arm.pc = "poll" /\ UNCHANGED arm /\ w = NoWrite
              \/ /\ arm.pc = "wr2"
                 /\ UNCHANGED <<arm.call, arm.was, arm.busy>>
                 /\ \E n \in 0 .. MaxCtr : w = [reg |-> 2, val |-> SnapRequest(n)]
         /\ arm'.pc = "undo" =>
              arm.pc \in {"undo", "poll"} /\ arm'.call = arm.call
         /\ arm'.pc = "select" =>
              \/ arm.pc = "select" /\ UNCHANGED arm
              \/ /\ arm.pc = "poll" /\ ~ky2.snapreq /\ arm'.old = ky2
                 /\ UNCHANGED <<arm.call, arm.was, arm.busy>>
<1>1. arm \in [pc : {"idle", "read", "write", "wr3", "wr2", "poll", "undo",
                     "select", "wait", "down", "up"},
               call : Programs, was : BOOLEAN, busy : BOOLEAN, old : Flags]
      /\ dclo \in BOOLEAN /\ (ky2.snapreq \/ ky.dmastate # 0) \in BOOLEAN
  BY DEF TypeOK, Flags
<1> HIDE DEF Flags, Programs
<1>2. CASE w = NoWrite /\ UNCHANGED dclo /\ UNCHANGED arm
  BY <1>1, <1>2
<1>3. CASE w = NoWrite /\ UNCHANGED dclo /\ \E c \in Calls : Begin(c)
  BY <1>1, <1>3 DEF Begin
<1>4. CASE w = NoWrite /\ UNCHANGED dclo /\ Read
  <2>1. PICK b \in BOOLEAN : b = (ky2.snapreq \/ ky.dmastate # 0)
    OBVIOUS
  <2>2. arm.pc = "read"
        /\ arm' = [arm EXCEPT !.pc = IF arm.call = "snapregs" THEN "wr3" ELSE "write",
                              !.old = ky2, !.was = ky2.haltreq, !.busy = b]
    BY <1>4, <2>1, Zenon DEF Read
  <2>3. arm'.busy = b /\ arm'.call = arm.call
        /\ arm'.pc = IF arm.call = "snapregs" THEN "wr3" ELSE "write"
    BY <1>1, <2>2
  <2> QED
    BY <1>1, <1>4, <2>1, <2>2, <2>3
<1>5. CASE w = NoWrite /\ UNCHANGED dclo /\ (Polled \/ TooSlow \/ DmaDone)
  BY <1>1, <1>5 DEF Polled, TooSlow, DmaDone, Goes, Ends
<1>6. CASE w = NoWrite /\ (PowerDown \/ PowerUp)
  BY <1>1, <1>6 DEF PowerDown, PowerUp, Goes, Ends
<1>7. CASE UNCHANGED dclo /\ (Write(w) \/ Undo(w) \/ Select(w))
  BY <1>1, <1>7 DEF Write, Undo, Select, Goes, Ends
<1>8. CASE UNCHANGED dclo /\ WriteKy3(w)
  <2>1. arm.pc = "wr3" /\ arm'.pc = (IF arm.call = "dmaread" THEN "wait" ELSE "wr2")
        /\ UNCHANGED <<arm.call, arm.was, arm.busy>>
    BY <1>1, <1>8 DEF WriteKy3, Goes
  <2>2. arm.call # "dmaread" => w = [reg |-> 3, start |-> FALSE]
    BY <1>8 DEF WriteKy3
  <2> QED
    BY <1>1, <1>8, <2>1, <2>2
<1>9. CASE UNCHANGED dclo /\ StartSnap(w)
  BY <1>1, <1>9 DEF StartSnap, Goes
<1> QED
  BY <1>2, <1>3, <1>4, <1>5, <1>6, <1>7, <1>8, <1>9 DEF Arm, Quiet, Writing

\* The ARM program holds the power down only between its own two steps.
LEMMA DownMoves ==
  ASSUME TypeOK, NEW w, Arm(w), dclo => arm.pc = "up", dclo'
  PROVE  arm'.pc = "up"
<1>1. CASE UNCHANGED dclo
  <2>1. arm.pc = "up" /\ dclo
    BY <1>1
  <2>2. ~Quiet /\ ~Writing(w) /\ ~PowerDown /\ ~PowerUp
    BY <2>1 DEF Quiet, Writing, Begin, Read, Polled, TooSlow, DmaDone, PowerDown,
                PowerUp, Write, WriteKy3, StartSnap, Undo, Select, Goes, Ends
  <2>3. UNCHANGED arm
    BY <2>2 DEF Arm
  <2> QED
    BY <2>1, <2>3
<1>2. CASE ~UNCHANGED dclo
  <2>1. PowerDown
    BY <1>2 DEF Arm, PowerUp
  <2> QED
    BY <2>1 DEF PowerDown, Goes, TypeOK
<1> QED
  BY <1>1, <1>2

\* What the engine and the flags of register 2 do while a snapshot is due and
\* somebody always answers: the engine is idle, or the processor is held.
LEMMA PollMoves ==
  ASSUME IInv, NEW perr, NEW done \in BOOLEAN, NEW answered,
         Ky(NoWrite, done, answered, perr), KyType', ky2' \in Flags,
         answered, ~dclo, ky2.snapreq, ky2.haltreq, ~ky2.stepreq,
         IF ky.dmastate = 0 THEN ~ky.dmatimo ELSE ky.haltstate = 3
  PROVE  /\ ky2'.snapreq => /\ ky2'.haltreq /\ (ky2'.snaphlt <=> ky2.snaphlt)
                            /\ IF ky'.dmastate = 0 THEN ~ky'.dmatimo
                               ELSE ky'.haltstate = 3
         /\ ~ky2'.snapreq => (ky2'.haltreq <=> ky2.snaphlt)
         /\ ~ky2'.stepreq
<1>1. TypeOK /\ ky \in [halted : BOOLEAN, haltstate : 0 .. 3, hltrq : BOOLEAN,
             sack : BOOLEAN, dmastate : 0 .. 6, dmatimo : BOOLEAN,
             snapwrt : BOOLEAN, npr : BOOLEAN, bbsy : BOOLEAN]
      /\ ky2 \in Flags /\ NoWrite.reg = 0
  BY DEF IInv, TypeOK, Flags, NoWrite
<1>2. ky2' = Ky2Next(NoWrite, perr) /\ ~SnapTimo
  BY DEF Ky, SnapTimo
<1>3. /\ ky2'.stepreq = (ky2.stepreq /\ ~Stepped)
      /\ ky2'.snapreq = (ky2.snapreq /\ ~SnapTimo /\ ~SnapLast(perr))
      /\ ky2'.snaphlt = ky2.snaphlt
      /\ ky2'.haltreq = IF SnapLast(perr) THEN ky2.snaphlt
                        ELSE (HltrqIn /\ ~ky.hltrq) \/ ky2.haltreq
  BY <1>1, <1>2 DEF Ky2Next
<1>4. (ky2'.snapreq <=> ~SnapLast(perr)) /\ ~ky2'.stepreq
  BY <1>2, <1>3, Zenon
<1>5. ky2'.snapreq => ky2'.haltreq /\ (ky2'.snaphlt <=> ky2.snaphlt)
  BY <1>1, <1>3, <1>4
<1>6. ~ky2'.snapreq => (ky2'.haltreq <=> ky2.snaphlt)
  BY <1>3, <1>4
<1>7. /\ ky'.haltstate = HaltStateNext
      /\ ky'.dmastate = DmaStateNext(NoWrite, done, answered)
      /\ ky'.dmatimo <=> DmaTimoNext(NoWrite, done)
  BY <1>1, KyMoves
<1>8. ky.haltstate = 3 => ky'.haltstate = 3 /\ ~cpu.init
  BY <1>1, <1>7, HaltStates DEF IInv, HaltInv, CpuInv
<1>9. IF ky'.dmastate = 0 THEN ~ky'.dmatimo ELSE ky'.haltstate = 3
  <2>1. CASE SnapStart
    BY <1>7, <1>8, <2>1 DEF DmaStateNext, SnapStart, Snapping
  <2>2. CASE ~SnapStart /\ ky.dmastate = 0
    <3>1. ky'.dmastate = 0
      BY <1>1, <1>7, <2>2 DEF DmaStateNext
    <3>2. ~ky.dmatimo /\ NoWrite.reg # 3 /\ ky.dmastate # 6
      BY <1>1, <2>2
    <3>3. ~DmaTimoNext(NoWrite, done)
      BY <2>2, <3>2 DEF DmaTimoNext
    <3> QED
      BY <1>7, <3>1, <3>3
  <2>3. CASE ky.dmastate # 0
    <3>1. ~SnapStart /\ ~cpu.init /\ ky'.haltstate = 3
      BY <1>8, <2>3 DEF SnapStart
    <3>2. CASE ky.dmastate = 6 /\ done
      BY <1>1, <1>7, <3>1, <3>2 DEF DmaTimoNext
    <3>3. CASE ~(ky.dmastate = 6 /\ done)
      <4>1. ky'.dmastate # 0
        <5>1. CASE ky.dmastate \in {1, 2}
          BY <1>7, <3>1, <5>1 DEF DmaStateNext
        <5>2. CASE ky.dmastate \in {3, 5}
          BY <1>7, <3>1, <5>2 DEF DmaStateNext
        <5>3. CASE ky.dmastate = 4
          BY <1>7, <3>1, <5>3 DEF DmaStateNext
        <5>4. CASE ky.dmastate = 6
          BY <1>7, <3>1, <3>3, <5>4 DEF DmaStateNext
        <5> QED
          BY <1>1, <2>3, <5>1, <5>2, <5>3, <5>4
      <4> QED
        BY <3>1, <4>1
    <3> QED
      BY <3>2, <3>3
  <2> QED
    BY <2>1, <2>2, <2>3
<1> QED
  BY <1>4, <1>5, <1>6, <1>9

\* While no snapshot is due the engine, idle, stays idle unless the program
\* starts it, and the flags stay as they are but for a HALT instruction.
LEMMA IdleMoves ==
  ASSUME TypeOK, NEW w, NEW done \in BOOLEAN, NEW answered \in BOOLEAN, NEW perr,
         Ky(w, done, answered, perr), KyType', w.reg # 2, ~ky2.snapreq
  PROVE  /\ ~ky2'.snapreq
         /\ ky.dmastate = 0 /\ (w.reg # 3 \/ ~w.start) => ky'.dmastate = 0
         /\ ~ky.dmatimo /\ (w.reg # 3 \/ ~w.start) => ~ky'.dmatimo
         /\ ky.dmastate = 0 /\ w.reg = 3 /\ ~w.start => ~ky'.dmatimo
         /\ ~ky2.stepreq => /\ ~ky2'.stepreq
                            /\ ~(HltrqIn /\ ~ky.hltrq) => (ky2'.haltreq <=> ky2.haltreq)
<1>1. ~SnapStart /\ ~SnapTimo /\ ~SnapLast(perr)
  BY DEF SnapStart, SnapTimo, SnapLast, SnapSave, Snapping
<1>2. /\ ky'.dmastate = DmaStateNext(w, done, answered)
      /\ ky'.dmatimo <=> DmaTimoNext(w, done)
  BY KyMoves
<1>3. ky2' = Ky2Next(w, perr)
  BY DEF Ky
<1>4. /\ ky2'.stepreq = (ky2.stepreq /\ ~(w = NoWrite /\ Stepped))
      /\ ky2'.snapreq = (ky2.snapreq /\ ~SnapTimo /\ ~SnapLast(perr))
  BY <1>3 DEF Ky2Next
<1>5. ~ky2.stepreq => ky2'.haltreq = ((HltrqIn /\ ~ky.hltrq) \/ ky2.haltreq)
  BY <1>1, <1>3 DEF Ky2Next
<1>6. ky2.haltreq \in BOOLEAN
  BY DEF TypeOK
<1>7. ky.dmastate = 0 /\ (w.reg # 3 \/ ~w.start) => ky'.dmastate = 0
  BY <1>1, <1>2 DEF DmaStateNext
<1>8. /\ ~ky.dmatimo /\ (w.reg # 3 \/ ~w.start) => ~ky'.dmatimo
      /\ ky.dmastate = 0 /\ w.reg = 3 /\ ~w.start => ~ky'.dmatimo
  BY <1>1, <1>2 DEF DmaTimoNext
<1> QED
  BY <1>4, <1>5, <1>6, <1>7, <1>8

\* The write that starts a snapshot takes effect whatever the stepper does.
LEMMA StartMoves ==
  ASSUME TypeOK, NEW w, NEW n \in 0 .. MaxCtr, NEW perr, ky2' = Ky2Next(w, perr),
         w = [reg |-> 2, val |-> SnapRequest(n)], ~ky2.snapreq
  PROVE  /\ ky2'.snapreq /\ ky2'.haltreq /\ ~ky2'.stepreq
         /\ ky2'.snaphlt <=> arm.was
<1>1. w.reg = 2 /\ w # NoWrite /\ arm.was \in BOOLEAN
  BY DEF NoWrite, TypeOK
<1>2. w.val.haltreq /\ ~w.val.stepreq /\ w.val.snapreq /\ (w.val.snaphlt <=> arm.was)
  BY <1>1 DEF SnapRequest, NoFlags
<1>3. ~SnapTimo /\ ~SnapLast(perr)
  BY DEF SnapTimo, SnapLast, SnapSave, Snapping
<1> HIDE DEF SnapRequest
<1>4. /\ ky2'.stepreq = (w.val.stepreq /\ ~(w = NoWrite /\ Stepped))
      /\ ky2'.snapreq = (w.val.snapreq /\ ~SnapTimo /\ ~SnapLast(perr))
      /\ ky2'.snaphlt = w.val.snaphlt
      /\ ky2'.haltreq = ((HltrqIn /\ ~ky.hltrq) \/ w.val.haltreq)
  BY <1>1, <1>3 DEF Ky2Next
<1> QED
  BY <1>2, <1>3, <1>4

\* One clock keeps a snapshot on its way.
LEMMA SnapStep ==
  ASSUME IInv, IInv', SnapInv, "snapregs" \notin Unanswered,
         NEW w, NEW done, NEW answered, NEW perr, Edge(w, done, answered, perr)
  PROVE  SnapInv'
<1>1. /\ TypeOK /\ TypeOK' /\ KyType' /\ CpuType' /\ Cpu /\ Arm(w)
      /\ w \in {NoWrite} \cup RegWrites /\ Ky(w, done, answered, perr)
      /\ ky2' = Ky2Next(w, perr) /\ ky2 \in Flags /\ ky2' \in Flags
      /\ done \in BOOLEAN /\ answered \in BOOLEAN
      /\ ~answered => CycleFor \in Unanswered
      /\ arm.was \in BOOLEAN /\ arm.busy \in BOOLEAN /\ arm.old \in Flags
      /\ NoWrite.reg = 0
  BY DEF IInv, Edge, Ky, TypeOK, CpuType, CpuRecords, CpuStates, KyType, Flags, NoWrite
<1>2. /\ arm'.pc = "wr3" =>
           \/ arm.pc = "wr3" /\ UNCHANGED arm /\ w = NoWrite
           \/ arm'.call = "dmaread"
           \/ /\ arm'.call = "snapregs" /\ w = NoWrite
              /\ arm'.busy <=> ky2.snapreq \/ ky.dmastate # 0
      /\ arm'.pc = "wr2" =>
           \/ arm.pc = "wr2" /\ UNCHANGED arm /\ w = NoWrite
           \/ /\ arm.pc = "wr3" /\ arm.call # "dmaread"
              /\ UNCHANGED <<arm.call, arm.was, arm.busy>>
              /\ w = [reg |-> 3, start |-> FALSE]
      /\ arm'.pc = "poll" =>
           \/ arm.pc = "poll" /\ UNCHANGED arm /\ w = NoWrite
           \/ /\ arm.pc = "wr2"
              /\ UNCHANGED <<arm.call, arm.was, arm.busy>>
              /\ \E n \in 0 .. MaxCtr : w = [reg |-> 2, val |-> SnapRequest(n)]
      /\ arm'.pc = "undo" =>
           arm.pc \in {"undo", "poll"} /\ arm'.call = arm.call
      /\ arm'.pc = "select" =>
           \/ arm.pc = "select" /\ UNCHANGED arm
           \/ /\ arm.pc = "poll" /\ ~ky2.snapreq /\ arm'.old = ky2
              /\ UNCHANGED <<arm.call, arm.was, arm.busy>>
  BY <1>1, ArmMoves
<1>3. w.reg # 2 /\ ~ky2.snapreq =>
        /\ ~ky2'.snapreq
        /\ ky.dmastate = 0 /\ (w.reg # 3 \/ ~w.start) => ky'.dmastate = 0
        /\ ~ky.dmatimo /\ (w.reg # 3 \/ ~w.start) => ~ky'.dmatimo
        /\ ky.dmastate = 0 /\ w.reg = 3 /\ ~w.start => ~ky'.dmatimo
        /\ ~ky2.stepreq => /\ ~ky2'.stepreq
                           /\ ~(HltrqIn /\ ~ky.hltrq) => (ky2'.haltreq <=> ky2.haltreq)
  BY <1>1, IdleMoves
<1>4. ~dclo => (cpu.jam => cpu'.jam)
  BY <1>1, StoppedMoves
<1>5. dclo' => arm'.pc = "up"
  BY <1>1, DownMoves DEF SnapInv
<1>6. arm'.pc = "wr3" => arm'.call \in {"dmaread", "snapregs"}
  BY <1>2 DEF SnapInv
<1>7. arm'.pc \in {"wr2", "poll", "undo", "select"} => arm'.call = "snapregs"
  BY <1>2 DEF SnapInv
<1>8. arm'.pc \in {"wr3", "wr2"} /\ arm'.call = "snapregs" /\ ~arm'.busy =>
        ~ky2'.snapreq /\ ky'.dmastate = 0
  <2>1. SUFFICES ASSUME arm'.pc \in {"wr3", "wr2"}, arm'.call = "snapregs", ~arm'.busy
                 PROVE  ~ky2'.snapreq /\ ky'.dmastate = 0
    OBVIOUS
  <2>2. w = NoWrite \/ w = [reg |-> 3, start |-> FALSE]
    BY <1>2, <2>1
  <2>3. w.reg # 2 /\ (w.reg # 3 \/ ~w.start)
    BY <1>1, <2>2
  <2>4. ~ky2.snapreq /\ ky.dmastate = 0
    BY <1>1, <1>2, <2>1 DEF SnapInv
  <2> QED
    BY <1>3, <2>3, <2>4
<1>9. arm'.pc = "wr2" /\ ~arm'.busy => ~ky'.dmatimo
  <2>1. SUFFICES ASSUME arm'.pc = "wr2", ~arm'.busy PROVE ~ky'.dmatimo
    OBVIOUS
  <2>2. CASE arm.pc = "wr2" /\ UNCHANGED arm /\ w = NoWrite
    <3>1. ~ky2.snapreq /\ ~ky.dmatimo
      BY <2>1, <2>2 DEF SnapInv
    <3> QED
      BY <1>1, <1>3, <2>2, <3>1
  <2>3. CASE /\ arm.pc = "wr3" /\ arm.call # "dmaread"
             /\ UNCHANGED <<arm.call, arm.was, arm.busy>>
             /\ w = [reg |-> 3, start |-> FALSE]
    <3>1. ~ky2.snapreq /\ ky.dmastate = 0
      BY <2>1, <2>3 DEF SnapInv
    <3>2. w.reg = 3 /\ ~w.start
      BY <2>3
    <3> QED
      BY <1>3, <3>1, <3>2
  <2> QED
    BY <1>2, <2>1, <2>2, <2>3
<1>10. arm'.pc = "poll" /\ ~arm'.busy =>
         /\ ~ky2'.stepreq
         /\ ky2'.snapreq =>
              /\ ky2'.haltreq /\ (ky2'.snaphlt <=> arm'.was)
              /\ IF ky'.dmastate = 0 THEN ~ky'.dmatimo ELSE ky'.haltstate = 3
         /\ ~ky2'.snapreq /\ ~cpu'.jam => (ky2'.haltreq <=> arm'.was)
  <2>1. SUFFICES ASSUME arm'.pc = "poll", ~arm'.busy
                 PROVE  /\ ~ky2'.stepreq
                        /\ ky2'.snapreq =>
                             /\ ky2'.haltreq /\ (ky2'.snaphlt <=> arm'.was)
                             /\ IF ky'.dmastate = 0 THEN ~ky'.dmatimo
                                ELSE ky'.haltstate = 3
                        /\ ~ky2'.snapreq /\ ~cpu'.jam => (ky2'.haltreq <=> arm'.was)
    OBVIOUS
  <2>2. CASE arm.pc = "poll" /\ UNCHANGED arm /\ w = NoWrite
    <3>1. ~arm.busy /\ ~dclo /\ ~ky2.stepreq
      BY <2>1, <2>2 DEF SnapInv
    <3>2. CASE ky2.snapreq
      <4>1. /\ ky2.haltreq /\ ky2.snaphlt = arm.was
            /\ IF ky.dmastate = 0 THEN ~ky.dmatimo ELSE ky.haltstate = 3
        BY <2>2, <3>1, <3>2 DEF SnapInv
      <4>2. answered
        BY <1>1, <3>2 DEF CycleFor
      <4>3. Ky(NoWrite, done, answered, perr)
        BY <1>1, <2>2
      <4>4. /\ ky2'.snapreq => /\ ky2'.haltreq /\ (ky2'.snaphlt <=> ky2.snaphlt)
                               /\ IF ky'.dmastate = 0 THEN ~ky'.dmatimo
                                  ELSE ky'.haltstate = 3
            /\ ~ky2'.snapreq => (ky2'.haltreq <=> ky2.snaphlt)
            /\ ~ky2'.stepreq
        BY <1>1, <3>1, <3>2, <4>1, <4>2, <4>3, PollMoves
      <4> QED
        BY <2>2, <4>1, <4>4
    <3>3. CASE ~ky2.snapreq
      <4>1. w.reg # 2
        BY <1>1, <2>2
      <4>2. ~ky2'.snapreq /\ ~ky2'.stepreq
        BY <1>3, <3>1, <3>3, <4>1
      <4>3. ASSUME ~cpu'.jam PROVE ky2'.haltreq <=> arm'.was
        <5>1. ~cpu.jam
          BY <1>4, <3>1, <4>3
        <5>2. ky2.haltreq = arm.was
          BY <2>2, <3>1, <3>3, <5>1 DEF SnapInv
        <5>3. ky2'.haltreq <=> ky2.haltreq
          BY <1>3, <3>1, <3>3, <4>1, <5>1 DEF HltrqIn
        <5> QED
          BY <2>2, <5>2, <5>3
      <4> QED
        BY <4>2, <4>3
    <3> QED
      BY <3>2, <3>3
  <2>3. CASE /\ arm.pc = "wr2"
             /\ UNCHANGED <<arm.call, arm.was, arm.busy>>
             /\ \E n \in 0 .. MaxCtr : w = [reg |-> 2, val |-> SnapRequest(n)]
    <3>1. PICK n \in 0 .. MaxCtr : w = [reg |-> 2, val |-> SnapRequest(n)]
      BY <2>3
    <3>2. ~ky2.snapreq /\ ky.dmastate = 0 /\ ~ky.dmatimo
      BY <2>1, <2>3 DEF SnapInv
    <3>3. /\ ky2'.snapreq /\ ky2'.haltreq /\ ~ky2'.stepreq
          /\ ky2'.snaphlt <=> arm.was
      BY <1>1, <3>1, <3>2, StartMoves
    <3>4. w.reg = 2 /\ ~SnapStart
      BY <3>1, <3>2 DEF SnapStart, Snapping
    <3>5. ky'.dmastate = DmaStateNext(w, done, answered)
          /\ (ky'.dmatimo <=> DmaTimoNext(w, done))
      BY <1>1, KyMoves
    <3>6. ky'.dmastate = 0 /\ ~ky'.dmatimo
      BY <3>2, <3>4, <3>5 DEF DmaStateNext, DmaTimoNext
    <3> QED
      BY <2>3, <3>3, <3>6
  <2> QED
    BY <1>2, <2>1, <2>2, <2>3
<1>11. arm'.pc = "select" /\ ~cpu'.jam /\ ~arm'.busy => arm'.old.haltreq = arm'.was
  <2>1. SUFFICES ASSUME arm'.pc = "select", ~cpu'.jam, ~arm'.busy
                 PROVE  arm'.old.haltreq = arm'.was
    OBVIOUS
  <2>2. arm.pc \in {"select", "poll"}
    BY <1>2, <2>1
  <2>3. ~dclo
    BY <2>2 DEF SnapInv
  <2>4. ~cpu.jam
    BY <1>4, <2>1, <2>3
  <2>5. CASE arm.pc = "select" /\ UNCHANGED arm
    BY <2>1, <2>4, <2>5 DEF SnapInv, SnapRestores
  <2>6. CASE /\ arm.pc = "poll" /\ ~ky2.snapreq /\ arm'.old = ky2
             /\ UNCHANGED <<arm.call, arm.was, arm.busy>>
    BY <2>1, <2>4, <2>6 DEF SnapInv
  <2> QED
    BY <1>2, <2>1, <2>5, <2>6
<1>12. /\ (ky2'.snaphlt <=> arm'.was) => ky2'.snaphlt = arm'.was
       /\ (ky2'.haltreq <=> arm'.was) => ky2'.haltreq = arm'.was
  <2>1. /\ ky2'.snaphlt \in BOOLEAN /\ ky2'.haltreq \in BOOLEAN
        /\ arm'.was \in BOOLEAN
    BY <1>1 DEF Flags, TypeOK
  <2> QED
    BY <2>1
<1>13. arm'.pc = "poll" /\ ~arm'.busy =>
         /\ ~ky2'.stepreq
         /\ ky2'.snapreq =>
              /\ ky2'.haltreq /\ (ky2'.snaphlt = arm'.was)
              /\ IF ky'.dmastate = 0 THEN ~ky'.dmatimo ELSE ky'.haltstate = 3
         /\ ~ky2'.snapreq /\ ~cpu'.jam => ky2'.haltreq = arm'.was
  BY <1>10, <1>12
<1> QED
  BY <1>5, <1>6, <1>7, <1>8, <1>9, <1>11, <1>13 DEF SnapInv, SnapRestores

\* A snapshot taken from an address that somebody answers leaves the halt
\* request as it found it, with any number of registers and whatever the
\* processor is doing when it comes.  Of an address nobody answers the engine
\* withdraws the halt request (ky11.v:280), whoever had asked for it.
THEOREM SnapshotRestores ==
  ASSUME "snapregs" \notin Unanswered
  PROVE  Spec => []SnapRestores
<1>1. Init => SnapInv
  BY DEF Init, SnapInv, SnapRestores
<1>2. IInv /\ IInv' /\ SnapInv /\ [Next]_vars => SnapInv'
  <2>1. ASSUME IInv, IInv', SnapInv, Clock PROVE SnapInv'
    BY <2>1, ClockEdge, SnapStep
  <2>2. ASSUME SnapInv, UNCHANGED vars PROVE SnapInv'
    BY <2>2 DEF SnapInv, vars, SnapRestores
  <2> QED
    BY <2>1, <2>2 DEF Next
<1>3. SnapInv => SnapRestores
  BY DEF SnapInv
<1> QED
  BY <1>1, <1>2, <1>3, HaltInvariance, PTL DEF Spec
=============================================================================
