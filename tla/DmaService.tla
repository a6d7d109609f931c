----------------------------- MODULE DmaService -----------------------------
(***************************************************************************)
(* What dmaread, dmawrite and dmawbyte promise to their callers: each call *)
(* takes effect on the unibus memory at one instant between its start and  *)
(* its return and answers what was found there, or it answers "timed out". *)
(* KyDma implements this service with the lock of DmaLock and the engine   *)
(* of ky11.v.                                                              *)
(***************************************************************************)
EXTENDS Naturals

CONSTANTS
  Callers,     \* threads that call the service
  Addrs,       \* unibus addresses used
  Exists,      \* those that some memory or register answers to
  BadParity,   \* those that read with a parity error
  Values,      \* 16-bit words
  NoReq        \* no call in progress

VARIABLES mem, phase, req, ans

servicevars == <<mem, phase, req, ans>>

Reads  == [op : {"DATI"}, addr : Addrs]
Writes == [op : {"DATO"}, addr : Addrs, data : Values]
Requests == Reads \cup Writes

TimedOut == [timo |-> TRUE]
Done     == [timo |-> FALSE]
Word(perr, data) == [timo |-> FALSE, perr |-> perr, data |-> data]
NoAnswer == [timo |-> TRUE, none |-> TRUE]

Init ==
  /\ mem \in [Exists -> Values]
  /\ phase = [t \in Callers |-> "idle"]
  /\ req = [t \in Callers |-> NoReq]
  /\ ans = [t \in Callers |-> NoAnswer]

Call(t, r) ==
  /\ phase[t] = "idle"
  /\ phase' = [phase EXCEPT ![t] = "called"]
  /\ req' = [req EXCEPT ![t] = r]
  /\ UNCHANGED <<mem, ans>>

\* the effect and the answer, together
PerformRead(t) ==
  /\ phase[t] = "called" /\ req[t].op = "DATI" /\ req[t].addr \in Exists
  /\ phase' = [phase EXCEPT ![t] = "done"]
  /\ ans' = [ans EXCEPT ![t] = Word(req[t].addr \in BadParity, mem[req[t].addr])]
  /\ UNCHANGED <<mem, req>>

PerformWrite(t) ==
  /\ phase[t] = "called" /\ req[t].op = "DATO" /\ req[t].addr \in Exists
  /\ phase' = [phase EXCEPT ![t] = "done"]
  /\ ans' = [ans EXCEPT ![t] = Done]
  /\ mem' = [mem EXCEPT ![req[t].addr] = req[t].data]
  /\ UNCHANGED req

\* no answer from the address, or a bus reset, before or after the effect
Fail(t) ==
  /\ phase[t] \in {"called", "done"}
  /\ phase' = [phase EXCEPT ![t] = "done"]
  /\ ans' = [ans EXCEPT ![t] = TimedOut]
  /\ UNCHANGED <<mem, req>>

Forget(t) ==
  /\ phase' = [phase EXCEPT ![t] = "idle"]
  /\ req' = [req EXCEPT ![t] = NoReq]
  /\ ans' = [ans EXCEPT ![t] = NoAnswer]
  /\ UNCHANGED mem

Return(t) == phase[t] = "done" /\ Forget(t)

\* the processor, or another device, writes memory
OtherWrite(a, v) == /\ mem' = [mem EXCEPT ![a] = v]
                    /\ UNCHANGED <<phase, req, ans>>

\* a process dies, and with it the calls of its threads
Abandon(T) ==
  /\ phase' = [t \in Callers |-> IF t \in T THEN "idle" ELSE phase[t]]
  /\ req' = [t \in Callers |-> IF t \in T THEN NoReq ELSE req[t]]
  /\ ans' = [t \in Callers |-> IF t \in T THEN NoAnswer ELSE ans[t]]
  /\ UNCHANGED mem

Next == \/ \E t \in Callers : \/ \E r \in Requests : Call(t, r)
                              \/ PerformRead(t) \/ PerformWrite(t)
                              \/ Fail(t) \/ Return(t)
        \/ \E a \in Exists, v \in Values : OtherWrite(a, v)
        \/ \E T \in SUBSET Callers : Abandon(T)

Spec == Init /\ [][Next]_servicevars

=============================================================================
