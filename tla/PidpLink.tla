----------------------------- MODULE PidpLink -----------------------------
(***************************************************************************)
(* z11pidp.cc: the client on the raspberry behind the PiDP-11 panel, the   *)
(* server on the zynq, and the numbered UDP packets between them: readings *)
(* of the switches one way, lamps the other.  Packets to the server are    *)
(* lost, repeated and overtaken by others, and so are those to the client. *)
(*                                                                         *)
(* A reading is the HALT switch and the number of the press of a momentary *)
(* switch that is down, 0 for none.  What the other switches say, what the *)
(* lamps show and the address they stand at is data.  A pass of the server *)
(* is one step, as the DMA lock is held, except where it lets the lock go  *)
(* (SINGLE STEP and START).                                                *)
(***************************************************************************)
EXTENDS Integers, Sequences, SequencesExt, FiniteSetsExt

CONSTANTS Keys,        \* momentary switches: a subset of LDAD, EXAM, DEP, CONT, STRT, DASW
          NOLDROWS,    \* readings kept for debouncing
          MaxPress,    \* bound: presses of momentary switches
          MaxEvents,   \* bound: flips of HALT, HALT instructions, requests of others, restarts
          MaxNet,      \* bound: readings on the way
          MaxLeds,     \* bound: answers on the way
          MaxGap,      \* bound: packets the server may miss in a row
          Intrude      \* see ServerRestart

ASSUME PidpAssumption ==
  /\ NOLDROWS \in Nat \ {0, 1} /\ {MaxNet, MaxLeds, MaxGap} \subseteq Nat \ {0}
  /\ {MaxPress, MaxEvents} \subseteq Nat /\ Intrude \in BOOLEAN

VARIABLES
  hsw, down, keyof,                       \* the panel: HALT switch, press that is down, its key
  swtrows, fresh, cpc, sendseq,           \* the client
  tosvr, tocli,                           \* packets on the way
  recvseq, oldrows, spc, swhalt,          \* the server: readings kept, oldest first; swhalt is
                                          \* the HALT switch of a pass that is at it
  haltreq, halted, haltins,               \* ky11.v and the processor
  acted, events                           \* presses acted on; events seen

panel  == <<hsw, down, keyof>>
client == <<swtrows, fresh, cpc, sendseq>>
server == <<recvseq, oldrows, spc, swhalt, acted>>
proc   == <<haltreq, halted, haltins>>
vars   == <<panel, client, tosvr, tocli, server, proc, events>>

Reading == [halt : BOOLEAN, press : 0 .. MaxPress]
Off == [halt |-> FALSE, press |-> 0]

Init ==
  /\ hsw \in BOOLEAN /\ down = 0 /\ keyof = <<>>
  /\ swtrows = Off /\ fresh = FALSE /\ cpc = "look" /\ sendseq = 0
  /\ tosvr = <<>> /\ tocli = <<>>
  /\ recvseq = 0 /\ oldrows = [i \in 1 .. NOLDROWS |-> 0] /\ spc = "recv" /\ swhalt = FALSE
  /\ haltreq = FALSE /\ halted = FALSE /\ haltins = FALSE
  /\ acted = <<>> /\ events = 0

------------------------------------------------------------------------------
(* Panel and client.                                                       *)

Event == events < MaxEvents /\ events' = events + 1

FlipHalt ==
  /\ Event /\ hsw' = ~ hsw
  /\ UNCHANGED <<down, keyof, client, tosvr, tocli, server, proc>>

Press(k) ==
  /\ down = 0 /\ Len(keyof) < MaxPress
  /\ keyof' = Append(keyof, k) /\ down' = Len(keyof) + 1
  /\ UNCHANGED <<hsw, client, tosvr, tocli, server, proc, events>>

LetGo ==
  /\ down # 0 /\ down' = 0
  /\ UNCHANGED <<hsw, keyof, client, tosvr, tocli, server, proc, events>>

GpioCycle_NoWake ==                       \* mistake: wakes nobody
  /\ ~ fresh \/ swtrows # [halt |-> hsw, press |-> down]
  /\ swtrows' = [halt |-> hsw, press |-> down] /\ fresh' = TRUE
  /\ UNCHANGED <<panel, cpc, sendseq, tosvr, tocli, server, proc, events>>

GpioCycle ==                              \* gpiothd: read the switches, clientseq ++, FUTEX_WAKE
  /\ ~ fresh \/ swtrows # [halt |-> hsw, press |-> down]
  /\ swtrows' = [halt |-> hsw, press |-> down] /\ fresh' = TRUE
  /\ cpc' = IF cpc = "asleep" THEN "look" ELSE cpc
  /\ UNCHANGED <<panel, sendseq, tosvr, tocli, server, proc, events>>

FutexWait ==                              \* clientseq == lastseq, checked by the kernel as it sleeps
  /\ cpc = "look" /\ ~ fresh /\ cpc' = "asleep"
  /\ UNCHANGED <<panel, swtrows, fresh, sendseq, tosvr, tocli, server, proc, events>>

\* Numbers are only compared: they are kept relative to the last one the server has received, and
\* those before it count as one.
Rel(n) == Max({n - recvseq, -1})

Send ==
  /\ cpc = "look" /\ fresh /\ Len(tosvr) < MaxNet /\ (sendseq - recvseq < MaxGap \/ tosvr = <<>>)
  /\ fresh' = FALSE /\ cpc' = "wait"
  /\ recvseq' = 0 /\ sendseq' = sendseq + 1 - recvseq
  /\ tosvr' = Append([i \in DOMAIN tosvr |-> [tosvr[i] EXCEPT !.seq = Rel(@)]],
                     [seq |-> sendseq', sw |-> swtrows])
  /\ tocli' = [i \in DOMAIN tocli |-> Rel(tocli[i])]
  /\ UNCHANGED <<panel, swtrows, oldrows, spc, swhalt, acted, proc, events>>

\* any packet of the network may come next, and come again
After(net, i, dup) == IF dup THEN net ELSE RemoveAt(net, i)

Old(seq) == seq < sendseq

RecvLeds(i, dup) ==                       \* older than the last one sent: keep receiving
  /\ cpc = "wait" /\ i \in DOMAIN tocli
  /\ tocli' = After(tocli, i, dup)
  /\ cpc' = IF Old(tocli[i]) THEN cpc ELSE "look"
  /\ UNCHANGED <<panel, swtrows, fresh, sendseq, tosvr, server, proc, events>>

RecvTimeout ==                            \* EAGAIN after 20 mS
  /\ cpc = "wait" /\ cpc' = "look"
  /\ UNCHANGED <<panel, swtrows, fresh, sendseq, tosvr, tocli, server, proc, events>>

Lose ==
  \/ \E i \in DOMAIN tosvr : /\ sendseq - recvseq < MaxGap
                             /\ tosvr' = RemoveAt(tosvr, i) /\ UNCHANGED tocli
  \/ \E i \in DOMAIN tocli : tocli' = RemoveAt(tocli, i) /\ UNCHANGED tosvr

LoseSome == Lose /\ UNCHANGED <<panel, client, server, proc, events>>

------------------------------------------------------------------------------
(* The server.                                                             *)

Stale_No(seq) == FALSE                    \* mistake: takes whatever comes
Stale(seq) == seq <= recvseq

SvrDrop(i) ==
  /\ spc = "recv" /\ i \in DOMAIN tosvr /\ Stale(tosvr[i].seq)
  /\ tosvr' = RemoveAt(tosvr, i)
  /\ UNCHANGED <<panel, client, tocli, server, proc, events>>

\* debounced positive edge: the oldest reading kept is without it, all newer ones are with it
Edge(rows) ==
  LET key(p) == IF p = 0 THEN "none" ELSE keyof[p]
      newest == rows[NOLDROWS] IN
  IF /\ newest # 0 /\ key(rows[1]) # key(newest)
     /\ \A j \in 2 .. NOLDROWS : key(rows[j]) = key(newest)
  THEN newest ELSE 0

Reply(n) == IF Len(tocli) < MaxLeds THEN Append(tocli, n) ELSE tocli

\* what a positive edge does; all but the boot script wait for a halted processor
Console(k, halt) ==
  /\ haltreq' = IF halted /\ k = "CONT" /\ ~ halt THEN haltins ELSE haltreq \/ halt
  /\ spc' = CASE halted /\ k = "CONT" /\ halt -> "step" [] halted /\ k = "STRT" -> "reset" [] OTHER -> "recv"

SvrPass(i, dup) ==
  /\ spc = "recv" /\ i \in DOMAIN tosvr /\ ~ Stale(tosvr[i].seq)
  /\ LET sw == tosvr[i].sw
         edge == Edge(oldrows')
         k == IF edge = 0 THEN "none" ELSE keyof[edge] IN
       /\ recvseq' = tosvr[i].seq /\ oldrows' = Append(Tail(oldrows), sw.press)
       /\ Console(k, sw.halt)
       /\ swhalt' = (spc' # "recv" /\ sw.halt)
       /\ acted' = IF k # "none" /\ (halted \/ k = "DASW") THEN Append(acted, edge) ELSE acted
  /\ tosvr' = After(tosvr, i, dup)
  /\ tocli' = IF spc' = "recv" THEN Reply(recvseq') ELSE tocli
  /\ UNCHANGED <<panel, client, halted, haltins, events>>

SvrUnch == UNCHANGED <<panel, client, tosvr, recvseq, oldrows, acted, events>>

\* stepreq, wait for it to clear, dmalock, read PC and R0
SvrStepped ==
  /\ spc = "step" /\ spc' = "recv" /\ swhalt' = FALSE /\ tocli' = Reply(recvseq)
  /\ \/ halted /\ haltreq /\ UNCHANGED <<haltreq, halted>> /\ haltins' \in {haltins, TRUE}
     \/ UNCHANGED proc
  /\ SvrUnch

SvrReset ==                               \* dmaunlk; resetit leaves it halted
  /\ spc = "reset" /\ spc' = "start"
  /\ haltreq' = TRUE /\ halted' = TRUE /\ haltins' = FALSE
  /\ UNCHANGED <<swhalt, tocli>> /\ SvrUnch

\* dmalock; if the HALT switch is off load PC and PS and let it run, unless they do not answer
SvrStart ==
  /\ spc = "start" /\ spc' = "recv" /\ swhalt' = FALSE /\ tocli' = Reply(recvseq)
  /\ haltreq' \in IF swhalt THEN {haltreq} ELSE {haltreq, FALSE}
  /\ UNCHANGED <<halted, haltins>> /\ SvrUnch

------------------------------------------------------------------------------
(* Processor, other programs, restarts.                                    *)

ProcStops ==
  /\ ~ halted /\ haltreq /\ halted' = TRUE
  /\ UNCHANGED <<panel, client, tosvr, tocli, server, haltreq, haltins, events>>

ProcRuns ==
  /\ halted /\ ~ haltreq /\ ~ haltins /\ halted' = FALSE
  /\ UNCHANGED <<panel, client, tosvr, tocli, server, haltreq, haltins, events>>

HaltInstruction ==
  /\ Event /\ ~ halted /\ halted' = TRUE /\ haltins' = TRUE /\ haltreq' = TRUE
  /\ UNCHANGED <<panel, client, tosvr, tocli, server>>

\* z11ctrl or the GUI calls haltreq or contreq, also while the server has let the lock go
ExtRequest ==
  /\ Event
  /\ haltreq' \in {haltins, TRUE}
  /\ UNCHANGED <<panel, client, tosvr, tocli, server, halted, haltins>>

\* numbers start at the time of day, which has gone on; answers to the old socket are lost
ClientRestart ==
  /\ Event /\ cpc' = "look" /\ fresh' = FALSE /\ tocli' = <<>>
  /\ UNCHANGED <<panel, swtrows, sendseq, tosvr, server, proc>>

\* It is killed wherever it is.  The new one has received nothing and kept no readings; what the old
\* socket held is lost, and so are readings older than the last one received.  Unless Intrude holds
\* no switch is down and no reading that is to come shows one.
ServerRestart(lost) ==
  /\ Event
  /\ tosvr' = IF lost THEN <<>> ELSE tosvr
  /\ Intrude \/ (down = 0 /\ swtrows.press = 0 /\ \A i \in DOMAIN tosvr' : tosvr'[i].sw.press = 0)
  /\ oldrows' = [i \in DOMAIN oldrows |-> 0] /\ spc' = "recv" /\ swhalt' = FALSE
  /\ UNCHANGED <<panel, client, tocli, recvseq, acted, proc>>

Link == \/ GpioCycle \/ FutexWait \/ Send \/ RecvTimeout
        \/ \E i \in 1 .. MaxLeds, dup \in BOOLEAN : RecvLeds(i, dup)
Server == \/ SvrStepped \/ SvrReset \/ SvrStart
          \/ \E i \in 1 .. MaxNet : SvrDrop(i) \/ \E dup \in BOOLEAN : SvrPass(i, dup)

Next ==
  \/ FlipHalt \/ (\E k \in Keys : Press(k)) \/ LetGo \/ Link \/ LoseSome \/ Server
  \/ ProcStops \/ ProcRuns \/ HaltInstruction \/ ExtRequest \/ ClientRestart
  \/ \E lost \in BOOLEAN : ServerRestart(lost)

Spec == Init /\ [][Next]_vars

\* Programs run, the network delivers what is sent again and again, the processor obeys.
FairSpec ==
  /\ Spec /\ WF_vars(GpioCycle \/ Send \/ RecvTimeout)
  /\ WF_vars(SvrStepped \/ SvrReset \/ SvrStart \/ \E i \in 1 .. MaxNet : SvrDrop(i))
  /\ SF_vars(\E i \in 1 .. MaxNet : SvrPass(i, FALSE))
  /\ WF_vars(ProcStops)

------------------------------------------------------------------------------
PidpTypeOK ==
  /\ {hsw, fresh, swhalt, haltreq, halted, haltins} \subseteq BOOLEAN
  /\ swtrows \in Reading /\ cpc \in {"look", "asleep", "wait"}
  /\ {sendseq, recvseq} \cup ToSet(tocli) \subseteq Int
  /\ \A m \in ToSet(tosvr) : m.sw \in Reading /\ m.seq <= sendseq
  /\ spc \in {"recv", "step", "reset", "start"}
  /\ {down} \cup ToSet(acted) \cup ToSet(oldrows) \subseteq 0 .. Len(keyof)

InTurn == \A i, j \in DOMAIN acted : i < j => acted[i] < acted[j]

(* Readings lost, repeated and overtaken do not repeat what the operator   *)
(* did nor turn it round: each press is acted on at most once, in the      *)
(* order of the presses (sequence numbers and debouncing in server()).     *)
ActedOnce == PidpTypeOK /\ InTurn

(* "momentaries work only when processor halted" (z11pidp.cc:519): START   *)
(* goes on to load the PC and PS of a processor that is halted still.      *)
StartsHalted == spc = "start" => halted

(* The HALT switch gets through to the processor whatever is lost.         *)
HaltSwitchHalts == hsw ~> (halted \/ ~ hsw)
=============================================================================
