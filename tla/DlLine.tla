------------------------------- MODULE DlLine -------------------------------
(* The console line: the registers of dl11.v, its edge-triggered interrupt
   request intreq.v as intctl.v grants it, the daemon z11dl.cc that prints
   and types, its LookFor objects that answer a date prompt, and a PDP-11
   program with an interrupt driven driver that echoes what it reads.

   The FPGA clock is far faster than everybody else: the edge detector has
   seen the levels before the next step, except while a grant freezes it. *)
EXTENDS Integers, SequencesExt

CONSTANTS
  Looks,       \* the LookFor objects (date, time)
  Prompt,      \* [Looks -> the prompt each waits for]
  Reply,       \* [Looks -> the reply it types, ending in the return key]
  Noise,       \* what the program may print in front of a prompt
  Typed,       \* what the user may type
  SlowEcho,    \* may an echo come later than the repeat, 250 ms?
  MaxAsks, MaxTyped, MaxInits   \* bounds on prompts, typed keys, bus resets

ASSUME DlAssumption ==
  /\ \A l \in Looks : {Len(Prompt[l]), Len(Reply[l])} \subseteq Nat \ {0}
  /\ SlowEcho \in BOOLEAN
  /\ {MaxAsks, MaxTyped, MaxInits} \subseteq Nat

VARIABLES
  dl,       \* dl11.v: rrdy, rie, rbuf, xrdy, xie, xbuf (numbered character)
  det,      \* intreq.v: lastr, lastx, redge, xedge
  grant,    \* the vector on the bus, "r" or "x", or "no"
  init,     \* init_in_h
  daemon,   \* pc of the main loop, and xreg it read
  look,     \* [Looks -> matched, echoed (0 is the code's -1)]
  pdp,      \* isr, up, busy, out, asking
  hist      \* nwrote, printed: numbers; asks, typed, inits: bounds

vars == <<dl, det, grant, init, daemon, look, pdp, hist>>

ResetDl(d)  == [d EXCEPT !.rrdy = FALSE, !.rie = FALSE, !.xrdy = TRUE, !.xie = FALSE]
NoEdges     == [lastr |-> FALSE, lastx |-> FALSE, redge |-> FALSE, xedge |-> FALSE]
Idle        == [matched |-> 0, echoed |-> 0]
Booting     == [isr |-> "no", up |-> FALSE, busy |-> FALSE, out |-> <<>>, asking |-> "no"]

Init ==
  /\ dl = [rrdy |-> FALSE, rie |-> FALSE, rbuf |-> "0",
           xrdy |-> TRUE, xie |-> FALSE, xbuf |-> [n |-> 0, c |-> "0"]]
  /\ det = NoEdges /\ grant = "no" /\ init = FALSE
  /\ daemon = [pc |-> "loop", xreg |-> [n |-> 0, c |-> "0"]]
  /\ look = [l \in Looks |-> Idle]
  /\ pdp = Booting
  /\ hist = [nwrote |-> 0, printed |-> 0, asks |-> 0, typed |-> 0, inits |-> 0]

-----------------------------------------------------------------------------
(* intreq.v *)
RLevel(d) == d.rrdy /\ d.rie
XLevel(d) == d.xrdy /\ d.xie

\* Either detector: a low level clears the edge, a rising one sets it.
Edge(level, last, edge) == level /\ (edge \/ ~last)

Sensed(d) == [lastr |-> RLevel(d), redge |-> Edge(RLevel(d), det.lastr, det.redge),
              lastx |-> XLevel(d), xedge |-> Edge(XLevel(d), det.lastx, det.xedge)]

\* The registers change; the detector follows unless a grant freezes it.
Drive(d) == /\ dl' = d
            /\ det' = IF grant = "no" THEN Sensed(d) ELSE det

IrVec == IF RLevel(dl) THEN "r" ELSE "x"

\* Variant: both edges end.
Cleared_Both(vec) == [det EXCEPT !.redge = FALSE, !.xedge = FALSE]

\* The grant ends the one edge whose vector goes out.
Cleared(vec) == [det EXCEPT !.redge = @ /\ vec # "r", !.xedge = @ /\ vec # "x"]

\* The processor, not in a handler, takes the request.
Grant == /\ det.redge \/ det.xedge
         /\ grant = "no" /\ pdp.isr = "no" /\ ~init
         /\ grant' = IrVec
         /\ det' = Cleared(IrVec)
         /\ UNCHANGED <<dl, init, daemon, look, pdp, hist>>

\* The processor has the vector: the request lines are watched again.
Granted == /\ grant # "no"
           /\ grant' = "no"
           /\ pdp' = [pdp EXCEPT !.isr = grant]
           /\ det' = Sensed(dl)
           /\ UNCHANGED <<dl, init, daemon, look, hist>>

\* INIT clears the line and restarts the program; the daemon knows nothing.
InitOn == /\ ~init /\ hist.inits < MaxInits
          /\ init' = TRUE
          /\ hist' = [hist EXCEPT !.inits = @ + 1]
          /\ dl' = ResetDl(dl) /\ det' = NoEdges /\ grant' = "no"
          /\ pdp' = Booting
          /\ UNCHANGED <<daemon, look>>

InitOff == /\ init
           /\ init' = FALSE
           /\ UNCHANGED <<dl, det, grant, daemon, look, pdp, hist>>

-----------------------------------------------------------------------------
(* The program of the PDP-11, as its driver uses the line. *)
Runs == ~init /\ grant = "no"

Boot == /\ Runs /\ ~pdp.up
        /\ pdp' = [pdp EXCEPT !.up = TRUE]
        /\ Drive([dl EXCEPT !.rie = TRUE, !.xie = TRUE])
        /\ UNCHANGED <<grant, init, daemon, look, hist>>

\* The program queues a prompt, after other output.
Ask == /\ Runs /\ pdp.up /\ pdp.isr = "no"
       /\ hist.asks < MaxAsks /\ pdp.asking = "no" /\ pdp.out = <<>>
       /\ \E l \in Looks, n \in Noise :
             pdp' = [pdp EXCEPT !.out = <<n>> \o Prompt[l], !.asking = l]
       /\ hist' = [hist EXCEPT !.asks = @ + 1]
       /\ UNCHANGED <<dl, det, grant, init, daemon, look>>

\* pdp writing printer buffer
WriteXbuf == /\ Drive([dl EXCEPT !.xbuf = [n |-> hist.nwrote + 1, c |-> Head(pdp.out)],
                                 !.xrdy = FALSE])
             /\ hist' = [hist EXCEPT !.nwrote = @ + 1]

StartOutput == /\ Runs /\ pdp.isr = "no" /\ pdp.up
               /\ ~pdp.busy /\ pdp.out # <<>> /\ dl.xrdy
               /\ WriteXbuf
               /\ pdp' = [pdp EXCEPT !.busy = TRUE, !.out = Tail(@)]
               /\ UNCHANGED <<grant, init, daemon, look>>

XHandler == /\ Runs /\ pdp.isr = "x"
            /\ IF pdp.out = <<>>
                 THEN /\ pdp' = [pdp EXCEPT !.isr = "no", !.busy = FALSE]
                      /\ UNCHANGED <<dl, det, hist>>
                 ELSE /\ WriteXbuf
                      /\ pdp' = [pdp EXCEPT !.isr = "no", !.busy = TRUE, !.out = Tail(@)]
            /\ UNCHANGED <<grant, init, daemon, look>>

\* pdp reading the keyboard buffer: the driver echoes what it reads; the
\* program has its answer when it reads the return key.
RHandler == /\ Runs /\ pdp.isr = "r"
            /\ Drive([dl EXCEPT !.rrdy = FALSE])
            /\ pdp' = [pdp EXCEPT !.isr = "no", !.out = Append(@, dl.rbuf),
                         !.asking = IF @ # "no" /\ dl.rbuf = Last(Reply[@]) THEN "no" ELSE @]
            /\ UNCHANGED <<grant, init, daemon, look, hist>>

-----------------------------------------------------------------------------
(* z11dl.cc *)
\* A register write of the daemon is ignored while INIT lasts.
ArmWrite(d) == IF init THEN UNCHANGED <<dl, det>> ELSE Drive(d)

PrPoll == /\ daemon.pc = "loop" /\ ~dl.xrdy
          /\ daemon' = [pc |-> "ready", xreg |-> dl.xbuf]
          /\ UNCHANGED <<dl, det, grant, init, look, pdp, hist>>

PrReady == /\ daemon.pc = "ready"
           /\ ArmWrite([dl EXCEPT !.xrdy = TRUE])
           /\ daemon' = [daemon EXCEPT !.pc = "print"]
           /\ UNCHANGED <<grant, init, look, pdp, hist>>

\* LookFor::GotPRChar: follow the prompt, then the echo of the reply.
GotPRChar(l, c) ==
  LET m == look[l].matched  e == look[l].echoed IN
  IF e = 0
    THEN IF Prompt[l][m + 1] # c THEN Idle
         ELSE IF m + 1 = Len(Prompt[l]) THEN [matched |-> m + 1, echoed |-> 1]
         ELSE [matched |-> m + 1, echoed |-> 0]
    ELSE IF Reply[l][e] # c \/ e = Len(Reply[l]) THEN Idle
         ELSE [look[l] EXCEPT !.echoed = e + 1]

\* Variant: it prints what the buffer holds by now.
PrPrint_Current == /\ daemon.pc = "print"
                   /\ hist' = [hist EXCEPT !.printed = dl.xbuf.n]
                   /\ look' = [l \in Looks |-> GotPRChar(l, dl.xbuf.c)]
                   /\ daemon' = [daemon EXCEPT !.pc = "loop"]
                   /\ UNCHANGED <<dl, det, grant, init, pdp>>

\* It prints, and the LookFor objects see, what it has read.
PrPrint == /\ daemon.pc = "print"
           /\ hist' = [hist EXCEPT !.printed = daemon.xreg.n]
           /\ look' = [l \in Looks |-> GotPRChar(l, daemon.xreg.c)]
           /\ daemon' = [daemon EXCEPT !.pc = "loop"]
           /\ UNCHANGED <<dl, det, grant, init, pdp>>

\* A character for the PDP-11, whether or not it has read the last one.
Type(c) == ArmWrite([dl EXCEPT !.rrdy = TRUE, !.rbuf = c])

KbType == /\ daemon.pc = "loop" /\ hist.typed < MaxTyped
          /\ \E c \in Typed : Type(c)
          /\ hist' = [hist EXCEPT !.typed = @ + 1]
          /\ UNCHANGED <<grant, init, daemon, look, pdp>>

\* The last character typed has been read, echoed and printed.
Settled == ~dl.rrdy /\ pdp.isr = "no" /\ ~pdp.busy /\ pdp.out = <<>> /\ dl.xrdy

\* The reply character, again every 250 ms until its echo is printed.
KbReply == /\ daemon.pc = "loop"
           /\ SlowEcho \/ (Settled /\ pdp.up)
           /\ \E l \in Looks : /\ look[l].echoed # 0
                               /\ Type(Reply[l][look[l].echoed])
           /\ UNCHANGED <<grant, init, daemon, look, pdp, hist>>

-----------------------------------------------------------------------------
Fabric  == Grant \/ Granted \/ InitOff
Program == Boot \/ StartOutput \/ XHandler \/ RHandler
Daemon  == PrPoll \/ PrReady \/ PrPrint
Next    == Fabric \/ Program \/ Daemon \/ KbReply \/ KbType \/ Ask \/ InitOn

\* The line is always clocked, the processor runs, z11dl looks at the printer
\* again and again and, when nobody types, repeats the reply.
Spec == Init /\ [][Next]_vars /\ WF_vars(Fabric) /\ WF_vars(Program)
             /\ WF_vars(Daemon) /\ WF_vars(KbReply)

-----------------------------------------------------------------------------
(* Properties *)
\* The registers stay in their types, and a pending edge has its level, or the
\* level fell while a grant froze the detector.
DlTypeOK ==
  /\ dl.xbuf.n <= hist.nwrote /\ hist.printed <= hist.nwrote
  /\ \A l \in Looks : look[l].echoed \in 0..Len(Reply[l])
  /\ (det.redge => RLevel(dl) \/ grant # "no") /\ (det.xedge => XLevel(dl) \/ grant # "no")

\* What is printed is what was written, in the order of writing, nothing twice
\* and, before any bus reset, nothing left out (the loop of z11dl.cc, which
\* gives the line back before it prints).
PrintedInOrder ==
  /\ DlTypeOK
  /\ daemon.pc # "loop" => /\ daemon.xreg.n > hist.printed
                           /\ hist.inits = 0 => daemon.xreg.n = hist.printed + 1

\* No interrupt is lost, whatever was typed and reset: the driver that waits for
\* the printer goes on and what is typed is read; a prompt that nobody
\* interferes with is answered.
LineMoves ==
  /\ pdp.busy ~> ~pdp.busy
  /\ dl.rrdy ~> ~dl.rrdy
  /\ pdp.asking # "no" ~> (pdp.asking = "no" \/ hist.typed + hist.inits > 0)
=============================================================================
