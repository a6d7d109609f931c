------------------------------ MODULE XeRings ------------------------------
(***************************************************************************)
(* The ethernet controller: the registers of xe11.v, the three threads of  *)
(* z11xe.cc (port commands, transmit, receive), the descriptor rings in    *)
(* PDP-11 memory and a PDP-11 driver that uses them.                       *)
(*                                                                         *)
(* All DMA of the daemon is done under its own mutex, so DmaLock adds      *)
(* nothing here; every DMA cycle that another party can see is a step.     *)
(* A packet is a pair <<where it comes from, its number>>.  One            *)
(* descriptor of the receive ring holds one segment of a packet.           *)
(*                                                                         *)
(* The code leaves four windows open.  Intrude = TRUE lets resets fall     *)
(* between the read of PCSR0 and the answer that clears RSET or HIJK, and  *)
(* a packet of the wire into loopback mode, which uses the same buffer.    *)
(* The other two are always open: the driver may queue a packet between    *)
(* the reads of its descriptor's length and address and that of the owner, *)
(* and it may stop the controller and build new rings while a packet is    *)
(* being sent with both locks let go.  These two count as faults.          *)
(***************************************************************************)
EXTENDS Naturals, FiniteSets

CONSTANTS NT, NR,            \* descriptors in the transmit and receive rings
          MaxPkts,           \* bound: packets queued by the driver and packets that arrive
          MaxEvents,         \* bound: port commands, resets and faults
          Given,             \* the port commands that the driver gives
          Modes,             \* mode words the driver may set (sets of mode bits)
          Chained,           \* the driver may spread a packet over two descriptors, or
                             \*   queue one that is too long
          Intrude            \* see above

\* port commands; GET_CMD with the functions that set the rings and the mode, COUNT for its
\* functions 012 and 013, and DATA for GET_PCBB, BOOT and the functions that only move data
Commands == {"NOP", "DATA", "COUNT", "WRF", "WRMOD", "SELF_TEST", "START", "PDMD", "STOP"}

ASSUME XeAssumption ==
  /\ {NT, NR} \subseteq Nat \ {0} /\ {MaxPkts, MaxEvents} \subseteq Nat
  /\ {Chained, Intrude} \subseteq BOOLEAN
  /\ Given \subseteq Commands /\ Modes \subseteq SUBSET {"LOOP", "DRDC", "PROM"}

VARIABLES
  init, hi, rset, hijk, pcmd,                   \* xe11.v: bus init seen, PCSR0
  run, rcbinh, mode, fmt, rdrca, tdrca,         \* z11xe.cc: static variables
  themutex, io, iocmd,                          \*   mutex, port command thread
  tx, did, tdrpa, tbuf, xmt,                    \*   transmit thread
  rx, rcvp, rcv,                                \*   receive thread, packet buffer, gotincoming
  tring, rring,                                 \* PDP-11 memory: the rings
  asked, up, txin, rxout, scan, asm,            \* the driver
  nq, sent, narr, last, polled, ncmd, faults    \* what happened

regs  == <<init, hi, rset, hijk, pcmd>>
ctl   == <<run, rcbinh, mode, fmt>>
iov   == <<io, iocmd>>
txv   == <<tx, did, tdrpa, tbuf, xmt, tdrca, sent>>
rxv   == <<rx, rcvp, rcv, rdrca, narr>>
drv   == <<asked, up, txin, rxout, scan, asm, nq, last, polled, ncmd>>
vars  == <<regs, ctl, themutex, iov, txv, rxv, tring, rring, drv, faults>>

None == <<"none", 0>>
Empty == [pkt |-> None, len |-> 0, to |-> "mine"]
Idle == [pc |-> "idle", togo |-> 0, first |-> FALSE, bits |-> {}]
Free == [own |-> FALSE, pkt |-> None, stp |-> FALSE, enp |-> FALSE, err |-> FALSE]

Init ==
  /\ init = "off" /\ hi = {} /\ rset = FALSE /\ hijk = FALSE /\ pcmd = "NOP"
  /\ run = FALSE /\ rcbinh = FALSE /\ mode = {} /\ fmt \in BOOLEAN /\ rdrca = 0 /\ tdrca = 0
  /\ themutex = "none" /\ io = "wait" /\ iocmd = "NOP"
  /\ tx = "born" /\ did = FALSE /\ tdrpa = 0 /\ tbuf = None /\ xmt = None
  /\ rx = "read" /\ rcvp = Empty /\ rcv = Idle
  /\ tring = [i \in 0 .. NT - 1 |-> Free] /\ rring = [i \in 0 .. NR - 1 |-> Free]
  /\ asked = "none" /\ up = FALSE /\ txin = 0 /\ rxout = 0 /\ scan = FALSE /\ asm = None
  /\ nq = 0 /\ sent = 0 /\ narr = 0 /\ last = [s \in {"wire", "loop"} |-> 0]
  /\ polled = 0 /\ ncmd = 0 /\ faults = 0

------------------------------------------------------------------------------
(* The registers.                                                          *)

\* mistake: the done bits are stored, not ORed
WritePcsr0_Store(bits, clr) ==
  IF init = "off" THEN /\ hi' = bits /\ rset' = (rset /\ "RSET" \notin clr)
                       /\ hijk' = (hijk /\ "HIJK" \notin clr) /\ UNCHANGED <<init, pcmd>>
                  ELSE UNCHANGED regs

\* writepcsr0: done bits are ORed in, RSET and HIJK are cleared if written as 1; dropped during init
WritePcsr0(bits, clr) ==
  IF init = "off"
  THEN /\ hi' = hi \cup bits
       /\ rset' = (rset /\ "RSET" \notin clr)
       /\ hijk' = (hijk /\ "HIJK" \notin clr)
       /\ UNCHANGED <<init, pcmd>>
  ELSE UNCHANGED regs

\* the window in which the code does not expect the PDP-11 to reset it
Calm == Intrude \/ io # "do"

Eventful == ncmd + faults < MaxEvents

InitOn ==
  /\ init = "off" /\ Calm /\ Eventful
  /\ init' = "on" /\ hi' = {} /\ rset' = FALSE /\ hijk' = FALSE /\ pcmd' = "NOP"
  /\ ncmd' = ncmd + 1 /\ asked' = "RESET" /\ up' = FALSE /\ scan' = FALSE
  /\ UNCHANGED <<ctl, themutex, iov, txv, rxv, tring, rring, txin, rxout, asm, nq, last, polled,
                 faults>>

InitOff ==
  /\ init = "on"
  /\ init' = "off" /\ rset' = TRUE /\ hijk' = TRUE
  /\ UNCHANGED <<hi, pcmd, ctl, themutex, iov, txv, rxv, tring, rring, drv, faults>>

------------------------------------------------------------------------------
(* The port command thread.                                                *)

\* waitint (ZGINT_XE), lockit, read PCSR0; spurious wakeups, HIJK clear, return at once
IoRead ==
  /\ io = "wait" /\ hijk /\ themutex = "none"
  /\ io' = "do" /\ themutex' = "io" /\ iocmd' = IF rset THEN "RESET" ELSE pcmd
  /\ UNCHANGED <<regs, ctl, txv, rxv, tring, rring, drv, faults>>

DoReset == run' = FALSE /\ mode' = {} /\ rcbinh' = FALSE /\ UNCHANGED <<fmt, rdrca, tdrca, tx>>

WakeTransmit == tx' = IF tx = "sleep" THEN "woken" ELSE tx

Start ==
  IF run THEN UNCHANGED <<ctl, rdrca, tdrca, tx>>
  ELSE /\ rcbinh' = FALSE /\ run' = TRUE /\ rdrca' = 0 /\ tdrca' = 0
       /\ WakeTransmit /\ UNCHANGED <<mode, fmt>>

Pdmd == rcbinh' = FALSE /\ WakeTransmit /\ UNCHANGED <<run, mode, fmt, rdrca, tdrca>>

\* functions of GET_CMD: set ring format, set mode, and those that only move data
SetRings == fmt' = TRUE /\ rdrca' = 0 /\ tdrca' = 0 /\ UNCHANGED <<run, rcbinh, mode, tx>>
SetMode  == mode' \in Modes /\ UNCHANGED <<run, rcbinh, fmt, rdrca, tdrca, tx>>

\* xeiothread_locked: do the command, answer it, unlkit.  COUNT has no end: its loop goes on while
\* the number of counters to write is not zero, and nothing changes that number.
IoDo ==
  /\ io = "do"
  /\ \/ iocmd = "RESET"         /\ DoReset  /\ WritePcsr0({"DNI"}, {"RSET", "HIJK"})
     \/ iocmd = "SELF_TEST"     /\ DoReset  /\ WritePcsr0({"DNI"}, {"HIJK"})
     \/ iocmd = "START"         /\ Start    /\ WritePcsr0({"DNI"}, {"HIJK"})
     \/ iocmd = "PDMD"          /\ Pdmd     /\ WritePcsr0({"DNI"}, {"HIJK"})
     \/ iocmd = "STOP"          /\ run' = FALSE /\ UNCHANGED <<rcbinh, mode, fmt, rdrca, tdrca, tx>>
                                /\ WritePcsr0({"DNI"}, {"HIJK"})
     \/ iocmd = "WRF"   /\ IF run THEN /\ UNCHANGED <<ctl, rdrca, tdrca, tx>>
                                               /\ WritePcsr0({"PCEI"}, {"HIJK"})
                                          ELSE SetRings /\ WritePcsr0({"DNI"}, {"HIJK"})
     \/ iocmd = "WRMOD" /\ SetMode  /\ WritePcsr0({"DNI"}, {"HIJK"})
     \/ iocmd = "DATA"  /\ UNCHANGED <<ctl, rdrca, tdrca, tx>> /\ WritePcsr0({"DNI"}, {"HIJK"})
     \/ /\ iocmd \in {"DATA", "WRMOD"}                    \* funceror
        /\ UNCHANGED <<ctl, rdrca, tdrca, tx>> /\ WritePcsr0({"PCEI"}, {"HIJK"})
     \/ iocmd = "NOP" /\ UNCHANGED <<ctl, rdrca, tdrca, tx>> /\ WritePcsr0({}, {"HIJK"})
  /\ io' = "wait" /\ themutex' = "none" /\ iocmd' = "NOP"
  /\ UNCHANGED <<did, tdrpa, tbuf, xmt, sent, rx, rcvp, rcv, narr, tring, rring, drv, faults>>

\* getcommand_dmalkd: the control block or what it points to is not answered
IoTimeout ==
  /\ io = "do" /\ iocmd \in {"WRF", "WRMOD", "DATA", "COUNT"}
  /\ Eventful /\ faults' = faults + 1
  /\ WritePcsr0({"PCEI"}, {"HIJK"})
  /\ io' = "wait" /\ themutex' = "none" /\ iocmd' = "NOP"
  /\ UNCHANGED <<ctl, txv, rxv, tring, rring, drv>>

------------------------------------------------------------------------------
(* gotincoming_locked and gotincoming_dmalkd, run by the thread that holds *)
(* the mutex: "rx", or "tx" in loopback mode.                              *)

RcvStart(p) == [pc |-> "filter", togo |-> p.len, first |-> TRUE, bits |-> {}]
Matches(p) == "PROM" \in mode \/ p.to = "mine"

\* what the caller does when gotincoming is over
RcvReturn(bits, fault) ==
  /\ WritePcsr0(bits, {}) /\ faults' = faults + fault
  /\ rcv' = Idle
  /\ IF themutex = "rx" THEN rx' = "read" /\ themutex' = "none" /\ UNCHANGED tx
                        ELSE tx' = "mark" /\ UNCHANGED <<rx, themutex>>
  /\ rcvp' = IF rx' = "read" THEN Empty ELSE rcvp         \* not used again

RcvUnch == UNCHANGED <<run, mode, fmt, iov, did, tdrpa, tbuf, xmt, tdrca, sent, narr, tring, drv>>

Accepted == run /\ Matches(rcvp) /\ fmt
RcvLook  == rcv.pc = "desc" \/ (rcv.pc = "filter" /\ Accepted)

RcvFilter ==                                               \* not for us, or no ring
  /\ rcv.pc = "filter" /\ ~ Accepted
  /\ RcvReturn(IF run /\ Matches(rcvp) /\ ~ rcbinh THEN {"RCBI"} ELSE {}, 0)
  /\ rcbinh' = (rcbinh \/ (run /\ Matches(rcvp)))
  /\ UNCHANGED <<rdrca, rring>> /\ RcvUnch

RcvDesc ==                                                 \* read the descriptor, fill its buffer
  /\ RcvLook /\ rring[rdrca].own
  /\ rcv' = [rcv EXCEPT !.pc = "peek"]
  /\ rring' = [rring EXCEPT ![rdrca].pkt = rcvp.pkt]
  /\ UNCHANGED <<regs, themutex, rx, tx, rdrca, rcvp, rcbinh, faults>> /\ RcvUnch

RcvBadBuffer ==                                            \* UBTO; x: what was written before
  /\ RcvLook /\ rring[rdrca].own /\ Eventful
  /\ rcv' = [rcv EXCEPT !.pc = "peek"]
  /\ \E x \in {None, rcvp.pkt} : rring' = [rring EXCEPT ![rdrca].pkt = x]
  /\ faults' = faults + 1
  /\ UNCHANGED <<regs, themutex, rx, tx, rdrca, rcvp, rcbinh>> /\ RcvUnch

RcvOverflow ==                                             \* not ours: abandon the packet
  /\ RcvLook /\ ~ rring[rdrca].own
  /\ rcbinh' = TRUE
  /\ RcvReturn(IF rcbinh THEN rcv.bits ELSE rcv.bits \cup {"RCBI"}, 0)
  /\ UNCHANGED <<rdrca, rring>> /\ RcvUnch

Fits == rcv.togo = 1
NextRd == (rdrca + 1) % NR
Chop_NoPeek == ~ Fits /\ "DRDC" \in mode                  \* mistake: does not look at the next owner
Chop == ~ Fits /\ ("DRDC" \in mode \/ ~ rring[NextRd].own)

RcvPeek ==                                                 \* does the next one belong to us?
  /\ rcv.pc = "peek"
  /\ rcv' = [rcv EXCEPT !.pc = "hand", !.togo = IF Chop THEN 1 ELSE @]
  /\ rring' = [rring EXCEPT ![rdrca].err = Chop]           \* word +6, before the owner changes
  /\ UNCHANGED <<regs, themutex, rx, tx, rcvp, rdrca, rcbinh, faults>> /\ RcvUnch

RcvNoPeek ==                                               \* the read of its owner fails
  /\ rcv.pc = "peek" /\ ~ Fits /\ "DRDC" \notin mode /\ Eventful
  /\ rcv' = [rcv EXCEPT !.pc = "hand", !.togo = 1]
  /\ rring' = [rring EXCEPT ![rdrca].err = TRUE]
  /\ faults' = faults + 1
  /\ UNCHANGED <<regs, themutex, rx, tx, rcvp, rdrca, rcbinh>> /\ RcvUnch

RcvHand ==                                                 \* byte +5: ownership to the PDP-11
  /\ rcv.pc = "hand"
  /\ rring' = [rring EXCEPT ![rdrca].own = FALSE, ![rdrca].stp = rcv.first,
                            ![rdrca].enp = (rcv.togo = 1 /\ ~ rring[rdrca].err)]
  /\ rdrca' = NextRd
  /\ rcv' = [pc |-> IF rcv.togo = 1 THEN "done" ELSE "desc", togo |-> rcv.togo - 1,
             first |-> rcv.first /\ rring[rdrca].pkt = None, bits |-> rcv.bits \cup {"RXI"}]
  /\ UNCHANGED <<regs, themutex, rx, tx, rcvp, rcbinh, faults>> /\ RcvUnch

RcvDone ==
  /\ rcv.pc = "done"
  /\ RcvReturn(rcv.bits, 0)
  /\ UNCHANGED <<rdrca, rcbinh, rring>> /\ RcvUnch

RcvError ==                                                \* dmaerror: status bits so far are lost
  /\ RcvLook \/ rcv.pc \in {"peek", "hand"}
  /\ Eventful
  /\ RcvReturn({"SERI"}, 1)
  /\ UNCHANGED <<rdrca, rcbinh, rring>> /\ RcvUnch

\* receivethread: read() fills the packet buffer, then lockit
Arrive(len, to) ==
  /\ rx = "read" /\ narr + nq < MaxPkts
  /\ Intrude \/ ("LOOP" \notin mode /\ asked # "WRMOD" /\ rcv.pc = "idle")
  /\ rcvp' = [pkt |-> <<"wire", narr + 1>>, len |-> len, to |-> to]
  /\ narr' = narr + 1 /\ rx' = "lock"
  /\ UNCHANGED <<regs, ctl, themutex, iov, txv, rcv, rdrca, tring, rring, drv, faults>>

RxLock ==
  /\ rx = "lock" /\ themutex = "none"
  /\ themutex' = "rx" /\ rx' = "in" /\ rcv' = RcvStart(rcvp)
  /\ UNCHANGED <<regs, ctl, iov, txv, rcvp, rdrca, narr, tring, rring, drv, faults>>

Receive == RcvFilter \/ RcvDesc \/ RcvOverflow \/ RcvPeek \/ RcvHand \/ RcvDone

------------------------------------------------------------------------------
(* The transmit thread.                                                    *)

HasDescriptor == tx \in {"sendto", "relock", "in", "mark"}
TxForget == tbuf' = None /\ xmt' = None /\ tdrpa' = 0         \* local variables
TxUnch == UNCHANGED <<ctl, iov, rdrca, narr, rring, drv>>

TxWoken_NoScan ==                                          \* mistake: didsomething stays false
  /\ tx = "woken" /\ themutex = "none"
  /\ tx' = "loop" /\ themutex' = "tx"
  /\ UNCHANGED <<regs, did, tdrpa, tbuf, xmt, tdrca, sent, rx, rcvp, rcv, tring, faults>> /\ TxUnch

TxWoken ==                                                 \* pthread_cond_wait returns
  /\ tx = "woken" /\ themutex = "none"
  /\ tx' = "loop" /\ themutex' = "tx" /\ did' = TRUE
  /\ UNCHANGED <<regs, tdrpa, tbuf, xmt, tdrca, sent, rx, rcvp, rcv, tring, faults>> /\ TxUnch

TxBorn ==                                                  \* transmithread: lockit, waittransmit
  /\ tx = "born" /\ themutex = "none"
  /\ tx' = "sleep"
  /\ UNCHANGED <<regs, themutex, did, tdrpa, tbuf, xmt, tdrca, sent, rx, rcvp, rcv, tring, faults>> /\ TxUnch

TxSleep ==                                                 \* waittransmit
  /\ tx = "loop" /\ (~ run \/ ~ fmt \/ ~ did)
  /\ tx' = "sleep" /\ themutex' = "none"
  /\ UNCHANGED <<regs, did, tdrpa, tbuf, xmt, tdrca, sent, rx, rcvp, rcv, tring, faults>> /\ TxUnch

TxWords ==                                                 \* words 0 and 1: length, address
  /\ tx = "loop" /\ run /\ fmt /\ did
  /\ tbuf' = tring[tdrca].pkt /\ tx' = "owner"
  /\ UNCHANGED <<regs, themutex, did, tdrpa, xmt, tdrca, sent, rx, rcvp, rcv, tring, faults>> /\ TxUnch

TxIdle ==                                                  \* word 2: owned by the PDP-11
  /\ tx = "owner" /\ ~ tring[tdrca].own
  /\ WritePcsr0({"TXI"}, {}) /\ did' = FALSE /\ tx' = "loop"
  /\ TxForget
  /\ UNCHANGED <<themutex, tdrca, sent, rx, rcvp, rcv, tring, faults>> /\ TxUnch

NextTd == (tdrca + 1) % NT

TxNoStart ==                                               \* no STP or too long: BUFL, stays ours
  /\ tx = "owner" /\ tring[tdrca].own /\ ~ tring[tdrca].stp
  /\ tdrca' = NextTd /\ TxForget
  /\ tring' = [tring EXCEPT ![tdrca].err = TRUE] /\ did' = TRUE /\ tx' = "loop"
  /\ UNCHANGED <<regs, themutex, sent, rx, rcvp, rcv, faults>> /\ TxUnch

TxCopy ==                                                  \* copy it, then dmaunlk to send it
  /\ tx = "owner" /\ tring[tdrca].own /\ tring[tdrca].stp
  /\ tdrpa' = tdrca /\ tdrca' = NextTd
  /\ xmt' = tbuf /\ faults' = IF tbuf = tring[tdrca].pkt THEN faults ELSE faults + 1
  /\ \/ /\ ~ tring[tdrca].enp
        /\ tx' = "mark" /\ UNCHANGED <<themutex, rx, rcvp, rcv>>
     \/ /\ tring[tdrca].enp /\ "LOOP" \notin mode
        /\ tx' = "sendto" /\ themutex' = "none" /\ UNCHANGED <<rx, rcvp, rcv>>
     \/ /\ tring[tdrca].enp /\ "LOOP" \in mode
        /\ \E to \in {"mine", "other"} :
             rcvp' = [pkt |-> <<"loop", xmt'[2]>>, len |-> 1, to |-> to]
        /\ tx' = "in" /\ rcv' = RcvStart(rcvp') /\ UNCHANGED <<themutex, rx>>
  /\ sent' = IF tx' = "in" THEN xmt'[2] ELSE sent
  /\ UNCHANGED <<regs, did, tbuf, tring>> /\ TxUnch

TxSend ==                                                  \* sendto
  /\ tx = "sendto"
  /\ sent' = xmt[2] /\ tx' = "relock"
  /\ UNCHANGED <<regs, themutex, did, tdrpa, tbuf, xmt, tdrca, rx, rcvp, rcv, tring, faults>> /\ TxUnch

TxRelock ==
  /\ tx = "relock" /\ themutex = "none"
  /\ tx' = "mark" /\ themutex' = "tx"
  /\ UNCHANGED <<regs, did, tdrpa, tbuf, xmt, tdrca, sent, rx, rcvp, rcv, tring, faults>> /\ TxUnch

TxMark_Current ==                                          \* mistake: returns the current descriptor
  /\ tx = "mark"
  /\ tring' = [tring EXCEPT ![tdrca].own = FALSE] /\ did' = TRUE /\ tx' = "loop"
  /\ TxForget
  /\ UNCHANGED <<regs, themutex, tdrca, sent, rx, rcvp, rcv, faults>> /\ TxUnch

TxMark ==                                                  \* mark packet owned by PDP
  /\ tx = "mark"
  /\ tring' = [tring EXCEPT ![tdrpa].own = FALSE] /\ did' = TRUE /\ tx' = "loop"
  /\ TxForget
  /\ UNCHANGED <<regs, themutex, tdrca, sent, rx, rcvp, rcv, faults>> /\ TxUnch

TxError ==                                                 \* dmaerror in the descriptor
  /\ ((tx = "loop" /\ run /\ fmt /\ did) \/ tx = "mark") /\ Eventful /\ faults' = faults + 1
  /\ WritePcsr0({"SERI"}, {}) /\ did' = TRUE /\ tx' = "loop"
  /\ TxForget
  /\ UNCHANGED <<themutex, tdrca, sent, rx, rcvp, rcv, tring>> /\ TxUnch

TxUnibusTimeout ==                                         \* dmaerror in the packet: UBTO, not sent
  /\ tx = "owner" /\ tring[tdrca].own /\ tring[tdrca].stp
  /\ Eventful /\ faults' = faults + 1
  /\ tdrpa' = tdrca /\ tdrca' = NextTd /\ tx' = "mark"
  /\ tring' = [tring EXCEPT ![tdrca].err = TRUE]
  /\ UNCHANGED <<regs, themutex, did, tbuf, xmt, sent, rx, rcvp, rcv>> /\ TxUnch

TxStatusFails ==                                           \* dmaerror writing BUFL or UBTO
  /\ tx = "owner" /\ tring[tdrca].own
  /\ Eventful /\ faults' = faults + 1
  /\ WritePcsr0({"SERI"}, {}) /\ tdrca' = NextTd /\ did' = TRUE /\ tx' = "loop"
  /\ TxForget
  /\ UNCHANGED <<themutex, sent, rx, rcvp, rcv, tring>> /\ TxUnch

Transmit == \/ TxBorn \/ TxWoken \/ TxSleep \/ TxWords \/ TxIdle \/ TxNoStart \/ TxCopy \/ TxSend
            \/ TxRelock \/ TxMark

------------------------------------------------------------------------------
(* The PDP-11: a driver that gives a command when the one before has been  *)
(* answered, resets when it likes, and sets its rings up when it starts.   *)
(* The stp of a transmit descriptor says that a packet starts there that   *)
(* is not too long for the daemon.                                         *)

DaemonUnch == UNCHANGED <<ctl, themutex, iov, txv, rxv>>
DrvUnch == DaemonUnch /\ UNCHANGED faults

GiveCommand(c) ==                                          \* PCSR0 low byte, INTE as it was
  /\ c \in Given /\ asked = "none" /\ init = "off" /\ Eventful
  /\ c = "PDMD" => up
  /\ c = "WRMOD" => Intrude \/ rx = "read"
  /\ hijk' = TRUE /\ pcmd' = c /\ asked' = c /\ ncmd' = ncmd + 1
  /\ \/ /\ c = "START" /\ ~ up
        /\ polled' = 0 /\ faults' = IF HasDescriptor THEN faults + 1 ELSE faults
        /\ rring' = [i \in DOMAIN rring |-> [Free EXCEPT !.own = TRUE]]
        /\ tring' = [i \in DOMAIN tring |-> Free]
        /\ txin' = 0 /\ rxout' = 0 /\ asm' = None
     \/ /\ c = "START" => up
        /\ polled' = IF c = "PDMD" /\ tx # "born" THEN nq ELSE polled
        /\ UNCHANGED <<rring, tring, txin, rxout, asm, faults>>
  /\ UNCHANGED <<init, hi, rset, up, scan, nq, last>> /\ DaemonUnch

GiveReset ==                                               \* RSET, valid any time
  /\ init = "off" /\ Eventful /\ Calm /\ asked # "RESET"
  /\ hi' = {} /\ rset' = TRUE /\ hijk' = TRUE /\ pcmd' = "NOP"
  /\ asked' = "RESET" /\ up' = FALSE /\ scan' = FALSE /\ ncmd' = ncmd + 1
  /\ UNCHANGED <<init, txin, rxout, asm, nq, last, polled, tring, rring>> /\ DrvUnch

SeeAnswer ==                                               \* DNI or PCEI, cleared by writing 1
  /\ asked # "none" /\ hi \cap {"DNI", "PCEI"} # {}
  /\ hi' = hi \ {"DNI", "PCEI"} /\ asked' = "none"
  /\ up' = CASE asked = "START" -> fmt [] asked \in {"STOP", "SELF_TEST"} -> FALSE [] OTHER -> up
  /\ scan' = (scan /\ up')
  /\ UNCHANGED <<init, rset, hijk, pcmd, txin, rxout, asm, nq, last, polled, ncmd, tring, rring>>
  /\ DrvUnch

NopOver ==                                                 \* a NOP has no answer
  /\ asked = "NOP" /\ (Intrude \/ (~ hijk /\ io = "wait"))
  /\ asked' = "none"
  /\ UNCHANGED <<regs, up, txin, rxout, scan, asm, nq, last, polled, ncmd, tring, rring>> /\ DrvUnch

\* the interrupt handler clears the ring bits it saw, then looks at the receive ring
AckRings ==
  /\ up /\ hi \cap {"RXI", "TXI", "RCBI", "SERI"} # {}
  /\ hi' = hi \ {"RXI", "TXI", "RCBI", "SERI"}
  /\ scan' = (scan \/ "RXI" \in hi)
  /\ UNCHANGED <<init, rset, hijk, pcmd, asked, up, txin, rxout, asm, nq, last, polled, ncmd,
                 tring, rring>>
  /\ DrvUnch

TakePacket ==
  /\ scan /\ up /\ ~ rring[rxout].own
  /\ LET d == rring[rxout] IN
       /\ asm' = IF d.enp \/ d.err THEN None ELSE d.pkt
       /\ last' = IF d.enp \/ d.err THEN [last EXCEPT ![d.pkt[1]] = d.pkt[2]] ELSE last
  /\ rring' = [rring EXCEPT ![rxout] = [Free EXCEPT !.own = TRUE]]
  /\ rxout' = (rxout + 1) % NR
  /\ UNCHANGED <<regs, asked, up, txin, scan, nq, polled, ncmd, tring>> /\ DrvUnch

ScanEnd ==
  /\ scan /\ up /\ rring[rxout].own
  /\ scan' = FALSE
  /\ UNCHANGED <<regs, asked, up, txin, rxout, asm, nq, last, polled, ncmd, tring, rring>> /\ DrvUnch

\* a packet in one descriptor, one in two, and one that is too long
Queue(how) ==                                              \* address first, owner last
  /\ up /\ ~ tring[txin].own /\ narr + nq < MaxPkts /\ asked = "none"
  /\ how # "whole" => Chained
  /\ how = "halves" => NT > 1 /\ ~ tring[(txin + 1) % NT].own
  /\ LET d(s, e) == [own |-> TRUE, pkt |-> <<"loop", nq + 1>>, stp |-> s, enp |-> e, err |-> FALSE] IN
       IF how = "halves"
       THEN /\ tring' = [tring EXCEPT ![txin] = d(TRUE, FALSE), ![(txin + 1) % NT] = d(FALSE, TRUE)]
            /\ txin' = (txin + 2) % NT
       ELSE /\ tring' = [tring EXCEPT ![txin] = d(how = "whole", TRUE)]
            /\ txin' = (txin + 1) % NT
  /\ nq' = nq + 1
  /\ UNCHANGED <<regs, asked, up, rxout, scan, asm, last, polled, ncmd, rring>> /\ DrvUnch

Driver == SeeAnswer \/ NopOver \/ AckRings \/ TakePacket \/ ScanEnd

Next ==
  \/ InitOn \/ InitOff \/ IoRead \/ IoDo \/ IoTimeout
  \/ Receive \/ RcvError \/ RcvBadBuffer \/ RcvNoPeek \/ RxLock
  \/ \E p \in {<<1, "mine">>, <<2, "mine">>, <<1, "other">>} : Arrive(p[1], p[2])
  \/ Transmit \/ TxError \/ TxUnibusTimeout \/ TxStatusFails
  \/ (\E c \in Commands : GiveCommand(c)) \/ GiveReset
  \/ Driver \/ (\E how \in {"whole", "halves", "long"} : Queue(how))

Spec == Init /\ [][Next]_vars

\* The daemon does not stop while one of its threads can go on, nor does the interrupt handler of
\* the driver; a bus init ends.  (A thread need not be given the mutex however often it is free:
\* the others come to rest when traffic does, and traffic is bounded.)
Daemon == IoRead \/ IoDo \/ Receive \/ RxLock \/ Transmit
FairSpec == Spec /\ WF_vars(InitOff \/ Daemon) /\ WF_vars(Driver)

------------------------------------------------------------------------------
XeTypeOK ==
  /\ init \in {"off", "on"} /\ {rset, hijk, run, rcbinh, fmt, did, up, scan} \subseteq BOOLEAN
  /\ hi \subseteq {"SERI", "PCEI", "RXI", "TXI", "DNI", "RCBI"}
  /\ {pcmd, iocmd} \subseteq Commands \cup {"RESET"} /\ asked \in Commands \cup {"none", "RESET"}
  /\ themutex = (IF io = "do" THEN "io"
                 ELSE IF tx \notin {"born", "sleep", "woken", "sendto", "relock"} THEN "tx"
                 ELSE IF rx = "in" THEN "rx" ELSE "none")
  /\ {rdrca, rxout} \subseteq 0 .. NR - 1 /\ {tdrca, tdrpa, txin} \subseteq 0 .. NT - 1

(* What the PDP-11 finds in its receive ring are whole packets, each once  *)
(* and in the order of arrival: a descriptor that is its own again         *)
(* continues the packet it has half taken, or starts one that is newer     *)
(* than all it has seen; the rest of a packet half taken is in the ring or *)
(* on its way (STP, ENP and ownership as written by gotincoming_dmalkd; a  *)
(* DMA error may leave half a packet).                                     *)
ReceivedWhole ==
  /\ XeTypeOK
  /\ up /\ faults = 0 =>
       LET d == rring[rxout] IN
         IF d.own THEN asm # None => rcv.pc # "idle"
         ELSE /\ d.stp <=> asm = None
              /\ ~ d.stp => d.pkt = asm
              /\ d.pkt # None /\ d.pkt[2] > last[d.pkt[1]]

(* The interrupt bits lose no packet: when a descriptor is the driver's    *)
(* and its handler is not looking, RXI is set or the receive thread is     *)
(* about to set it.                                                        *)
NoForgottenPacket ==
  up /\ ~ rring[rxout].own /\ ~ scan /\ faults = 0 => "RXI" \in hi \cup rcv.bits

(* The transmit thread sends packets once, in the order they were queued,  *)
(* and returns a descriptor only if it is still the one whose packet it    *)
(* has sent, though it reads a descriptor while the driver may fill it and *)
(* drops both locks for sendto: until a DMA cycle fails, a packet is       *)
(* queued between two reads of its descriptor, or rings are rebuilt under  *)
(* a packet that is being sent.                                            *)
SentAsQueued ==
  [][/\ sent' # sent /\ faults' = 0 => sent' > sent /\ sent' <= nq
     /\ tx = "mark" /\ tx' = "loop" /\ faults' = 0 =>
          \E i \in DOMAIN tring :
            /\ tring[i].own /\ tring' = [tring EXCEPT ![i].own = FALSE]
            /\ ~ tring[i].enp \/ sent = tring[i].pkt[2]]_vars

(* Every command, reset and bus init is answered, unless the transmit ring *)
(* is full of descriptors in which no packet starts, among which the       *)
(* transmit thread goes round with the mutex held; and a packet that was   *)
(* queued before a polling demand given to the waiting transmit thread is  *)
(* sent unless the driver stops, there is a fault, or the packet is too    *)
(* long or in two descriptors, of which the second is marked BUFL and      *)
(* kept: no wakeup of the transmit thread is lost once it has begun.       *)
CommandsAnswered == (asked # "none" \/ rset) ~> (asked = "none" /\ ~ rset)
Jammed == \A i \in DOMAIN tring : tring[i].own /\ ~ tring[i].stp
MostAnswered == (asked # "none" \/ rset) ~> (asked = "none" /\ ~ rset) \/ Jammed
Kept == \E i \in DOMAIN tring : tring[i].own /\ tring[i].err
PolledIsSent == (up /\ sent < polled) ~> (sent >= polled \/ ~ up \/ faults > 0 \/ Kept)
XeWorkEnds == MostAnswered /\ PolledIsSent

(* What goes out is what the descriptor says when the daemon has found     *)
(* that it owns it: length and address are those of the packet queued      *)
(* (z11xe.cc, transmithread: "wait for PDP to put buffers in ring then     *)
(* send out over ethernet").                                               *)
SendsQueued == [][tx = "owner" /\ tx' \in {"sendto", "in"} => xmt' = tring[tdrca].pkt]_vars

(* A polling demand makes the transmit thread look at its ring (z11xe.cc,  *)
(* polling demand: "see if anything ready to transmit").                   *)
DemandLooks == (io = "do" /\ iocmd = "PDMD" /\ run /\ fmt) ~> (tx = "owner" \/ ~ run \/ faults > 0)

(* A packet goes on in a descriptor other than the one just handed back    *)
(* (z11xe.cc, gotincoming_dmalkd: "if no further entry, assume it is owned *)
(* by the PDP").                                                           *)
GoesOnElsewhere == [][rcv.pc = "hand" /\ rcv'.pc = "desc" => rdrca' # rdrca]_vars
=============================================================================
