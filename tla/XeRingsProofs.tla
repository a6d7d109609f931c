--------------------------- MODULE XeRingsProofs ---------------------------
(***************************************************************************)
(* The ethernet controller, for rings of any size and any numbers of       *)
(* packets, port commands, resets and DMA errors.                          *)
(***************************************************************************)
EXTENDS XeRings, TLAPS

Bits == {"SERI", "PCEI", "RXI", "TXI", "DNI", "RCBI"}
Sources == {"wire", "loop"}
Packets == {None} \cup (Sources \X Nat)
Descriptors == [own : BOOLEAN, pkt : Packets, stp : BOOLEAN, enp : BOOLEAN, err : BOOLEAN]
Incoming == [pkt : Packets, len : Nat \ {0}, to : {"mine", "other"}]
Receiving == [pc : {"idle", "filter", "desc", "peek", "hand", "done"}, togo : Nat,
              first : BOOLEAN, bits : SUBSET {"RXI"}]

Types ==
  /\ init \in {"off", "on"} /\ hi \in SUBSET Bits
  /\ rset \in BOOLEAN /\ hijk \in BOOLEAN /\ run \in BOOLEAN /\ rcbinh \in BOOLEAN
  /\ fmt \in BOOLEAN /\ did \in BOOLEAN /\ up \in BOOLEAN /\ scan \in BOOLEAN
  /\ pcmd \in Commands /\ iocmd \in Commands \cup {"RESET"}
  /\ asked \in Commands \cup {"none", "RESET"}
  /\ mode \in SUBSET {"LOOP", "DRDC", "PROM"}
  /\ rdrca \in 0 .. NR - 1 /\ rxout \in 0 .. NR - 1 /\ rring \in [0 .. NR - 1 -> Descriptors]
  /\ tdrca \in 0 .. NT - 1 /\ tdrpa \in 0 .. NT - 1 /\ txin \in 0 .. NT - 1
  /\ tring \in [0 .. NT - 1 -> Descriptors]
  /\ rx \in {"read", "lock", "in"} /\ rcvp \in Incoming \cup {Empty} /\ rcv \in Receiving
  /\ tx \in {"born", "sleep", "woken", "loop", "owner", "sendto", "relock", "in", "mark"}
  /\ tbuf \in Packets /\ xmt \in Packets /\ asm \in Packets
  /\ sent \in Nat /\ narr \in Nat /\ nq \in Nat /\ ncmd \in Nat /\ faults \in Nat
  /\ last \in [Sources -> Nat]

\* Who has the mutex, who receives, and where.
Held ==
  /\ themutex \in {"none", "io", "tx", "rx"} /\ io \in {"wait", "do"}
  /\ io = "do" <=> themutex = "io"
  /\ tx \in {"loop", "owner", "in", "mark"} <=> themutex = "tx"
  /\ rx = "in" <=> themutex = "rx"
  /\ rcv.pc # "idle" <=> rx = "in" \/ tx = "in"
  /\ rcv.pc \in {"desc", "peek", "hand", "done"} \/ tx \in {"owner", "in"} => run /\ fmt
  /\ rcv.pc \in {"idle", "filter"} => rcv.bits = {}
  /\ rcv.pc = "filter" => rcv.first
  /\ rcv.pc \in {"filter", "desc", "peek", "hand"} => rcv.togo > 0
  /\ rx = "lock" => rcvp.len > 0

------------------------------------------------------------------------------
\* The next descriptor of a ring.
LEMMA NextIs ==
  ASSUME NEW N \in Nat \ {0}, NEW i \in 0 .. N - 1
  PROVE  /\ (i + 1) % N = IF i = N - 1 THEN 0 ELSE i + 1
         /\ (i + 1) % N \in 0 .. N - 1
  OBVIOUS

\* The one after it.
LEMMA NextNextIs ==
  ASSUME NEW N \in Nat \ {0, 1}, NEW i \in 0 .. N - 1
  PROVE  /\ (i + 2) % N = IF i >= N - 2 THEN i + 2 - N ELSE i + 2
         /\ (i + 2) % N \in 0 .. N - 1
  OBVIOUS

\* What packets are.
LEMMA PacketFacts ==
  /\ None \in Packets
  /\ \A s \in Sources, n \in Nat : /\ <<s, n>> \in Packets /\ <<s, n>> # None
                                   /\ <<s, n>>[1] = s /\ <<s, n>>[2] = n
  /\ \A p \in Packets : p[2] \in Nat /\ (p # None => p[1] \in Sources)
  BY DEF Packets, Sources, None

\* The initial states have the types and the mutex.
LEMMA InitTypes == Init => Types /\ Held
<1> SUFFICES ASSUME Init PROVE Types /\ Held
  OBVIOUS
<1>1. 0 \in 0 .. NR - 1 /\ 0 \in 0 .. NT - 1
  BY XeAssumption
<1>2. Free \in Descriptors
  BY PacketFacts DEF Free, Descriptors
<1>3. Idle \in Receiving
  BY DEF Idle, Receiving
<1> QED
  BY <1>1, <1>2, <1>3, PacketFacts DEF Init, Types, Held, Sources, Commands, Idle

\* Answers and done bits, and what INIT does to them.
LEMMA Pcsr0 ==
  ASSUME Types, NEW bits \in SUBSET Bits, NEW clr, WritePcsr0(bits, clr)
  PROVE  /\ init' = init /\ pcmd' = pcmd /\ hi' \in SUBSET Bits
         /\ rset' \in BOOLEAN /\ hijk' \in BOOLEAN /\ hi \subseteq hi'
         /\ init = "off" => hi' = hi \cup bits
         /\ init = "on" => UNCHANGED <<hi, rset, hijk>>
<1>1. CASE init = "off"
  BY <1>1 DEF WritePcsr0, Types
<1>2. CASE init # "off"
  BY <1>2 DEF WritePcsr0, Types, regs
<1> QED
  BY <1>1, <1>2 DEF Types

\* The end of gotincoming.
LEMMA Returns ==
  ASSUME Types, Held, rcv.pc # "idle", NEW bits \in SUBSET Bits, NEW f \in {0, 1},
         RcvReturn(bits, f), UNCHANGED <<io, run, fmt>>
  PROVE  /\ init' = init /\ pcmd' = pcmd /\ hi' \in SUBSET Bits
         /\ rset' \in BOOLEAN /\ hijk' \in BOOLEAN /\ faults' \in Nat /\ rcv' \in Receiving
         /\ rcvp' \in Incoming \cup {Empty}
         /\ rx' \in {"read", "lock", "in"}
         /\ tx' \in {"born", "sleep", "woken", "loop", "owner", "sendto", "relock", "in", "mark"}
         /\ Held'
<1>1. WritePcsr0(bits, {}) /\ faults' = faults + f /\ rcv' = Idle
  BY DEF RcvReturn
<1>0. /\ init' = init /\ pcmd' = pcmd /\ hi' \in SUBSET Bits
      /\ rset' \in BOOLEAN /\ hijk' \in BOOLEAN
  BY <1>1, Pcsr0
<1>2. Idle \in Receiving /\ Idle.pc = "idle" /\ Idle.bits = {}
  BY DEF Idle, Receiving
<1>3. rcvp' \in Incoming \cup {Empty}
  BY DEF RcvReturn, Types
<1>4. CASE themutex = "rx"
  <2>1. rx' = "read" /\ themutex' = "none" /\ tx' = tx
    BY <1>4 DEF RcvReturn
  <2>2. tx \notin {"loop", "owner", "in", "mark"} /\ io = "wait" /\ rcv'.pc = "idle" /\ rcv'.bits = {}
    BY <1>1, <1>2, <1>4 DEF Held
  <2>3. Held'
    BY <2>1, <2>2 DEF Held
  <2>4. faults' \in Nat /\ rx' \in {"read", "lock", "in"}
        /\ tx' \in {"born", "sleep", "woken", "loop", "owner", "sendto", "relock", "in", "mark"}
    BY <1>1, <2>1 DEF Types
  <2> QED
    BY <1>0, <1>1, <1>2, <1>3, <2>3, <2>4
<1>5. CASE themutex # "rx"
  <2>1. rx' = rx /\ themutex' = themutex /\ tx' = "mark"
    BY <1>5 DEF RcvReturn
  <2>2. tx = "in" /\ rx # "in"
    BY <1>5 DEF Held
  <2>3. rx' = "lock" => rcvp'.len > 0
    BY <2>1 DEF RcvReturn, Held
  <2>4. /\ themutex = "tx" /\ io = "wait" /\ rcv'.pc = "idle" /\ rcv'.bits = {}
    BY <1>1, <1>2, <2>2 DEF Held
  <2>5. Held'
    BY <2>1, <2>2, <2>3, <2>4 DEF Held
  <2>6. faults' \in Nat /\ rx' \in {"read", "lock", "in"}
        /\ tx' \in {"born", "sleep", "woken", "loop", "owner", "sendto", "relock", "in", "mark"}
    BY <1>1, <2>1 DEF Types
  <2> QED
    BY <1>0, <1>1, <1>2, <1>3, <2>5, <2>6
<1> QED
  BY <1>4, <1>5

\* Everything the receiving thread leaves alone keeps its type.
LEMMA ReceiveBase ==
  ASSUME Types, Held, Receive \/ RcvError \/ RcvBadBuffer \/ RcvNoPeek
  PROVE  Types' /\ Held'
<1> USE XeAssumption
<1>1. rcv.bits \in SUBSET Bits /\ rcv.bits \in SUBSET {"RXI"} /\ rcv \in Receiving /\ rcv.first \in BOOLEAN
  BY DEF Types, Receiving, Bits
<1>2. UNCHANGED <<run, mode, fmt, io, iocmd, did, tdrpa, tbuf, xmt, tdrca, sent, narr, tring,
                  asked, up, txin, rxout, scan, asm, nq, last, polled, ncmd>>
  BY DEF Receive, RcvError, RcvFilter, RcvDesc, RcvOverflow, RcvPeek, RcvHand, RcvBadBuffer,
       RcvNoPeek, RcvDone, RcvUnch, iov, drv
<1>3. NextRd \in 0 .. NR - 1
  BY NextIs DEF NextRd, Types
<1>4. rring[rdrca] \in Descriptors
  BY DEF Types
<1>5. CASE RcvFilter
  <2>1. \E b \in SUBSET Bits : RcvReturn(b, 0)
    BY <1>5 DEF RcvFilter, Bits
  <2>2. rcv.pc # "idle" /\ rcbinh' \in BOOLEAN /\ UNCHANGED <<rdrca, rring>>
    BY <1>5 DEF RcvFilter, Types
  <2> QED
    BY <1>2, <2>1, <2>2, Returns DEF Types
<1>6. CASE RcvOverflow
  <2>1. \E b \in SUBSET Bits : RcvReturn(b, 0)
    BY <1>1, <1>6 DEF RcvOverflow, Bits
  <2>2. rcv.pc # "idle" /\ rcbinh' \in BOOLEAN /\ UNCHANGED <<rdrca, rring>>
    BY <1>6 DEF RcvOverflow, RcvLook, Types
  <2> QED
    BY <1>2, <2>1, <2>2, Returns DEF Types
<1>7. CASE RcvDone
  <2>1. RcvReturn(rcv.bits, 0) /\ rcv.pc # "idle" /\ UNCHANGED <<rcbinh, rdrca, rring>>
    BY <1>7 DEF RcvDone
  <2> QED
    BY SMTT(30), <1>1, <1>2, <2>1, Returns DEF Types
<1>8. CASE RcvError
  <2>1. RcvReturn({"SERI"}, 1) /\ rcv.pc # "idle" /\ UNCHANGED <<rcbinh, rdrca, rring>>
    BY <1>8 DEF RcvError, RcvLook
  <2>2. {"SERI"} \in SUBSET Bits
    BY DEF Bits
  <2> QED
    BY <1>2, <2>1, <2>2, Returns DEF Types
<1>9. CASE RcvDesc \/ RcvBadBuffer \/ RcvPeek \/ RcvNoPeek \/ RcvHand
  <2>1. UNCHANGED <<init, hi, rset, hijk, pcmd, themutex, rx, tx, rcvp, rcbinh>> /\ faults' \in Nat
    BY SMTT(30), <1>9 DEF RcvDesc, RcvBadBuffer, RcvPeek, RcvNoPeek, RcvHand, regs, Types
  <2>2. CASE RcvDesc \/ RcvBadBuffer
    <3>1. rcvp.pkt \in Packets /\ None \in Packets
      BY PacketFacts DEF Types, Incoming, Empty
    <3>2. rring' \in [0 .. NR - 1 -> Descriptors]
      <4>1. rring \in [0 .. NR - 1 -> Descriptors]
        BY DEF Types
      <4>2. \A x \in Packets : [rring[rdrca] EXCEPT !.pkt = x] \in Descriptors
        BY <1>4 DEF Descriptors
      <4>3. \E x \in Packets : rring' = [rring EXCEPT ![rdrca] = [@ EXCEPT !.pkt = x]]
        BY <2>2, <3>1 DEF RcvDesc, RcvBadBuffer
      <4> QED
        BY <4>1, <4>2, <4>3
    <3>3. /\ rcv' \in Receiving /\ rcv'.pc = "peek" /\ rcv.pc \in {"filter", "desc"} /\ rcv'.togo = rcv.togo
          /\ run /\ fmt /\ rdrca' = rdrca
      BY <1>1, <2>2 DEF RcvDesc, RcvBadBuffer, RcvLook, Accepted, Receiving, Held
    <3> QED
      BY <1>2, <2>1, <3>2, <3>3 DEF Types, Held
  <2>3. CASE RcvPeek \/ RcvNoPeek
    <3>1. Chop \in BOOLEAN
      BY DEF Chop
    <3>2. rring' \in [0 .. NR - 1 -> Descriptors]
      <4>1. rring \in [0 .. NR - 1 -> Descriptors]
        BY DEF Types
      <4>2. \A x \in BOOLEAN : [rring[rdrca] EXCEPT !.err = x] \in Descriptors
        BY <1>4 DEF Descriptors
      <4>3. \E x \in BOOLEAN : rring' = [rring EXCEPT ![rdrca] = [@ EXCEPT !.err = x]]
        BY <2>3, <3>1 DEF RcvPeek, RcvNoPeek
      <4> QED
        BY <4>1, <4>2, <4>3
    <3>3. PICK n : /\ n = (IF Chop \/ RcvNoPeek THEN 1 ELSE rcv.togo)
                   /\ rcv' = [rcv EXCEPT !.pc = "hand", !.togo = n] /\ rcv.pc = "peek" /\ rdrca' = rdrca
      BY <2>3 DEF RcvPeek, RcvNoPeek
    <3>4. n \in Nat /\ n > 0
      BY <1>1, <3>3 DEF Receiving, Held
    <3>5. rcv' \in Receiving /\ rcv'.pc = "hand" /\ rcv'.togo > 0
      BY <1>1, <3>3, <3>4 DEF Receiving
    <3> QED
      BY SMTT(30), <1>2, <2>1, <3>2, <3>3, <3>5 DEF Types, Held
  <2>4. CASE RcvHand
    <3>1. /\ rring \in [0 .. NR - 1 -> Descriptors] /\ rdrca \in 0 .. NR - 1
          /\ rcv.first \in BOOLEAN /\ (rcv.togo = 1 /\ ~ rring[rdrca].err) \in BOOLEAN
      BY <1>1 DEF Receiving, Types
    <3>2. rring' \in [0 .. NR - 1 -> Descriptors]
      <4>1. \A s, e \in BOOLEAN :
              [rring[rdrca] EXCEPT !.own = FALSE, !.stp = s, !.enp = e] \in Descriptors
        BY <1>4 DEF Descriptors
      <4>2. rring' = [rring EXCEPT ![rdrca] =
                        [@ EXCEPT !.own = FALSE, !.stp = rcv.first, !.enp = (rcv.togo = 1 /\ ~ rring[rdrca].err)]]
        BY <2>4, <3>1 DEF RcvHand
      <4> QED
        BY <3>1, <4>1, <4>2
    <3>3. rcv.togo > 0 /\ rcv.pc = "hand"
      BY <2>4 DEF RcvHand, Held
    <3>4. /\ rcv' \in Receiving /\ rcv'.pc \in {"done", "desc"} /\ (rcv'.pc = "desc" => rcv'.togo > 0)
      BY <1>1, <2>4, <3>3 DEF RcvHand, Receiving, Bits
    <3>5. rdrca' \in 0 .. NR - 1
      BY <1>3, <2>4 DEF RcvHand
    <3> QED
      BY <1>2, <2>1, <3>2, <3>3, <3>4, <3>5 DEF Types, Held
  <2> QED
    BY <1>9, <2>2, <2>3, <2>4
<1> QED
  BY <1>5, <1>6, <1>7, <1>8, <1>9 DEF Receive

\* The other threads of the daemon, and INIT.
LEMMA IoBase ==
  ASSUME Types, Held, InitOn \/ InitOff \/ IoRead \/ IoDo \/ IoTimeout
  PROVE  Types' /\ Held'
<1> USE XeAssumption
<1>1. CASE InitOn \/ InitOff
  <2>1. UNCHANGED <<run, rcbinh, mode, fmt, themutex, io, iocmd, tx, did, tdrpa, tbuf, xmt, tdrca, sent,
                    rx, rcvp, rcv, rdrca, narr, tring, rring, txin, rxout, asm, nq, last, faults>>
    BY <1>1 DEF InitOn, InitOff, ctl, iov, txv, rxv, drv
  <2>2. /\ init' \in {"off", "on"} /\ hi' \in SUBSET Bits /\ rset' \in BOOLEAN /\ hijk' \in BOOLEAN
        /\ pcmd' \in Commands /\ asked' \in Commands \cup {"none", "RESET"}
        /\ up' \in BOOLEAN /\ scan' \in BOOLEAN /\ ncmd' \in Nat
    <3>1. CASE InitOn
      <4>1. ncmd \in Nat /\ "NOP" \in Commands
        BY DEF Types, Commands
      <4>2. /\ init' = "on" /\ hi' = {} /\ rset' = FALSE /\ hijk' = FALSE /\ pcmd' = "NOP"
            /\ ncmd' = ncmd + 1 /\ asked' = "RESET" /\ up' = FALSE /\ scan' = FALSE
        BY <3>1 DEF InitOn
      <4>3. hi' \in SUBSET Bits /\ ncmd' \in Nat
        BY <4>1, <4>2
      <4>4. rset' \in BOOLEAN /\ hijk' \in BOOLEAN /\ up' \in BOOLEAN /\ scan' \in BOOLEAN
        BY <4>2, Zenon
      <4>5. pcmd' \in Commands /\ asked' \in Commands \cup {"none", "RESET"} /\ init' \in {"off", "on"}
        BY <4>1, <4>2, Zenon
      <4> QED
        BY <4>3, <4>4, <4>5
    <3>2. CASE InitOff
      BY <3>2 DEF InitOff, drv, Types
    <3> QED
      BY <1>1, <3>1, <3>2
  <2> QED
    BY <2>1, <2>2 DEF Types, Held
<1>2. CASE IoRead
  <2>1. UNCHANGED <<init, hi, rset, hijk, pcmd, run, rcbinh, mode, fmt, tx, did, tdrpa, tbuf, xmt, tdrca, sent,
                    rx, rcvp, rcv, rdrca, narr, tring, rring, faults,
                    asked, up, txin, rxout, scan, asm, nq, last, polled, ncmd>>
    BY <1>2 DEF IoRead, regs, ctl, txv, rxv, drv
  <2>2. io' = "do" /\ themutex = "none" /\ themutex' = "io" /\ iocmd' \in Commands \cup {"RESET"}
    BY <1>2 DEF IoRead, Types
  <2> QED
    BY <2>1, <2>2 DEF Types, Held
<1>3. CASE IoDo \/ IoTimeout
  <2>1. UNCHANGED <<did, tdrpa, tbuf, xmt, sent, rx, rcvp, rcv, narr, tring, rring,
                    asked, up, txin, rxout, scan, asm, nq, last, polled, ncmd>>
    BY <1>3 DEF IoDo, IoTimeout, txv, rxv, drv
  <2>2. /\ io = "do" /\ io' = "wait" /\ themutex' = "none" /\ iocmd' \in Commands \cup {"RESET"} /\ faults' \in Nat
    BY <1>3 DEF IoDo, IoTimeout, Types, Commands
  <2>3. \E b \in SUBSET Bits, c \in SUBSET {"RSET", "HIJK"} : WritePcsr0(b, c)
    BY <1>3 DEF IoDo, IoTimeout, Bits
  <2>4. /\ run' \in BOOLEAN /\ rcbinh' \in BOOLEAN /\ fmt' \in BOOLEAN /\ mode' \in SUBSET {"LOOP", "DRDC", "PROM"}
        /\ rdrca' \in 0 .. NR - 1 /\ tdrca' \in 0 .. NT - 1 /\ (tx' = tx \/ (tx = "sleep" /\ tx' = "woken"))
    <3>1. CASE IoTimeout
      BY <1>3, <3>1 DEF IoTimeout, Types, txv, rxv, ctl
    <3>2. CASE IoDo
      <4>1. 0 \in 0 .. NR - 1 /\ 0 \in 0 .. NT - 1
        OBVIOUS
      <4>2. WakeTransmit => tx' = tx \/ (tx = "sleep" /\ tx' = "woken")
        BY DEF WakeTransmit
      <4>3. \/ DoReset \/ Start \/ Pdmd \/ SetRings \/ SetMode \/ UNCHANGED <<ctl, rdrca, tdrca, tx>>
            \/ run' = FALSE /\ UNCHANGED <<rcbinh, mode, fmt, rdrca, tdrca, tx>>
        BY <3>2 DEF IoDo
      <4> QED
        BY <4>1, <4>2, <4>3 DEF Types, ctl, DoReset, Start, Pdmd, SetRings, SetMode
    <3> QED
      BY <1>3, <3>1, <3>2
  <2>5. themutex = "io" /\ tx \notin {"loop", "owner", "in", "mark"} /\ rx # "in" /\ rcv.pc = "idle"
    BY <2>2 DEF Held
  <2>6. /\ init' = init /\ pcmd' = pcmd /\ hi' \in SUBSET Bits /\ rset' \in BOOLEAN /\ hijk' \in BOOLEAN
    BY <2>3, Pcsr0
  <2>7. Types'
    BY SMTT(30), <2>1, <2>2, <2>4, <2>6 DEF Types
  <2>8. tx' \notin {"loop", "owner", "in", "mark"}
    BY <2>4, <2>5
  <2>9. Held'
    BY <2>1, <2>2, <2>5, <2>8 DEF Held
  <2> QED
    BY <2>7, <2>9
<1> QED
  BY <1>1, <1>2, <1>3

\* The transmit thread; the packet of a loopback; what arrives.
LEMMA TransmitBase ==
  ASSUME Types, Held,
         Transmit \/ TxError \/ TxUnibusTimeout \/ TxStatusFails \/ RxLock
         \/ \E p \in {<<1, "mine">>, <<2, "mine">>, <<1, "other">>} : Arrive(p[1], p[2])
  PROVE  Types' /\ Held'
<1> USE XeAssumption
<1>1. /\ UNCHANGED <<run, rcbinh, mode, fmt, io, iocmd, rdrca, rring,
                     asked, up, txin, rxout, scan, asm, nq, last, polled, ncmd>>
  BY DEF Transmit, TxError, TxUnibusTimeout, TxStatusFails, TxBorn, TxWoken, TxSleep, TxWords,
       TxIdle, TxNoStart, TxCopy, TxSend,
         TxRelock, TxMark, TxUnch, RxLock, Arrive, ctl, iov, drv
<1>2. NextTd \in 0 .. NT - 1 /\ tring[tdrca] \in Descriptors /\ tring[tdrpa] \in Descriptors
  BY NextIs DEF NextTd, Types
<1>3. /\ tring[tdrca].pkt \in Packets
      /\ [tring EXCEPT ![tdrca].err = TRUE] \in [0 .. NT - 1 -> Descriptors]
      /\ [tring EXCEPT ![tdrpa].own = FALSE] \in [0 .. NT - 1 -> Descriptors]
  BY <1>2 DEF Descriptors, Types
<1>4. None \in Packets /\ 0 \in 0 .. NT - 1 /\ {"SERI"} \in SUBSET Bits /\ {"TXI"} \in SUBSET Bits
  BY PacketFacts DEF Bits
<1>5. ASSUME TxBorn \/ TxWoken \/ TxSleep \/ TxWords \/ TxSend \/ TxRelock PROVE Types' /\ Held'
  <2>1. UNCHANGED <<init, hi, rset, hijk, pcmd, tdrpa, xmt, tdrca, rx, rcvp, rcv, narr, tring, faults>>
    BY <1>5 DEF TxBorn, TxWoken, TxSleep, TxWords, TxSend, TxRelock, TxUnch, regs
  <2>2. did' \in BOOLEAN /\ tbuf' \in Packets /\ sent' \in Nat
        /\ tx' \in {"born", "loop", "sleep", "owner", "relock", "mark"}
    <3>1. xmt[2] \in Nat /\ did \in BOOLEAN /\ tbuf \in Packets /\ sent \in Nat
      BY PacketFacts DEF Types
    <3>2. CASE TxBorn \/ TxWoken \/ TxSleep \/ TxRelock
      BY <3>1, <3>2 DEF TxBorn, TxWoken, TxSleep, TxRelock
    <3>3. CASE TxWords \/ TxSend
      BY <1>3, <3>1, <3>3 DEF TxWords, TxSend
    <3> QED
      BY <1>5, <3>2, <3>3
  <2>3. Held'
    BY <1>1, <1>5, <2>1 DEF TxBorn, TxWoken, TxSleep, TxWords, TxSend, TxRelock, Held
  <2> QED
    BY <1>1, <2>1, <2>2, <2>3 DEF Types
<1>6. ASSUME TxIdle \/ TxError \/ TxStatusFails PROVE Types' /\ Held'
  <2>1. UNCHANGED <<themutex, sent, rx, rcvp, rcv, narr, tring>> /\ tdrca' \in 0 .. NT - 1
    BY <1>2, <1>6 DEF TxIdle, TxError, TxStatusFails, TxUnch, Types
  <2>2. /\ did' \in BOOLEAN /\ tbuf' = None /\ xmt' = None /\ tdrpa' = 0 /\ tx' = "loop" /\ faults' \in Nat
        /\ \E b \in SUBSET Bits : WritePcsr0(b, {})
    <3>1. faults \in Nat
      BY DEF Types
    <3>2. did' \in BOOLEAN /\ TxForget /\ tx' = "loop"
      BY <1>6 DEF TxIdle, TxError, TxStatusFails
    <3>3. faults' \in Nat
      BY <1>6, <3>1 DEF TxIdle, TxError, TxStatusFails
    <3>4. WritePcsr0({"TXI"}, {}) \/ WritePcsr0({"SERI"}, {})
      BY <1>6 DEF TxIdle, TxError, TxStatusFails
    <3> QED
      BY <1>4, <3>2, <3>3, <3>4 DEF TxForget
  <2>3. tx \in {"loop", "owner", "mark"}
    BY <1>6 DEF TxIdle, TxError, TxStatusFails
  <2>4. Held'
    BY <1>1, <2>1, <2>2, <2>3 DEF Held
  <2>5. PICK b \in SUBSET Bits : WritePcsr0(b, {})
    BY <2>2
  <2>6. init' = init /\ pcmd' = pcmd /\ hi' \in SUBSET Bits /\ rset' \in BOOLEAN /\ hijk' \in BOOLEAN
    BY <2>5, Pcsr0
  <2> QED
    BY <1>1, <1>4, <2>1, <2>2, <2>4, <2>6 DEF Types
<1>7. ASSUME TxNoStart \/ TxMark \/ TxUnibusTimeout PROVE Types' /\ Held'
  <2>1. UNCHANGED <<init, hi, rset, hijk, pcmd, themutex, sent, rx, rcvp, rcv, narr>>
    BY <1>7 DEF TxNoStart, TxMark, TxUnibusTimeout, TxStatusFails, TxUnch, regs
  <2>2. /\ tx \in {"owner", "mark"} /\ tx' \in {"loop", "mark"} /\ tring' \in [0 .. NT - 1 -> Descriptors]
        /\ did' \in BOOLEAN /\ tbuf' \in Packets /\ xmt' \in Packets /\ tdrpa' \in 0 .. NT - 1
        /\ tdrca' \in 0 .. NT - 1 /\ faults' \in Nat
    <3>1. /\ faults \in Nat /\ did \in BOOLEAN /\ tbuf \in Packets /\ xmt \in Packets
          /\ tdrca \in 0 .. NT - 1
      BY DEF Types
    <3>2. CASE TxNoStart
      BY <1>2, <1>3, <1>4, <3>1, <3>2 DEF TxNoStart, TxForget
    <3>3. CASE TxMark
      BY <1>2, <1>3, <1>4, <3>1, <3>3 DEF TxMark, TxForget
    <3>4. CASE TxUnibusTimeout
      BY <1>2, <1>3, <1>4, <3>1, <3>4 DEF TxUnibusTimeout
    <3> QED
      BY <1>7, <3>2, <3>3, <3>4
  <2>3. Held'
    BY <1>1, <2>1, <2>2 DEF Held
  <2> QED
    BY SMTT(30), <1>1, <2>1, <2>2, <2>3 DEF Types
<1>8. ASSUME TxCopy PROVE Types' /\ Held'
  <2>1. UNCHANGED <<init, hi, rset, hijk, pcmd, did, tbuf, narr, tring>> /\ faults' \in Nat
    BY <1>8 DEF TxCopy, TxUnch, regs, Types
  <2>2. tdrpa' \in 0 .. NT - 1 /\ tdrca' \in 0 .. NT - 1 /\ xmt' \in Packets /\ sent' \in Nat
    BY <1>2, <1>3, <1>8, PacketFacts DEF TxCopy, Types
  <2>3. tx = "owner" /\ rcv.pc = "idle" /\ rx # "in" /\ rcv.bits = {} /\ run /\ fmt
    BY <1>8 DEF TxCopy, Held
  <2>4. CASE tx' # "in"
    <3>0. \/ tx' = "mark" /\ UNCHANGED <<themutex, rx, rcvp, rcv>>
          \/ tx' = "sendto" /\ themutex' = "none" /\ UNCHANGED <<rx, rcvp, rcv>>
          \/ tx' = "in"
      BY <1>8, Zenon DEF TxCopy
    <3>1. /\ UNCHANGED <<rx, rcvp, rcv>>
          /\ \/ tx' = "mark" /\ themutex' = themutex
             \/ tx' = "sendto" /\ themutex' = "none"
      BY <2>4, <3>0
    <3>2. Held'
      BY <1>1, <2>3, <3>1 DEF Held
    <3> QED
      BY SMTT(30), <1>1, <2>1, <2>2, <3>1, <3>2 DEF Types
  <2>5. CASE tx' = "in"
    <3>1. PICK to \in {"mine", "other"} : rcvp' = [pkt |-> <<"loop", xmt'[2]>>, len |-> 1, to |-> to]
      BY <1>8, <2>5 DEF TxCopy
    <3>2. rcvp' \in Incoming /\ rcvp'.len = 1
      BY <2>2, <3>1, PacketFacts DEF Incoming, Sources
    <3>3. UNCHANGED <<themutex, rx>> /\ rcv' = RcvStart(rcvp')
      BY <1>8, <2>5 DEF TxCopy
    <3>4. rcv' = [pc |-> "filter", togo |-> 1, first |-> TRUE, bits |-> {}]
      BY <3>2, <3>3 DEF RcvStart
    <3>5. rcv' \in Receiving /\ rcv'.pc = "filter" /\ rcv'.togo > 0 /\ rcv'.first /\ rcv'.bits = {}
      BY <3>4 DEF Receiving
    <3>6. Held'
      BY <1>1, <2>3, <2>5, <3>2, <3>3, <3>5 DEF Held
    <3> QED
      BY SMTT(30), <1>1, <2>1, <2>2, <2>5, <3>2, <3>3, <3>5, <3>6 DEF Types
  <2> QED
    BY <2>4, <2>5
<1>9. ASSUME RxLock PROVE Types' /\ Held'
  <2>1. UNCHANGED <<init, hi, rset, hijk, pcmd, did, tdrpa, tbuf, xmt, tdrca, sent, tx, tring, rcvp, narr, faults>>
    BY <1>9 DEF RxLock, regs, txv
  <2>2. rx = "lock" /\ rx' = "in" /\ themutex = "none" /\ themutex' = "rx" /\ rcv' = RcvStart(rcvp)
    BY <1>9 DEF RxLock
  <2>3. rcvp.len \in Nat /\ rcvp.len > 0
    BY <2>2 DEF Held, Types, Incoming, Empty
  <2>4. rcv' \in Receiving /\ rcv'.pc = "filter" /\ rcv'.togo > 0 /\ rcv'.first /\ rcv'.bits = {}
    BY <2>2, <2>3 DEF RcvStart, Receiving
  <2>5. Held'
    BY <1>1, <2>1, <2>2, <2>4 DEF Held
  <2> QED
    BY <1>1, <2>1, <2>2, <2>4, <2>5 DEF Types
<1>10. ASSUME NEW p \in {<<1, "mine">>, <<2, "mine">>, <<1, "other">>}, Arrive(p[1], p[2])
       PROVE Types' /\ Held'
  <2>1. UNCHANGED <<init, hi, rset, hijk, pcmd, did, tdrpa, tbuf, xmt, tdrca, sent, tx, tring, rcv, themutex, faults>>
    BY <1>10 DEF Arrive, regs, txv
  <2>2. rx = "read" /\ rx' = "lock" /\ narr' = narr + 1 /\ rcvp' = [pkt |-> <<"wire", narr + 1>>, len |-> p[1], to |-> p[2]]
    BY <1>10 DEF Arrive
  <2>3. <<"wire", narr + 1>> \in Packets /\ p[1] \in Nat \ {0} /\ p[2] \in {"mine", "other"}
    BY <1>10, PacketFacts DEF Types, Sources
  <2>4. rcvp' \in Incoming /\ rcvp'.len > 0
    BY <2>2, <2>3 DEF Incoming
  <2>5. Held'
    BY <1>1, <2>1, <2>2, <2>4 DEF Held
  <2> QED
    BY <1>1, <2>1, <2>2, <2>4, <2>5 DEF Types
<1> QED
  BY <1>5, <1>6, <1>7, <1>8, <1>9, <1>10 DEF Transmit
\* The driver's part of the variables.
LEMMA DriverBase ==
  ASSUME Types, Held,
         (\E c \in Commands : GiveCommand(c)) \/ GiveReset \/ Driver \/ \E w \in {"whole", "halves", "long"} : Queue(w)
  PROVE  Types' /\ Held'
<1> USE XeAssumption
<1>1. /\ UNCHANGED <<run, rcbinh, mode, fmt, themutex, io, iocmd, tx, did, tdrpa, tbuf, xmt, tdrca, sent,
                     rx, rcvp, rcv, rdrca, narr>> /\ faults' \in Nat
  <2>1. UNCHANGED <<ctl, themutex, iov, txv, rxv>>
    BY DEF GiveCommand, GiveReset, Driver, SeeAnswer, NopOver, AckRings, TakePacket, ScanEnd,
         Queue,
       DrvUnch, DaemonUnch
  <2>2. faults' = faults \/ faults' = faults + 1
    BY DEF GiveCommand, GiveReset, Driver, SeeAnswer, NopOver, AckRings, TakePacket, ScanEnd,
         Queue, DrvUnch
  <2>3. faults \in Nat
    BY DEF Types
  <2> QED
    BY <2>1, <2>2, <2>3 DEF ctl, iov, txv, rxv
<1>2. Held'
  BY <1>1 DEF Held
<1>3. /\ init' = init /\ init \in {"off", "on"} /\ hi \in SUBSET Bits
  BY DEF GiveCommand, GiveReset, Driver, SeeAnswer, NopOver, AckRings, TakePacket, ScanEnd,
       Queue, DrvUnch, DaemonUnch,
         regs, Types
<1>4. /\ [Free EXCEPT !.own = TRUE] \in Descriptors /\ Free \in Descriptors
  BY PacketFacts DEF Free, Descriptors
<1>5. ASSUME NEW c \in Commands, GiveCommand(c) PROVE Types'
  <2>1. UNCHANGED <<init, hi, rset, up, scan, nq, last>>
    BY <1>5 DEF GiveCommand
  <2>2. hijk' \in BOOLEAN /\ pcmd' \in Commands /\ asked' \in Commands /\ ncmd' \in Nat
    <3>1. ncmd \in Nat
      BY DEF Types
    <3>2. hijk' = TRUE /\ pcmd' = c /\ asked' = c /\ ncmd' = ncmd + 1
      BY <1>5 DEF GiveCommand
    <3>3. hijk' \in BOOLEAN
      BY <3>2, Zenon
    <3> QED
      BY <3>1, <3>2, <3>3
  <2>3. /\ rring' \in [0 .. NR - 1 -> Descriptors] /\ tring' \in [0 .. NT - 1 -> Descriptors]
        /\ txin' \in 0 .. NT - 1 /\ rxout' \in 0 .. NR - 1 /\ asm' \in Packets
    <3>1. /\ rring \in [0 .. NR - 1 -> Descriptors] /\ tring \in [0 .. NT - 1 -> Descriptors]
          /\ txin \in 0 .. NT - 1 /\ rxout \in 0 .. NR - 1 /\ asm \in Packets
      BY DEF Types
    <3>2. CASE UNCHANGED <<rring, tring, txin, rxout, asm>>
      BY <3>1, <3>2
    <3>3. CASE /\ rring' = [i \in DOMAIN rring |-> [Free EXCEPT !.own = TRUE]]
               /\ tring' = [i \in DOMAIN tring |-> Free]
               /\ txin' = 0 /\ rxout' = 0 /\ asm' = None
      <4>1. 0 \in 0 .. NT - 1 /\ 0 \in 0 .. NR - 1 /\ None \in Packets
        BY PacketFacts
      <4>2. DOMAIN rring = 0 .. NR - 1 /\ DOMAIN tring = 0 .. NT - 1
        BY <3>1
      <4> QED
        BY <1>4, <3>3, <4>1, <4>2
    <3> QED
      BY <1>5, <3>2, <3>3 DEF GiveCommand
  <2> QED
    BY SMTT(30), <1>1, <2>1, <2>2, <2>3 DEF Types
<1>6. CASE GiveReset
  <2>1. UNCHANGED <<init, txin, rxout, asm, nq, last, polled, tring, rring>>
    BY <1>6 DEF GiveReset
  <2>2. /\ hi' = {} /\ rset' = TRUE /\ hijk' = TRUE /\ pcmd' = "NOP"
        /\ asked' = "RESET" /\ up' = FALSE /\ scan' = FALSE /\ ncmd' = ncmd + 1
    BY <1>6 DEF GiveReset
  <2>3. rset' \in BOOLEAN /\ hijk' \in BOOLEAN /\ up' \in BOOLEAN /\ scan' \in BOOLEAN
    BY <2>2, Zenon
  <2>4. ncmd' \in Nat /\ hi' \in SUBSET Bits
    BY <2>2 DEF Types
  <2>5. pcmd' \in Commands /\ asked' \in Commands \cup {"none", "RESET"}
    BY <2>2 DEF Commands
  <2> QED
    BY <1>1, <1>2, <2>1, <2>3, <2>4, <2>5 DEF Types
<1>7. CASE SeeAnswer \/ NopOver \/ AckRings \/ ScanEnd
  <2>1. UNCHANGED <<init, rset, hijk, pcmd, txin, rxout, asm, nq, last, ncmd, tring, rring>>
    BY <1>7 DEF SeeAnswer, NopOver, AckRings, ScanEnd, regs
  <2>2. hi' \in SUBSET Bits
    BY <1>3, <1>7 DEF SeeAnswer, NopOver, AckRings, ScanEnd, regs
  <2>3. asked' \in Commands \cup {"none", "RESET"}
    BY <1>7 DEF SeeAnswer, NopOver, AckRings, ScanEnd, Types
  <2>4. up' \in BOOLEAN /\ scan' \in BOOLEAN
    <3>1. up \in BOOLEAN /\ scan \in BOOLEAN /\ fmt \in BOOLEAN
      BY DEF Types
    <3>2. CASE SeeAnswer
      <4>1. up' = CASE asked = "START" -> fmt [] asked \in {"STOP", "SELF_TEST"} -> FALSE [] OTHER -> up
        BY <3>2 DEF SeeAnswer
      <4>2. up' \in BOOLEAN
        BY <3>1, <4>1, Zenon
      <4>3. scan' \in BOOLEAN
        BY <3>2, Zenon DEF SeeAnswer
      <4> QED
        BY <4>2, <4>3
    <3>3. CASE NopOver
      BY <3>1, <3>3 DEF NopOver
    <3>4. CASE AckRings
      BY <3>1, <3>4, Zenon DEF AckRings
    <3>5. CASE ScanEnd
      BY <3>1, <3>5, Zenon DEF ScanEnd
    <3> QED
      BY <1>7, <3>2, <3>3, <3>4, <3>5
  <2> QED
    BY <1>1, <1>2, <2>1, <2>2, <2>3, <2>4 DEF Types
<1>8. CASE TakePacket
  <2>1. UNCHANGED <<init, hi, rset, hijk, pcmd, asked, up, txin, scan, nq, polled, ncmd, tring>>
    BY <1>8 DEF TakePacket, regs
  <2>2. rring[rxout] \in Descriptors /\ rxout \in 0 .. NR - 1 /\ rring \in [0 .. NR - 1 -> Descriptors]
    BY DEF Types
  <2>3. rring[rxout].pkt \in Packets
    BY <2>2 DEF Descriptors
  <2>4. asm' \in Packets
    BY <1>8, <2>3, PacketFacts DEF TakePacket
  <2>5. last' \in [Sources -> Nat]
    BY <1>8, <2>3, PacketFacts DEF TakePacket, Types
  <2>6. rxout' \in 0 .. NR - 1
    BY <1>8, <2>2, NextIs DEF TakePacket
  <2>7. rring' \in [0 .. NR - 1 -> Descriptors]
    BY <1>4, <1>8, <2>2 DEF TakePacket
  <2> QED
    BY <1>1, <1>2, <2>1, <2>4, <2>5, <2>6, <2>7 DEF Types
<1>9. ASSUME NEW w \in {"whole", "halves", "long"}, Queue(w) PROVE Types'
  <2>1. UNCHANGED <<init, hi, rset, hijk, pcmd, asked, up, rxout, scan, asm, last, polled, ncmd, rring>>
    BY <1>9 DEF Queue, regs
  <2>2. nq \in Nat /\ txin \in 0 .. NT - 1 /\ tring \in [0 .. NT - 1 -> Descriptors]
    BY DEF Types
  <2>3. \A a, b \in BOOLEAN :
          [own |-> TRUE, pkt |-> <<"loop", nq + 1>>, stp |-> a, enp |-> b, err |-> FALSE] \in Descriptors
    BY <2>2, PacketFacts DEF Descriptors, Sources
  <2>4. nq' \in Nat /\ tring' \in [0 .. NT - 1 -> Descriptors] /\ txin' \in 0 .. NT - 1
    <3>0. nq' = nq + 1
      BY <1>9 DEF Queue
    <3>1. CASE w # "halves"
      <4>1. /\ tring' = [tring EXCEPT ![txin] =
                 [own |-> TRUE, pkt |-> <<"loop", nq + 1>>, stp |-> w = "whole", enp |-> TRUE, err |-> FALSE]]
            /\ txin' = (txin + 1) % NT
        BY <1>9, <3>1 DEF Queue
      <4>2. tring' \in [0 .. NT - 1 -> Descriptors]
        BY <2>2, <2>3, <4>1
      <4>3. NT \in Nat \ {0} /\ (txin + 1) % NT \in 0 .. NT - 1
        BY <2>2, NextIs
      <4>4. nq' \in Nat /\ txin' \in 0 .. NT - 1
        BY <2>2, <3>0, <4>1, <4>3
      <4> QED
        BY <4>2, <4>4
    <3>2. CASE w = "halves"
      <4>1. NT \in Nat \ {0, 1}
        BY <1>9, <3>2 DEF Queue
      <4>2. (txin + 1) % NT \in 0 .. NT - 1 /\ (txin + 2) % NT \in 0 .. NT - 1
        BY <2>2, <4>1, NextIs, NextNextIs
      <4>3. /\ tring' = [tring EXCEPT
                 ![txin] = [own |-> TRUE, pkt |-> <<"loop", nq + 1>>, stp |-> TRUE, enp |-> FALSE, err |-> FALSE],
                 ![(txin + 1) % NT] =
                   [own |-> TRUE, pkt |-> <<"loop", nq + 1>>, stp |-> FALSE, enp |-> TRUE, err |-> FALSE]]
        BY <1>9, <3>2 DEF Queue
      <4>5. txin' = (txin + 2) % NT
        BY <1>9, <3>2 DEF Queue
      <4>6. nq' \in Nat
        BY <2>2, <3>0
      <4>4. tring' \in [0 .. NT - 1 -> Descriptors]
        BY <2>2, <2>3, <4>2, <4>3
      <4> QED
        BY <4>2, <4>4, <4>5, <4>6, Zenon
    <3> QED
      BY <3>1, <3>2
  <2> QED
    BY <1>1, <2>1, <2>4 DEF Types
<1> QED
  BY <1>2, <1>5, <1>6, <1>7, <1>8, <1>9 DEF Driver

\* Stuttering.
LEMMA StutterBase == ASSUME Types, Held, UNCHANGED vars PROVE Types' /\ Held'
  BY DEF vars, regs, ctl, iov, txv, rxv, drv, Types, Held

\* Every step keeps the types and the mutex.
LEMMA BaseStep == ASSUME Types, Held, [Next]_vars PROVE Types' /\ Held'
<1>1. CASE InitOn \/ InitOff \/ IoRead \/ IoDo \/ IoTimeout
  BY <1>1, IoBase
<1>2. CASE Receive \/ RcvError \/ RcvBadBuffer \/ RcvNoPeek
  BY <1>2, ReceiveBase
<1>3. CASE \/ Transmit \/ TxError \/ TxUnibusTimeout \/ TxStatusFails \/ RxLock
           \/ \E p \in {<<1, "mine">>, <<2, "mine">>, <<1, "other">>} : Arrive(p[1], p[2])
  BY <1>3, TransmitBase
<1>4. CASE (\E c \in Commands : GiveCommand(c)) \/ GiveReset \/ Driver \/ \E w \in {"whole", "halves", "long"} : Queue(w)
  BY <1>4, DriverBase
<1>5. CASE UNCHANGED vars
  BY <1>5, StutterBase
<1> QED
  BY <1>1, <1>2, <1>3, <1>4, <1>5, Zenon DEF Next
\* Types are respected and the mutex is held by the thread that runs, for rings of any size.
THEOREM TypesHold == Spec => []XeTypeOK
<1>1. Types /\ Held => XeTypeOK
  <2> SUFFICES ASSUME Types, Held PROVE XeTypeOK
    OBVIOUS
  <2>1. {rset, hijk, run, rcbinh, fmt, did, up, scan} \subseteq BOOLEAN
    BY Zenon DEF Types
  <2>2. hi \subseteq {"SERI", "PCEI", "RXI", "TXI", "DNI", "RCBI"} /\ init \in {"off", "on"}
    BY DEF Types, Bits
  <2>3. /\ {pcmd, iocmd} \subseteq Commands \cup {"RESET"} /\ asked \in Commands \cup {"none", "RESET"}
        /\ {rdrca, rxout} \subseteq 0 .. NR - 1 /\ {tdrca, tdrpa, txin} \subseteq 0 .. NT - 1
    BY DEF Types
  <2>4. themutex = (IF io = "do" THEN "io"
                    ELSE IF tx \notin {"born", "sleep", "woken", "sendto", "relock"} THEN "tx"
                    ELSE IF rx = "in" THEN "rx" ELSE "none")
    BY DEF Types, Held
  <2> QED
    BY <2>1, <2>2, <2>3, <2>4 DEF XeTypeOK
<1> QED
  BY <1>1, InitTypes, BaseStep, PTL DEF Spec

------------------------------------------------------------------------------
(* The interrupt bits.                                                     *)

\* RXI is set, or on its way, for a packet the driver is not looking at; INIT and reset stop the driver.
Noticed ==
  /\ init = "on" => hi = {} /\ asked = "RESET"
  /\ asked = "RESET" => ~ up
  /\ faults = 0 /\ (up \/ asked = "START") /\ ~ rring[rxout].own /\ ~ scan => "RXI" \in hi \cup rcv.bits

\* Nothing the driver sees changes, and no bit is lost.
LEMMA StillNoticed ==
  ASSUME Types, Noticed,
         UNCHANGED <<init, asked, up, scan, rxout>>,
         faults' \in Nat, faults' >= faults,
         rring'[rxout].own = rring[rxout].own \/ "RXI" \in rcv'.bits,
         init = "on" => hi' = hi,
         hi \subseteq hi',
         init = "off" /\ faults' = 0 => rcv.bits \subseteq hi' \cup rcv'.bits
  PROVE  Noticed'
<1>1. init = "on" => ~ up /\ asked = "RESET"
  BY DEF Noticed
<1>2. CASE init = "on"
  BY <1>1, <1>2 DEF Noticed
<1>3. CASE init = "off"
  <2> SUFFICES ASSUME faults' = 0, up \/ asked = "START", ~ rring'[rxout].own, ~ scan
               PROVE  "RXI" \in hi' \cup rcv'.bits
    BY <1>3 DEF Noticed
  <2>1. faults = 0
    BY DEF Types
  <2>2. CASE "RXI" \in rcv'.bits
    BY <2>2
  <2>3. CASE rring'[rxout].own = rring[rxout].own
    BY <1>3, <2>1, <2>3 DEF Noticed
  <2> QED
    BY <2>2, <2>3
<1> QED
  BY <1>2, <1>3 DEF Types

\* The bits of a packet reach PCSR0 when gotincoming is over.
LEMMA ReturnNoticed ==
  ASSUME Types, Noticed, NEW bits \in SUBSET Bits, NEW f \in {0, 1}, RcvReturn(bits, f),
         f = 0 => rcv.bits \subseteq bits,
         UNCHANGED <<rring, asked, up, scan, rxout>>
  PROVE  Noticed'
<1>1. WritePcsr0(bits, {}) /\ faults' = faults + f /\ faults \in Nat
  BY DEF RcvReturn, Types
<1>2. /\ init' = init /\ hi \subseteq hi'
      /\ init = "off" => hi' = hi \cup bits
      /\ init = "on" => hi' = hi
  BY <1>1, Pcsr0
<1>3. init = "off" /\ faults' = 0 => rcv.bits \subseteq hi' \cup rcv'.bits
  BY <1>1, <1>2
<1> QED
  BY <1>1, <1>2, <1>3, StillNoticed

\* No step of the daemon loses the bit.
LEMMA DaemonNoticed ==
  ASSUME Types, Held, Noticed, Types', Held',
         \/ InitOn \/ InitOff \/ IoRead \/ IoDo \/ IoTimeout \/ Receive \/ RcvError \/ RcvBadBuffer \/ RcvNoPeek
         \/ Transmit \/ TxError \/ TxUnibusTimeout \/ TxStatusFails \/ RxLock
         \/ \E p \in {<<1, "mine">>, <<2, "mine">>, <<1, "other">>} : Arrive(p[1], p[2])
  PROVE  Noticed'
<1>0. faults \in Nat
  BY DEF Types
<1>1. CASE InitOn \/ InitOff
  <2>1. CASE InitOn
    BY <2>1 DEF InitOn, Noticed
  <2>2. CASE InitOff
    BY <2>2 DEF InitOff, drv, rxv, Noticed
  <2> QED
    BY <1>1, <2>1, <2>2
<1>2. CASE IoRead \/ IoDo \/ IoTimeout
  <2>1. UNCHANGED <<rring, asked, up, scan, rxout, rcv>>
    BY <1>2 DEF IoRead, IoDo, IoTimeout, drv, rxv
  <2>2. faults' \in Nat /\ faults' >= faults
    BY <1>0, <1>2 DEF IoRead, IoDo, IoTimeout
  <2>3. UNCHANGED regs \/ \E b \in SUBSET Bits, c \in SUBSET {"RSET", "HIJK"} : WritePcsr0(b, c)
    <3>1. CASE IoRead
      BY <3>1 DEF IoRead
    <3>2. CASE IoDo \/ IoTimeout
      BY <3>2 DEF IoDo, IoTimeout, Bits
    <3> QED
      BY <1>2, <3>1, <3>2
  <2>4. init' = init /\ hi \subseteq hi' /\ (init = "on" => hi' = hi)
    BY <2>3, Pcsr0 DEF regs
  <2> QED
    BY <2>1, <2>2, <2>4, StillNoticed
<1>3. CASE Receive \/ RcvError \/ RcvBadBuffer \/ RcvNoPeek
  <2>1. rcv.bits \in SUBSET Bits
    BY DEF Types, Receiving, Bits
  <2>2. UNCHANGED <<asked, up, scan, rxout>>
    BY <1>3 DEF Receive, RcvError, RcvFilter, RcvDesc, RcvOverflow, RcvPeek, RcvHand,
         RcvBadBuffer, RcvNoPeek, RcvDone, RcvUnch, drv
  <2>3. CASE RcvFilter
    <3>1. rring' = rring /\ rcv.bits = {}
      BY <2>3 DEF RcvFilter, Held
    <3>2. \E b \in SUBSET Bits : RcvReturn(b, 0)
      BY <2>3 DEF RcvFilter, Bits
    <3> QED
      BY <2>2, <3>1, <3>2, ReturnNoticed
  <2>4. CASE RcvOverflow
    <3>1. rring' = rring
      BY <2>4 DEF RcvOverflow
    <3>2. \E b \in SUBSET Bits : rcv.bits \subseteq b /\ RcvReturn(b, 0)
      BY <2>1, <2>4 DEF RcvOverflow, Bits
    <3> QED
      BY <2>2, <3>1, <3>2, ReturnNoticed
  <2>5. CASE RcvDone
    <3>1. rring' = rring /\ RcvReturn(rcv.bits, 0)
      BY <2>5 DEF RcvDone
    <3> QED
      BY <2>1, <2>2, <3>1, ReturnNoticed
  <2>6. CASE RcvError
    <3>1. rring' = rring /\ RcvReturn({"SERI"}, 1)
      BY <2>6 DEF RcvError
    <3>2. {"SERI"} \in SUBSET Bits
      BY DEF Bits
    <3> QED
      BY <2>2, <3>1, <3>2, ReturnNoticed
  <2>7. CASE RcvDesc \/ RcvBadBuffer \/ RcvPeek \/ RcvNoPeek \/ RcvHand
    <3>0. UNCHANGED <<init, hi>> /\ (faults' = faults \/ faults' = faults + 1)
      BY <2>7 DEF RcvDesc, RcvBadBuffer, RcvPeek, RcvNoPeek, RcvHand, regs
    <3>1. rcv.bits \subseteq rcv'.bits
      <4>1. rcv \in Receiving
        BY DEF Types
      <4>2. CASE RcvDesc \/ RcvBadBuffer
        BY <4>1, <4>2 DEF RcvDesc, RcvBadBuffer, Receiving
      <4>3. CASE RcvPeek \/ RcvNoPeek
        <5>1. rcv' = [rcv EXCEPT !.pc = "hand", !.togo = rcv'.togo]
          BY <4>1, <4>3 DEF RcvPeek, RcvNoPeek, Receiving
        <5> QED
          BY <4>1, <5>1 DEF Receiving
      <4>4. CASE RcvHand
        BY <4>4 DEF RcvHand
      <4> QED
        BY <2>7, <4>2, <4>3, <4>4
    <3>2. rring'[rxout].own = rring[rxout].own \/ "RXI" \in rcv'.bits
      <4>1. rring \in [0 .. NR - 1 -> Descriptors] /\ rxout \in 0 .. NR - 1 /\ rring[rxout] \in Descriptors
        BY DEF Types
      <4>2. CASE RcvDesc \/ RcvBadBuffer
        <5>1. \E x : rring' = [rring EXCEPT ![rdrca] = [@ EXCEPT !.pkt = x]]
          BY <4>2 DEF RcvDesc, RcvBadBuffer
        <5>2. \A x : [rring[rxout] EXCEPT !.pkt = x].own = rring[rxout].own
          BY <4>1 DEF Descriptors
        <5> QED
          BY <4>1, <5>1, <5>2
      <4>3. CASE RcvPeek \/ RcvNoPeek
        <5>1. \E x : rring' = [rring EXCEPT ![rdrca] = [@ EXCEPT !.err = x]]
          BY <4>3 DEF RcvPeek, RcvNoPeek
        <5>2. \A x : [rring[rxout] EXCEPT !.err = x].own = rring[rxout].own
          BY <4>1 DEF Descriptors
        <5> QED
          BY <4>1, <5>1, <5>2
      <4>4. CASE RcvHand
        BY <4>4 DEF RcvHand
      <4> QED
        BY <2>7, <4>2, <4>3, <4>4
    <3> QED
      BY <1>0, <2>2, <3>0, <3>1, <3>2, StillNoticed
  <2> QED
    BY <1>3, <2>3, <2>4, <2>5, <2>6, <2>7 DEF Receive
<1>4. CASE \/ Transmit \/ TxError \/ TxUnibusTimeout \/ TxStatusFails \/ RxLock
           \/ \E p \in {<<1, "mine">>, <<2, "mine">>, <<1, "other">>} : Arrive(p[1], p[2])
  <2>1. UNCHANGED <<rring, asked, up, scan, rxout>>
    BY <1>4 DEF Transmit, TxError, TxUnibusTimeout, TxStatusFails, TxBorn, TxWoken, TxSleep,
         TxWords, TxIdle, TxNoStart, TxCopy, TxSend,
         TxRelock, TxMark, TxUnch, RxLock, Arrive, drv
  <2>2. faults' \in Nat /\ faults' >= faults
    BY <1>0, <1>4 DEF Transmit, TxError, TxUnibusTimeout, TxStatusFails, TxBorn, TxWoken,
         TxSleep, TxWords, TxIdle, TxNoStart, TxCopy,
         TxSend, TxRelock, TxMark, RxLock, Arrive
  <2>3. rcv' = rcv \/ rcv.bits = {}
    <3>1. CASE TxCopy \/ RxLock
      BY <3>1 DEF TxCopy, RxLock, Held
    <3>2. CASE \/ TxBorn \/ TxWoken \/ TxSleep \/ TxWords \/ TxIdle \/ TxNoStart \/ TxSend \/ TxRelock \/ TxMark
               \/ TxError \/ TxUnibusTimeout \/ TxStatusFails
               \/ \E p \in {<<1, "mine">>, <<2, "mine">>, <<1, "other">>} : Arrive(p[1], p[2])
      BY <3>2 DEF TxError, TxUnibusTimeout, TxStatusFails, TxBorn, TxWoken, TxSleep, TxWords,
           TxIdle, TxNoStart, TxSend,
         TxRelock, TxMark, Arrive
    <3> QED
      BY <1>4, <3>1, <3>2 DEF Transmit
  <2>4. UNCHANGED regs \/ \E b \in SUBSET Bits, c \in SUBSET {"RSET", "HIJK"} : WritePcsr0(b, c)
    <3>1. CASE TxIdle \/ TxError \/ TxStatusFails
      BY <3>1 DEF TxIdle, TxError, TxStatusFails, Bits
    <3>2. CASE \/ TxBorn \/ TxWoken \/ TxSleep \/ TxWords \/ TxNoStart \/ TxCopy \/ TxSend \/ TxRelock \/ TxMark
               \/ TxUnibusTimeout \/ RxLock
               \/ \E p \in {<<1, "mine">>, <<2, "mine">>, <<1, "other">>} : Arrive(p[1], p[2])
      BY <3>2 DEF TxUnibusTimeout, TxStatusFails, TxBorn, TxWoken, TxSleep, TxWords, TxNoStart,
           TxCopy, TxSend,
         TxRelock, TxMark, Arrive, RxLock
    <3> QED
      BY <1>4, <3>1, <3>2 DEF Transmit
  <2>5. init' = init /\ hi \subseteq hi' /\ (init = "on" => hi' = hi)
    BY <2>4, Pcsr0 DEF regs
  <2> QED
    BY <2>1, <2>2, <2>3, <2>5, StillNoticed
<1> QED
  BY <1>1, <1>2, <1>3, <1>4

\* Nor does the driver.
LEMMA DriverNoticed ==
  ASSUME Types, Held, Noticed,
         \/ (\E c \in Commands : GiveCommand(c)) \/ GiveReset \/ Driver \/ \E w \in {"whole", "halves", "long"} : Queue(w)
         \/ UNCHANGED vars
  PROVE  Noticed'
<1>1. CASE \E c \in Commands : GiveCommand(c)
  <2>1. PICK c \in Commands : GiveCommand(c)
    BY <1>1
  <2>2. /\ UNCHANGED <<init, hi, up, scan, rcv>> /\ asked' = c /\ c # "RESET" /\ init = "off" /\ asked = "none"
        /\ faults' = 0 => faults = 0
    BY <2>1 DEF GiveCommand, DrvUnch, DaemonUnch, rxv, Commands, Types
  <2>3. CASE c = "START" /\ ~ up
    <3>1. rring' = [i \in DOMAIN rring |-> [Free EXCEPT !.own = TRUE]] /\ rxout' = 0
      BY <2>1, <2>3 DEF GiveCommand
    <3>2. DOMAIN rring = 0 .. NR - 1 /\ 0 \in 0 .. NR - 1
      BY XeAssumption DEF Types
    <3>3. rring'[rxout'].own
      BY <3>1, <3>2 DEF Free
    <3> QED
      BY <2>2, <3>3 DEF Noticed
  <2>4. CASE ~ (c = "START" /\ ~ up)
    <3>1. UNCHANGED <<rring, rxout>>
      BY <2>1, <2>4 DEF GiveCommand
    <3> QED
      BY <2>2, <2>4, <3>1 DEF Noticed
  <2> QED
    BY <2>3, <2>4
<1>2. CASE GiveReset
  BY <1>2 DEF GiveReset, Noticed
<1>3. CASE SeeAnswer
  <2>1. UNCHANGED <<init, rring, rxout, rcv, faults>> /\ asked' = "none" /\ hi' = hi \ {"DNI", "PCEI"} /\ hi # {}
    BY <1>3 DEF SeeAnswer, DrvUnch, DaemonUnch, rxv
  <2>2. up' => up \/ asked = "START"
    BY <1>3, Zenon DEF SeeAnswer
  <2>3. up' /\ ~ scan' => ~ scan
    BY <1>3, Zenon DEF SeeAnswer
  <2> QED
    BY <2>1, <2>2, <2>3 DEF Noticed
<1>4. CASE NopOver
  <2>1. UNCHANGED <<init, hi, up, scan, rring, rxout, rcv, faults>> /\ asked' = "none" /\ asked = "NOP"
    BY <1>4 DEF NopOver, DrvUnch, DaemonUnch, rxv, regs
  <2> QED
    BY <2>1 DEF Noticed
<1>5. CASE AckRings
  <2>1. /\ UNCHANGED <<init, asked, up, rring, rxout, rcv, faults>> /\ up
        /\ hi' = hi \ {"RXI", "TXI", "RCBI", "SERI"}
    BY <1>5 DEF AckRings, DrvUnch, DaemonUnch, rxv
  <2>2. ~ scan' => ~ scan /\ "RXI" \notin hi
    BY <1>5, Zenon DEF AckRings
  <2> QED
    BY <2>1, <2>2 DEF Noticed
<1>6. CASE TakePacket
  <2>1. UNCHANGED <<init, hi, asked, up, scan>> /\ scan
    BY <1>6 DEF TakePacket, regs
  <2> QED
    BY <2>1 DEF Noticed
<1>7. CASE ScanEnd
  <2>1. UNCHANGED <<init, hi, asked, up, rring, rxout>> /\ rring[rxout].own
    BY <1>7 DEF ScanEnd, regs
  <2> QED
    BY <2>1 DEF Noticed
<1>8. CASE (\E w \in {"whole", "halves", "long"} : Queue(w)) \/ UNCHANGED vars
  <2>1. UNCHANGED <<init, hi, asked, up, scan, rring, rxout, rcv, faults>>
    BY <1>8 DEF Queue, DrvUnch, DaemonUnch, regs, rxv, vars, drv
  <2> QED
    BY <2>1 DEF Noticed
<1> QED
  BY <1>1, <1>2, <1>3, <1>4, <1>5, <1>6, <1>7, <1>8 DEF Driver

\* The initial states.
LEMMA InitNoticed == Init => Noticed
  BY DEF Init, Noticed

\* The interrupt bits lose no packet, for rings of any size.
THEOREM PacketsNoticed == Spec => []NoForgottenPacket
<1>1. Noticed => NoForgottenPacket
  BY DEF Noticed, NoForgottenPacket
<1>2. Types /\ Held /\ Noticed /\ [Next]_vars => (Types /\ Held /\ Noticed)'
  <2> SUFFICES ASSUME Types, Held, Noticed, [Next]_vars PROVE Types' /\ Held' /\ Noticed'
    OBVIOUS
  <2>1. Types' /\ Held'
    BY BaseStep
  <2>2. Noticed'
    BY <2>1, DaemonNoticed, DriverNoticed, Zenon DEF Next
  <2> QED
    BY <2>1, <2>2
<1> QED
  BY <1>1, <1>2, InitTypes, InitNoticed, PTL DEF Spec
------------------------------------------------------------------------------
(* Port commands, while no reset and no ring rebuild falls into a window.  *)

NoAnswer == "DNI" \notin hi /\ "PCEI" \notin hi

\* How far the command of the driver has come; whether the daemon's rings are the driver's.
Commanded ==
  /\ init = "on" => asked = "RESET" /\ ~ hijk /\ ~ rset /\ NoAnswer /\ io = "wait"
  /\ init = "off" /\ hijk =>
       /\ asked # "none" /\ (rset <=> asked = "RESET") /\ (asked # "RESET" => pcmd = asked)
       /\ NoAnswer /\ (io = "do" => iocmd = asked)
  /\ init = "off" /\ ~ hijk =>
       /\ ~ rset /\ io = "wait"
       /\ asked \in {"none", "NOP"} <=> NoAnswer
       /\ asked \in {"STOP", "SELF_TEST", "RESET"} => ~ run
       /\ asked = "START" => run
  /\ asked \in {"none", "NOP", "WRF", "WRMOD", "DATA", "COUNT", "PDMD"} => up \/ ~ (run /\ fmt)
  /\ asked = "RESET" => ~ up
  /\ up => fmt /\ (run \/ asked \in {"STOP", "SELF_TEST"})
  /\ asked = "START" /\ hijk /\ ~ up => ~ (run /\ fmt)

\* The rings are set up before the port is started.
Prepared ==
  asked = "START" /\ ~ up /\ ~ run =>
    /\ faults = 0 => tx \in {"born", "sleep", "woken", "loop"}
    /\ txin = 0 /\ rxout = 0 /\ asm = None
    /\ \A i \in 0 .. NR - 1 : rring[i].own
    /\ \A i \in 0 .. NT - 1 : ~ tring[i].own

\* A step of the threads that move packets: no answers, no commands.
LEMMA StillCommanded ==
  ASSUME Commanded, UNCHANGED <<init, rset, hijk, pcmd, run, fmt, io, iocmd, asked, up>>,
         NoAnswer' <=> NoAnswer
  PROVE  Commanded'
  BY DEF Commanded

\* Done bits of packets are not answers.
LEMMA DoneBits ==
  ASSUME Types, NEW bits \in SUBSET {"SERI", "RXI", "TXI", "RCBI"}, WritePcsr0(bits, {})
  PROVE  UNCHANGED <<init, rset, hijk, pcmd>> /\ (NoAnswer' <=> NoAnswer)
<1>1. CASE init = "off"
  BY <1>1 DEF WritePcsr0, NoAnswer, Types
<1>2. CASE init # "off"
  BY <1>2 DEF WritePcsr0, NoAnswer, regs
<1> QED
  BY <1>1, <1>2

\* INIT.
LEMMA InitCommanded ==
  ASSUME ~ Intrude, Types, Held, Commanded, InitOn \/ InitOff
  PROVE  Commanded'
<1>1. CASE InitOn
  <2>1. io = "wait"
    BY <1>1 DEF InitOn, Calm, Held
  <2>2. /\ init' = "on" /\ hi' = {} /\ ~ rset' /\ ~ hijk' /\ asked' = "RESET" /\ ~ up' /\ io' = io
    BY <1>1 DEF InitOn, iov
  <2> QED
    BY <2>1, <2>2 DEF Commanded, NoAnswer
<1>2. CASE InitOff
  <2>1. /\ init = "on" /\ init' = "off" /\ rset' /\ hijk'
        /\ UNCHANGED <<hi, pcmd, run, fmt, io, iocmd, asked, up>>
    BY <1>2 DEF InitOff, iov, ctl, drv
  <2> QED
    BY <2>1 DEF Commanded, NoAnswer
<1> QED
  BY <1>1, <1>2

\* The daemon is at the command that was given.
LEMMA AtCommand ==
  ASSUME Types, Commanded, io = "do"
  PROVE  /\ init = "off" /\ hijk /\ iocmd = asked /\ asked # "none" /\ NoAnswer
         /\ (rset <=> asked = "RESET")
  BY DEF Commanded, Types

\* The port command thread.
LEMMA IoCommanded ==
  ASSUME ~ Intrude, Types, Held, Commanded, IoRead \/ IoDo \/ IoTimeout
  PROVE  Commanded'
<1>1. CASE IoRead
  <2>1. /\ UNCHANGED <<init, hi, rset, hijk, pcmd, run, fmt, asked, up>>
        /\ hijk /\ iocmd' = IF rset THEN "RESET" ELSE pcmd
    BY <1>1 DEF IoRead, regs, ctl, drv
  <2> QED
    BY <2>1 DEF Commanded, NoAnswer, Types
<1>2. CASE IoDo \/ IoTimeout
  <2>1. /\ UNCHANGED <<asked, up>> /\ io = "do" /\ io' = "wait" /\ iocmd' = "NOP"
    BY <1>2 DEF IoDo, IoTimeout, drv
  <2>2. /\ init = "off" /\ hijk /\ iocmd = asked /\ asked # "none" /\ NoAnswer /\ (rset <=> asked = "RESET")
    BY <2>1, AtCommand
  <2>3. ASSUME NEW b \in SUBSET Bits, NEW c \in SUBSET {"RSET", "HIJK"}, "HIJK" \in c, WritePcsr0(b, c),
               asked = "RESET" => "RSET" \in c
        PROVE  /\ init' = "off" /\ ~ hijk' /\ hi' = hi \cup b /\ ~ rset'
    BY <2>2, <2>3 DEF WritePcsr0
  <2>4. ASSUME init' = "off", ~ hijk', ~ rset', asked = "NOP" <=> NoAnswer',
               asked \in {"STOP", "SELF_TEST", "RESET"} => ~ run',
               asked = "START" => run',
               asked \in {"NOP", "WRF", "WRMOD", "DATA", "COUNT", "PDMD"} => UNCHANGED <<run, fmt>> \/ ~ run',
               fmt => fmt', 
               asked \in {"NOP", "WRF", "WRMOD", "DATA", "COUNT", "PDMD", "START"} => (run => run')
        PROVE  Commanded'
    BY <2>1, <2>2, <2>4 DEF Commanded, Types, Commands
  <2>5. CASE IoTimeout
    <3>1. /\ iocmd \in {"WRF", "WRMOD", "DATA", "COUNT"} /\ UNCHANGED <<run, fmt>>
          /\ WritePcsr0({"PCEI"}, {"HIJK"})
      BY <2>5 DEF IoTimeout, ctl
    <3>2. init' = "off" /\ ~ hijk' /\ hi' = hi \cup {"PCEI"} /\ ~ rset'
      BY <2>2, <2>3, <3>1 DEF Bits
    <3> QED
      BY <2>2, <2>4, <3>1, <3>2 DEF NoAnswer
  <2>6. ASSUME IoDo, iocmd = "RESET" PROVE Commanded'
    <3>1. run' = FALSE /\ fmt' = fmt /\ WritePcsr0({"DNI"}, {"RSET", "HIJK"})
      BY <2>6 DEF IoDo, DoReset
    <3>2. init' = "off" /\ ~ hijk' /\ hi' = hi \cup {"DNI"} /\ ~ rset'
      BY <2>2, <2>3, <3>1 DEF Bits
    <3> QED
      BY <2>2, <2>4, <2>6, <3>1, <3>2 DEF NoAnswer
  <2>7. ASSUME IoDo, iocmd \in {"SELF_TEST", "STOP", "START", "PDMD", "WRMOD", "DATA"} PROVE Commanded'
    <3>1. (WritePcsr0({"DNI"}, {"HIJK"}) \/ WritePcsr0({"PCEI"}, {"HIJK"})) /\ fmt' = fmt
      BY <2>7 DEF IoDo, DoReset, Start, Pdmd, SetMode, ctl
    <3>2. init' = "off" /\ ~ hijk' /\ (hi' = hi \cup {"DNI"} \/ hi' = hi \cup {"PCEI"}) /\ ~ rset'
      BY <2>2, <2>3, <2>7, <3>1 DEF Bits
    <3>3. /\ iocmd \in {"SELF_TEST", "STOP"} => ~ run'
          /\ iocmd = "START" => run'
          /\ iocmd \in {"PDMD", "WRMOD", "DATA"} => run' = run
      BY <2>7 DEF IoDo, DoReset, Start, Pdmd, SetMode, ctl
    <3> QED
      BY <2>2, <2>4, <2>7, <3>1, <3>2, <3>3 DEF NoAnswer
  <2>8. ASSUME IoDo, iocmd = "WRF" PROVE Commanded'
    <3>1. /\ run' = run /\ (fmt => fmt') /\ (run => fmt' = fmt)
          /\ WritePcsr0({"DNI"}, {"HIJK"}) \/ WritePcsr0({"PCEI"}, {"HIJK"})
      BY <2>8 DEF IoDo, SetRings, ctl
    <3>2. init' = "off" /\ ~ hijk' /\ (hi' = hi \cup {"DNI"} \/ hi' = hi \cup {"PCEI"}) /\ ~ rset'
      BY <2>2, <2>3, <2>8, <3>1 DEF Bits
    <3> QED
      BY <2>2, <2>4, <2>8, <3>1, <3>2 DEF NoAnswer
  <2>9. ASSUME IoDo, iocmd = "NOP" PROVE Commanded'
    <3>1. run' = run /\ fmt' = fmt /\ WritePcsr0({}, {"HIJK"})
      BY <2>9 DEF IoDo, ctl
    <3>2. init' = "off" /\ ~ hijk' /\ hi' = hi \cup {} /\ ~ rset'
      BY <2>2, <2>3, <2>9, <3>1 DEF Bits
    <3> QED
      BY <2>2, <2>4, <2>9, <3>1, <3>2 DEF NoAnswer
  <2>10. IoDo => iocmd # "COUNT"
    BY DEF IoDo
  <2> QED
    BY <1>2, <2>5, <2>6, <2>7, <2>8, <2>9, <2>10 DEF Types, Commands
<1> QED
  BY <1>1, <1>2
\* The threads that move packets.
LEMMA TrafficCommanded ==
  ASSUME Types, Held, Commanded,
         \/ Receive \/ RcvError \/ RcvBadBuffer \/ RcvNoPeek \/ Transmit \/ TxError \/ TxUnibusTimeout \/ TxStatusFails \/ RxLock
         \/ \E p \in {<<1, "mine">>, <<2, "mine">>, <<1, "other">>} : Arrive(p[1], p[2])
  PROVE  Commanded' /\ UNCHANGED <<run, fmt, asked, up, iocmd, mode>>
<1>1. UNCHANGED <<run, fmt, mode, io, iocmd, asked, up>>
  BY DEF Receive, RcvError, RcvFilter, RcvDesc, RcvOverflow, RcvPeek, RcvHand, RcvBadBuffer,
       RcvNoPeek, RcvDone, RcvUnch,
         Transmit, TxError, TxUnibusTimeout, TxStatusFails, TxBorn, TxWoken, TxSleep, TxWords,
         TxIdle, TxNoStart, TxCopy, TxSend,
         TxRelock, TxMark, TxUnch, RxLock, Arrive, iov, drv, ctl
<1>2. UNCHANGED regs \/ \E b \in SUBSET {"SERI", "RXI", "TXI", "RCBI"} : WritePcsr0(b, {})
  <2>1. CASE TxIdle \/ TxError \/ TxStatusFails
    BY <2>1 DEF TxIdle, TxError, TxStatusFails
  <2>2. CASE \/ TxBorn \/ TxWoken \/ TxSleep \/ TxWords \/ TxNoStart \/ TxCopy \/ TxSend \/ TxRelock \/ TxMark
             \/ TxUnibusTimeout \/ RxLock \/ RcvDesc \/ RcvBadBuffer \/ RcvPeek \/ RcvNoPeek \/ RcvHand
             \/ \E p \in {<<1, "mine">>, <<2, "mine">>, <<1, "other">>} : Arrive(p[1], p[2])
    BY <2>2 DEF TxUnibusTimeout, TxStatusFails, TxBorn, TxWoken, TxSleep, TxWords, TxNoStart,
         TxCopy, TxSend,
       TxRelock, TxMark, Arrive, RxLock, RcvDesc, RcvBadBuffer, RcvPeek, RcvNoPeek, RcvHand
  <2>3. CASE RcvFilter \/ RcvOverflow \/ RcvDone \/ RcvError
    <3>1. \E b \in SUBSET {"SERI", "RXI", "TXI", "RCBI"}, f \in {0, 1} : RcvReturn(b, f)
      <4>1. rcv.bits \in SUBSET {"SERI", "RXI", "TXI", "RCBI"}
        BY DEF Types, Receiving
      <4> QED
        BY <2>3, <4>1 DEF RcvFilter, RcvOverflow, RcvDone, RcvError
    <3> QED
      BY <3>1 DEF RcvReturn
  <2> QED
    BY <2>1, <2>2, <2>3 DEF Receive, Transmit
<1>3. UNCHANGED <<init, rset, hijk, pcmd>> /\ (NoAnswer' <=> NoAnswer)
  BY <1>2, DoneBits DEF regs, NoAnswer
<1> QED
  BY <1>1, <1>3, StillCommanded

\* The driver.
LEMMA DriverCommanded ==
  ASSUME ~ Intrude, Types, Held, Commanded,
         \/ (\E c \in Commands : GiveCommand(c)) \/ GiveReset \/ Driver \/ \E w \in {"whole", "halves", "long"} : Queue(w)
         \/ UNCHANGED vars
  PROVE  Commanded'
<1>1. ASSUME NEW c \in Commands, GiveCommand(c) PROVE Commanded'
  <2>1. /\ UNCHANGED <<init, hi, rset, run, fmt, io, iocmd, up>>
        /\ asked = "none" /\ init = "off" /\ hijk' /\ pcmd' = c /\ asked' = c /\ c # "RESET" /\ c # "none"
    BY <1>1 DEF GiveCommand, DrvUnch, DaemonUnch, ctl, iov, Commands
  <2> QED
    BY <2>1 DEF Commanded, NoAnswer
<1>2. CASE GiveReset
  <2>1. /\ UNCHANGED <<init, run, fmt, io, iocmd>> /\ io # "do"
        /\ init = "off" /\ hi' = {} /\ rset' /\ hijk' /\ asked' = "RESET" /\ ~ up'
    BY <1>2 DEF GiveReset, DrvUnch, DaemonUnch, ctl, iov, Calm
  <2> QED
    BY <2>1 DEF Commanded, NoAnswer
<1>3. CASE SeeAnswer
  <2>1. /\ UNCHANGED <<init, rset, hijk, pcmd, run, fmt, io, iocmd>>
        /\ hi' = hi \ {"DNI", "PCEI"} /\ asked' = "none" /\ asked # "none" /\ ~ NoAnswer
    BY <1>3 DEF SeeAnswer, DrvUnch, DaemonUnch, ctl, iov, NoAnswer
  <2>2. /\ asked = "START" => (up' <=> fmt)
        /\ asked \in {"STOP", "SELF_TEST"} => ~ up'
        /\ asked \notin {"START", "STOP", "SELF_TEST"} => (up' <=> up)
    BY <1>3, Zenon DEF SeeAnswer
  <2>3. init = "off" /\ ~ hijk
    BY <2>1 DEF Commanded, Types
  <2>4. NoAnswer'
    BY <2>1 DEF NoAnswer
  <2> QED
    BY <2>1, <2>2, <2>3, <2>4 DEF Commanded, Types, Commands
<1>4. CASE NopOver
  <2>1. /\ UNCHANGED <<init, hi, rset, hijk, pcmd, run, fmt, io, iocmd, up>>
        /\ asked = "NOP" /\ asked' = "none" /\ ~ hijk /\ io = "wait"
    BY <1>4 DEF NopOver, DrvUnch, DaemonUnch, regs, ctl, iov
  <2> QED
    BY <2>1 DEF Commanded, NoAnswer
<1>5. CASE AckRings
  <2>1. /\ UNCHANGED <<init, rset, hijk, pcmd, run, fmt, io, iocmd, asked, up>>
        /\ hi' = hi \ {"RXI", "TXI", "RCBI", "SERI"}
    BY <1>5 DEF AckRings, DrvUnch, DaemonUnch, regs, ctl, iov
  <2> QED
    BY <2>1, StillCommanded DEF NoAnswer
<1>6. CASE TakePacket \/ ScanEnd \/ (\E w \in {"whole", "halves", "long"} : Queue(w)) \/ UNCHANGED vars
  <2>1. /\ UNCHANGED <<init, hi, rset, hijk, pcmd, run, fmt, io, iocmd, asked, up>>
    BY <1>6 DEF TakePacket, ScanEnd, Queue, DrvUnch, DaemonUnch, regs, ctl, iov, vars, drv
  <2> QED
    BY <2>1, StillCommanded DEF NoAnswer
<1> QED
  BY <1>1, <1>2, <1>3, <1>4, <1>5, <1>6 DEF Driver

\* Nothing that is prepared is touched before the port is started.
LEMMA PreparedStep ==
  ASSUME ~ Intrude, Types, Held, Commanded, Prepared, Types', Commanded', [Next]_vars
  PROVE  Prepared'
<1> SUFFICES ASSUME asked' = "START", ~ up', ~ run'
             PROVE  /\ faults' = 0 => tx' \in {"born", "sleep", "woken", "loop"}
                    /\ txin' = 0 /\ rxout' = 0 /\ asm' = None
                    /\ \A i \in 0 .. NR - 1 : rring'[i].own
                    /\ \A i \in 0 .. NT - 1 : ~ tring'[i].own
  BY DEF Prepared
<1>1. CASE \E c \in Commands : GiveCommand(c)
  <2>1. PICK c \in Commands : GiveCommand(c)
    BY <1>1
  <2>2. UNCHANGED <<up, run, tx>> /\ c = "START"
    BY <2>1 DEF GiveCommand, DrvUnch, DaemonUnch, ctl, txv
  <2>3. /\ faults' = IF HasDescriptor THEN faults + 1 ELSE faults
        /\ rring' = [i \in DOMAIN rring |-> [Free EXCEPT !.own = TRUE]]
        /\ tring' = [i \in DOMAIN tring |-> Free]
        /\ txin' = 0 /\ rxout' = 0 /\ asm' = None
    BY <2>1, <2>2 DEF GiveCommand
  <2>4. ASSUME faults' = 0 PROVE tx' \in {"born", "sleep", "woken", "loop"}
    <3>1. asked = "none" /\ ~ up
      BY <2>1, <2>2 DEF GiveCommand
    <3>2. tx # "owner"
      BY <3>1 DEF Commanded, Held
    <3>3. ~ HasDescriptor
      BY SMTT(30), <2>3, <2>4 DEF Types
    <3> QED
      BY <2>2, <3>2, <3>3 DEF HasDescriptor, Types
  <2>5. DOMAIN rring = 0 .. NR - 1 /\ DOMAIN tring = 0 .. NT - 1
    BY DEF Types
  <2>6. Free.own = FALSE /\ [Free EXCEPT !.own = TRUE].own = TRUE
    BY DEF Free
  <2> QED
    BY <2>3, <2>4, <2>5, <2>6
<1>2. CASE ~ \E c \in Commands : GiveCommand(c)
  <2>1. asked = "START" /\ ~ up
    <3>1. CASE UNCHANGED <<asked, up>>
      BY <3>1
    <3>2. CASE GiveReset \/ SeeAnswer \/ NopOver \/ InitOn
      BY <3>2 DEF GiveReset, SeeAnswer, NopOver, InitOn
    <3> QED
      BY <1>2, <3>1, <3>2, TrafficCommanded
         DEF Next, Driver, InitOff, IoRead, IoDo, IoTimeout, AckRings, TakePacket, ScanEnd,
         Queue, drv, vars
  <2>2. ~ run
    <3>1. CASE IoDo
      <4>1. iocmd = "START"
        BY <2>1, <3>1, AtCommand DEF IoDo
      <4> QED
        BY <3>1, <4>1 DEF IoDo, Start, ctl
    <3>2. CASE UNCHANGED run
      BY <3>2
    <3> QED
      BY <1>2, <3>1, <3>2, TrafficCommanded
         DEF Next, Driver, InitOn, InitOff, IoRead, IoTimeout, GiveReset, SeeAnswer, NopOver,
         AckRings,
             TakePacket, ScanEnd, Queue, DrvUnch, DaemonUnch, ctl, vars
  <2>3. /\ faults = 0 => tx \in {"born", "sleep", "woken", "loop"}
        /\ txin = 0 /\ rxout = 0 /\ asm = None
        /\ \A i \in 0 .. NR - 1 : rring[i].own
        /\ \A i \in 0 .. NT - 1 : ~ tring[i].own
    BY <2>1, <2>2 DEF Prepared
  <2>4. ~ IoDo
    <3> SUFFICES ASSUME IoDo PROVE FALSE
      OBVIOUS
    <3>1. iocmd = "START"
      BY <2>1, AtCommand DEF IoDo
    <3> QED
      BY <3>1 DEF IoDo, Start, ctl
  <2>5. CASE Receive \/ RcvError \/ RcvBadBuffer \/ RcvNoPeek \/ RxLock
            \/ \E p \in {<<1, "mine">>, <<2, "mine">>, <<1, "other">>} : Arrive(p[1], p[2])
    <3>1. rcv.pc \in {"idle", "filter"} /\ ~ Accepted
      BY <2>2, <2>5 DEF Held, Types, Receiving, Accepted
    <3>2. UNCHANGED <<txin, rxout, asm, rring, tring>>
      BY <2>5, <3>1 DEF Receive, RcvError, RcvFilter, RcvDesc, RcvOverflow, RcvPeek, RcvHand,
           RcvBadBuffer, RcvNoPeek, RcvDone, RcvLook,
         RcvUnch, RxLock, Arrive, drv
    <3>4. faults' = 0 => faults = 0
      <4>1. faults' = faults \/ faults' = faults + 0 \/ faults' = faults + 1
        BY <2>5 DEF Receive, RcvError, RcvFilter, RcvDesc, RcvOverflow, RcvPeek, RcvHand,
             RcvBadBuffer,
           RcvNoPeek, RcvDone, RxLock, Arrive, RcvReturn
      <4>2. faults \in Nat
        BY DEF Types
      <4> QED
        BY <4>1, <4>2
    <3>3. tx' = tx
      BY <2>2, <2>5, <3>1 DEF Receive, RcvError, RcvFilter, RcvDesc, RcvOverflow, RcvPeek,
           RcvHand, RcvBadBuffer, RcvNoPeek, RcvDone,
         RcvLook, RxLock, Arrive, txv, RcvReturn, Held
    <3> QED
      BY <2>3, <3>2, <3>3, <3>4
  <2>6. CASE Transmit \/ TxError \/ TxUnibusTimeout \/ TxStatusFails
    <3>1. tx # "owner"
      BY <2>2 DEF Held
    <3>2. UNCHANGED <<txin, rxout, asm, rring>>
      BY <2>6 DEF Transmit, TxError, TxUnibusTimeout, TxStatusFails, TxBorn, TxWoken, TxSleep,
           TxWords,
         TxIdle, TxNoStart, TxCopy, TxSend, TxRelock, TxMark, TxUnch, drv
    <3>3. tring' = tring \/ tring' = [tring EXCEPT ![tdrpa].own = FALSE]
      BY <2>6, <3>1 DEF Transmit, TxError, TxUnibusTimeout, TxStatusFails, TxBorn, TxWoken,
           TxSleep,
         TxWords, TxIdle, TxNoStart, TxCopy, TxSend, TxRelock, TxMark
    <3>4. \A i \in 0 .. NT - 1 : ~ tring'[i].own
      <4>1. tring \in [0 .. NT - 1 -> Descriptors]
        BY DEF Types
      <4> QED
        BY <2>3, <3>3, <4>1 DEF Descriptors
    <3>5. /\ faults' = 0 => faults = 0
          /\ tx \in {"born", "sleep", "woken", "loop"} => tx' \in {"born", "sleep", "woken", "loop"}
      BY SMTT(30), <2>2, <2>6 DEF Transmit, TxError, TxUnibusTimeout, TxStatusFails, TxBorn,
           TxWoken,
           TxSleep,
         TxWords, TxIdle, TxNoStart, TxCopy, TxSend, TxRelock, TxMark, Types
    <3> QED
      BY <2>3, <3>2, <3>4, <3>5
  <2>7. CASE \/ InitOn \/ InitOff \/ IoRead \/ IoTimeout \/ GiveReset \/ Driver
             \/ (\E w \in {"whole", "halves", "long"} : Queue(w)) \/ UNCHANGED vars
    <3>1. UNCHANGED <<txin, rxout, asm, rring, tring, tx>> /\ (faults' = 0 => faults = 0)
      BY SMTT(30), <2>1, <2>7 DEF Types, InitOn, InitOff, IoRead, IoTimeout, GiveReset, Driver,
           SeeAnswer,
           NopOver, AckRings,
         TakePacket, ScanEnd, Queue, DrvUnch, DaemonUnch, txv, drv, vars
    <3> QED
      BY <2>3, <3>1
  <2> QED
    BY <1>2, <2>4, <2>5, <2>6, <2>7 DEF Next
<1> QED
  BY <1>1, <1>2
------------------------------------------------------------------------------
(* The packet buffer: in loopback mode nothing comes from the wire.        *)

Looped ==
  /\ tx = "in" => "LOOP" \in mode /\ rx = "read"
  /\ rx # "read" => "LOOP" \notin mode /\ asked # "WRMOD"
  /\ rx \in {"lock", "in"} => rcvp.pkt = <<"wire", narr>>
  /\ tx = "in" => rcvp.pkt = <<"loop", sent>>

\* The buffer is read into by one thread at a time.
LEMMA LoopedStep ==
  ASSUME ~ Intrude, Types, Held, Commanded, Looped, [Next]_vars
  PROVE  Looped'
<1>1. CASE InitOn \/ InitOff
  <2>1. UNCHANGED <<tx, rx, mode, rcvp, narr, sent>> /\ (asked' = asked \/ asked' = "RESET")
    BY <1>1 DEF InitOn, InitOff, txv, rxv, ctl, drv
  <2> QED
    BY <2>1 DEF Looped
<1>2. CASE IoRead \/ IoDo \/ IoTimeout
  <2>1. UNCHANGED <<rx, rcvp, narr, sent, asked>>
    BY <1>2 DEF IoRead, IoDo, IoTimeout, rxv, txv, drv
  <2>2. tx # "in" /\ tx' # "in"
    <3>1. CASE IoRead \/ IoTimeout
      BY <3>1 DEF IoRead, IoTimeout, txv, Held
    <3>2. CASE IoDo
      <4>1. tx # "in"
        BY <3>2 DEF IoDo, Held
      <4>2. tx' = tx \/ tx' = "woken"
        BY <3>2 DEF IoDo, DoReset, Start, Pdmd, SetRings, SetMode, WakeTransmit
      <4> QED
        BY <4>1, <4>2
    <3> QED
      BY <1>2, <3>1, <3>2
  <2>3. rx # "read" => "LOOP" \notin mode'
    <3>1. CASE IoRead \/ IoTimeout
      BY <3>1 DEF IoRead, IoTimeout, ctl, Looped
    <3>2. CASE IoDo
      <4>1. iocmd = asked
        BY <3>2, AtCommand DEF IoDo
      <4>2. mode' = mode \/ mode' = {} \/ iocmd = "WRMOD"
        BY <3>2 DEF IoDo, DoReset, Start, Pdmd, SetRings, ctl
      <4> QED
        BY <4>1, <4>2 DEF Looped
    <3> QED
      BY <1>2, <3>1, <3>2
  <2> QED
    BY <2>1, <2>2, <2>3 DEF Looped
<1>3. CASE Receive \/ RcvError \/ RcvBadBuffer \/ RcvNoPeek
  <2>1. UNCHANGED <<mode, asked, narr, sent>>
    BY <1>3 DEF Receive, RcvError, RcvFilter, RcvDesc, RcvOverflow, RcvPeek, RcvHand,
         RcvBadBuffer, RcvNoPeek, RcvDone, RcvUnch, drv
  <2>2. \/ rx' = "read" /\ tx' = tx /\ tx # "in"
        \/ tx' = "mark" /\ (UNCHANGED <<rx, rcvp>> \/ rx' = "read")
        \/ UNCHANGED <<rx, tx, rcvp>>
    <3>1. CASE RcvDesc \/ RcvBadBuffer \/ RcvPeek \/ RcvNoPeek \/ RcvHand
      BY <3>1 DEF RcvDesc, RcvBadBuffer, RcvPeek, RcvNoPeek, RcvHand
    <3>2. ASSUME NEW b, NEW f, RcvReturn(b, f)
          PROVE  \/ rx' = "read" /\ tx' = tx /\ tx # "in"
                 \/ tx' = "mark" /\ (UNCHANGED <<rx, rcvp>> \/ rx' = "read")
      <4>1. CASE themutex = "rx"
        BY <3>2, <4>1 DEF RcvReturn, Held
      <4>2. CASE themutex # "rx"
        BY <3>2, <4>2 DEF RcvReturn
      <4> QED
        BY <4>1, <4>2
    <3> QED
      BY <1>3, <3>1, <3>2 DEF Receive, RcvError, RcvFilter, RcvOverflow, RcvDone
  <2> QED
    BY <2>1, <2>2 DEF Looped
<1>4. CASE Transmit \/ TxError \/ TxUnibusTimeout \/ TxStatusFails
  <2>1. CASE TxCopy
    <3>1. UNCHANGED <<mode, asked, narr>> /\ tx = "owner" /\ "LOOP" \in mode' => rx = "read"
      BY <2>1 DEF TxCopy, TxUnch, ctl, drv, Looped
    <3>2. CASE tx' # "in"
      <4>1. UNCHANGED <<rx, rcvp, mode, asked, narr>>
        BY <2>1, <3>2 DEF TxCopy, TxUnch, ctl, drv
      <4> QED
        BY <3>2, <4>1 DEF Looped
    <3>3. CASE tx' = "in"
      <4>1. UNCHANGED <<rx, mode, asked, narr>> /\ "LOOP" \in mode
        BY <2>1, <3>3 DEF TxCopy, TxUnch, ctl, drv
      <4>2. \E to \in {"mine", "other"} : rcvp' = [pkt |-> <<"loop", xmt'[2]>>, len |-> 1, to |-> to]
        BY <2>1, <3>3 DEF TxCopy
      <4>3. sent' = xmt'[2]
        BY <2>1, <3>3 DEF TxCopy
      <4> QED
        BY <3>3, <4>1, <4>2, <4>3 DEF Looped, Types
    <3> QED
      BY <3>2, <3>3
  <2>2. CASE ~ TxCopy
    <3>1. UNCHANGED <<rx, rcvp, mode, asked, narr>> /\ tx' # "in"
      BY <1>4, <2>2 DEF Transmit, TxError, TxUnibusTimeout, TxStatusFails, TxBorn, TxWoken,
           TxSleep, TxWords, TxIdle, TxNoStart, TxSend,
         TxRelock, TxMark, TxUnch, ctl, drv
    <3> QED
      BY <3>1 DEF Looped
  <2> QED
    BY <2>1, <2>2
<1>5. CASE RxLock \/ \E p \in {<<1, "mine">>, <<2, "mine">>, <<1, "other">>} : Arrive(p[1], p[2])
  <2>1. CASE RxLock
    BY <2>1 DEF RxLock, ctl, drv, txv, Looped, Held
  <2>2. ASSUME NEW p \in {<<1, "mine">>, <<2, "mine">>, <<1, "other">>}, Arrive(p[1], p[2]) PROVE Looped'
    <3>1. /\ UNCHANGED <<tx, mode, asked>> /\ "LOOP" \notin mode /\ asked # "WRMOD" /\ rx' = "lock"
          /\ rcvp'.pkt = <<"wire", narr'>>
      BY <2>2 DEF Arrive, txv, ctl, drv
    <3> QED
      BY <3>1 DEF Looped
  <2> QED
    BY <1>5, <2>1, <2>2
<1>6. CASE \/ (\E c \in Commands : GiveCommand(c)) \/ GiveReset \/ Driver \/ (\E w \in {"whole", "halves", "long"} : Queue(w))
           \/ UNCHANGED vars
  <2>1. UNCHANGED <<tx, rx, mode, rcvp, narr, sent>>
    BY <1>6 DEF GiveCommand, GiveReset, Driver, SeeAnswer, NopOver, AckRings, TakePacket,
         ScanEnd, Queue, DrvUnch, DaemonUnch,
       ctl, txv, rxv, vars
  <2>2. asked' = "WRMOD" => asked = "WRMOD" \/ rx = "read"
    BY <1>6 DEF GiveCommand, GiveReset, Driver, SeeAnswer, NopOver, AckRings, TakePacket,
         ScanEnd, Queue,
       drv, vars
  <2> QED
    BY <2>1, <2>2 DEF Looped
<1> QED
  BY <1>1, <1>2, <1>3, <1>4, <1>5, <1>6 DEF Next
------------------------------------------------------------------------------
(* The transmit ring.                                                      *)

\* Places in a ring of N descriptors: how far i is from a, the one before i, and n after a.
Off(N, a, i) == IF i >= a THEN i - a ELSE i - a + N
Prev(N, i) == IF i = 0 THEN N - 1 ELSE i - 1
At(N, a, n) == IF a + n < N THEN a + n ELSE a + n - N

Sendable(d) == d.own /\ d.stp /\ d.enp
Marks == tx \in {"sendto", "relock", "in", "mark"}
Going == IF tx = "sendto" THEN xmt[2] ELSE sent

\* The descriptor to be given back is the one whose packet goes out.
Marked ==
  faults = 0 /\ Marks => /\ tring[tdrpa].own /\ tring[tdrpa].stp
                         /\ ~ tring[tdrpa].enp \/ Going = tring[tdrpa].pkt[2]

Sending == faults = 0 => sent <= nq /\ (tx = "sendto" => sent < xmt[2] /\ xmt[2] <= nq)

\* The n packets from descriptor a of ring r are in order, after s and up to q.
Ordered(r, a, n, s, q) ==
  /\ \A i \in 0 .. NT - 1 : Off(NT, a, i) < n /\ Sendable(r[i]) => s < r[i].pkt[2] /\ r[i].pkt[2] <= q
  /\ \A i, j \in 0 .. NT - 1 : Off(NT, a, i) < Off(NT, a, j) /\ Off(NT, a, j) < n
                                /\ Sendable(r[i]) /\ Sendable(r[j]) => r[i].pkt[2] < r[j].pkt[2]

\* Nothing to send but these n; all of them are the daemon's, or it is stuck at the one with BUFL.
Bounded(r, a, n, m, p, t) ==
  /\ t = At(NT, a, n)
  /\ m => n < NT /\ p = Prev(NT, a)
  /\ \A i \in 0 .. NT - 1 : Off(NT, a, i) >= n /\ r[i].own /\ r[i].stp => m /\ i = p
  /\ \/ r[t].own /\ ~ r[t].stp
     \/ \A i \in 0 .. NT - 1 : Off(NT, a, i) < n => r[i].own

Queued(n) == Ordered(tring, tdrca, n, Going, nq) /\ Bounded(tring, tdrca, n, Marks, tdrpa, txin)
Queueing == faults = 0 /\ run /\ fmt => \E n \in 0 .. NT : Queued(n)

\* The next place is one nearer, and the place left behind is the farthest.
LEMMA OneOn ==
  ASSUME NEW N \in Nat \ {0}, NEW a \in 0 .. N - 1, NEW b, b = (a + 1) % N
  PROVE  /\ b \in 0 .. N - 1 /\ Prev(N, b) = a
         /\ Off(N, a, a) = 0 /\ Off(N, b, a) = N - 1
         /\ \A i \in 0 .. N - 1 : /\ Off(N, a, i) \in 0 .. N - 1
                                  /\ i # a => Off(N, a, i) > 0 /\ Off(N, b, i) = Off(N, a, i) - 1
         /\ \A n \in 1 .. N : At(N, b, n - 1) = At(N, a, n)
         /\ N > 1 => b # a /\ At(N, b, N - 1) = a
<1>1. (a + 1) % N = IF a = N - 1 THEN 0 ELSE a + 1
  BY NextIs
<1> QED
  BY <1>1 DEF Off, Prev, At

\* Where n from a is.
LEMMA AtIs ==
  ASSUME NEW N \in Nat \ {0}, NEW a \in 0 .. N - 1, NEW n \in 0 .. N
  PROVE  /\ At(N, a, n) \in 0 .. N - 1
         /\ n < N => Off(N, a, At(N, a, n)) = n /\ At(N, a, n + 1) = (At(N, a, n) + 1) % N
         /\ n = N => At(N, a, n) = a
         /\ \A i \in 0 .. N - 1 : Off(N, a, i) = n => i = At(N, a, n)
<1>1. \A i \in 0 .. N - 1 : (i + 1) % N = IF i = N - 1 THEN 0 ELSE i + 1
  BY NextIs
<1> QED
  BY <1>1 DEF Off, At
\* The first of them is done with.
LEMMA Advance ==
  ASSUME NEW r \in [0 .. NT - 1 -> Descriptors], NEW a \in 0 .. NT - 1, NEW n \in 1 .. NT,
         NEW s \in Nat, NEW q \in Nat, Ordered(r, a, n, s, q)
  PROVE  /\ Ordered(r, (a + 1) % NT, n - 1, s, q)
         /\ Sendable(r[a]) => /\ s < r[a].pkt[2] /\ r[a].pkt[2] <= q
                              /\ Ordered(r, (a + 1) % NT, n - 1, r[a].pkt[2], q)
<1> USE XeAssumption
<1> DEFINE b == (a + 1) % NT
<1>0. b = (IF a = NT - 1 THEN 0 ELSE a + 1) /\ NT \in Nat \ {0}
  BY NextIs
<1> HIDE DEF b
<1>1. /\ Off(NT, a, a) = 0 /\ Off(NT, b, a) = NT - 1
      /\ \A i \in 0 .. NT - 1 : i # a => Off(NT, a, i) > 0 /\ Off(NT, b, i) = Off(NT, a, i) - 1
      /\ \A i \in 0 .. NT - 1 : Off(NT, a, i) \in 0 .. NT - 1
  BY <1>0 DEF Off
<1>2. \A i \in 0 .. NT - 1 : Off(NT, b, i) < n - 1 => i # a /\ Off(NT, a, i) < n
  BY SMTT(30), <1>1
<1>3. \A i, j \in 0 .. NT - 1 : Off(NT, b, i) < Off(NT, b, j) /\ Off(NT, b, j) < n - 1 => Off(NT, a, i) < Off(NT, a, j)
  <2> SUFFICES ASSUME NEW i \in 0 .. NT - 1, NEW j \in 0 .. NT - 1,
                      Off(NT, b, i) < Off(NT, b, j), Off(NT, b, j) < n - 1
               PROVE  Off(NT, a, i) < Off(NT, a, j)
    OBVIOUS
  <2>1. j # a /\ Off(NT, b, j) = Off(NT, a, j) - 1 /\ Off(NT, a, j) \in 0 .. NT - 1
    BY <1>1, <1>2
  <2>2. i # a
    BY <1>0, <1>1, <2>1
  <2>3. Off(NT, b, i) = Off(NT, a, i) - 1 /\ Off(NT, a, i) \in 0 .. NT - 1
    BY <1>1, <2>2
  <2> QED
    BY <2>1, <2>3
<1>4. Ordered(r, b, n - 1, s, q)
  BY <1>2, <1>3 DEF Ordered
<1>5. ASSUME Sendable(r[a]) PROVE s < r[a].pkt[2] /\ r[a].pkt[2] <= q /\ Ordered(r, b, n - 1, r[a].pkt[2], q)
  <2>1. s < r[a].pkt[2] /\ r[a].pkt[2] <= q
    BY <1>1, <1>5 DEF Ordered
  <2>2. \A i \in 0 .. NT - 1 : Off(NT, b, i) < n - 1 /\ Sendable(r[i]) => r[a].pkt[2] < r[i].pkt[2]
    BY <1>1, <1>2, <1>5 DEF Ordered
  <2> QED
    BY <1>4, <2>1, <2>2 DEF Ordered
<1> QED
  BY <1>4, <1>5 DEF b

\* Marks and returned descriptors do not matter to the order.
LEMMA StillOrdered ==
  ASSUME NEW r, NEW r2, NEW a, NEW n, NEW s, NEW q, Ordered(r, a, n, s, q),
         \A i \in 0 .. NT - 1 : Sendable(r2[i]) => Sendable(r[i]) /\ r2[i].pkt = r[i].pkt
  PROVE  Ordered(r2, a, n, s, q)
  BY DEF Ordered

\* One more is queued.
LEMMA Appended ==
  ASSUME NEW r \in [0 .. NT - 1 -> Descriptors], NEW a \in 0 .. NT - 1, NEW n \in 0 .. NT,
         NEW s \in Nat, NEW q \in Nat, NEW q2 \in Nat, NEW m, NEW p \in 0 .. NT - 1, NEW t,
         Ordered(r, a, n, s, q), Bounded(r, a, n, m, p, t),
         ~ r[t].own, m => r[p].own, s <= q, q <= q2,
         NEW d \in Descriptors, d.own, Sendable(d) => q < d.pkt[2] /\ d.pkt[2] <= q2
  PROVE  /\ n < NT /\ t \in 0 .. NT - 1
         /\ Ordered([r EXCEPT ![t] = d], a, n + 1, s, q2)
         /\ Bounded([r EXCEPT ![t] = d], a, n + 1, m, p, (t + 1) % NT)
         /\ t # p \/ ~ m
<1> USE XeAssumption
<1>1. t = At(NT, a, n) /\ t \in 0 .. NT - 1
  BY AtIs DEF Bounded
<1>2. \A i \in 0 .. NT - 1 : Off(NT, a, i) < n => r[i].own
  BY DEF Bounded
<1>3. Off(NT, a, a) = 0
  BY OneOn
<1>4. n < NT
  <2> SUFFICES ASSUME n = NT PROVE FALSE
    OBVIOUS
  <2>1. t = a
    BY <1>1, AtIs
  <2> QED
    BY <1>2, <1>3, <2>1
<1>5. Off(NT, a, t) = n /\ At(NT, a, n + 1) = (t + 1) % NT
  BY <1>1, <1>4, AtIs
<1>6. \A i \in 0 .. NT - 1 : Off(NT, a, i) \in 0 .. NT - 1 /\ (Off(NT, a, i) = n => i = t)
  <2>1. \A i \in 0 .. NT - 1 : Off(NT, a, i) \in 0 .. NT - 1
    BY OneOn
  <2>2. \A i \in 0 .. NT - 1 : Off(NT, a, i) = n => i = t
    BY SMTT(30), <1>1, AtIs
  <2> QED
    BY <2>1, <2>2
<1> DEFINE e == [r EXCEPT ![t] = d]
<1>7. e[t] = d /\ \A i \in 0 .. NT - 1 : i # t => e[i] = r[i]
  BY <1>1
<1>8. \A i \in 0 .. NT - 1 : Off(NT, a, i) < n + 1 => i = t \/ Off(NT, a, i) < n
  BY <1>6
<1> HIDE DEF e
<1>9. Ordered(e, a, n + 1, s, q2)
  <2>1. \A i \in 0 .. NT - 1 : r[i].pkt[2] \in Nat
    BY PacketFacts DEF Descriptors
  <2>2. d.pkt[2] \in Nat
    BY PacketFacts DEF Descriptors
  <2>3. ASSUME NEW i \in 0 .. NT - 1, Off(NT, a, i) < n + 1, Sendable(e[i])
        PROVE  s < e[i].pkt[2] /\ e[i].pkt[2] <= q2
    <3>1. CASE i = t
      BY SMTT(30), <1>7, <2>2, <2>3, <3>1
    <3>2. CASE i # t
      <4>1. Off(NT, a, i) < n /\ e[i] = r[i]
        BY <1>7, <1>8, <2>3, <3>2
      <4>2. s < r[i].pkt[2] /\ r[i].pkt[2] <= q
        BY <2>3, <4>1 DEF Ordered
      <4> QED
        BY <2>1, <4>1, <4>2
    <3> QED
      BY <3>1, <3>2
  <2>4. ASSUME NEW i \in 0 .. NT - 1, NEW j \in 0 .. NT - 1, Off(NT, a, i) < Off(NT, a, j), Off(NT, a, j) < n + 1,
               Sendable(e[i]), Sendable(e[j])
        PROVE  e[i].pkt[2] < e[j].pkt[2]
    <3>0. /\ Off(NT, a, i) \in 0 .. NT - 1 /\ Off(NT, a, j) \in 0 .. NT - 1
          /\ Off(NT, a, i) < n
      BY <1>6, <2>4
    <3>1. i # t /\ Off(NT, a, i) < n /\ e[i] = r[i]
      BY <1>5, <1>7, <3>0
    <3>2. CASE j = t
      <4>1. r[i].pkt[2] <= q
        BY <2>4, <3>1 DEF Ordered
      <4> QED
        <5>1. e[j] = d /\ q < d.pkt[2] /\ e[i].pkt[2] \in Nat /\ e[i].pkt[2] <= q
          BY <1>7, <2>1, <2>4, <3>1, <3>2, <4>1
        <5> QED
          BY SMTT(30), <2>2, <5>1
    <3>3. CASE j # t
      <4>1. Off(NT, a, j) < n /\ e[j] = r[j]
        BY <1>7, <1>8, <2>4, <3>3
      <4> QED
        BY <2>4, <3>1, <4>1 DEF Ordered
    <3> QED
      BY <3>2, <3>3
  <2> QED
    BY <2>3, <2>4 DEF Ordered
<1>10. t # p \/ ~ m
  OBVIOUS
<1>11. m => n + 1 < NT
  <2> SUFFICES ASSUME m, n = NT - 1 PROVE FALSE
    BY <1>4
  <2>1. p = Prev(NT, a)
    BY DEF Bounded
  <2>2. Off(NT, a, p) = NT - 1
    BY <2>1 DEF Off, Prev
  <2> QED
    BY <1>6, <1>10, <2>2
<1>12. Bounded(e, a, n + 1, m, p, (t + 1) % NT)
  <2>1. ASSUME NEW i \in 0 .. NT - 1, Off(NT, a, i) >= n + 1, e[i].own, e[i].stp PROVE m /\ i = p
    <3>0. Off(NT, a, i) \in 0 .. NT - 1
      BY <1>6
    <3>1. i # t /\ Off(NT, a, i) >= n
      BY <1>5, <2>1, <3>0
    <3> QED
      BY <1>7, <2>1, <3>1 DEF Bounded
  <2>2. \A i \in 0 .. NT - 1 : Off(NT, a, i) < n + 1 => e[i].own
    BY <1>2, <1>7, <1>8
  <2>3. m => p = Prev(NT, a)
    BY DEF Bounded
  <2> QED
    BY <1>5, <1>11, <2>1, <2>2, <2>3 DEF Bounded
<1> QED
  BY <1>1, <1>4, <1>9, <1>10, <1>12 DEF e
\* Most steps leave the ring and what is sent from it alone.
LEMMA StillSending ==
  ASSUME Types, Marked, Sending, UNCHANGED <<tring, nq, sent>>,
         Marks' <=> Marks, Marks => UNCHANGED <<tdrpa, xmt>> /\ (tx' = "sendto" <=> tx = "sendto"),
         faults' = 0 => faults = 0
  PROVE  /\ Marked' /\ Sending' /\ Going' = Going
         /\ Queueing /\ UNCHANGED <<tdrca, txin>> /\ (run' /\ fmt' => run /\ fmt) => Queueing'
<1>1. Going' = Going
  BY DEF Going, Marks
<1>2. Marked'
  BY <1>1 DEF Marked
<1>3. Sending'
  BY DEF Sending, Marks
<1>4. ASSUME Queueing, UNCHANGED <<tdrca, txin>>, run' /\ fmt' => run /\ fmt, faults' = 0, run', fmt'
      PROVE  \E n \in 0 .. NT : Queued(n)'
  <2>1. PICK n \in 0 .. NT : Queued(n)
    BY <1>4 DEF Queueing
  <2>2. Ordered(tring', tdrca', n, Going', nq')
    BY <1>1, <1>4, <2>1 DEF Queued
  <2>3. Bounded(tring', tdrca', n, Marks', tdrpa', txin')
    BY <1>4, <2>1 DEF Queued, Bounded
  <2> QED
    BY <2>2, <2>3 DEF Queued
<1> QED
  BY <1>1, <1>2, <1>3, <1>4 DEF Queueing

\* Among them those of INIT, the port commands, the receiver and most of the driver's.
LEMMA OthersSending ==
  ASSUME ~ Intrude, Types, Held, Commanded, Marked, Sending, Queueing,
         \/ InitOn \/ InitOff \/ IoRead \/ IoTimeout \/ Receive \/ RcvError \/ RcvBadBuffer \/ RcvNoPeek \/ RxLock
         \/ (\E p \in {<<1, "mine">>, <<2, "mine">>, <<1, "other">>} : Arrive(p[1], p[2]))
         \/ TxBorn \/ TxWoken \/ TxSleep \/ TxWords \/ TxIdle \/ TxRelock
         \/ GiveReset \/ Driver \/ UNCHANGED vars
  PROVE  Marked' /\ Sending' /\ Queueing'
<1>1. UNCHANGED <<tring, nq, sent, tdrca, txin, run, fmt>> /\ (faults' = 0 => faults = 0)
  <2>1. CASE InitOn \/ InitOff \/ IoRead \/ IoTimeout \/ RxLock
             \/ (\E p \in {<<1, "mine">>, <<2, "mine">>, <<1, "other">>} : Arrive(p[1], p[2]))
             \/ TxBorn \/ TxWoken \/ TxSleep \/ TxWords \/ TxIdle \/ TxRelock
    BY <2>1 DEF InitOn, InitOff, IoRead, IoTimeout, RxLock, Arrive, TxBorn, TxWoken, TxSleep,
         TxWords, TxIdle, TxRelock,
       TxUnch, ctl, txv, drv, Types
  <2>2. CASE Receive \/ RcvError \/ RcvBadBuffer \/ RcvNoPeek
    BY <2>2 DEF Receive, RcvError, RcvFilter, RcvDesc, RcvOverflow, RcvPeek, RcvHand,
         RcvBadBuffer, RcvNoPeek, RcvDone, RcvUnch, RcvReturn,
       drv, Types
  <2>3. CASE GiveReset \/ Driver \/ UNCHANGED vars
    BY <2>3 DEF GiveReset, Driver, SeeAnswer, NopOver, AckRings, TakePacket, ScanEnd, DrvUnch,
         DaemonUnch, ctl, txv, drv, vars
  <2> QED
    BY <2>1, <2>2, <2>3
<1>2. (Marks' <=> Marks) /\ (Marks => UNCHANGED <<tdrpa, xmt>> /\ (tx' = "sendto" <=> tx = "sendto"))
  <2>1. CASE InitOn \/ InitOff \/ IoRead \/ IoTimeout \/ RxLock
             \/ (\E p \in {<<1, "mine">>, <<2, "mine">>, <<1, "other">>} : Arrive(p[1], p[2]))
             \/ GiveReset \/ Driver \/ UNCHANGED vars
    <3>1. UNCHANGED <<tx, tdrpa, xmt>>
      BY <2>1 DEF InitOn, InitOff, IoRead, IoTimeout, RxLock, Arrive, GiveReset, Driver,
           SeeAnswer, NopOver,
         AckRings, TakePacket, ScanEnd, DrvUnch, DaemonUnch, txv, vars
    <3> QED
      BY <3>1 DEF Marks
  <2>2. CASE TxBorn \/ TxWoken \/ TxSleep \/ TxWords \/ TxIdle \/ TxRelock
    BY <2>2 DEF TxBorn, TxWoken, TxSleep, TxWords, TxIdle, TxRelock, Marks
  <2>3. CASE Receive \/ RcvError \/ RcvBadBuffer \/ RcvNoPeek
    <3>1. UNCHANGED <<tdrpa, xmt>>
      BY <2>3 DEF Receive, RcvError, RcvFilter, RcvDesc, RcvOverflow, RcvPeek, RcvHand,
           RcvBadBuffer, RcvNoPeek, RcvDone, RcvUnch
    <3>2. tx' = tx \/ (tx = "in" /\ tx' = "mark")
      <4>1. themutex # "rx" /\ rcv.pc # "idle" => tx = "in"
        BY DEF Held
      <4> QED
        BY <2>3, <4>1 DEF Receive, RcvError, RcvFilter, RcvDesc, RcvOverflow, RcvPeek, RcvHand,
             RcvBadBuffer, RcvNoPeek, RcvDone, RcvLook,
           RcvReturn
    <3> QED
      BY <3>1, <3>2 DEF Marks
  <2> QED
    BY <2>1, <2>2, <2>3
<1> QED
  BY <1>1, <1>2, StillSending

\* Port commands: a port that starts finds its ring set up.
LEMMA IoSending ==
  ASSUME ~ Intrude, Types, Held, Commanded, Prepared, Marked, Sending, Queueing, IoDo
  PROVE  Marked' /\ Sending' /\ Queueing'
<1>1. UNCHANGED <<tring, nq, sent, txin, tdrpa, xmt, faults>> /\ iocmd = asked
  BY AtCommand DEF IoDo, drv
<1>2. tx' = tx \/ (tx = "sleep" /\ tx' = "woken")
  BY DEF IoDo, DoReset, Start, Pdmd, SetRings, SetMode, WakeTransmit
<1>3. (Marks' <=> Marks) /\ (tx' = "sendto" <=> tx = "sendto")
  BY <1>2 DEF Marks
<1>4. Marked' /\ Sending'
  BY <1>1, <1>3, StillSending
<1>5. ASSUME faults' = 0, run', fmt' PROVE Queueing'
  <2>1. CASE tdrca' = tdrca /\ run /\ fmt
    BY <1>1, <1>3, <2>1, StillSending
  <2>2. CASE ~ (tdrca' = tdrca /\ run /\ fmt)
    <3>1. iocmd = "START" /\ ~ run /\ tdrca' = 0
      BY <1>5, <2>2 DEF IoDo, DoReset, Start, Pdmd, SetRings, SetMode, ctl
    <3>2. ~ up
      BY <1>1, <3>1 DEF Commanded
    <3>3. tx \in {"born", "sleep", "woken", "loop"} /\ txin = 0 /\ \A i \in 0 .. NT - 1 : ~ tring[i].own
      BY <1>1, <1>5, <3>1, <3>2 DEF Prepared
    <3>4. At(NT, 0, 0) = 0 /\ 0 \in 0 .. NT
      BY XeAssumption DEF At
    <3>5. ~ Marks'
      BY <1>2, <3>3 DEF Marks
    <3>6. Ordered(tring', 0, 0, Going', nq')
      BY <1>1, <3>3 DEF Ordered, Sendable
    <3>7. Bounded(tring', 0, 0, Marks', tdrpa', txin')
      <4>1. \A i \in 0 .. NT - 1 : ~ (Off(NT, 0, i) < 0)
        BY DEF Off
      <4> QED
        BY <1>1, <3>3, <3>4, <3>5, <4>1 DEF Bounded
    <3> QED
      BY <3>1, <3>4, <3>6, <3>7 DEF Queueing, Queued
  <2> QED
    BY <2>1, <2>2
<1> QED
  BY <1>4, <1>5 DEF Queueing
\* The transmit thread.
LEMMA TransmitSending ==
  ASSUME Types, Held, Marked, Sending, Queueing, Types',
         TxNoStart \/ TxCopy \/ TxSend \/ TxMark \/ TxError \/ TxUnibusTimeout \/ TxStatusFails
  PROVE  Marked' /\ Sending' /\ Queueing'
<1> USE XeAssumption
<1>1. UNCHANGED <<run, fmt, nq, txin>> /\ (faults' = 0 => faults = 0)
  <2>1. UNCHANGED <<run, fmt, nq, txin>>
    BY DEF TxNoStart, TxCopy, TxSend, TxMark, TxError, TxUnibusTimeout, TxStatusFails, TxUnch,
         ctl, drv
  <2>2. faults' = faults \/ faults' = faults + 1
    BY DEF TxNoStart, TxCopy, TxSend, TxMark, TxError, TxUnibusTimeout, TxStatusFails
  <2>3. faults \in Nat
    BY DEF Types
  <2> QED
    BY <2>1, <2>2, <2>3
<1>2. /\ tring \in [0 .. NT - 1 -> Descriptors] /\ tring[tdrca] \in Descriptors
      /\ tdrca \in 0 .. NT - 1 /\ tdrpa \in 0 .. NT - 1 /\ sent \in Nat /\ nq \in Nat /\ NT \in Nat \ {0}
  BY DEF Types
<1>3. NextTd = (tdrca + 1) % NT /\ NextTd \in 0 .. NT - 1 /\ Prev(NT, NextTd) = tdrca
  BY <1>2, OneOn DEF NextTd
<1>4. NextTd = IF tdrca = NT - 1 THEN 0 ELSE tdrca + 1
  BY <1>2, NextIs DEF NextTd
<1>5. tx = "owner" => run /\ fmt /\ ~ Marks /\ Going = sent
  BY DEF Held, Marks, Going
<1>6. ASSUME TxCopy \/ TxNoStart \/ TxUnibusTimeout, faults = 0
      PROVE  \E n \in 0 .. NT : Ordered(tring, tdrca, n, sent, nq) /\ Bounded(tring, tdrca, n, FALSE, tdrpa, txin)
  <2>1. tx = "owner"
    BY <1>6 DEF TxCopy, TxNoStart, TxUnibusTimeout
  <2>2. PICK n \in 0 .. NT : Queued(n)
    BY <1>5, <1>6, <2>1 DEF Queueing
  <2>3. Bounded(tring, tdrca, n, FALSE, tdrpa, txin)
    BY <1>5, <2>1, <2>2 DEF Queued, Bounded
  <2> QED
    BY <1>5, <2>1, <2>2, <2>3 DEF Queued
<1>7. CASE TxError \/ TxStatusFails \/ TxUnibusTimeout
  <2>1. faults' # 0
    <3>1. faults \in Nat
      BY DEF Types
    <3>2. faults' = faults + 1
      BY <1>7 DEF TxError, TxStatusFails, TxUnibusTimeout
    <3> QED
      BY <3>1, <3>2
  <2> QED
    BY <2>1 DEF Marked, Sending, Queueing
<1>8. CASE TxSend
  <2>1. UNCHANGED <<tring, tdrca, tdrpa, xmt>> /\ tx = "sendto" /\ sent' = xmt[2] /\ tx' = "relock"
    BY <1>8 DEF TxSend
  <2>2. Going' = Going /\ Marks /\ Marks'
    BY <2>1 DEF Going, Marks
  <2>3. Marked'
    BY <1>1, <2>1, <2>2 DEF Marked
  <2>4. Sending'
    BY <1>1, <2>1 DEF Sending
  <2>5. Queueing'
    <3> SUFFICES ASSUME faults' = 0, run', fmt' PROVE \E n \in 0 .. NT : Queued(n)'
      BY DEF Queueing
    <3>1. PICK n \in 0 .. NT : Queued(n)
      BY <1>1 DEF Queueing
    <3>2. Ordered(tring', tdrca', n, Going', nq')
      BY <1>1, <2>1, <2>2, <3>1 DEF Queued
    <3>3. Bounded(tring', tdrca', n, Marks', tdrpa', txin')
      BY <1>1, <2>1, <2>2, <3>1 DEF Queued, Bounded
    <3> QED
      BY <3>2, <3>3 DEF Queued
  <2> QED
    BY <2>3, <2>4, <2>5
<1>9. CASE TxMark
  <2>1. /\ tring' = [tring EXCEPT ![tdrpa].own = FALSE] /\ tx = "mark" /\ tx' = "loop"
        /\ UNCHANGED <<tdrca, sent>>
    BY <1>9 DEF TxMark
  <2>2. Going' = Going /\ Marks /\ ~ Marks' /\ (faults = 0 => tring[tdrpa].stp)
    BY <2>1 DEF Going, Marks, Marked
  <2>3. Sending'
    BY <1>1, <2>1 DEF Sending
  <2>4. /\ ~ tring'[tdrpa].own
        /\ \A i \in 0 .. NT - 1 : i # tdrpa => tring'[i] = tring[i]
    BY <1>2, <2>1 DEF Descriptors
  <2>5. Queueing'
    <3> SUFFICES ASSUME faults' = 0, run', fmt' PROVE \E n \in 0 .. NT : Queued(n)'
      BY DEF Queueing
    <3>1. PICK n \in 0 .. NT : Queued(n)
      BY <1>1 DEF Queueing
    <3>2. Ordered(tring', tdrca', n, Going', nq')
      <4>1. Ordered(tring, tdrca, n, Going, nq)
        BY <3>1 DEF Queued
      <4>2. \A i \in 0 .. NT - 1 : Sendable(tring'[i]) => Sendable(tring[i]) /\ tring'[i].pkt = tring[i].pkt
        BY <2>4 DEF Sendable
      <4>3. Ordered(tring', tdrca, n, Going, nq)
        BY <4>1, <4>2, StillOrdered
      <4> QED
        BY <1>1, <2>1, <2>2, <4>3
    <3>3. txin = At(NT, tdrca, n) /\ tdrpa = Prev(NT, tdrca) /\ n < NT
      BY <2>2, <3>1 DEF Queued, Bounded
    <3>4. Off(NT, tdrca, tdrpa) = NT - 1
      BY <1>2, <3>3 DEF Off, Prev
    <3>5. \A i \in 0 .. NT - 1 : ~ (Off(NT, tdrca, i) >= n /\ tring'[i].own /\ tring'[i].stp)
      BY <2>2, <2>4, <3>1 DEF Queued, Bounded
    <3>6. \/ tring'[txin].own /\ ~ tring'[txin].stp
          \/ \A i \in 0 .. NT - 1 : Off(NT, tdrca, i) < n => tring'[i].own
      <4>1. CASE tring[txin].own /\ ~ tring[txin].stp
        <5>1. txin \in 0 .. NT - 1
          BY DEF Types
        <5> QED
          BY <1>1, <2>2, <2>4, <4>1, <5>1
      <4>2. CASE \A i \in 0 .. NT - 1 : Off(NT, tdrca, i) < n => tring[i].own
        BY <2>4, <3>3, <3>4, <4>2
      <4> QED
        BY <3>1, <4>1, <4>2 DEF Queued, Bounded
    <3>7. Bounded(tring', tdrca', n, Marks', tdrpa', txin')
      BY <1>1, <2>1, <2>2, <3>3, <3>5, <3>6 DEF Bounded
    <3> QED
      BY <3>2, <3>7 DEF Queued
  <2> QED
    BY <2>2, <2>3, <2>5 DEF Marked
<1>11. CASE TxNoStart
  <2>1. /\ tring' = [tring EXCEPT ![tdrca].err = TRUE] /\ tdrca' = NextTd /\ tx = "owner" /\ tx' = "loop"
        /\ tring[tdrca].own /\ ~ tring[tdrca].stp /\ UNCHANGED sent
    BY <1>11 DEF TxNoStart
  <2>2. ~ Marks' /\ Going' = sent
    BY <2>1 DEF Marks, Going
  <2>3. Sending'
    BY <1>1, <2>1 DEF Sending
  <2>4. \A i \in 0 .. NT - 1 : tring'[i].own = tring[i].own /\ tring'[i].stp = tring[i].stp
                               /\ tring'[i].enp = tring[i].enp /\ tring'[i].pkt = tring[i].pkt
    <3>1. \A i \in 0 .. NT - 1 : tring[i] \in Descriptors
      BY <1>2
    <3> QED
      BY <1>2, <2>1, <3>1 DEF Descriptors
  <2>5. Queueing'
    <3> SUFFICES ASSUME faults' = 0, run', fmt' PROVE \E n \in 0 .. NT : Queued(n)'
      BY DEF Queueing
    <3>1. PICK n \in 0 .. NT : Ordered(tring, tdrca, n, sent, nq) /\ Bounded(tring, tdrca, n, FALSE, tdrpa, txin)
      BY <1>1, <1>6, <1>11
    <3>2. txin = At(NT, tdrca, n)
      BY <3>1 DEF Bounded
    <3>3. ASSUME NEW i \in 0 .. NT - 1
          PROVE  /\ Off(NT, NextTd, i) = IF i = tdrca THEN NT - 1 ELSE Off(NT, tdrca, i) - 1
                 /\ Off(NT, tdrca, i) \in 0 .. NT - 1 /\ (i = tdrca <=> Off(NT, tdrca, i) = 0)
      BY <1>2, <1>4, <3>3 DEF Off
    <3>4. CASE n = 0
      <4>1. txin = tdrca /\ NT - 1 \in 0 .. NT /\ At(NT, NextTd, NT - 1) = tdrca
        BY <1>2, <1>4, <3>2, <3>4 DEF At
      <4>2. \A i \in 0 .. NT - 1 : ~ (tring[i].own /\ tring[i].stp)
        BY <3>1, <3>3, <3>4 DEF Bounded
      <4>3. \A i \in 0 .. NT - 1 : ~ (tring'[i].own /\ tring'[i].stp)
        BY <2>4, <4>2
      <4>4. Ordered(tring', tdrca', NT - 1, Going', nq')
        BY <4>3 DEF Ordered, Sendable
      <4>5. tring'[txin'].own /\ ~ tring'[txin'].stp
        BY <1>1, <1>2, <2>1, <2>4, <4>1
      <4>6. Bounded(tring', tdrca', NT - 1, Marks', tdrpa', txin')
        BY <1>1, <2>1, <2>2, <4>1, <4>3, <4>5 DEF Bounded
      <4> QED
        BY <4>1, <4>4, <4>6 DEF Queued
    <3>5. CASE n # 0
      <4>1. n \in 1 .. NT /\ n - 1 \in 0 .. NT
        BY <3>5
      <4>2. Ordered(tring, NextTd, n - 1, sent, nq)
        BY <1>2, <1>3, <3>1, <4>1, Advance
      <4>3. Ordered(tring', tdrca', n - 1, Going', nq')
        <5>1. \A i \in 0 .. NT - 1 : Sendable(tring'[i]) => Sendable(tring[i]) /\ tring'[i].pkt = tring[i].pkt
          BY <2>4 DEF Sendable
        <5>2. Ordered(tring', NextTd, n - 1, sent, nq)
          BY <4>2, <5>1, StillOrdered
        <5> QED
          BY <1>1, <2>1, <2>2, <5>2
      <4>4. At(NT, NextTd, n - 1) = txin
        BY <1>2, <1>4, <3>2, <4>1 DEF At
      <4>5. \A i \in 0 .. NT - 1 : ~ (Off(NT, NextTd, i) >= n - 1 /\ tring'[i].own /\ tring'[i].stp)
        <5> SUFFICES ASSUME NEW i \in 0 .. NT - 1, Off(NT, NextTd, i) >= n - 1, tring'[i].own, tring'[i].stp
                     PROVE  FALSE
          OBVIOUS
        <5>1. i # tdrca
          BY <2>1, <2>4
        <5>2. Off(NT, tdrca, i) >= n
          BY <3>3, <5>1
        <5> QED
          BY <2>4, <3>1, <5>2 DEF Bounded
      <4>6. \/ tring'[txin].own /\ ~ tring'[txin].stp
            \/ \A i \in 0 .. NT - 1 : Off(NT, NextTd, i) < n - 1 => tring'[i].own
        <5>1. CASE tring[txin].own /\ ~ tring[txin].stp
          <6>1. txin \in 0 .. NT - 1
            BY DEF Types
          <6> QED
            BY <2>4, <5>1, <6>1
        <5>2. CASE \A i \in 0 .. NT - 1 : Off(NT, tdrca, i) < n => tring[i].own
          <6> SUFFICES ASSUME NEW i \in 0 .. NT - 1, Off(NT, NextTd, i) < n - 1 PROVE tring'[i].own
            OBVIOUS
          <6>1. Off(NT, tdrca, i) < n
            BY <3>3, <4>1
          <6> QED
            BY <2>4, <5>2, <6>1
        <5> QED
          BY <3>1, <5>1, <5>2 DEF Bounded
      <4>7. Bounded(tring', tdrca', n - 1, Marks', tdrpa', txin')
        BY <1>1, <2>1, <2>2, <4>4, <4>5, <4>6 DEF Bounded
      <4> QED
        BY <4>1, <4>3, <4>7 DEF Queued
    <3> QED
      BY <3>4, <3>5
  <2> QED
    BY <2>2, <2>3, <2>5 DEF Marked
<1>12. CASE TxCopy
  <2>1. /\ UNCHANGED tring /\ tdrca' = NextTd /\ tdrpa' = tdrca
        /\ tring[tdrca].own /\ tring[tdrca].stp /\ tx = "owner"
        /\ sent' = IF tx' = "in" THEN xmt'[2] ELSE sent
    BY <1>12 DEF TxCopy
  <2>0. faults' = 0 => xmt' = tring[tdrca].pkt
    BY <1>12 DEF TxCopy, Types
  <2>2. /\ Marks'
        /\ tring[tdrca].enp => Going' = xmt'[2] /\ (tx' = "in" \/ tx' = "sendto")
        /\ ~ tring[tdrca].enp => Going' = sent /\ tx' = "mark"
    BY <1>12, <2>1 DEF TxCopy, Marks, Going
  <2>3. Marked'
    BY <2>0, <2>1, <2>2 DEF Marked
  <2>4. ASSUME faults = 0
        PROVE  \E n \in 1 .. NT : /\ Ordered(tring, tdrca, n, sent, nq)
                                  /\ Bounded(tring, tdrca, n, FALSE, tdrpa, txin)
    <3>1. PICK n \in 0 .. NT : Ordered(tring, tdrca, n, sent, nq) /\ Bounded(tring, tdrca, n, FALSE, tdrpa, txin)
      BY <1>6, <1>12, <2>4
    <3>2. Off(NT, tdrca, tdrca) = 0
      BY <1>2 DEF Off
    <3>3. n # 0
      BY <1>2, <2>1, <3>1, <3>2 DEF Bounded
    <3>4. n \in 1 .. NT
      BY <1>2, <3>3
    <3> QED
      BY <3>1, <3>4
  <2>5. ASSUME faults' = 0, tring[tdrca].enp PROVE sent < xmt'[2] /\ xmt'[2] <= nq
    <3>1. PICK n \in 1 .. NT : Ordered(tring, tdrca, n, sent, nq)
      BY <1>1, <2>4, <2>5
    <3> QED
      BY <1>2, <2>0, <2>1, <2>5, <3>1, Advance DEF Sendable
  <2>6. Sending'
    BY <1>1, <2>1, <2>2, <2>5 DEF Sending
  <2>7. Queueing'
    <3> SUFFICES ASSUME faults' = 0, run', fmt' PROVE \E n \in 0 .. NT : Queued(n)'
      BY DEF Queueing
    <3>1. PICK n \in 1 .. NT : Ordered(tring, tdrca, n, sent, nq) /\ Bounded(tring, tdrca, n, FALSE, tdrpa, txin)
      BY <1>1, <2>4
    <3>2. Ordered(tring', tdrca', n - 1, Going', nq')
      <4>1. CASE tring[tdrca].enp
        <5>1. Ordered(tring, NextTd, n - 1, xmt'[2], nq)
          BY <1>2, <1>3, <2>0, <2>1, <3>1, <4>1, Advance DEF Sendable
        <5> QED
          BY <1>1, <2>1, <2>2, <4>1, <5>1
      <4>2. CASE ~ tring[tdrca].enp
        <5>1. Ordered(tring, NextTd, n - 1, sent, nq)
          BY <1>2, <1>3, <3>1, Advance
        <5> QED
          BY <1>1, <2>1, <2>2, <4>2, <5>1
      <4> QED
        BY <4>1, <4>2
    <3>3. ASSUME NEW i \in 0 .. NT - 1
          PROVE  /\ Off(NT, NextTd, i) = IF i = tdrca THEN NT - 1 ELSE Off(NT, tdrca, i) - 1
                 /\ Off(NT, tdrca, i) \in 0 .. NT - 1
      BY <1>2, <1>4, <3>3 DEF Off
    <3>4. At(NT, NextTd, n - 1) = txin
      BY <1>2, <1>4, <3>1 DEF At, Bounded
    <3>5. \A i \in 0 .. NT - 1 : Off(NT, NextTd, i) >= n - 1 /\ tring[i].own /\ tring[i].stp => i = tdrca
      <4> SUFFICES ASSUME NEW i \in 0 .. NT - 1, Off(NT, NextTd, i) >= n - 1, tring[i].own, tring[i].stp, i # tdrca
                   PROVE  FALSE
        OBVIOUS
      <4>1. Off(NT, tdrca, i) >= n
        BY <3>3
      <4> QED
        BY <3>1, <4>1 DEF Bounded
    <3>6. \/ tring[txin].own /\ ~ tring[txin].stp
          \/ \A i \in 0 .. NT - 1 : Off(NT, NextTd, i) < n - 1 => tring[i].own
      <4>1. \A i \in 0 .. NT - 1 : Off(NT, NextTd, i) < n - 1 => Off(NT, tdrca, i) < n
        BY <3>3
      <4> QED
        BY <3>1, <4>1 DEF Bounded
    <3>7. Bounded(tring', tdrca', n - 1, Marks', tdrpa', txin')
      BY <1>1, <1>3, <2>1, <2>2, <3>4, <3>5, <3>6 DEF Bounded
    <3> QED
      BY <3>2, <3>7 DEF Queued
  <2> QED
    BY <2>3, <2>6, <2>7
<1> QED
  BY <1>7, <1>8, <1>9, <1>11, <1>12
\* The driver sets the ring up, and queues.
LEMMA DriverSending ==
  ASSUME ~ Intrude, Types, Held, Commanded, Marked, Sending, Queueing, Types',
         (\E c \in Commands : GiveCommand(c)) \/ (\E w \in {"whole", "halves", "long"} : Queue(w))
  PROVE  Marked' /\ Sending' /\ Queueing'
<1> USE XeAssumption
<1>1. UNCHANGED <<run, fmt, tdrca, tdrpa, tx, xmt, sent>> /\ (faults' = 0 => faults = 0)
  <2>1. UNCHANGED <<run, fmt, tdrca, tdrpa, tx, xmt, sent>>
    BY DEF GiveCommand, Queue, DrvUnch, DaemonUnch, ctl, txv
  <2>2. faults' = faults \/ faults' = faults + 1
    BY DEF GiveCommand, Queue, DrvUnch
  <2>3. faults \in Nat
    BY DEF Types
  <2> QED
    BY <2>1, <2>2, <2>3
<1>2. (Marks' <=> Marks) /\ Going' = Going
  BY <1>1 DEF Marks, Going
<1>3. /\ tring \in [0 .. NT - 1 -> Descriptors] /\ tdrca \in 0 .. NT - 1 /\ tdrpa \in 0 .. NT - 1
      /\ nq \in Nat /\ txin \in 0 .. NT - 1 /\ NT \in Nat \ {0} /\ Going \in Nat
  BY PacketFacts DEF Types, Going
<1>4. ASSUME NEW c \in Commands, GiveCommand(c) PROVE Marked' /\ Sending' /\ Queueing'
  <2>1. nq' = nq
    BY <1>4 DEF GiveCommand
  <2>2. CASE UNCHANGED <<tring, txin>>
    BY <1>1, <1>2, <2>1, <2>2, StillSending
  <2>3. CASE ~ UNCHANGED <<tring, txin>>
    <3>1. asked = "none" /\ ~ up /\ faults' = (IF HasDescriptor THEN faults + 1 ELSE faults)
      BY <1>4, <2>3 DEF GiveCommand
    <3>2. ~ (run /\ fmt)
      BY <3>1 DEF Commanded
    <3>3. faults' = 0 => ~ Marks
      BY <3>1 DEF HasDescriptor, Marks, Types
    <3> QED
      BY <1>1, <1>2, <2>1, <3>2, <3>3 DEF Marked, Sending, Queueing, Marks
  <2> QED
    BY <2>2, <2>3
<1>5. ASSUME NEW w \in {"whole", "halves", "long"}, Queue(w) PROVE Marked' /\ Sending' /\ Queueing'
  <2>1. nq' = nq + 1 /\ up /\ asked = "none" /\ ~ tring[txin].own
    BY <1>5 DEF Queue
  <2>2. run /\ fmt
    BY <2>1 DEF Commanded
  <2> DEFINE d(s, e) == [own |-> TRUE, pkt |-> <<"loop", nq + 1>>, stp |-> s, enp |-> e, err |-> FALSE]
  <2>3. \A s, e \in BOOLEAN : /\ d(s, e) \in Descriptors /\ d(s, e).own /\ d(s, e).pkt[2] = nq + 1
                              /\ d(s, e).stp = s /\ d(s, e).enp = e
    BY <1>3, PacketFacts DEF Descriptors, Sources
  <2> DEFINE t2 == (txin + 1) % NT
  <2>4. /\ w # "halves" => \E s \in BOOLEAN : /\ tring' = [tring EXCEPT ![txin] = d(s, TRUE)]
                                             /\ txin' = t2
        /\ w = "halves" => /\ NT > 1 /\ ~ tring[t2].own
                  /\ tring' = [tring EXCEPT ![txin] = d(TRUE, FALSE), ![t2] = d(FALSE, TRUE)]
                  /\ txin' = (txin + 2) % NT
    <3>1. (w = "whole") \in BOOLEAN
      OBVIOUS
    <3> QED
      BY <1>5, <3>1 DEF Queue
  <2>5. t2 \in 0 .. NT - 1 /\ (NT > 1 => t2 # txin /\ (t2 + 1) % NT = (txin + 2) % NT)
    <3>1. t2 = (IF txin = NT - 1 THEN 0 ELSE txin + 1) /\ t2 \in 0 .. NT - 1
      BY <1>3, NextIs
    <3>2. (t2 + 1) % NT = IF t2 = NT - 1 THEN 0 ELSE t2 + 1
      BY <1>3, <3>1, NextIs
    <3>3. ASSUME NT > 1 PROVE (txin + 2) % NT = IF txin >= NT - 2 THEN txin + 2 - NT ELSE txin + 2
      <4>1. NT \in Nat \ {0, 1} /\ txin \in 0 .. NT - 1
        BY <1>3, <3>3
      <4> HIDE DEF t2
      <4> QED
        BY <4>1, NextNextIs
    <3> HIDE DEF t2
    <3> QED
      BY <1>3, <3>1, <3>2, <3>3
  <2>6. \A i \in 0 .. NT - 1 : tring[i].own => tring'[i] = tring[i]
    <3>1. \A i \in 0 .. NT - 1 : i # txin /\ (w # "halves" \/ i # t2) => tring'[i] = tring[i]
      <4> HIDE DEF d, t2
      <4> QED
        BY <1>3, <2>4, <2>5
    <3> HIDE DEF d, t2
    <3> QED
      BY <2>1, <2>4, <3>1
  <2>7. Marked'
    BY <1>1, <1>2, <1>3, <2>6 DEF Marked
  <2>8. Sending'
    <3>1. xmt[2] \in Nat /\ sent \in Nat
      BY PacketFacts DEF Types
    <3> QED
      BY <1>1, <1>3, <2>1, <3>1 DEF Sending
  <2>9. Queueing'
    <3> SUFFICES ASSUME faults' = 0, run', fmt' PROVE \E n \in 0 .. NT : Queued(n)'
      BY DEF Queueing
    <3>1. PICK n \in 0 .. NT : Queued(n)
      BY <1>1 DEF Queueing
    <3>2. Ordered(tring, tdrca, n, Going, nq) /\ Bounded(tring, tdrca, n, Marks, tdrpa, txin)
      BY <3>1 DEF Queued
    <3>3. Going <= nq
      BY <1>1, <1>3 DEF Going, Sending
    <3>4. (Marks => tring[tdrpa].own) /\ nq + 1 \in Nat /\ nq <= nq + 1
      BY <1>1, <1>3 DEF Marked
    <3>5. ASSUME NEW e \in Descriptors, e.own, e.pkt[2] = nq + 1
          PROVE  /\ n < NT
                 /\ Ordered([tring EXCEPT ![txin] = e], tdrca, n + 1, Going, nq + 1)
                 /\ Bounded([tring EXCEPT ![txin] = e], tdrca, n + 1, Marks, tdrpa, t2)
                 /\ txin # tdrpa \/ ~ Marks
      <4>1. Sendable(e) => nq < e.pkt[2] /\ e.pkt[2] <= nq + 1
        BY <1>3, <3>5
      <4> QED
        BY <1>3, <2>1, <3>2, <3>3, <3>4, <3>5, <4>1, Appended
    <3>6. CASE w # "halves"
      <4>0. PICK a \in BOOLEAN : tring' = [tring EXCEPT ![txin] = d(a, TRUE)] /\ txin' = t2
        BY <2>4, <3>6
      <4>5. d(a, TRUE) \in Descriptors /\ d(a, TRUE).own /\ d(a, TRUE).pkt[2] = nq + 1
        BY <2>3
      <4>1. n < NT /\ Ordered(tring', tdrca, n + 1, Going, nq + 1) /\ Bounded(tring', tdrca, n + 1, Marks, tdrpa, txin')
        BY ZenonT(40), <3>5, <4>0, <4>5
      <4>2. Ordered(tring', tdrca', n + 1, Going', nq') /\ Bounded(tring', tdrca', n + 1, Marks, tdrpa', txin')
        BY <1>1, <1>2, <2>1, <4>1
      <4>3. Bounded(tring', tdrca', n + 1, Marks', tdrpa', txin')
        BY <1>2, <4>2 DEF Bounded
      <4>4. n + 1 \in 0 .. NT
        BY <1>3, <4>1
      <4> QED
        BY <4>2, <4>3, <4>4 DEF Queued
    <3>7. CASE w = "halves"
      <4> DEFINE r == [tring EXCEPT ![txin] = d(TRUE, FALSE)]
      <4>1. /\ n < NT /\ Ordered(r, tdrca, n + 1, Going, nq + 1) /\ Bounded(r, tdrca, n + 1, Marks, tdrpa, t2)
            /\ txin # tdrpa \/ ~ Marks
        BY <2>3, <3>5
      <4>2. r \in [0 .. NT - 1 -> Descriptors] /\ (\A i \in 0 .. NT - 1 : i # txin => r[i] = tring[i])
        BY <1>3, <2>3
      <4>3. tring' = [r EXCEPT ![t2] = d(FALSE, TRUE)] /\ txin' = (t2 + 1) % NT /\ ~ r[t2].own
        <5>1. tring' = [[tring EXCEPT ![txin] = d(TRUE, FALSE)] EXCEPT ![t2] = d(FALSE, TRUE)]
          BY <2>4, <3>7
        <5>2. t2 # txin /\ txin' = (t2 + 1) % NT /\ ~ tring[t2].own
          BY <2>4, <2>5, <3>7
        <5> QED
          BY <2>5, <4>2, <5>1, <5>2
      <4>4. n + 1 \in 0 .. NT /\ (Marks => r[tdrpa].own)
        BY <1>3, <3>4, <4>1, <4>2
      <4>5. d(FALSE, TRUE) \in Descriptors /\ d(FALSE, TRUE).own /\ ~ Sendable(d(FALSE, TRUE))
        BY <2>3 DEF Sendable
      <4>6. Going <= nq + 1 /\ nq + 1 \in Nat
        BY <1>3, <3>3
      <4> HIDE DEF r, d, t2
      <4>7. /\ n + 1 < NT
            /\ Ordered(tring', tdrca, n + 1 + 1, Going, nq + 1)
            /\ Bounded(tring', tdrca, n + 1 + 1, Marks, tdrpa, txin')
        <5>1. ASSUME NEW e \in Descriptors, e.own, ~ Sendable(e)
              PROVE  /\ n + 1 < NT
                     /\ Ordered([r EXCEPT ![t2] = e], tdrca, n + 1 + 1, Going, nq + 1)
                     /\ Bounded([r EXCEPT ![t2] = e], tdrca, n + 1 + 1, Marks, tdrpa, (t2 + 1) % NT)
          <6>1. PICK k \in 0 .. NT, q \in Nat : k = n + 1 /\ q = nq + 1
            BY <4>4, <4>6
          <6>2. Ordered(r, tdrca, k, Going, q) /\ Bounded(r, tdrca, k, Marks, tdrpa, t2)
            BY <4>1, <6>1
          <6>3. ~ r[t2].own /\ (Marks => r[tdrpa].own) /\ Going <= q /\ q <= q
            BY <4>3, <4>4, <4>6, <6>1
          <6>4. /\ k < NT
                /\ Ordered([r EXCEPT ![t2] = e], tdrca, k + 1, Going, q)
                /\ Bounded([r EXCEPT ![t2] = e], tdrca, k + 1, Marks, tdrpa, (t2 + 1) % NT)
            BY <1>3, <4>2, <5>1, <6>2, <6>3, Appended
          <6> QED
            BY <6>1, <6>4
        <5> QED
          BY <4>3, <4>5, <5>1
      <4>8. /\ Ordered(tring', tdrca', n + 1 + 1, Going', nq')
            /\ Bounded(tring', tdrca', n + 1 + 1, Marks, tdrpa', txin')
        BY <1>1, <1>2, <2>1, <4>7
      <4>9. Bounded(tring', tdrca', n + 1 + 1, Marks', tdrpa', txin')
        BY <1>2, <4>8 DEF Bounded
      <4>10. n + 1 + 1 \in 0 .. NT
        BY <1>3, <4>7
      <4> QED
        BY <4>8, <4>9, <4>10 DEF Queued
    <3> QED
      BY <3>6, <3>7
  <2> QED
    BY <2>7, <2>8, <2>9
<1> QED
  BY <1>4, <1>5
\* What holds of commands, buffer and transmit ring in every reachable state.
Orderly == Types /\ Held /\ Commanded /\ Prepared /\ Looped /\ Marked /\ Sending /\ Queueing

\* It holds at first.
LEMMA InitOrderly == Init => Orderly
<1> SUFFICES ASSUME Init PROVE Orderly
  OBVIOUS
<1>1. Types /\ Held
  BY InitTypes
<1>2. Commanded /\ Prepared /\ Looped
  BY DEF Init, Commanded, Prepared, Looped, NoAnswer
<1>3. Marked /\ Sending /\ Queueing
  BY DEF Init, Marked, Sending, Queueing, Marks
<1> QED
  BY <1>1, <1>2, <1>3 DEF Orderly

\* Every step keeps it.
LEMMA OrderlyStep ==
  ASSUME ~ Intrude, Orderly, [Next]_vars
  PROVE  Orderly'
<1>1. Types /\ Held /\ Commanded /\ Prepared /\ Looped /\ Marked /\ Sending /\ Queueing
  BY DEF Orderly
<1>2. Types' /\ Held'
  BY <1>1, BaseStep
<1>3. Commanded'
  BY <1>1, InitCommanded, IoCommanded, TrafficCommanded, DriverCommanded, Zenon DEF Next
<1>4. Prepared'
  BY <1>1, <1>2, <1>3, PreparedStep
<1>5. Looped'
  BY <1>1, LoopedStep
<1>6. Marked' /\ Sending' /\ Queueing'
  <2>1. CASE \/ InitOn \/ InitOff \/ IoRead \/ IoTimeout \/ Receive \/ RcvError \/ RcvBadBuffer \/ RcvNoPeek \/ RxLock
             \/ (\E p \in {<<1, "mine">>, <<2, "mine">>, <<1, "other">>} : Arrive(p[1], p[2]))
             \/ TxBorn \/ TxWoken \/ TxSleep \/ TxWords \/ TxIdle \/ TxRelock
             \/ GiveReset \/ Driver \/ UNCHANGED vars
    BY <1>1, <2>1, OthersSending
  <2>2. CASE IoDo
    BY <1>1, <2>2, IoSending
  <2>3. CASE TxNoStart \/ TxCopy \/ TxSend \/ TxMark \/ TxError \/ TxUnibusTimeout \/ TxStatusFails
    BY <1>1, <1>2, <2>3, TransmitSending
  <2>4. CASE (\E c \in Commands : GiveCommand(c)) \/ (\E w \in {"whole", "halves", "long"} : Queue(w))
    BY <1>1, <1>2, <2>4, DriverSending
  <2> QED
    BY <2>1, <2>2, <2>3, <2>4, Zenon DEF Next, Transmit
<1> QED
  BY <1>2, <1>3, <1>4, <1>5, <1>6 DEF Orderly

\* The next to send is newer than what went out before.
LEMMA NextIsNewer ==
  ASSUME Orderly, TxCopy, tring[tdrca].enp, faults = 0
  PROVE  sent < tring[tdrca].pkt[2] /\ tring[tdrca].pkt[2] <= nq
<1>0. Types /\ Held /\ Queueing
  BY DEF Orderly
<1>1. tx = "owner" /\ run /\ fmt /\ ~ Marks /\ Going = sent
  BY <1>0 DEF TxCopy, Held, Marks, Going
<1>2. PICK n \in 0 .. NT : Queued(n)
  BY <1>0, <1>1 DEF Queueing
<1>3. tring[tdrca].own /\ tring[tdrca].stp
  BY DEF TxCopy
<1>4. Off(NT, tdrca, tdrca) = 0 /\ tdrca \in 0 .. NT - 1
  BY <1>0 DEF Off, Types
<1>5. 0 < n
  BY <1>1, <1>2, <1>3, <1>4 DEF Queued, Bounded
<1> QED
  BY <1>1, <1>2, <1>3, <1>4, <1>5 DEF Queued, Ordered, Sendable

\* What goes out is newer than what went out before.
LEMMA SentGrows ==
  ASSUME Orderly, [Next]_vars, sent' # sent, faults' = 0
  PROVE  sent' > sent /\ sent' <= nq
<1>0. Types /\ Held /\ Marked /\ Sending /\ Queueing
  BY DEF Orderly
<1>1. TxSend \/ TxCopy
  <2>1. CASE Receive \/ RcvError \/ RcvBadBuffer \/ RcvNoPeek
    BY <2>1 DEF Receive, RcvError, RcvFilter, RcvDesc, RcvOverflow, RcvPeek, RcvHand,
         RcvBadBuffer, RcvNoPeek, RcvDone, RcvUnch
  <2>2. CASE \/ InitOn \/ InitOff \/ IoRead \/ IoDo \/ IoTimeout \/ RxLock
             \/ (\E p \in {<<1, "mine">>, <<2, "mine">>, <<1, "other">>} : Arrive(p[1], p[2]))
    BY <2>2 DEF InitOn, InitOff, IoRead, IoDo, IoTimeout, RxLock, Arrive, txv
  <2>3. CASE \/ (\E c \in Commands : GiveCommand(c)) \/ GiveReset \/ Driver \/ (\E w \in {"whole", "halves", "long"} : Queue(w))
             \/ UNCHANGED vars
    BY <2>3 DEF GiveCommand, GiveReset, Driver, SeeAnswer, NopOver, AckRings, TakePacket,
         ScanEnd, Queue,
       DrvUnch, DaemonUnch, txv, vars
  <2>4. CASE Transmit \/ TxError \/ TxUnibusTimeout \/ TxStatusFails
    BY <2>4 DEF Transmit, TxError, TxUnibusTimeout, TxStatusFails, TxBorn, TxWoken, TxSleep,
         TxWords, TxIdle, TxNoStart,
       TxRelock, TxMark
  <2> QED
    BY <2>1, <2>2, <2>3, <2>4, Zenon DEF Next
<1>2. sent \in Nat /\ sent' \in Nat /\ xmt[2] \in Nat /\ nq \in Nat /\ faults = 0
  <2>1. Types'
    BY <1>0, BaseStep
  <2>2. faults = 0
    BY <1>0, <1>1 DEF TxSend, TxCopy, Types
  <2> QED
    BY <1>0, <2>1, <2>2, PacketFacts DEF Types
<1>3. CASE TxSend
  BY <1>0, <1>2, <1>3 DEF TxSend, Sending
<1>4. CASE TxCopy
  <2>1. tring[tdrca].enp /\ sent' = tring[tdrca].pkt[2]
    BY <1>0, <1>4 DEF TxCopy, Types
  <2> QED
    BY <1>2, <1>4, <2>1, NextIsNewer
<1> QED
  BY <1>1, <1>3, <1>4

\* Packets go out once and in order, and the descriptor that is given back is that of the packet that
\* went out, whatever resets, commands and buffers come while sendto runs without the locks, until a DMA
\* cycle fails, a descriptor is filled between two reads of it, or the ring is rebuilt during sendto.
THEOREM SendsInOrder == ~ Intrude => (Spec => SentAsQueued)
<1> SUFFICES ASSUME ~ Intrude PROVE Spec => SentAsQueued
  OBVIOUS
<1> DEFINE Out == /\ sent' # sent /\ faults' = 0 => sent' > sent /\ sent' <= nq
                  /\ tx = "mark" /\ tx' = "loop" /\ faults' = 0 =>
                       \E i \in DOMAIN tring :
                         /\ tring[i].own /\ tring' = [tring EXCEPT ![i].own = FALSE]
                         /\ ~ tring[i].enp \/ sent = tring[i].pkt[2]
<1>1. ASSUME Orderly, [Next]_vars PROVE [Out]_vars
  <2>1. Types /\ Held /\ Marked /\ Sending /\ Queueing
    BY <1>1 DEF Orderly
  <2>2. ASSUME sent' # sent, faults' = 0 PROVE sent' > sent /\ sent' <= nq
    BY <1>1, <2>2, SentGrows
  <2>3. ASSUME tx = "mark", tx' = "loop", faults' = 0
        PROVE  \E i \in DOMAIN tring :
                 /\ tring[i].own /\ tring' = [tring EXCEPT ![i].own = FALSE]
                 /\ ~ tring[i].enp \/ sent = tring[i].pkt[2]
    <3>1. TxMark
      <4>1. faults \in Nat /\ rcv.pc = "idle" /\ io # "do" /\ rx # "in"
        BY <2>1, <2>3 DEF Types, Held
      <4>2. CASE Receive \/ RcvError \/ RcvBadBuffer \/ RcvNoPeek \/ IoDo
        BY <4>1, <4>2 DEF Receive, RcvError, RcvFilter, RcvDesc, RcvOverflow, RcvPeek, RcvHand,
             RcvBadBuffer, RcvNoPeek, RcvDone, RcvLook, IoDo
      <4>3. CASE \/ InitOn \/ InitOff \/ IoRead \/ IoTimeout \/ RxLock
                 \/ (\E p \in {<<1, "mine">>, <<2, "mine">>, <<1, "other">>} : Arrive(p[1], p[2]))
        BY <2>3, <4>3 DEF InitOn, InitOff, IoRead, IoTimeout, RxLock, Arrive, txv
      <4>4. CASE \/ (\E c \in Commands : GiveCommand(c)) \/ GiveReset \/ Driver \/ (\E w \in {"whole", "halves", "long"} : Queue(w))
                 \/ UNCHANGED vars
        BY <2>3, <4>4 DEF GiveCommand, GiveReset, Driver, SeeAnswer, NopOver, AckRings,
             TakePacket, ScanEnd, Queue,
           DrvUnch, DaemonUnch, txv, vars
      <4>5. CASE Transmit \/ TxError \/ TxUnibusTimeout \/ TxStatusFails
        BY <2>3, <4>1, <4>5 DEF Transmit, TxError, TxUnibusTimeout, TxStatusFails, TxBorn,
             TxWoken, TxSleep, TxWords, TxIdle, TxNoStart,
           TxCopy, TxSend, TxRelock
      <4> QED
        BY <1>1, <4>2, <4>3, <4>4, <4>5, Zenon DEF Next
    <3>2. tdrpa \in DOMAIN tring /\ tring' = [tring EXCEPT ![tdrpa].own = FALSE]
      BY <2>1, <3>1 DEF TxMark, Types
    <3>3. tring[tdrpa].own /\ (~ tring[tdrpa].enp \/ sent = tring[tdrpa].pkt[2])
      BY <2>1, <2>3, <3>1 DEF TxMark, Marked, Marks, Going
    <3> QED
      BY <3>2, <3>3
  <2> QED
    BY <2>2, <2>3
<1>2. Init /\ [][Next]_vars => []Orderly
  BY InitOrderly, OrderlyStep, PTL
<1> QED
  BY <1>1, <1>2, PTL DEF Spec, SentAsQueued

------------------------------------------------------------------------------
(* The receive ring.                                                       *)

Ends(d) == d.enp \/ d.err
Most == [s \in Sources |-> IF s = "wire" THEN narr ELSE sent]

\* A packet is being received, or has been read but not yet received.
Coming == rx = "lock" \/ rcv.pc \in {"filter", "desc", "peek", "hand"}

\* The packet that is incomplete after k descriptors of ring r from a, with c incomplete before.
Carry(r, a, c, k) ==
  IF k = 0 THEN c ELSE IF Ends(r[At(NR, a, k - 1)]) THEN None ELSE r[At(NR, a, k - 1)].pkt

\* The n descriptors from a are the driver's; they continue each other; they are newer than l and each other.
Owned(r, a, n) == \A i \in 0 .. NR - 1 : r[i].own <=> Off(NR, a, i) >= n
Filled(r, a, n, c) ==
  \A i \in 0 .. NR - 1 : Off(NR, a, i) < n =>
    /\ r[i].stp <=> Carry(r, a, c, Off(NR, a, i)) = None
    /\ ~ r[i].stp => r[i].pkt = Carry(r, a, c, Off(NR, a, i))
    /\ r[i].pkt # None
Newer(r, a, n, l, m) ==
  /\ \A i \in 0 .. NR - 1 : Off(NR, a, i) < n => l[r[i].pkt[1]] < r[i].pkt[2] /\ r[i].pkt[2] <= m[r[i].pkt[1]]
  /\ \A i, j \in 0 .. NR - 1 :
       Off(NR, a, i) < Off(NR, a, j) /\ Off(NR, a, j) < n /\ Ends(r[i]) /\ r[i].pkt[1] = r[j].pkt[1] =>
         r[i].pkt[2] < r[j].pkt[2]
Newest(r, a, n, p) ==
  \A i \in 0 .. NR - 1 : Off(NR, a, i) < n /\ Ends(r[i]) /\ r[i].pkt[1] = p[1] => r[i].pkt[2] < p[2]
Good(r, a, n, c, l, m) == Owned(r, a, n) /\ Filled(r, a, n, c) /\ Newer(r, a, n, l, m)

\* Where gotincoming is with the packet whose last n descriptors the driver has not seen.
Coherent(n) ==
  /\ rcv.pc \in {"idle", "filter", "done"} => Carry(rring, rxout, asm, n) = None
  /\ rcv.pc \in {"desc", "peek", "hand"} =>
       /\ n < NR
       /\ rcv.first <=> Carry(rring, rxout, asm, n) = None
       /\ ~ rcv.first => Carry(rring, rxout, asm, n) = rcvp.pkt
  /\ rcv.pc \in {"peek", "hand"} => rring[rdrca].pkt = rcvp.pkt
  /\ rcv.pc = "hand" => /\ rring[rdrca].err => rcv.togo = 1
                        /\ rcv.togo # 1 => n + 1 < NR

Ring(n) ==
  /\ rdrca = At(NR, rxout, n)
  /\ Good(rring, rxout, n, asm, last, Most)
  /\ Coming => Newest(rring, rxout, n, rcvp.pkt)
  /\ Coherent(n)
Rings == faults = 0 /\ ((run /\ fmt) \/ up) => \E n \in 0 .. NR : Ring(n)

\* What the driver has seen is older than what comes.
Seen ==
  faults = 0 =>
    /\ \A s \in Sources : last[s] <= Most[s]
    /\ Coming => last[rcvp.pkt[1]] < rcvp.pkt[2]

\* Only the first n descriptors matter.
LEMMA StillGood ==
  ASSUME NEW r, NEW r2, NEW a \in 0 .. NR - 1, NEW n \in 0 .. NR, NEW c, NEW l, NEW m, Good(r, a, n, c, l, m),
         \A i \in 0 .. NR - 1 : r2[i].own = r[i].own,
         \A i \in 0 .. NR - 1 : Off(NR, a, i) < n => r2[i] = r[i]
  PROVE  /\ Good(r2, a, n, c, l, m)
         /\ \A k \in 0 .. n : Carry(r2, a, c, k) = Carry(r, a, c, k)
         /\ \A p : Newest(r, a, n, p) => Newest(r2, a, n, p)
<1> USE XeAssumption
<1>1. ASSUME NEW k \in 0 .. n PROVE Carry(r2, a, c, k) = Carry(r, a, c, k)
  <2>1. CASE k = 0
    BY <2>1 DEF Carry
  <2>2. CASE k # 0
    <3>1. k - 1 \in 0 .. NR - 1 /\ k - 1 < n
      BY <2>2
    <3>2. At(NR, a, k - 1) \in 0 .. NR - 1 /\ Off(NR, a, At(NR, a, k - 1)) = k - 1
      BY <3>1 DEF At, Off
    <3> QED
      BY <3>1, <3>2 DEF Carry
  <2> QED
    BY <2>1, <2>2
<1>2. Owned(r2, a, n)
  BY DEF Good, Owned
<1>3. Filled(r2, a, n, c)
  <2>1. ASSUME NEW i \in 0 .. NR - 1, Off(NR, a, i) < n
        PROVE  /\ r2[i] = r[i]
               /\ Carry(r2, a, c, Off(NR, a, i)) = Carry(r, a, c, Off(NR, a, i))
    <3>1. Off(NR, a, i) \in 0 .. n
      BY <2>1 DEF Off
    <3> QED
      BY <1>1, <2>1, <3>1
  <2> QED
    BY <2>1 DEF Good, Filled
<1>4. ASSUME NEW i \in 0 .. NR - 1, NEW j \in 0 .. NR - 1, Off(NR, a, i) < Off(NR, a, j), Off(NR, a, j) < n
      PROVE  Off(NR, a, i) < n
  BY <1>4 DEF Off
<1>5. Newer(r2, a, n, l, m)
  <2>1. \A i \in 0 .. NR - 1 : Off(NR, a, i) < n => l[r2[i].pkt[1]] < r2[i].pkt[2] /\ r2[i].pkt[2] <= m[r2[i].pkt[1]]
    BY DEF Good, Newer
  <2>2. ASSUME NEW i \in 0 .. NR - 1, NEW j \in 0 .. NR - 1, Off(NR, a, i) < Off(NR, a, j), Off(NR, a, j) < n,
               Ends(r2[i]), r2[i].pkt[1] = r2[j].pkt[1]
        PROVE  r2[i].pkt[2] < r2[j].pkt[2]
    <3>1. r2[i] = r[i] /\ r2[j] = r[j]
      BY <1>4, <2>2
    <3> QED
      BY <2>2, <3>1 DEF Good, Newer
  <2> QED
    BY <2>1, <2>2 DEF Newer
<1>6. ASSUME NEW p, Newest(r, a, n, p) PROVE Newest(r2, a, n, p)
  BY <1>6 DEF Newest
<1> QED
  BY <1>1, <1>2, <1>3, <1>5, <1>6 DEF Good

\* What the ring, the half packet and the newest packets become when the driver takes descriptor a.
Takes(r, a, l, r2, b, c2, l2) ==
  /\ b = IF a = NR - 1 THEN 0 ELSE a + 1
  /\ ~ r[a].own /\ r2[a].own /\ \A i \in 0 .. NR - 1 : i # a => r2[i] = r[i]
  /\ Ends(r[a]) => c2 = None
  /\ ~ Ends(r[a]) => c2 = r[a].pkt
  /\ \A s \in Sources : /\ Ends(r[a]) /\ s = r[a].pkt[1] => l2[s] = r[a].pkt[2]
                        /\ ~ (Ends(r[a]) /\ s = r[a].pkt[1]) => l2[s] = l[s]

\* The driver takes the first.
LEMMA Taken ==
  ASSUME NEW r \in [0 .. NR - 1 -> Descriptors], NEW a \in 0 .. NR - 1, NEW n \in 0 .. NR, NEW c,
         NEW l \in [Sources -> Nat], NEW m \in [Sources -> Nat],
         NEW r2, NEW b \in 0 .. NR - 1, NEW c2, NEW l2,
         Good(r, a, n, c, l, m), Takes(r, a, l, r2, b, c2, l2)
  PROVE  /\ n > 0 /\ At(NR, b, n - 1) = At(NR, a, n)
         /\ Good(r2, b, n - 1, c2, l2, m)
         /\ Carry(r2, b, c2, n - 1) = Carry(r, a, c, n)
         /\ \A p \in Packets : Newest(r, a, n, p) => Newest(r2, b, n - 1, p)
         /\ \A p \in Packets \ {None} : Newest(r, a, n, p) /\ l[p[1]] < p[2] => l2[p[1]] < p[2]
         /\ \A s \in Sources : l[s] <= m[s] => l2[s] <= m[s]
<1> USE XeAssumption
<1>0. NR \in Nat \ {0} /\ ~ r[a].own /\ b = IF a = NR - 1 THEN 0 ELSE a + 1
  BY DEF Takes
<1>1. ASSUME NEW i \in 0 .. NR - 1
      PROVE  /\ i = a => Off(NR, a, i) = 0 /\ Off(NR, b, i) = NR - 1
             /\ i # a => Off(NR, a, i) > 0 /\ Off(NR, b, i) = Off(NR, a, i) - 1
             /\ Off(NR, a, i) \in 0 .. NR - 1
  BY <1>0 DEF Off
<1>2. r2[a].own /\ \A i \in 0 .. NR - 1 : i # a => r2[i] = r[i]
  BY DEF Takes
<1>3. n > 0
  <2>1. Off(NR, a, a) = 0
    BY <1>1
  <2>2. r[a].own <=> 0 >= n
    BY <2>1 DEF Good, Owned
  <2> QED
    BY <1>0, <2>2
<1>4. ASSUME NEW k \in 1 .. NR PROVE At(NR, b, k - 1) = At(NR, a, k)
  <2>1. k \in Nat /\ k <= NR /\ k > 0 /\ a \in Nat /\ a < NR /\ NR \in Nat /\ b = IF a = NR - 1 THEN 0 ELSE a + 1
    BY <1>0
  <2>2. CASE a = NR - 1
    BY <2>1, <2>2 DEF At
  <2>3. CASE a # NR - 1
    BY <2>1, <2>3 DEF At
  <2> QED
    BY <2>2, <2>3
<1>5. ASSUME NEW i \in 0 .. NR - 1, Off(NR, b, i) < n - 1
      PROVE  /\ i # a /\ r2[i] = r[i] /\ Off(NR, a, i) < n /\ Off(NR, b, i) = Off(NR, a, i) - 1
             /\ Off(NR, a, i) \in 1 .. NR - 1
  <2>1. i # a
    BY <1>0, <1>1, <1>5
  <2>2. Off(NR, b, i) = Off(NR, a, i) - 1 /\ Off(NR, a, i) \in 0 .. NR - 1 /\ Off(NR, a, i) > 0
    BY <1>1, <2>1
  <2>3. Off(NR, a, i) < n /\ Off(NR, a, i) \in 1 .. NR - 1
    BY <1>5, <2>2
  <2> QED
    BY <1>2, <2>1, <2>2, <2>3
<1>6. Owned(r2, b, n - 1)
  <2>1. ASSUME NEW i \in 0 .. NR - 1 PROVE r2[i].own <=> Off(NR, b, i) >= n - 1
    <3>1. CASE i = a
      <4>1. Off(NR, b, i) = NR - 1 /\ r2[i].own
        BY <1>1, <1>2, <3>1
      <4> QED
        BY <4>1
    <3>2. CASE i # a
      <4>1. r[i].own <=> Off(NR, a, i) >= n
        BY DEF Good, Owned
      <4>2. Off(NR, b, i) = Off(NR, a, i) - 1 /\ Off(NR, a, i) \in 0 .. NR - 1 /\ r2[i] = r[i]
        BY <1>1, <1>2, <3>2
      <4> QED
        BY <4>1, <4>2
    <3> QED
      BY <3>1, <3>2
  <2> QED
    BY <2>1 DEF Owned
<1>7. ASSUME NEW k \in 1 .. n PROVE Carry(r2, b, c2, k - 1) = Carry(r, a, c, k)
  <2>1. CASE k = 1
    <3>1. At(NR, a, 0) = a
      BY DEF At
    <3>2. Carry(r2, b, c2, k - 1) = c2 /\ Carry(r, a, c, k) = IF Ends(r[a]) THEN None ELSE r[a].pkt
      BY <2>1, <3>1 DEF Carry
    <3> QED
      BY <3>2 DEF Takes
  <2>2. CASE k # 1
    <3>0. k \in 2 .. NR
      BY <2>2
    <3>1. At(NR, b, k - 2) = At(NR, a, k - 1) /\ At(NR, a, k - 1) \in 0 .. NR - 1 /\ At(NR, a, k - 1) # a
      BY <1>0, <3>0 DEF At
    <3>2. Carry(r2, b, c2, k - 1) = IF Ends(r2[At(NR, b, k - 2)]) THEN None ELSE r2[At(NR, b, k - 2)].pkt
      BY <2>2 DEF Carry
    <3>3. Carry(r, a, c, k) = IF Ends(r[At(NR, a, k - 1)]) THEN None ELSE r[At(NR, a, k - 1)].pkt
      BY <2>2 DEF Carry
    <3> QED
      BY <1>2, <3>1, <3>2, <3>3
  <2> QED
    BY <2>1, <2>2
<1>8. Filled(r2, b, n - 1, c2)
  <2>1. ASSUME NEW i \in 0 .. NR - 1, Off(NR, b, i) < n - 1
        PROVE  /\ r2[i].stp <=> Carry(r2, b, c2, Off(NR, b, i)) = None
               /\ ~ r2[i].stp => r2[i].pkt = Carry(r2, b, c2, Off(NR, b, i))
               /\ r2[i].pkt # None
    <3>1. /\ r2[i] = r[i] /\ Off(NR, a, i) < n /\ Off(NR, b, i) = Off(NR, a, i) - 1
          /\ Off(NR, a, i) \in 1 .. n
      BY <1>5, <2>1
    <3>2. Carry(r2, b, c2, Off(NR, b, i)) = Carry(r, a, c, Off(NR, a, i))
      BY <1>7, <3>1
    <3> QED
      BY <3>1, <3>2 DEF Good, Filled
  <2> QED
    BY <2>1 DEF Filled
<1>9. /\ r[a].pkt \in Packets \ {None} /\ r[a].pkt[1] \in Sources /\ r[a].pkt[2] \in Nat
      /\ l[r[a].pkt[1]] < r[a].pkt[2] /\ r[a].pkt[2] <= m[r[a].pkt[1]]
  <2>1. Off(NR, a, a) < n
    BY <1>1, <1>3
  <2>2. r[a].pkt \in Packets /\ r[a].pkt # None
    BY <2>1 DEF Good, Filled, Descriptors
  <2> QED
    BY <2>1, <2>2, PacketFacts DEF Good, Newer
<1>10. \A s \in Sources : /\ Ends(r[a]) /\ s = r[a].pkt[1] => l2[s] = r[a].pkt[2]
                          /\ ~ (Ends(r[a]) /\ s = r[a].pkt[1]) => l2[s] = l[s]
  BY DEF Takes
<1>11. ASSUME NEW i \in 0 .. NR - 1, Off(NR, a, i) < n
       PROVE  r[i].pkt \in Packets \ {None} /\ r[i].pkt[1] \in Sources /\ r[i].pkt[2] \in Nat
  <2>1. r[i].pkt \in Packets /\ r[i].pkt # None
    BY <1>11 DEF Good, Filled, Descriptors
  <2> QED
    BY <2>1, PacketFacts
<1>12. Newer(r2, b, n - 1, l2, m)
  <2>1. ASSUME NEW i \in 0 .. NR - 1, Off(NR, b, i) < n - 1
        PROVE  l2[r2[i].pkt[1]] < r2[i].pkt[2] /\ r2[i].pkt[2] <= m[r2[i].pkt[1]]
    <3>1. i # a /\ r2[i] = r[i] /\ Off(NR, a, i) < n /\ r[i].pkt[1] \in Sources
      BY <1>5, <1>11, <2>1
    <3>2. l[r[i].pkt[1]] < r[i].pkt[2] /\ r[i].pkt[2] <= m[r[i].pkt[1]]
      BY <3>1 DEF Good, Newer
    <3>3. Off(NR, a, a) < Off(NR, a, i)
      BY <1>1, <3>1
    <3>4. Ends(r[a]) /\ r[a].pkt[1] = r[i].pkt[1] => r[a].pkt[2] < r[i].pkt[2]
      BY <3>1, <3>3 DEF Good, Newer
    <3> QED
      BY <1>10, <3>1, <3>2, <3>4
  <2>2. ASSUME NEW i \in 0 .. NR - 1, NEW j \in 0 .. NR - 1, Off(NR, b, i) < Off(NR, b, j), Off(NR, b, j) < n - 1,
               Ends(r2[i]), r2[i].pkt[1] = r2[j].pkt[1]
        PROVE  r2[i].pkt[2] < r2[j].pkt[2]
    <3>0. Off(NR, b, i) \in 0 .. NR - 1 /\ Off(NR, b, j) \in 0 .. NR - 1
      BY <1>0 DEF Off
    <3>1. Off(NR, b, i) < n - 1
      BY <2>2, <3>0
    <3>2. r2[i] = r[i] /\ r2[j] = r[j] /\ Off(NR, a, i) < Off(NR, a, j) /\ Off(NR, a, j) < n
      BY <1>5, <2>2, <3>1
    <3> QED
      BY <2>2, <3>2 DEF Good, Newer
  <2> QED
    BY <2>1, <2>2 DEF Newer
<1>13. ASSUME NEW p \in Packets, Newest(r, a, n, p) PROVE Newest(r2, b, n - 1, p)
  BY <1>5, <1>13 DEF Newest
<1>14. ASSUME NEW p \in Packets \ {None}, Newest(r, a, n, p), l[p[1]] < p[2] PROVE l2[p[1]] < p[2]
  <2>1. Off(NR, a, a) < n /\ p[1] \in Sources
    BY <1>1, <1>3, PacketFacts
  <2>2. Ends(r[a]) /\ p[1] = r[a].pkt[1] => r[a].pkt[2] < p[2]
    BY <1>14, <2>1 DEF Newest
  <2> QED
    BY <1>10, <1>14, <2>1, <2>2
<1>15. ASSUME NEW s \in Sources, l[s] <= m[s] PROVE l2[s] <= m[s]
  BY <1>9, <1>10, <1>15
<1>16. Good(r2, b, n - 1, c2, l2, m)
  BY <1>6, <1>8, <1>12 DEF Good
<1>17. n \in 1 .. NR /\ n \in 1 .. n
  BY <1>3
<1>18. At(NR, b, n - 1) = At(NR, a, n) /\ Carry(r2, b, c2, n - 1) = Carry(r, a, c, n)
  BY <1>4, <1>7, <1>17
<1> QED
  BY <1>3, <1>13, <1>14, <1>15, <1>16, <1>18

\* The driver is handed one more.
LEMMA Handed ==
  ASSUME NEW r \in [0 .. NR - 1 -> Descriptors], NEW a \in 0 .. NR - 1, NEW n \in 0 .. NR - 1, NEW c,
         NEW l, NEW m, Good(r, a, n, c, l, m), NEW t, t = At(NR, a, n),
         NEW d \in Descriptors, ~ d.own, d.pkt # None,
         d.stp <=> Carry(r, a, c, n) = None, ~ d.stp => d.pkt = Carry(r, a, c, n),
         l[d.pkt[1]] < d.pkt[2], d.pkt[2] <= m[d.pkt[1]], Newest(r, a, n, d.pkt),
         NEW r2, r2 = [r EXCEPT ![t] = d]
  PROVE  /\ Good(r2, a, n + 1, c, l, m)
         /\ Ends(d) => Carry(r2, a, c, n + 1) = None
         /\ ~ Ends(d) => Carry(r2, a, c, n + 1) = d.pkt
         /\ ~ Ends(d) => Newest(r2, a, n + 1, d.pkt)
<1> USE XeAssumption
<1>1. t \in 0 .. NR - 1 /\ Off(NR, a, t) = n
  BY AtIs
<1>2. \A i \in 0 .. NR - 1 : Off(NR, a, i) \in 0 .. NR - 1
  BY OneOn
<1>3. r2[t] = d /\ \A i \in 0 .. NR - 1 : i # t => r2[i] = r[i]
  BY <1>1
<1>4. \A i \in 0 .. NR - 1 : Off(NR, a, i) = n => i = t
  BY AtIs
<1>5. \A i \in 0 .. NR - 1 : Off(NR, a, i) < n + 1 /\ i # t => Off(NR, a, i) < n
  BY <1>2, <1>4
<1>6. ASSUME NEW k \in 0 .. n PROVE Carry(r2, a, c, k) = Carry(r, a, c, k)
  <2>1. CASE k = 0
    BY <2>1 DEF Carry
  <2>2. CASE k # 0
    <3>1. k - 1 \in 0 .. NR /\ k - 1 < NR /\ k - 1 # n
      BY <2>2
    <3>2. At(NR, a, k - 1) \in 0 .. NR - 1 /\ Off(NR, a, At(NR, a, k - 1)) = k - 1
      BY <3>1, AtIs
    <3>3. r2[At(NR, a, k - 1)] = r[At(NR, a, k - 1)]
      BY <1>1, <1>3, <3>1, <3>2
    <3> QED
      BY <2>2, <3>3 DEF Carry
  <2> QED
    BY <2>1, <2>2
<1>7. /\ Ends(d) => Carry(r2, a, c, n + 1) = None
      /\ ~ Ends(d) => Carry(r2, a, c, n + 1) = d.pkt
  <2>1. n + 1 # 0 /\ (n + 1) - 1 = n
    OBVIOUS
  <2> QED
    BY <1>3, <2>1 DEF Carry
<1>8. Owned(r2, a, n + 1)
  <2>1. ASSUME NEW i \in 0 .. NR - 1 PROVE r2[i].own <=> Off(NR, a, i) >= n + 1
    <3>1. CASE i = t
      <4>1. ~ r2[i].own /\ Off(NR, a, i) = n
        BY <1>1, <1>3, <3>1
      <4> QED
        BY <4>1
    <3>2. CASE i # t
      <4>1. r2[i] = r[i] /\ Off(NR, a, i) # n /\ Off(NR, a, i) \in 0 .. NR - 1
        BY <1>2, <1>3, <1>4, <3>2
      <4>2. r[i].own <=> Off(NR, a, i) >= n
        BY DEF Good, Owned
      <4> QED
        BY <4>1, <4>2
    <3> QED
      BY <3>1, <3>2
  <2> QED
    BY <2>1 DEF Owned
<1>9. Filled(r2, a, n + 1, c)
  <2>1. ASSUME NEW i \in 0 .. NR - 1, Off(NR, a, i) < n + 1
        PROVE  /\ r2[i].stp <=> Carry(r2, a, c, Off(NR, a, i)) = None
               /\ ~ r2[i].stp => r2[i].pkt = Carry(r2, a, c, Off(NR, a, i))
               /\ r2[i].pkt # None
    <3>1. Off(NR, a, i) \in 0 .. n
      BY <1>2, <2>1
    <3>2. Carry(r2, a, c, Off(NR, a, i)) = Carry(r, a, c, Off(NR, a, i))
      BY <1>6, <3>1
    <3>3. CASE i = t
      BY <1>1, <1>3, <3>2, <3>3
    <3>4. CASE i # t
      <4>1. r2[i] = r[i] /\ Off(NR, a, i) < n
        BY <1>3, <1>5, <2>1, <3>4
      <4> QED
        BY <3>2, <4>1 DEF Good, Filled
    <3> QED
      BY <3>3, <3>4
  <2> QED
    BY <2>1 DEF Filled
<1>10. Newer(r2, a, n + 1, l, m)
  <2>1. ASSUME NEW i \in 0 .. NR - 1, Off(NR, a, i) < n + 1
        PROVE  l[r2[i].pkt[1]] < r2[i].pkt[2] /\ r2[i].pkt[2] <= m[r2[i].pkt[1]]
    <3>1. CASE i = t
      BY <1>3, <3>1
    <3>2. CASE i # t
      <4>1. r2[i] = r[i] /\ Off(NR, a, i) < n
        BY <1>3, <1>5, <2>1, <3>2
      <4> QED
        BY <4>1 DEF Good, Newer
    <3> QED
      BY <3>1, <3>2
  <2>2. ASSUME NEW i \in 0 .. NR - 1, NEW j \in 0 .. NR - 1, Off(NR, a, i) < Off(NR, a, j), Off(NR, a, j) < n + 1,
               Ends(r2[i]), r2[i].pkt[1] = r2[j].pkt[1]
        PROVE  r2[i].pkt[2] < r2[j].pkt[2]
    <3>0. Off(NR, a, i) \in 0 .. NR - 1 /\ Off(NR, a, j) \in 0 .. NR - 1
      BY <1>2
    <3>1. i # t /\ Off(NR, a, i) < n /\ r2[i] = r[i]
      <4>1. Off(NR, a, i) < n
        BY <2>2, <3>0
      <4>2. i # t
        BY <1>1, <4>1
      <4> QED
        BY <1>3, <4>1, <4>2
    <3>2. CASE j = t
      BY <1>3, <2>2, <3>1, <3>2 DEF Newest
    <3>3. CASE j # t
      <4>1. r2[j] = r[j] /\ Off(NR, a, j) < n
        BY <1>3, <1>5, <2>2, <3>3
      <4> QED
        BY <2>2, <3>1, <4>1 DEF Good, Newer
    <3> QED
      BY <3>2, <3>3
  <2> QED
    BY <2>1, <2>2 DEF Newer
<1>11. ASSUME ~ Ends(d) PROVE Newest(r2, a, n + 1, d.pkt)
  BY <1>3, <1>5, <1>11 DEF Newest
<1> QED
  BY <1>7, <1>8, <1>9, <1>10, <1>11 DEF Good

\* The newest packets there are.
LEMMA MostIs ==
  ASSUME Types
  PROVE  Most \in [Sources -> Nat] /\ Most["wire"] = narr /\ Most["loop"] = sent /\ "wire" # "loop"
         /\ Sources = {"wire", "loop"}
  BY DEF Types, Most, Sources

\* What is coming is the newest from where it comes.
LEMMA ComingIs ==
  ASSUME Types, Held, Looped, Coming
  PROVE  rcvp.pkt \in Packets \ {None} /\ rcvp.pkt[1] \in Sources /\ rcvp.pkt[2] = Most[rcvp.pkt[1]]
<1>1. rcvp.pkt = <<"wire", narr>> \/ rcvp.pkt = <<"loop", sent>>
  BY DEF Coming, Held, Looped
<1>2. narr \in Nat /\ sent \in Nat
  BY DEF Types
<1> QED
  BY <1>1, <1>2, PacketFacts, MostIs

\* Where the receive ring is and what it holds have types.
LEMMA RingIs ==
  ASSUME Types, NEW n \in 0 .. NR, Ring(n)
  PROVE  \A i \in 0 .. NR - 1 : Off(NR, rxout, i) < n =>
           rring[i].pkt \in Packets \ {None} /\ rring[i].pkt[1] \in Sources /\ rring[i].pkt[2] \in Nat
<1> SUFFICES ASSUME NEW i \in 0 .. NR - 1, Off(NR, rxout, i) < n
             PROVE  rring[i].pkt \in Packets \ {None} /\ rring[i].pkt[1] \in Sources /\ rring[i].pkt[2] \in Nat
  OBVIOUS
<1>1. rring[i] \in Descriptors
  BY DEF Types
<1>2. rring[i].pkt \in Packets /\ rring[i].pkt # None
  BY <1>1 DEF Ring, Good, Filled, Descriptors
<1> QED
  BY <1>2, PacketFacts

\* A step that does not touch the ring, where the packet that comes is the one there was, or a new one.
LEMMA StillRings ==
  ASSUME Types, Rings, Seen, Types', UNCHANGED <<rring, rdrca, rxout, asm, last>>,
         faults' = 0 => faults = 0,
         faults' = 0 /\ ((run' /\ fmt') \/ up') => (run /\ fmt) \/ up,
         faults' = 0 => narr <= narr' /\ sent <= sent',
         \/ rcv' = rcv /\ (rcv.pc \notin {"idle", "done"} => rcvp'.pkt = rcvp.pkt)
         \/ rcv.pc \in {"idle", "filter", "done"} /\ rcv'.pc \in {"idle", "filter", "done"},
         Coming' => \/ Coming /\ rcvp'.pkt = rcvp.pkt
                    \/ rcvp'.pkt = <<"wire", narr'>> /\ narr < narr'
                    \/ rcvp'.pkt = <<"loop", sent'>> /\ sent < sent'
  PROVE  Rings' /\ Seen'
<1> USE XeAssumption
<1>1. /\ Most \in [Sources -> Nat] /\ Most["wire"] = narr /\ Most["loop"] = sent /\ Sources = {"wire", "loop"}
      /\ Most' \in [Sources -> Nat] /\ (Most')["wire"] = narr' /\ (Most')["loop"] = sent' /\ "wire" # "loop"
  <2>1. Most' \in [Sources -> Nat] /\ (Most')["wire"] = narr' /\ (Most')["loop"] = sent'
    BY DEF Types, Most, Sources
  <2> QED
    BY <2>1, MostIs
<1>0. rcvp'.pkt[2] \in Nat
  <2>1. rcvp' \in Incoming \cup {Empty}
    BY DEF Types
  <2>2. rcvp'.pkt \in Packets
    BY <2>1, PacketFacts DEF Incoming, Empty
  <2> QED
    BY <2>2, PacketFacts
<1> DEFINE M == Most'
<1>2. faults' = 0 => \A s \in Sources : Most[s] <= M[s]
  BY <1>1
<1>3. M \in [Sources -> Nat] /\ M["wire"] = narr' /\ M["loop"] = sent'
  BY <1>1
<1>4. ASSUME faults' = 0, Coming', ~ (Coming /\ rcvp'.pkt = rcvp.pkt)
      PROVE  rcvp'.pkt[1] \in Sources /\ Most[rcvp'.pkt[1]] < rcvp'.pkt[2]
  <2>1. narr' \in Nat /\ sent' \in Nat
    BY DEF Types
  <2> QED
    BY <1>1, <1>4, <2>1
<1>5. last \in [Sources -> Nat]
  BY DEF Types
<1>6. Seen'
  <2> SUFFICES ASSUME faults' = 0
               PROVE  (\A s \in Sources : last[s] <= M[s]) /\ (Coming' => last[rcvp'.pkt[1]] < rcvp'.pkt[2])
    BY DEF Seen
  <2>1. \A s \in Sources : last[s] <= Most[s]
    BY DEF Seen
  <2>2. \A s \in Sources : last[s] <= M[s]
    BY <1>1, <1>2, <1>3, <1>5, <2>1
  <2>3. CASE Coming' /\ Coming /\ rcvp'.pkt = rcvp.pkt
    BY <2>2, <2>3 DEF Seen
  <2>4. CASE Coming' /\ ~ (Coming /\ rcvp'.pkt = rcvp.pkt)
    <3>1. rcvp'.pkt[1] \in Sources /\ Most[rcvp'.pkt[1]] < rcvp'.pkt[2]
      BY <1>4, <2>4
    <3>2. rcvp'.pkt[2] \in Nat
      BY <1>0
    <3> QED
      BY <1>1, <1>5, <2>1, <2>2, <3>1, <3>2
  <2> QED
    BY <2>2, <2>3, <2>4
<1>7. ASSUME faults' = 0, (run' /\ fmt') \/ up' PROVE \E n \in 0 .. NR : Ring(n)'
  <2>1. PICK n \in 0 .. NR : Ring(n)
    BY <1>7 DEF Rings
  <2>2. \A i \in 0 .. NR - 1 : Off(NR, rxout, i) < n => rring[i].pkt[1] \in Sources /\ rring[i].pkt[2] \in Nat
    BY <2>1, RingIs
  <2>3. Good(rring, rxout, n, asm, last, M)
    <3>1. \A i \in 0 .. NR - 1 : Off(NR, rxout, i) < n =>
             last[rring[i].pkt[1]] < rring[i].pkt[2] /\ rring[i].pkt[2] <= M[rring[i].pkt[1]]
      <4> SUFFICES ASSUME NEW i \in 0 .. NR - 1, Off(NR, rxout, i) < n
                   PROVE  last[rring[i].pkt[1]] < rring[i].pkt[2] /\ rring[i].pkt[2] <= M[rring[i].pkt[1]]
        OBVIOUS
      <4>1. last[rring[i].pkt[1]] < rring[i].pkt[2] /\ rring[i].pkt[2] <= Most[rring[i].pkt[1]]
        BY <2>1 DEF Ring, Good, Newer
      <4>2. rring[i].pkt[1] \in Sources /\ rring[i].pkt[2] \in Nat
        BY <2>2
      <4>3. Most[rring[i].pkt[1]] <= M[rring[i].pkt[1]] /\ Most[rring[i].pkt[1]] \in Nat /\ M[rring[i].pkt[1]] \in Nat
        BY <1>1, <1>2, <1>3, <1>7, <4>2
      <4> HIDE DEF M
      <4> QED
        BY <4>1, <4>2, <4>3
    <3> QED
      BY <2>1, <3>1 DEF Ring, Good, Newer
  <2>4. Coming' => Newest(rring, rxout, n, rcvp'.pkt)
    <3> SUFFICES ASSUME Coming' PROVE Newest(rring, rxout, n, rcvp'.pkt)
      OBVIOUS
    <3>1. CASE Coming /\ rcvp'.pkt = rcvp.pkt
      BY <2>1, <3>1 DEF Ring
    <3>2. CASE ~ (Coming /\ rcvp'.pkt = rcvp.pkt)
      <4>1. rcvp'.pkt[1] \in Sources /\ Most[rcvp'.pkt[1]] < rcvp'.pkt[2]
        BY <1>4, <1>7, <3>2
      <4>2. rcvp'.pkt[2] \in Nat
        BY <1>0
      <4>3. ASSUME NEW i \in 0 .. NR - 1, Off(NR, rxout, i) < n, rring[i].pkt[1] = rcvp'.pkt[1]
            PROVE  rring[i].pkt[2] < rcvp'.pkt[2]
        <5>1. rring[i].pkt[2] <= Most[rring[i].pkt[1]] /\ rring[i].pkt[2] \in Nat
          BY <2>1, <2>2, <4>3 DEF Ring, Good, Newer
        <5>2. Most[rcvp'.pkt[1]] \in Nat
          BY <1>1, <4>1
        <5> QED
          BY <4>1, <4>2, <4>3, <5>1, <5>2
      <4> QED
        BY <4>3 DEF Newest
    <3> QED
      BY <3>1, <3>2
  <2>5. Coherent(n)'
    <3>1. Coherent(n)
      BY <2>1 DEF Ring
    <3>2. Carry(rring', rxout', asm', n) = Carry(rring, rxout, asm, n) /\ rring'[rdrca'] = rring[rdrca]
      OBVIOUS
    <3>3. CASE rcv.pc \in {"idle", "filter", "done"} /\ rcv'.pc \in {"idle", "filter", "done"}
      BY <3>1, <3>2, <3>3 DEF Coherent
    <3>4. CASE rcv' = rcv /\ (rcv.pc \notin {"idle", "done"} => rcvp'.pkt = rcvp.pkt)
      BY <3>1, <3>2, <3>4 DEF Coherent
    <3> QED
      BY <3>3, <3>4
  <2>6. rdrca' = At(NR, rxout', n)
    BY <2>1 DEF Ring
  <2>7. Ring(n)'
    BY <2>3, <2>4, <2>5, <2>6 DEF Ring
  <2> QED
    BY <2>7
<1> QED
  BY <1>6, <1>7 DEF Rings

\* gotincoming fills the ring in order.
LEMMA ReceiveRings ==
  ASSUME NR # 1, Types, Held, Looped, Rings, Seen, Types', Held', Receive \/ RcvError \/ RcvBadBuffer \/ RcvNoPeek
  PROVE  Rings' /\ Seen'
<1> USE XeAssumption
<1>1. UNCHANGED <<run, fmt, up, sent, narr, rxout, asm, last>>
  BY DEF Receive, RcvError, RcvFilter, RcvDesc, RcvOverflow, RcvPeek, RcvHand, RcvBadBuffer,
       RcvNoPeek, RcvDone, RcvUnch, drv
<1>2. CASE faults' # 0
  BY <1>2 DEF Rings, Seen
<1>3. faults \in Nat /\ narr \in Nat /\ sent \in Nat
  BY DEF Types
<1>4. ASSUME NEW b, RcvReturn(b, 0), rdrca' = rdrca, rring' = rring, rcv.pc \in {"filter", "done"}
      PROVE  Rings' /\ Seen'
  <2>1. faults' = faults /\ rcv'.pc = "idle"
    BY <1>3, <1>4 DEF RcvReturn, Idle
  <2>2. rx' = "read" \/ (rx' = rx /\ rcvp' = rcvp)
    BY <1>4 DEF RcvReturn
  <2>3. Coming' => Coming /\ rcvp' = rcvp
    BY <2>1, <2>2 DEF Coming
  <2> QED
    BY <1>1, <1>3, <1>4, <2>1, <2>3, StillRings
<1>5. CASE RcvFilter \/ RcvDone
  BY <1>4, <1>5 DEF RcvFilter, RcvDone
<1>6. CASE RcvError \/ RcvBadBuffer \/ RcvNoPeek
  BY <1>2, <1>3, <1>6 DEF RcvError, RcvBadBuffer, RcvNoPeek, RcvReturn
<1>7. ASSUME faults' = 0, RcvLook \/ rcv.pc \in {"peek", "hand"}
      PROVE  /\ run /\ fmt /\ rcv.pc \in {"filter", "desc", "peek", "hand"}
             /\ faults = 0 => \E n \in 0 .. NR : Ring(n)
  BY <1>7 DEF RcvLook, Accepted, Held, Rings
<1>8. ASSUME NEW n \in 0 .. NR, Ring(n), rring[rdrca].own \/ rcv.pc \in {"desc", "peek", "hand"}
      PROVE  /\ n < NR /\ rdrca = At(NR, rxout, n) /\ Off(NR, rxout, rdrca) = n
             /\ rring[rdrca].own /\ rdrca \in 0 .. NR - 1 /\ rxout \in 0 .. NR - 1
  <2>1. rxout \in 0 .. NR - 1 /\ rdrca \in 0 .. NR - 1 /\ rdrca = At(NR, rxout, n) /\ NR \in Nat \ {0}
    BY <1>8 DEF Types, Ring
  <2>2. \A i \in 0 .. NR - 1 : rring[i].own <=> Off(NR, rxout, i) >= n
    BY <1>8 DEF Ring, Good, Owned
  <2>3. n < NR
    <3>1. CASE rcv.pc \in {"desc", "peek", "hand"}
      BY <1>8, <3>1 DEF Ring, Coherent
    <3>2. CASE rring[rdrca].own
      <4>1. Off(NR, rxout, rdrca) \in 0 .. NR - 1
        BY <2>1, OneOn
      <4> QED
        BY <2>1, <2>2, <3>2, <4>1
    <3> QED
      BY <1>8, <3>1, <3>2
  <2>4. Off(NR, rxout, rdrca) = n
    BY <2>1, <2>3, AtIs
  <2> QED
    BY <2>1, <2>2, <2>3, <2>4
<1>9. CASE RcvOverflow
  <2>1. faults' = faults /\ (RcvLook \/ rcv.pc \in {"peek", "hand"}) /\ ~ rring[rdrca].own
        /\ rdrca' = rdrca /\ rring' = rring
    BY <1>3, <1>9 DEF RcvOverflow, RcvReturn
  <2>2. CASE faults' = 0 /\ rcv.pc # "filter"
    BY <1>7, <1>8, <2>1, <2>2
  <2>3. CASE rcv.pc = "filter"
    BY <1>4, <1>9, <2>1, <2>3 DEF RcvOverflow
  <2> QED
    BY <1>2, <2>2, <2>3
<1>10. ASSUME faults' = 0, faults = 0, NEW n \in 0 .. NR - 1, Ring(n), Off(NR, rxout, rdrca) = n,
              rcv.pc \in {"filter", "desc", "peek"}, rcv'.pc \in {"peek", "hand"}, rcvp' = rcvp, rx' = rx,
              rdrca' = rdrca,
              \A i \in 0 .. NR - 1 : rring'[i].own = rring[i].own /\ (i # rdrca => rring'[i] = rring[i]),
              /\ rcv'.first <=> rcv.first
              /\ rring'[rdrca].pkt = rcvp.pkt
              /\ rcv'.pc = "hand" => /\ rring'[rdrca].err => rcv'.togo = 1
                                     /\ rcv'.togo # 1 => n + 1 < NR
       PROVE  Rings' /\ Seen'
  <2>0. rxout \in 0 .. NR - 1 /\ n \in 0 .. NR /\ n \in 0 .. n
    <3>1. rxout \in 0 .. NR - 1
      BY DEF Types
    <3> QED
      BY <3>1
  <2>1. \A i \in 0 .. NR - 1 : Off(NR, rxout, i) < n => rring'[i] = rring[i]
    BY <1>10
  <2>2. /\ Good(rring', rxout, n, asm, last, Most)
        /\ Carry(rring', rxout, asm, n) = Carry(rring, rxout, asm, n)
        /\ Newest(rring, rxout, n, rcvp.pkt) => Newest(rring', rxout, n, rcvp.pkt)
    <3>1. Good(rring, rxout, n, asm, last, Most)
      BY <1>10 DEF Ring
    <3>2. \A i \in 0 .. NR - 1 : rring'[i].own = rring[i].own
      BY <1>10
    <3> QED
      BY <2>0, <2>1, <3>1, <3>2, StillGood
  <2>3. Most' = Most
    BY <1>1 DEF Most
  <2>4. Coming /\ Coming'
    BY <1>10 DEF Coming
  <2>5. Coherent(n)'
    <3>1. rcv'.first <=> Carry(rring, rxout, asm, n) = None
      <4>1. CASE rcv.pc = "filter"
        BY <1>10, <4>1 DEF Ring, Coherent, Held
      <4>2. CASE rcv.pc \in {"desc", "peek"}
        BY <1>10, <4>2 DEF Ring, Coherent
      <4> QED
        BY <1>10, <4>1, <4>2
    <3>2. ~ rcv'.first => Carry(rring, rxout, asm, n) = rcvp.pkt
      <4>1. CASE rcv.pc = "filter"
        BY <1>10, <4>1 DEF Held
      <4>2. CASE rcv.pc \in {"desc", "peek"}
        BY <1>10, <4>2 DEF Ring, Coherent
      <4> QED
        BY <1>10, <4>1, <4>2
    <3> QED
      BY <1>1, <1>10, <2>2, <3>1, <3>2 DEF Coherent
  <2>6. Ring(n)'
    BY <1>1, <1>10, <2>2, <2>3, <2>4, <2>5 DEF Ring
  <2>7. Rings'
    BY <2>0, <2>6 DEF Rings
  <2>8. Seen'
    BY <1>1, <1>10, <2>3, <2>4 DEF Seen
  <2> QED
    BY <2>7, <2>8
<1>11. CASE RcvDesc
  <2>1. /\ faults' = faults /\ RcvLook /\ rring[rdrca].own /\ rcvp' = rcvp /\ rx' = rx /\ rdrca' = rdrca
        /\ rcv' = [rcv EXCEPT !.pc = "peek"] /\ rring' = [rring EXCEPT ![rdrca].pkt = rcvp.pkt]
    BY <1>11 DEF RcvDesc
  <2>2. rcv \in Receiving /\ rring \in [0 .. NR - 1 -> Descriptors] /\ rdrca \in 0 .. NR - 1
    BY DEF Types
  <2>3. rcv.pc \in {"filter", "desc"} /\ rcv'.pc = "peek" /\ rcv'.first = rcv.first
    BY <2>1, <2>2 DEF RcvLook, Receiving
  <2>4. \A i \in 0 .. NR - 1 : rring'[i].own = rring[i].own /\ (i # rdrca => rring'[i] = rring[i])
    BY <2>1, <2>2 DEF Descriptors
  <2>5. rring'[rdrca].pkt = rcvp.pkt
    BY <2>1, <2>2 DEF Descriptors
  <2>6. CASE faults' = 0
    <3>1. PICK n \in 0 .. NR : Ring(n)
      BY <1>7, <2>1, <2>6
    <3>2. n < NR /\ Off(NR, rxout, rdrca) = n
      BY <1>8, <2>1, <3>1
    <3>3. n \in 0 .. NR - 1
      BY <3>2
    <3> QED
      BY <1>10, <2>1, <2>3, <2>4, <2>5, <2>6, <3>1, <3>2, <3>3
  <2> QED
    BY <1>2, <2>6
<1>12. CASE RcvPeek
  <2>1. /\ faults' = faults /\ rcv.pc = "peek" /\ rcvp' = rcvp /\ rx' = rx /\ rdrca' = rdrca
        /\ rcv' = [rcv EXCEPT !.pc = "hand", !.togo = IF Chop THEN 1 ELSE @]
        /\ rring' = [rring EXCEPT ![rdrca].err = Chop]
    BY <1>12 DEF RcvPeek
  <2>2. rcv \in Receiving /\ rring \in [0 .. NR - 1 -> Descriptors] /\ rdrca \in 0 .. NR - 1
    BY DEF Types
  <2>3. rcv'.pc = "hand" /\ rcv'.first = rcv.first /\ rcv'.togo = IF Chop THEN 1 ELSE rcv.togo
    BY <2>1, <2>2 DEF Receiving
  <2>4. \A i \in 0 .. NR - 1 : rring'[i].own = rring[i].own /\ (i # rdrca => rring'[i] = rring[i])
    BY <2>1, <2>2 DEF Descriptors
  <2>5. rring'[rdrca].pkt = rring[rdrca].pkt /\ rring'[rdrca].err = Chop
    BY <2>1, <2>2 DEF Descriptors
  <2>6. CASE faults' = 0
    <3>1. PICK n \in 0 .. NR : Ring(n)
      BY <1>7, <2>1, <2>6
    <3>2. n < NR /\ Off(NR, rxout, rdrca) = n /\ rxout \in 0 .. NR - 1 /\ rdrca = At(NR, rxout, n)
      BY <1>8, <2>1, <3>1
    <3>3. n \in 0 .. NR - 1
      BY <3>2
    <3>4. rring[rdrca].pkt = rcvp.pkt
      BY <2>1, <3>1 DEF Ring, Coherent
    <3>5. rcv'.togo # 1 => n + 1 < NR
      <4> SUFFICES ASSUME rcv'.togo # 1, n + 1 = NR PROVE FALSE
        BY <3>3
      <4>1. rring[NextRd].own
        BY <2>3 DEF Chop, Fits
      <4>2. NextRd = rxout
        BY <3>2, AtIs DEF NextRd
      <4>3. Off(NR, rxout, rxout) = 0
        BY <3>2, OneOn
      <4>4. 0 >= n
        BY <3>1, <3>2, <4>1, <4>2, <4>3 DEF Ring, Good, Owned
      <4> QED
        BY <3>3, <4>4
    <3> QED
      BY <1>10, <2>1, <2>3, <2>4, <2>5, <2>6, <3>1, <3>2, <3>3, <3>4, <3>5
  <2> QED
    BY <1>2, <2>6
<1>13. CASE RcvHand
  <2> DEFINE d == [rring[rdrca] EXCEPT !.own = FALSE, !.stp = rcv.first, !.enp = (rcv.togo = 1 /\ ~ rring[rdrca].err)]
  <2>1. /\ faults' = faults /\ rcv.pc = "hand" /\ rcvp' = rcvp /\ rx' = rx /\ rdrca' = NextRd
        /\ rcv'.pc = (IF rcv.togo = 1 THEN "done" ELSE "desc")
        /\ rcv'.first = (rcv.first /\ rring[rdrca].pkt = None)
    BY <1>13 DEF RcvHand
  <2>2. rcv \in Receiving /\ rring \in [0 .. NR - 1 -> Descriptors] /\ rdrca \in 0 .. NR - 1 /\ rcv.first \in BOOLEAN
        /\ asm \in Packets
    BY DEF Types, Receiving
  <2>3. rring[rdrca] \in Descriptors
    BY <2>2
  <2>4. rring' = [rring EXCEPT ![rdrca] = d]
    BY <1>13, <2>2 DEF RcvHand
  <2>5. /\ d \in Descriptors /\ ~ d.own /\ d.stp = rcv.first /\ d.pkt = rring[rdrca].pkt /\ d.err = rring[rdrca].err
        /\ (d.enp <=> rcv.togo = 1 /\ ~ rring[rdrca].err)
    BY <2>2, <2>3 DEF Descriptors
  <2> HIDE DEF d
  <2>6. CASE faults' = 0
    <3>1. PICK n \in 0 .. NR : Ring(n)
      BY <1>7, <2>1, <2>6
    <3>2. n < NR /\ Off(NR, rxout, rdrca) = n /\ rxout \in 0 .. NR - 1 /\ rdrca = At(NR, rxout, n)
      BY <1>8, <2>1, <3>1
    <3>3. n \in 0 .. NR - 1 /\ n + 1 \in 0 .. NR
      BY <3>2
    <3>4. Coming /\ (Coming' => rcv'.pc # "done")
      <4>1. rx # "lock"
        BY <2>1 DEF Held, Looped
      <4> QED
        BY <2>1, <4>1 DEF Coming
    <3>5. rcvp.pkt \in Packets \ {None} /\ rcvp.pkt[2] = Most[rcvp.pkt[1]] /\ rcvp.pkt[1] \in Sources
          /\ last[rcvp.pkt[1]] < rcvp.pkt[2] /\ rcvp.pkt[2] \in Nat
      BY <2>1, <2>6, <3>4, ComingIs, PacketFacts DEF Seen
    <3>6. /\ d.pkt = rcvp.pkt
          /\ d.stp <=> Carry(rring, rxout, asm, n) = None
          /\ ~ d.stp => d.pkt = Carry(rring, rxout, asm, n)
          /\ d.err => rcv.togo = 1
          /\ rcv.togo # 1 => n + 1 < NR
      BY <2>1, <2>5, <3>1 DEF Ring, Coherent
    <3>7. Good(rring, rxout, n, asm, last, Most) /\ Newest(rring, rxout, n, d.pkt)
      BY <3>1, <3>4, <3>6 DEF Ring
    <3>8. d.pkt # None /\ last[d.pkt[1]] < d.pkt[2] /\ d.pkt[2] <= Most[d.pkt[1]]
      BY <3>5, <3>6
    <3>9. /\ Good(rring', rxout, n + 1, asm, last, Most)
          /\ Ends(d) => Carry(rring', rxout, asm, n + 1) = None
          /\ ~ Ends(d) => Carry(rring', rxout, asm, n + 1) = d.pkt
          /\ ~ Ends(d) => Newest(rring', rxout, n + 1, d.pkt)
      <4>1. d \in Descriptors /\ ~ d.own /\ rring \in [0 .. NR - 1 -> Descriptors] /\ rxout \in 0 .. NR - 1
        BY <2>2, <2>5, <3>2
      <4>2. rdrca = At(NR, rxout, n) /\ n \in 0 .. NR - 1
        BY <3>2, <3>3
      <4>3. Good(rring', rxout, n + 1, asm, last, Most)
        BY <2>4, <3>6, <3>7, <3>8, <4>1, <4>2, Handed
      <4>4. /\ Ends(d) => Carry(rring', rxout, asm, n + 1) = None
            /\ ~ Ends(d) => Carry(rring', rxout, asm, n + 1) = d.pkt
        <5>1. n + 1 # 0 /\ (n + 1) - 1 = n
          BY <4>2
        <5>2. rring'[rdrca] = d
          BY <2>2, <2>4
        <5> QED
          BY <4>2, <5>1, <5>2 DEF Carry
      <4>5. ~ Ends(d) => Newest(rring', rxout, n + 1, d.pkt)
        BY ZenonT(40), <2>4, <3>6, <3>7, <3>8, <4>1, <4>2, Handed
      <4> QED
        BY <4>3, <4>4, <4>5
    <3>10. Ends(d) <=> rcv.togo = 1
      BY <2>5, <3>6 DEF Ends
    <3>11. PICK k \in 0 .. NR : k = n + 1
      BY <3>3
    <3>12. rdrca' = At(NR, rxout, k)
      BY <2>1, <3>2, <3>3, <3>11, AtIs DEF NextRd
    <3>13. Coherent(k)'
      <4>1. CASE rcv.togo = 1
        <5>1. rcv'.pc = "done" /\ Carry(rring', rxout', asm', k) = None
          BY <1>1, <2>1, <3>9, <3>10, <3>11, <4>1
        <5> QED
          BY <5>1 DEF Coherent
      <4>2. CASE rcv.togo # 1
        <5>0. rring[rdrca].pkt # None
          BY <2>5, <3>5, <3>6
        <5>1. /\ rcv'.pc = "desc" /\ Carry(rring', rxout', asm', k) = rcvp'.pkt /\ rcvp'.pkt # None
              /\ k < NR /\ ~ rcv'.first
          BY <1>1, <2>1, <3>5, <3>6, <3>9, <3>10, <3>11, <4>2, <5>0
        <5> QED
          BY <5>1 DEF Coherent
      <4> QED
        BY <4>1, <4>2
    <3>14. Most' = Most
      BY <1>1 DEF Most
    <3>15. Coming' => Newest(rring', rxout, k, rcvp.pkt)
      BY <2>1, <3>4, <3>6, <3>9, <3>10, <3>11
    <3>16. Ring(k)'
      BY <1>1, <2>1, <3>9, <3>11, <3>12, <3>13, <3>14, <3>15 DEF Ring
    <3>17. Seen'
      BY <1>1, <2>1, <2>6, <3>4, <3>5, <3>14 DEF Seen
    <3> QED
      BY <3>16, <3>17 DEF Rings
  <2> QED
    BY <1>2, <2>6
<1> QED
  BY <1>5, <1>6, <1>9, <1>11, <1>12, <1>13 DEF Receive

\* INIT, the other threads and what arrives leave the receive ring alone.
LEMMA OtherRings ==
  ASSUME ~ Intrude, Orderly, Orderly', Rings, Seen,
         \/ InitOn \/ InitOff \/ IoRead \/ IoTimeout \/ RxLock \/ Transmit \/ TxError \/ TxUnibusTimeout \/ TxStatusFails
         \/ \E p \in {<<1, "mine">>, <<2, "mine">>, <<1, "other">>} : Arrive(p[1], p[2])
  PROVE  Rings' /\ Seen'
<1>1. Types /\ Types' /\ Held /\ Looped /\ [Next]_vars
  BY DEF Orderly, Next
<1>2. UNCHANGED <<rring, rdrca, rxout, asm, last, run, fmt>> /\ (up' => up)
  <2>1. CASE InitOn \/ InitOff \/ IoRead \/ IoTimeout
    BY <2>1 DEF InitOn, InitOff, IoRead, IoTimeout, rxv, ctl, drv
  <2>2. CASE RxLock \/ \E p \in {<<1, "mine">>, <<2, "mine">>, <<1, "other">>} : Arrive(p[1], p[2])
    BY <2>2 DEF RxLock, Arrive, ctl, drv
  <2>3. CASE Transmit \/ TxError \/ TxUnibusTimeout \/ TxStatusFails
    BY <2>3 DEF Transmit, TxError, TxUnibusTimeout, TxStatusFails, TxBorn, TxWoken, TxSleep,
         TxWords, TxIdle, TxNoStart, TxCopy, TxSend,
       TxRelock, TxMark, TxUnch, ctl, drv
  <2> QED
    BY <2>1, <2>2, <2>3
<1>3. faults \in Nat /\ narr \in Nat /\ sent \in Nat
  BY <1>1 DEF Types
<1>4. faults' = 0 => faults = 0
  <2>1. faults' = faults \/ faults' = faults + 1
    BY DEF InitOn, InitOff, IoRead, IoTimeout, RxLock, Transmit, TxError, TxUnibusTimeout,
         TxStatusFails, Arrive,
       TxBorn, TxWoken, TxSleep, TxWords, TxIdle, TxNoStart, TxCopy, TxSend, TxRelock, TxMark
  <2> QED
    BY <1>3, <2>1
<1>5. faults' = 0 => sent <= sent'
  <2>1. sent' # sent /\ faults' = 0 => sent' > sent
    BY <1>1, <1>4, SentGrows
  <2>2. sent' \in Nat
    BY <1>1 DEF Types
  <2> QED
    BY <1>3, <2>1, <2>2
<1>6. CASE \E p \in {<<1, "mine">>, <<2, "mine">>, <<1, "other">>} : Arrive(p[1], p[2])
  <2>1. /\ rcv.pc = "idle" /\ rcv' = rcv /\ rcvp'.pkt = <<"wire", narr'>> /\ narr' = narr + 1
    BY <1>6 DEF Arrive
  <2> QED
    BY <1>1, <1>2, <1>3, <1>4, <1>5, <2>1, StillRings
<1>7. CASE RxLock
  <2>1. rcv.pc = "idle" /\ rcv'.pc = "filter" /\ rcvp' = rcvp /\ narr' = narr /\ Coming
    BY <1>1, <1>7 DEF RxLock, RcvStart, Held, Coming
  <2> QED
    BY <1>1, <1>2, <1>3, <1>4, <1>5, <2>1, StillRings
<1>8. CASE TxCopy
  <2>1. rcv.pc = "idle" /\ narr' = narr
    BY <1>1, <1>8 DEF TxCopy, TxUnch, Held
  <2>2. CASE tring[tdrca].enp /\ "LOOP" \in mode
    <3>1. rcvp'.pkt = <<"loop", sent'>> /\ rcv'.pc = "filter"
      BY <1>8, <2>2 DEF TxCopy, RcvStart
    <3>3. CASE faults' = 0
      <4>1. sent < sent'
        <5>1. faults = 0 /\ sent' = tring[tdrca].pkt[2]
          BY SMTT(30), <1>1, <1>8, <2>2, <3>3 DEF TxCopy, Types
        <5> QED
          BY <1>8, <2>2, <5>1, NextIsNewer
      <4> QED
        BY <1>1, <1>2, <1>3, <1>4, <1>5, <2>1, <3>1, <4>1, StillRings
    <3>4. CASE faults' # 0
      BY <3>4 DEF Rings, Seen
    <3> QED
      BY <3>3, <3>4
  <2>3. CASE ~ (tring[tdrca].enp /\ "LOOP" \in mode)
    <3>1. UNCHANGED <<rx, rcvp, rcv>>
      BY <1>8, <2>3 DEF TxCopy
    <3> QED
      BY <1>1, <1>2, <1>3, <1>4, <1>5, <2>1, <3>1, StillRings DEF Coming
  <2> QED
    BY <2>2, <2>3
<1>9. CASE /\ ~ RxLock /\ ~ TxCopy
           /\ ~ \E p \in {<<1, "mine">>, <<2, "mine">>, <<1, "other">>} : Arrive(p[1], p[2])
  <2>1. UNCHANGED <<rx, rcvp, rcv, narr>>
    BY <1>9 DEF InitOn, InitOff, IoRead, IoTimeout, Transmit, TxError, TxUnibusTimeout,
         TxStatusFails,
       TxBorn, TxWoken, TxSleep, TxWords, TxIdle, TxNoStart, TxSend, TxRelock, TxMark, TxUnch, rxv
  <2> QED
    BY <1>1, <1>2, <1>3, <1>4, <1>5, <2>1, StillRings DEF Coming
<1> QED
  BY <1>6, <1>7, <1>8, <1>9

\* The port commands: START begins with the ring the driver has set up.
LEMMA IoRings ==
  ASSUME Orderly, Orderly', Rings, Seen, IoDo
  PROVE  Rings' /\ Seen'
<1> USE XeAssumption
<1>1. Types /\ Types' /\ Held /\ Held' /\ Looped /\ Commanded /\ Commanded' /\ Prepared
  BY DEF Orderly
<1>2. UNCHANGED <<rring, rxout, asm, last, up, asked, rx, rcvp, rcv, narr, sent, faults>>
  BY DEF IoDo, drv
<1>3. rcv.pc = "idle" /\ io = "do"
  BY <1>1 DEF IoDo, Held
<1>4. Coming' <=> Coming
  BY <1>2 DEF Coming
<1>5. init = "off" /\ hijk /\ iocmd = asked /\ asked # "none"
  BY <1>1, <1>3 DEF Commanded, Types
<1>6. narr \in Nat /\ sent \in Nat /\ faults \in Nat
  BY <1>1 DEF Types
<1>7. Most' = Most
  BY <1>2 DEF Most
<1>8. Seen'
  BY <1>2, <1>4, <1>7 DEF Seen
<1>9. CASE rdrca' = rdrca /\ (faults' = 0 /\ ((run' /\ fmt') \/ up') => (run /\ fmt) \/ up)
  BY <1>1, <1>2, <1>4, <1>6, <1>9, StillRings
<1>10. CASE iocmd = "START" /\ ~ run
  <2>1. rdrca' = 0
    BY <1>10 DEF IoDo, Start, Commands
  <2>2. ~ up
    BY <1>1, <1>5, <1>10 DEF Commanded
  <2>3. rxout = 0 /\ asm = None /\ \A i \in 0 .. NR - 1 : rring[i].own
    BY <1>1, <1>5, <1>10, <2>2 DEF Prepared
  <2>4. \A i \in 0 .. NR - 1 : Off(NR, 0, i) >= 0
    BY DEF Off
  <2>5. \A i \in 0 .. NR - 1 : ~ (Off(NR, 0, i) < 0)
    BY DEF Off
  <2>6. Owned(rring, 0, 0) /\ Filled(rring, 0, 0, asm) /\ \A p : Newest(rring, 0, 0, p)
    BY <2>3, <2>4, <2>5 DEF Owned, Filled, Newest
  <2>7. Newer(rring, 0, 0, last, Most)
    BY <2>5 DEF Newer
  <2>8. At(NR, 0, 0) = 0 /\ 0 \in 0 .. NR
    BY DEF At
  <2>9. Coherent(0)'
    BY <1>2, <1>3, <2>3 DEF Coherent, Carry
  <2>10. Ring(0)'
    BY <1>2, <1>7, <2>1, <2>3, <2>6, <2>7, <2>8, <2>9 DEF Ring, Good
  <2> QED
    BY <1>8, <2>8, <2>10 DEF Rings
<1>11. CASE iocmd # "START" \/ run
  <2>1. CASE rdrca' = rdrca /\ (run' /\ fmt' => run /\ fmt)
    BY <1>2, <1>9, <2>1
  <2>2. CASE iocmd = "WRF" /\ ~ run
    <3>1. ~ up /\ run' = run
      BY <1>1, <1>5, <2>2 DEF Commanded, IoDo, SetRings
    <3> QED
      BY <1>2, <1>8, <2>2, <3>1 DEF Rings
  <2>3. CASE iocmd # "WRF" \/ run
    <3>1. rdrca' = rdrca /\ (run' /\ fmt' => run /\ fmt)
      BY <1>11, <2>3 DEF IoDo, DoReset, Start, Pdmd, SetMode, ctl
    <3> QED
      BY <2>1, <3>1
  <2> QED
    BY <2>2, <2>3
<1> QED
  BY <1>10, <1>11

\* The driver: commands, resets, answers, and its own descriptors.
LEMMA DriverRings ==
  ASSUME Orderly, Orderly', Rings, Seen,
         \/ (\E c \in Commands : GiveCommand(c)) \/ GiveReset \/ SeeAnswer \/ NopOver \/ AckRings \/ ScanEnd
         \/ (\E w \in {"whole", "halves", "long"} : Queue(w)) \/ UNCHANGED vars
  PROVE  Rings' /\ Seen'
<1>1. Types /\ Types' /\ Commanded /\ Commanded'
  BY DEF Orderly
<1>2. UNCHANGED <<run, fmt, rdrca, rx, rcvp, rcv, narr, sent, last>>
      /\ (faults' = 0 => faults = 0)
  <2>1. UNCHANGED <<run, fmt, rdrca, rx, rcvp, rcv, narr, sent, last>>
    BY DEF GiveCommand, GiveReset, SeeAnswer, NopOver, AckRings, ScanEnd, Queue, DrvUnch,
         DaemonUnch,
       vars, ctl, txv, rxv, drv
  <2>2. faults' = faults \/ faults' = faults + 1
    BY DEF GiveCommand, GiveReset, SeeAnswer, NopOver, AckRings, ScanEnd, Queue, DrvUnch, vars
  <2>3. faults \in Nat
    BY <1>1 DEF Types
  <2> QED
    BY <2>1, <2>2, <2>3
<1>3. Coming' <=> Coming
  BY <1>2 DEF Coming
<1>4. narr \in Nat /\ sent \in Nat /\ Most' = Most
  BY <1>1, <1>2 DEF Types, Most
<1>5. CASE UNCHANGED <<rring, rxout, asm>> /\ (up' => (run /\ fmt) \/ up)
  BY <1>1, <1>2, <1>3, <1>4, <1>5, StillRings
<1>6. CASE \E c \in Commands : GiveCommand(c)
  <2>1. PICK c \in Commands : GiveCommand(c)
    BY <1>6
  <2>2. up' = up /\ asked' = c /\ hijk'
    BY <2>1 DEF GiveCommand
  <2>3. CASE UNCHANGED <<rring, rxout, asm>>
    BY <1>5, <2>2, <2>3
  <2>4. CASE c = "START" /\ ~ up
    <3>1. ~ (run' /\ fmt') /\ ~ up'
      BY <1>1, <2>2, <2>4 DEF Commanded
    <3>2. Seen'
      BY <1>2, <1>3, <1>4 DEF Seen
    <3> QED
      BY <3>1, <3>2 DEF Rings
  <2> QED
    BY <2>1, <2>3, <2>4 DEF GiveCommand
<1>7. CASE SeeAnswer
  <2>1. asked # "none" /\ ~ NoAnswer /\ UNCHANGED <<rring, rxout, asm>>
    BY <1>7 DEF SeeAnswer, NoAnswer
  <2>2. asked = "START" => run
    BY <1>1, <2>1 DEF Commanded, Types
  <2>3. up' => (asked = "START" /\ fmt) \/ up
    BY <1>7 DEF SeeAnswer
  <2> QED
    BY <1>5, <2>1, <2>2, <2>3
<1>8. CASE GiveReset \/ NopOver \/ AckRings \/ ScanEnd \/ (\E w \in {"whole", "halves", "long"} : Queue(w)) \/ UNCHANGED vars
  <2>1. UNCHANGED <<rring, rxout, asm>> /\ (up' => up)
    BY <1>8 DEF GiveReset, NopOver, AckRings, ScanEnd, Queue, vars, drv
  <2> QED
    BY <1>5, <2>1
<1> QED
  BY <1>6, <1>7, <1>8

\* The driver takes a descriptor.
LEMMA TakeRings ==
  ASSUME Orderly, Orderly', Rings, Seen, TakePacket
  PROVE  Rings' /\ Seen'
<1> USE XeAssumption
<1>1. Types /\ Types' /\ Held /\ Looped
  BY DEF Orderly
<1> DEFINE d == rring[rxout]
           e == [Free EXCEPT !.own = TRUE]
<1>2. /\ up /\ ~ d.own /\ rring' = [rring EXCEPT ![rxout] = e] /\ rxout' = (rxout + 1) % NR
      /\ asm' = (IF Ends(d) THEN None ELSE d.pkt)
      /\ last' = (IF Ends(d) THEN [last EXCEPT ![d.pkt[1]] = d.pkt[2]] ELSE last)
  BY DEF TakePacket, Ends
<1>3. UNCHANGED <<run, fmt, up, rdrca, rx, rcvp, rcv, narr, sent, faults>>
  BY DEF TakePacket, DrvUnch, DaemonUnch, ctl, txv, rxv
<1>4. /\ rring \in [0 .. NR - 1 -> Descriptors] /\ rxout \in 0 .. NR - 1 /\ last \in [Sources -> Nat] /\ asm \in Packets
      /\ Most \in [Sources -> Nat]
  BY <1>1, MostIs DEF Types
<1>5. e \in Descriptors /\ e.own
  BY PacketFacts DEF Free, Descriptors
<1>6. rxout' \in 0 .. NR - 1 /\ rxout' = IF rxout = NR - 1 THEN 0 ELSE rxout + 1
  BY <1>2, <1>4, NextIs
<1>7. Coming' <=> Coming
  BY <1>3 DEF Coming
<1>8. Most' = Most
  BY <1>3 DEF Most
<1> HIDE DEF d, e
<1>9. CASE faults # 0
  BY <1>3, <1>9 DEF Rings, Seen
<1>10. CASE faults = 0
  <2>1. PICK n \in 0 .. NR : Ring(n)
    BY <1>2, <1>10 DEF Rings
  <2>2. Good(rring, rxout, n, asm, last, Most)
    BY <2>1 DEF Ring
  <2>3. ~ rring[rxout].own
    BY <1>2 DEF d
  <2>4. PICK r2, c2, l2 : r2 = rring' /\ c2 = asm' /\ l2 = last'
    OBVIOUS
  <2>5. PICK b \in 0 .. NR - 1 : b = rxout' /\ b = IF rxout = NR - 1 THEN 0 ELSE rxout + 1
    BY <1>6
  <2>6. /\ r2[rxout].own /\ \A i \in 0 .. NR - 1 : i # rxout => r2[i] = rring[i]
        /\ Ends(rring[rxout]) => c2 = None
        /\ ~ Ends(rring[rxout]) => c2 = rring[rxout].pkt
        /\ \A s \in Sources :
             /\ Ends(rring[rxout]) /\ s = rring[rxout].pkt[1] => l2[s] = rring[rxout].pkt[2]
             /\ ~ (Ends(rring[rxout]) /\ s = rring[rxout].pkt[1]) => l2[s] = last[s]
    <3>1. r2[rxout].own /\ \A i \in 0 .. NR - 1 : i # rxout => r2[i] = rring[i]
      BY <1>2, <1>4, <1>5, <2>4
    <3>2. /\ Ends(rring[rxout]) => c2 = None
          /\ ~ Ends(rring[rxout]) => c2 = rring[rxout].pkt
      BY <1>2, <2>4 DEF d
    <3>3. \A s \in Sources :
             /\ Ends(rring[rxout]) /\ s = rring[rxout].pkt[1] => l2[s] = rring[rxout].pkt[2]
             /\ ~ (Ends(rring[rxout]) /\ s = rring[rxout].pkt[1]) => l2[s] = last[s]
      <4>1. CASE Ends(rring[rxout])
        BY <1>2, <1>4, <2>4, <4>1 DEF d
      <4>2. CASE ~ Ends(rring[rxout])
        BY <1>2, <1>4, <2>4, <4>2 DEF d
      <4> QED
        BY <4>1, <4>2
    <3> QED
      BY <3>1, <3>2, <3>3
  <2>7. /\ n > 0 /\ At(NR, b, n - 1) = At(NR, rxout, n)
        /\ Good(r2, b, n - 1, c2, l2, Most)
        /\ Carry(r2, b, c2, n - 1) = Carry(rring, rxout, asm, n)
        /\ \A p \in Packets : Newest(rring, rxout, n, p) => Newest(r2, b, n - 1, p)
        /\ \A p \in Packets \ {None} : Newest(rring, rxout, n, p) /\ last[p[1]] < p[2] => l2[p[1]] < p[2]
        /\ \A s \in Sources : last[s] <= Most[s] => l2[s] <= Most[s]
    <3>1. Takes(rring, rxout, last, r2, b, c2, l2)
      BY <2>3, <2>5, <2>6 DEF Takes
    <3> QED
      BY <1>4, <2>2, <3>1, Taken
  <2>8. PICK k \in 0 .. NR : k = n - 1
    BY <2>7
  <2>9. Coming => rcvp.pkt \in Packets \ {None} /\ last[rcvp.pkt[1]] < rcvp.pkt[2] /\ Newest(rring, rxout, n, rcvp.pkt)
    BY <1>1, <1>10, <2>1, ComingIs DEF Seen, Ring
  <2>10. Seen'
    BY <1>3, <1>7, <1>8, <2>4, <2>5, <2>7, <2>9 DEF Seen
  <2>11. Coherent(k)'
    <3>1. rcv.pc \in {"peek", "hand"} => rring'[rdrca] = rring[rdrca]
      <4> SUFFICES ASSUME rcv.pc \in {"peek", "hand"} PROVE rdrca # rxout
        BY <1>2, <1>4
      <4>1. n < NR /\ rdrca = At(NR, rxout, n)
        BY <2>1 DEF Ring, Coherent
      <4>2. Off(NR, rxout, rdrca) = n /\ Off(NR, rxout, rxout) = 0
        BY <1>4, <4>1, AtIs, OneOn
      <4> QED
        BY <2>7, <4>2
    <3>2. Coherent(n) /\ k < n
      BY <2>1, <2>8 DEF Ring
    <3>3. Carry(rring', rxout', asm', k) = Carry(rring, rxout, asm, n)
      BY <2>4, <2>5, <2>7, <2>8
    <3>4. /\ rcv.pc \in {"idle", "filter", "done"} => Carry(rring', rxout', asm', k) = None
          /\ rcv.pc \in {"desc", "peek", "hand"} =>
               /\ k < NR
               /\ rcv.first <=> Carry(rring', rxout', asm', k) = None
               /\ ~ rcv.first => Carry(rring', rxout', asm', k) = rcvp.pkt
      BY <3>2, <3>3 DEF Coherent
    <3>5. rcv.pc \in {"peek", "hand"} => rring'[rdrca].pkt = rcvp.pkt
      BY <3>1, <3>2 DEF Coherent
    <3>6. rcv.pc = "hand" => (rring'[rdrca].err => rcv.togo = 1) /\ (rcv.togo # 1 => k + 1 < NR)
      BY <3>1, <3>2 DEF Coherent
    <3> QED
      BY <1>3, <3>4, <3>5, <3>6 DEF Coherent
  <2>12. rdrca' = At(NR, rxout', k) /\ Good(rring', rxout', k, asm', last', Most')
    BY <1>3, <1>8, <2>1, <2>4, <2>5, <2>7, <2>8 DEF Ring
  <2>13. Coming' => Newest(rring', rxout', k, rcvp'.pkt)
    BY <1>3, <1>7, <2>4, <2>5, <2>7, <2>8, <2>9
  <2>14. Ring(k)'
    BY <2>11, <2>12, <2>13 DEF Ring
  <2> QED
    BY <2>10, <2>14 DEF Rings
<1> QED
  BY <1>9, <1>10

\* The receive ring as it is kept, with all that it rests on.
Received == Orderly /\ Rings /\ Seen

\* Every step keeps it.
LEMMA ReceivedStep ==
  ASSUME ~ Intrude, NR # 1, Received, [Next]_vars
  PROVE  Received'
<1>1. Orderly /\ Orderly' /\ Rings /\ Seen
  BY OrderlyStep DEF Received
<1>2. Types /\ Held /\ Looped /\ Types' /\ Held'
  BY <1>1 DEF Orderly
<1>3. CASE Receive \/ RcvError \/ RcvBadBuffer \/ RcvNoPeek
  BY <1>1, <1>2, <1>3, ReceiveRings DEF Received
<1>4. CASE \/ InitOn \/ InitOff \/ IoRead \/ IoTimeout \/ RxLock \/ Transmit \/ TxError \/ TxUnibusTimeout \/ TxStatusFails
           \/ \E p \in {<<1, "mine">>, <<2, "mine">>, <<1, "other">>} : Arrive(p[1], p[2])
  BY <1>1, <1>4, OtherRings DEF Received
<1>5. CASE IoDo
  BY <1>1, <1>5, IoRings DEF Received
<1>6. CASE \/ (\E c \in Commands : GiveCommand(c)) \/ GiveReset \/ SeeAnswer \/ NopOver \/ AckRings \/ ScanEnd
           \/ (\E w \in {"whole", "halves", "long"} : Queue(w)) \/ UNCHANGED vars
  BY <1>1, <1>6, DriverRings DEF Received
<1>7. CASE TakePacket
  BY <1>1, <1>7, TakeRings DEF Received
<1> QED
  BY <1>3, <1>4, <1>5, <1>6, <1>7, Zenon DEF Next, Driver

\* It holds at first.
LEMMA InitReceived == Init => Received
<1> SUFFICES ASSUME Init PROVE Received
  OBVIOUS
<1>1. Orderly
  BY InitOrderly
<1>2. Rings
  BY DEF Init, Rings
<1>3. Seen
  BY DEF Init, Seen, Most, Sources, Coming, Idle
<1> QED
  BY <1>1, <1>2, <1>3 DEF Received

\* The driver finds whole packets, each once and in the order of arrival, in a ring of any size but one,
\* if it changes the mode when no packet is between read() and the mutex, until a DMA cycle fails, a
\* transmit descriptor is filled between two reads of it, or rings are rebuilt during sendto.
THEOREM PacketsWhole == ~ Intrude /\ NR # 1 => (Spec => []ReceivedWhole)
<1> SUFFICES ASSUME ~ Intrude, NR # 1 PROVE Spec => []ReceivedWhole
  OBVIOUS
<1> USE XeAssumption
<1>1. Init /\ [][Next]_vars => []Received
  BY InitReceived, ReceivedStep, PTL
<1>2. ASSUME Received, XeTypeOK PROVE ReceivedWhole
  <2>1. Types /\ Held /\ Commanded /\ Rings /\ Seen
    BY <1>2 DEF Received, Orderly
  <2> DEFINE d == rring[rxout]
  <2>2. ASSUME up, faults = 0
        PROVE  IF d.own THEN asm # None => rcv.pc # "idle"
               ELSE /\ d.stp <=> asm = None
                    /\ ~ d.stp => d.pkt = asm
                    /\ d.pkt # None /\ d.pkt[2] > last[d.pkt[1]]
    <3>1. PICK n \in 0 .. NR : Ring(n)
      BY <2>1, <2>2 DEF Rings
    <3>2. rxout \in 0 .. NR - 1 /\ Off(NR, rxout, rxout) = 0 /\ last \in [Sources -> Nat]
      BY <2>1, OneOn DEF Types
    <3>3. rring[rxout].own <=> 0 >= n
      BY <3>1, <3>2 DEF Ring, Good, Owned
    <3>4. Carry(rring, rxout, asm, 0) = asm
      BY DEF Carry
    <3>5. CASE d.own
      <4>1. n = 0
        BY <3>3, <3>5
      <4>2. rcv.pc = "idle" => asm = None
        BY <3>1, <3>4, <4>1 DEF Ring, Coherent
      <4> QED
        BY <3>5, <4>2
    <3>6. CASE ~ d.own
      <4>1. 0 < n
        BY <3>3, <3>6
      <4>2. (rring[rxout].stp <=> asm = None) /\ (~ rring[rxout].stp => rring[rxout].pkt = asm) /\ rring[rxout].pkt # None
        BY <3>1, <3>2, <3>4, <4>1 DEF Ring, Good, Filled
      <4>3. last[rring[rxout].pkt[1]] < rring[rxout].pkt[2]
        BY <3>1, <3>2, <4>1 DEF Ring, Good, Newer
      <4>4. rring[rxout].pkt[1] \in Sources /\ rring[rxout].pkt[2] \in Nat
        BY <2>1, <3>1, <3>2, <4>1, RingIs
      <4>5. rring[rxout].pkt[2] > last[rring[rxout].pkt[1]]
        BY <3>2, <4>3, <4>4
      <4> QED
        BY <3>6, <4>2, <4>5
    <3> QED
      BY <3>5, <3>6
  <2> QED
    BY <1>2, <2>2 DEF ReceivedWhole
<1> QED
  BY <1>1, <1>2, TypesHold, PTL DEF Spec
=============================================================================
