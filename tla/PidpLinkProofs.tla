--------------------------- MODULE PidpLinkProofs ---------------------------
(***************************************************************************)
(* The PiDP link, for any keys, number of readings kept, presses and       *)
(* packets on the way.  Unless the server restarts while a press is seen    *)
(* (Intrude, see PidpLink) a press is acted on once and in its turn,       *)
(* whatever the network loses, repeats and reorders.                       *)
(***************************************************************************)
EXTENDS PidpLink, SequenceTheorems, TLAPS

\* The presses so far, 0 for none; readings of them; packets with those.
Presses == 0 .. Len(keyof)
Seen == [halt : BOOLEAN, press : Presses]
Packets == [seq : Int, sw : Seen]

Types ==
  /\ hsw \in BOOLEAN /\ fresh \in BOOLEAN /\ swhalt \in BOOLEAN
  /\ haltreq \in BOOLEAN /\ halted \in BOOLEAN /\ haltins \in BOOLEAN
  /\ keyof \in Seq(Keys) /\ Len(keyof) <= MaxPress
  /\ down \in Presses /\ swtrows \in Seen
  /\ cpc \in {"look", "asleep", "wait"} /\ spc \in {"recv", "step", "reset", "start"}
  /\ sendseq \in Int /\ recvseq \in Int /\ recvseq <= sendseq
  /\ tocli \in Seq(Int)
  /\ tosvr \in Seq(Packets)
  /\ \A i \in 1 .. Len(tosvr) : tosvr[i].seq <= sendseq
  /\ oldrows \in Seq(Presses) /\ Len(oldrows) = NOLDROWS
  /\ acted \in Seq(Presses)

\* The presses the server reads last, has on the way, will be sent, and that
\* are on the panel, each at its place in the order of sending.
Reads ==
  {[at |-> recvseq, press |-> oldrows[NOLDROWS]]}
  \cup {[at |-> tosvr[i].seq, press |-> tosvr[i].sw.press] :
          i \in {j \in 1 .. Len(tosvr) : tosvr[j].seq > recvseq}}
  \cup {[at |-> sendseq + 1, press |-> swtrows.press], [at |-> sendseq + 2, press |-> down]}

\* Later readings are of later presses, and between two readings of one press
\* the switch was not let go.
InOrder(R) ==
  /\ \A x, y \in R : x.at <= y.at => x.press = 0 \/ y.press = 0 \/ x.press <= y.press
  /\ \A x, y, z \in R : /\ x.at <= y.at /\ y.at <= z.at
                        /\ x.press = z.press /\ x.press # 0
                        => y.press = x.press

Key(p) == IF p = 0 THEN "none" ELSE keyof[p]

\* Press a has been acted on: what comes is later, or it is still down and the
\* readings kept show no edge any more.
Past(R, a) ==
  \A x \in R : /\ x.press = 0 \/ x.press >= a
               /\ x.press = a => /\ oldrows[NOLDROWS] = a
                                 /\ \A j \in 2 .. NOLDROWS : Key(oldrows[j]) = Key(a)

Acted == InTurn /\ \A i \in 1 .. Len(acted) : acted[i] # 0 /\ Past(Reads, acted[i])

PidpInv == Types /\ (~ Intrude => InOrder(Reads) /\ Acted)

------------------------------------------------------------------------------
(* The network and the readings kept, as sequences.                        *)

\* What is left of a sequence was in it.
LEMMA CutOne ==
  ASSUME NEW S, NEW s \in Seq(S), NEW i \in 1 .. Len(s)
  PROVE  /\ RemoveAt(s, i) \in Seq(S)
         /\ \A j \in 1 .. Len(RemoveAt(s, i)) : \E k \in 1 .. Len(s) : RemoveAt(s, i)[j] = s[k]
<1> DEFINE a == SubSeq(s, 1, i - 1)  b == SubSeq(s, i + 1, Len(s))
<1>1. a \in Seq(S) /\ Len(a) = i - 1 /\ \A j \in 1 .. i - 1 : a[j] = s[j]
  OBVIOUS
<1>2. b \in Seq(S) /\ Len(b) = Len(s) - i /\ \A j \in 1 .. Len(s) - i : b[j] = s[i + j]
  OBVIOUS
<1>3. /\ a \o b \in Seq(S) /\ Len(a \o b) = Len(s) - 1
      /\ \A j \in 1 .. Len(s) - 1 : (a \o b)[j] = IF j <= i - 1 THEN a[j] ELSE b[j - (i - 1)]
  <2> HIDE DEF a, b
  <2>1. a \o b \in Seq(S) /\ Len(a \o b) = Len(a) + Len(b)
    BY <1>1, <1>2, ConcatProperties
  <2>2. Len(a \o b) = Len(s) - 1
    BY <2>1, <1>1, <1>2
  <2>3. \A j \in 1 .. Len(a) + Len(b) : (a \o b)[j] = IF j <= Len(a) THEN a[j] ELSE b[j - Len(a)]
    BY <1>1, <1>2
  <2> QED
    BY <2>1, <2>2, <2>3, <1>1
<1>4. ASSUME NEW j \in 1 .. Len(s) - 1
      PROVE  (a \o b)[j] = IF j <= i - 1 THEN s[j] ELSE s[j + 1]
  <2> HIDE DEF a, b
  <2>1. CASE j <= i - 1
    <3>1. j \in 1 .. i - 1
      BY <2>1
    <3>2. (a \o b)[j] = a[j]
      BY <2>1, <1>3
    <3> QED
      BY <3>1, <3>2, <2>1, <1>1
  <2>2. CASE ~ (j <= i - 1)
    <3>1. j - (i - 1) \in 1 .. Len(s) - i
      BY <2>2
    <3>2. i + (j - (i - 1)) = j + 1
      OBVIOUS
    <3>3. b[j - (i - 1)] = s[j + 1]
      BY <3>1, <3>2, <1>2
    <3>4. (a \o b)[j] = b[j - (i - 1)]
      BY <2>2, <1>3
    <3> QED
      BY <2>2, <3>3, <3>4
  <2> QED
    BY <2>1, <2>2
<1>5. \A j \in 1 .. Len(s) - 1 : j \in 1 .. Len(s) /\ j + 1 \in 1 .. Len(s)
  OBVIOUS
<1> QED
  BY <1>3, <1>4, <1>5 DEF RemoveAt

\* So whether or not the packet that was received comes again.
LEMMA CutMaybe ==
  ASSUME NEW S, NEW s \in Seq(S), NEW i \in 1 .. Len(s), NEW dup \in BOOLEAN
  PROVE  /\ After(s, i, dup) \in Seq(S)
         /\ \A j \in 1 .. Len(After(s, i, dup)) : \E k \in 1 .. Len(s) : After(s, i, dup)[j] = s[k]
  BY CutOne DEF After

\* The readings kept move up by one.
LEMMA MoveUp ==
  ASSUME NEW S, NEW s \in Seq(S), NEW e \in S, Len(s) > 0
  PROVE  /\ Append(Tail(s), e) \in Seq(S)
         /\ Len(Append(Tail(s), e)) = Len(s)
         /\ \A j \in 1 .. Len(s) :
              Append(Tail(s), e)[j] = IF j < Len(s) THEN s[j + 1] ELSE e
<1> DEFINE t == Tail(s)
<1>1. /\ t \in Seq(S) /\ Len(t) = Len(s) - 1
      /\ \A j \in 1 .. Len(s) - 1 : t[j] = s[j + 1]
  OBVIOUS
<1> HIDE DEF t
<1>2. /\ Append(t, e) \in Seq(S)
      /\ Len(Append(t, e)) = Len(t) + 1
      /\ \A j \in 1 .. Len(t) : Append(t, e)[j] = t[j]
      /\ Append(t, e)[Len(t) + 1] = e
  BY <1>1
<1>3. ASSUME NEW j \in 1 .. Len(s)
      PROVE  Append(t, e)[j] = IF j < Len(s) THEN s[j + 1] ELSE e
  <2>1. CASE j < Len(s)
    BY <2>1, <1>1, <1>2
  <2>2. CASE ~ (j < Len(s))
    <3>1. j = Len(t) + 1
      BY <2>2, <1>1
    <3> QED
      BY <2>2, <3>1, <1>2
  <2> QED
    BY <2>1, <2>2
<1>4. Len(Append(t, e)) = Len(s)
  BY <1>1, <1>2
<1> QED
  BY <1>2, <1>3, <1>4 DEF t

\* Numbers are kept relative to the last one received.
LEMMA RelIs ==
  ASSUME NEW n \in Int, recvseq \in Int
  PROVE  Rel(n) = IF n - recvseq >= -1 THEN n - recvseq ELSE -1
<1> DEFINE m == IF n - recvseq >= -1 THEN n - recvseq ELSE -1
           S == {n - recvseq, -1}
<1>1. m \in S /\ \A y \in S : m >= y
  OBVIOUS
<1>2. \A x \in S : (\A y \in S : x >= y) => x = m
  <2> SUFFICES ASSUME NEW x \in S, \A y \in S : x >= y PROVE x = m
    OBVIOUS
  <2>1. x >= m /\ m >= x /\ x \in Int /\ m \in Int
    BY <1>1
  <2> QED
    BY <2>1
<1>3. Max(S) = m
  <2>1. Max(S) = CHOOSE x \in S : \A y \in S : x >= y
    BY Zenon DEF Max
  <2>2. Max(S) \in S /\ \A y \in S : Max(S) >= y
    <3> HIDE DEF m, S
    <3> QED
      BY <1>1, <2>1, Zenon
  <2> QED
    BY <2>2, <1>2
<1> QED
  BY <1>3 DEF Rel

------------------------------------------------------------------------------
(* The order of the readings.                                              *)

Readings == [at : Int, press : Nat]

\* Readings that come from readings in the same order are in order, and behind
\* the presses those are behind.
LEMMA SameOrder ==
  ASSUME NEW R, NEW S, NEW f \in [S -> R], InOrder(R),
         \A x \in S : f[x].press = x.press,
         \A x, y \in S : x.at <= y.at => f[x].at <= f[y].at
  PROVE  InOrder(S)
<1>1. ASSUME NEW x \in S, NEW y \in S, x.at <= y.at
      PROVE  x.press = 0 \/ y.press = 0 \/ x.press <= y.press
  BY <1>1 DEF InOrder
<1>2. ASSUME NEW x \in S, NEW y \in S, NEW z \in S, x.at <= y.at, y.at <= z.at,
             x.press = z.press, x.press # 0
      PROVE  y.press = x.press
  <2>1. f[x] \in R /\ f[y] \in R /\ f[z] \in R /\ f[x].at <= f[y].at /\ f[y].at <= f[z].at
    BY <1>2
  <2>2. f[x].press = f[z].press /\ f[x].press # 0
    BY <1>2
  <2>3. f[y].press = f[x].press
    BY <2>1, <2>2 DEF InOrder
  <2> QED
    BY <2>3
<1> QED
  BY <1>1, <1>2 DEF InOrder

\* Fewer readings are still in order.
LEMMA FewerReadings ==
  ASSUME NEW R, NEW S \in SUBSET R, InOrder(R)
  PROVE  InOrder(S)
  BY DEF InOrder

\* A last reading of no press, or of a new one, keeps the order.
LEMMA LastReading ==
  ASSUME NEW R \in SUBSET Readings, InOrder(R), NEW n \in Readings, NEW S,
         \A x \in S : x = n \/ (x \in R /\ x.at < n.at),
         n.press = 0 \/ \A x \in R : x.press < n.press
  PROVE  InOrder(S)
<1>0. \A x \in S : x \in Readings
  OBVIOUS
<1>1. ASSUME NEW x \in S, NEW y \in S, x.at <= y.at
      PROVE  x.press = 0 \/ y.press = 0 \/ x.press <= y.press
  BY <1>0, <1>1 DEF InOrder, Readings
<1>2. ASSUME NEW x \in S, NEW y \in S, NEW z \in S, x.at <= y.at, y.at <= z.at,
             x.press = z.press, x.press # 0
      PROVE  y.press = x.press
  <2>1. CASE x = n
    <3>1. y = n
      BY <1>0, <1>2, <2>1 DEF Readings
    <3> QED
      BY <2>1, <3>1
  <2>2. CASE x # n
    <3>1. x \in R /\ z # n
      BY <2>2, <1>2 DEF Readings
    <3>2. z \in R /\ y # n
      BY <3>1, <1>0, <1>2 DEF Readings
    <3>3. y \in R
      BY <3>2
    <3> QED
      BY <3>1, <3>2, <3>3, <1>2 DEF InOrder
  <2> QED
    BY <2>1, <2>2
<1> QED
  BY <1>1, <1>2 DEF InOrder

------------------------------------------------------------------------------
(* Types.                                                                  *)

\* What a packet on the way says.
LEMMA OnTheWay ==
  ASSUME Types, NEW i \in 1 .. Len(tosvr)
  PROVE  /\ tosvr[i] \in Packets
         /\ tosvr[i].seq \in Int /\ tosvr[i].seq <= sendseq
         /\ tosvr[i].sw \in Seen /\ tosvr[i].sw.press \in Presses
<1>1. tosvr \in Seq(Packets) /\ tosvr[i].seq <= sendseq
  BY DEF Types
<1>2. tosvr[i] \in Packets
  BY <1>1, ElementOfSeq
<1> QED
  BY <1>1, <1>2 DEF Packets, Seen

\* Types depend on the presses so far only by what those are.
LEMMA SameSets ==
  ASSUME UNCHANGED keyof
  PROVE  Presses' = Presses /\ Seen' = Seen /\ Packets' = Packets
  BY DEF Presses, Seen, Packets

\* The operator works the switches and the client looks at them.
LEMMA PanelTypes ==
  ASSUME Types, FlipHalt \/ (\E k \in Keys : Press(k)) \/ LetGo \/ GpioCycle
  PROVE  Types'
<1> USE DEF client, server, proc
<1>1. CASE FlipHalt
  BY <1>1, SameSets DEF FlipHalt, Event, Types
<1>2. ASSUME NEW k \in Keys, Press(k) PROVE Types'
  <2>1. keyof' \in Seq(Keys) /\ Len(keyof') = Len(keyof) + 1 /\ Len(keyof) \in Nat
    BY <1>2 DEF Press, Types
  <2>2. MaxPress \in Nat
    BY PidpAssumption
  <2>3. Len(keyof') <= MaxPress
    BY <1>2, <2>1, <2>2 DEF Press, Types
  <2>4. 0 .. Len(keyof) \subseteq 0 .. Len(keyof')
    BY <2>1
  <2>5. oldrows \in Seq(Presses') /\ acted \in Seq(Presses')
    BY <2>4, SeqMonotonic DEF Presses, Types
  <2>6. Seen \subseteq Seen' /\ Packets \subseteq Packets'
    BY <2>4 DEF Packets, Seen, Presses
  <2>7. swtrows \in Seen' /\ tosvr \in Seq(Packets')
    BY <2>6, SeqMonotonic DEF Types
  <2>8. down' \in Presses'
    BY <1>2, <2>1 DEF Press, Presses
  <2> QED
    BY <1>2, <2>1, <2>3, <2>5, <2>7, <2>8 DEF Press, Types
<1>3. CASE LetGo
  <2>1. down' \in Presses
    BY <1>3 DEF LetGo, Presses, Types
  <2> QED
    BY <1>3, <2>1, SameSets DEF LetGo, Types
<1>4. CASE GpioCycle
  <2>1. swtrows' \in Seen
    BY <1>4 DEF GpioCycle, Seen, Types
  <2> QED
    BY <1>4, <2>1, SameSets DEF GpioCycle, panel, Types
<1> QED
  BY <1>1, <1>2, <1>3, <1>4

\* The client sends a reading of the switches, and numbers begin anew at the
\* last one the server has received.
LEMMA SendTypes ==
  ASSUME Types, Send
  PROVE  /\ Types'
         /\ Len(tosvr') = Len(tosvr) + 1
         /\ tosvr'[Len(tosvr) + 1] = [seq |-> sendseq', sw |-> swtrows]
         /\ \A i \in 1 .. Len(tosvr) : /\ tosvr'[i].seq = Rel(tosvr[i].seq)
                                       /\ tosvr'[i].sw = tosvr[i].sw
<1> DEFINE old == [i \in DOMAIN tosvr |-> [tosvr[i] EXCEPT !.seq = Rel(@)]]
           new == [seq |-> sendseq', sw |-> swtrows]
<1>1. tosvr \in Seq(Packets) /\ DOMAIN tosvr = 1 .. Len(tosvr) /\ Len(tosvr) \in Nat
  BY DEF Types
<1>2. ASSUME NEW n \in Int
      PROVE  Rel(n) \in Int /\ (n <= sendseq => Rel(n) <= sendseq + 1 - recvseq)
  <2>1. recvseq \in Int /\ sendseq \in Int /\ recvseq <= sendseq
    BY DEF Types
  <2>2. Rel(n) = IF n - recvseq >= -1 THEN n - recvseq ELSE -1
    BY <2>1, RelIs
  <2> QED
    BY <2>1, <2>2
<1>3. ASSUME NEW i \in 1 .. Len(tosvr)
      PROVE  old[i] \in Packets /\ old[i].seq = Rel(tosvr[i].seq) /\ old[i].sw = tosvr[i].sw
  <2>1. tosvr[i] \in Packets /\ tosvr[i].seq \in Int
    BY OnTheWay
  <2>2. old[i] = [tosvr[i] EXCEPT !.seq = Rel(tosvr[i].seq)]
    BY <1>1
  <2>3. Rel(tosvr[i].seq) \in Int
    BY <2>1, <1>2
  <2> QED
    BY <2>1, <2>2, <2>3 DEF Packets
<1>4. old \in Seq(Packets) /\ Len(old) = Len(tosvr)
  <2>1. DOMAIN old = 1 .. Len(tosvr)
    BY <1>1
  <2>2. old \in [1 .. Len(tosvr) -> Packets]
    BY <2>1, <1>3
  <2> HIDE DEF old
  <2> QED
    BY <1>1, <2>2
<1>5. new \in Packets /\ sendseq' = sendseq + 1 - recvseq /\ sendseq' \in Int
  BY DEF Send, Types, Packets
<1>6. tosvr' = Append(old, new)
  BY DEF Send
<1>7. /\ tosvr' \in Seq(Packets) /\ Len(tosvr') = Len(tosvr) + 1
      /\ tosvr'[Len(tosvr) + 1] = new
      /\ \A i \in 1 .. Len(tosvr) : tosvr'[i] = old[i]
  <2> HIDE DEF old, new, Packets
  <2> QED
    BY <1>1, <1>4, <1>5, <1>6
<1>8. \A i \in 1 .. Len(tosvr') : tosvr'[i].seq <= sendseq'
  <2> SUFFICES ASSUME NEW i \in 1 .. Len(tosvr') PROVE tosvr'[i].seq <= sendseq'
    OBVIOUS
  <2>1. CASE i = Len(tosvr) + 1
    BY <2>1, <1>5, <1>7
  <2>2. CASE i # Len(tosvr) + 1
    <3>1. i \in 1 .. Len(tosvr)
      BY <2>2, <1>1, <1>7
    <3>2. tosvr[i].seq \in Int /\ tosvr[i].seq <= sendseq
      BY <3>1, OnTheWay
    <3>3. tosvr'[i].seq = Rel(tosvr[i].seq)
      BY <3>1, <1>3, <1>7
    <3> QED
      BY <3>2, <3>3, <1>2, <1>5
  <2> QED
    BY <2>1, <2>2
<1>9. tocli' \in Seq(Int)
  <2>1. tocli' = [i \in DOMAIN tocli |-> Rel(tocli[i])] /\ tocli \in Seq(Int)
    BY DEF Send, Types
  <2> QED
    BY SMTT(30), <2>1, <1>2
<1>10. Types'
  <2>1. /\ recvseq' = 0 /\ recvseq' <= sendseq'
        /\ fresh' = FALSE /\ cpc' = "wait"
    BY <1>5 DEF Send, Types
  <2>2. UNCHANGED <<hsw, down, keyof, swtrows, oldrows, spc, swhalt, acted, haltreq, halted, haltins>>
    BY DEF Send, panel, proc
  <2>3. tosvr' \in Seq(Packets') /\ swtrows' \in Seen'
    BY <1>7, <2>2, SameSets DEF Types
  <2> QED
    <3>1. oldrows' \in Seq(Presses') /\ acted' \in Seq(Presses') /\ down' \in Presses'
      BY <2>2, SameSets DEF Types
    <3>2. /\ hsw' \in BOOLEAN /\ fresh' \in BOOLEAN /\ swhalt' \in BOOLEAN
          /\ haltreq' \in BOOLEAN /\ halted' \in BOOLEAN /\ haltins' \in BOOLEAN
          /\ keyof' \in Seq(Keys) /\ Len(keyof') <= MaxPress
          /\ cpc' \in {"look", "asleep", "wait"} /\ spc' \in {"recv", "step", "reset", "start"}
          /\ Len(oldrows') = NOLDROWS
      BY <2>1, <2>2 DEF Types
    <3> QED
      BY <1>5, <1>8, <1>9, <2>1, <2>3, <3>1, <3>2 DEF Types
<1> QED
  BY <1>3, <1>7, <1>10

\* What the network loses, repeats and delivers leaves packets on the way that
\* were on the way.
LEMMA NetTypes ==
  ASSUME Types, \/ \E i \in 1 .. MaxLeds, dup \in BOOLEAN : RecvLeds(i, dup)
                \/ LoseSome
                \/ \E i \in 1 .. MaxNet : SvrDrop(i)
  PROVE  /\ Types'
         /\ \A j \in 1 .. Len(tosvr') : \E k \in 1 .. Len(tosvr) : tosvr'[j] = tosvr[k]
         /\ UNCHANGED <<panel, swtrows, sendseq, server, proc>>
<1>1. /\ tosvr \in Seq(Packets) /\ DOMAIN tosvr = 1 .. Len(tosvr)
      /\ tocli \in Seq(Int) /\ DOMAIN tocli = 1 .. Len(tocli)
  BY DEF Types
<1>2. ASSUME NEW i \in 1 .. MaxLeds, NEW dup \in BOOLEAN, RecvLeds(i, dup)
      PROVE  tocli' \in Seq(Int) /\ cpc' \in {"look", "wait"} /\ UNCHANGED <<tosvr, fresh>>
  BY <1>1, <1>2, CutMaybe DEF RecvLeds
<1>3. ASSUME LoseSome
      PROVE  /\ tocli' \in Seq(Int) /\ tosvr' \in Seq(Packets) /\ UNCHANGED <<cpc, fresh>>
             /\ \A j \in 1 .. Len(tosvr') : \E k \in 1 .. Len(tosvr) : tosvr'[j] = tosvr[k]
  <2>1. CASE \E i \in DOMAIN tosvr : tosvr' = RemoveAt(tosvr, i) /\ UNCHANGED tocli
    BY <2>1, <1>1, <1>3, CutOne DEF LoseSome, client
  <2>2. CASE \E i \in DOMAIN tocli : tocli' = RemoveAt(tocli, i) /\ UNCHANGED tosvr
    BY <2>2, <1>1, <1>3, CutOne DEF LoseSome, client
  <2> QED
    BY <1>3, <2>1, <2>2 DEF LoseSome, Lose
<1>4. ASSUME NEW i \in 1 .. MaxNet, SvrDrop(i)
      PROVE  /\ tosvr' \in Seq(Packets) /\ UNCHANGED <<cpc, fresh, tocli>>
             /\ \A j \in 1 .. Len(tosvr') : \E k \in 1 .. Len(tosvr) : tosvr'[j] = tosvr[k]
  <2>1. i \in 1 .. Len(tosvr) /\ tosvr' = RemoveAt(tosvr, i)
    BY <1>1, <1>4 DEF SvrDrop
  <2>2. UNCHANGED <<cpc, fresh, tocli>>
    BY <1>4 DEF SvrDrop, client
  <2> QED
    BY SMTT(30), <1>1, <2>1, <2>2, CutOne
<1>5. UNCHANGED <<panel, swtrows, sendseq, server, proc>>
  BY DEF RecvLeds, LoseSome, SvrDrop, client
<1>6. /\ tosvr' \in Seq(Packets) /\ tocli' \in Seq(Int)
      /\ cpc' \in {"look", "wait", cpc} /\ fresh' = fresh
  BY <1>1, <1>2, <1>3, <1>4
<1>7. \A j \in 1 .. Len(tosvr') : \E k \in 1 .. Len(tosvr) : tosvr'[j] = tosvr[k]
  BY <1>2, <1>3, <1>4
<1>8. \A j \in 1 .. Len(tosvr') : tosvr'[j].seq <= sendseq'
  BY <1>5, <1>7 DEF Types
<1>9. Types'
  <2>1. UNCHANGED <<hsw, down, keyof, swtrows, sendseq, recvseq, oldrows, spc, swhalt, acted,
                    haltreq, halted, haltins>>
    BY <1>5 DEF panel, server, proc
  <2> QED
    BY <2>1, <1>6, <1>8, SameSets DEF Types
<1> QED
  BY <1>5, <1>7, <1>9

\* A debounced edge is a press the newest readings kept all show by its key.
LEMMA EdgeIs ==
  ASSUME NEW rows
  PROVE  \/ Edge(rows) = 0
         \/ /\ Edge(rows) = rows[NOLDROWS] /\ rows[NOLDROWS] # 0
            /\ Key(rows[1]) # Key(rows[NOLDROWS])
            /\ \A j \in 2 .. NOLDROWS : Key(rows[j]) = Key(rows[NOLDROWS])
  BY DEF Edge, Key

\* The server takes a reading that is newer than the last one.
LEMMA PassTypes ==
  ASSUME Types, NEW i \in 1 .. MaxNet, NEW dup \in BOOLEAN, SvrPass(i, dup)
  PROVE  /\ Types'
         /\ i \in 1 .. Len(tosvr) /\ tosvr[i].seq > recvseq /\ recvseq' = tosvr[i].seq
         /\ oldrows'[NOLDROWS] = tosvr[i].sw.press
         /\ \A j \in 1 .. NOLDROWS : j < NOLDROWS => oldrows'[j] = oldrows[j + 1]
         /\ \A j \in 1 .. Len(tosvr') : \E k \in 1 .. Len(tosvr) : tosvr'[j] = tosvr[k]
         /\ spc' # "start"
         /\ acted' = acted \/ (Edge(oldrows') # 0 /\ acted' = Append(acted, Edge(oldrows')))
<1> DEFINE p == tosvr[i].sw.press  e == Edge(oldrows')
<1>0. NOLDROWS \in Nat /\ NOLDROWS > 1
  BY PidpAssumption
<1>1. /\ i \in 1 .. Len(tosvr) /\ tosvr \in Seq(Packets)
      /\ recvseq \in Int /\ oldrows \in Seq(Presses) /\ Len(oldrows) = NOLDROWS
  BY DEF SvrPass, Types
<1>2. /\ tosvr[i].seq \in Int /\ tosvr[i].seq <= sendseq
      /\ p \in Presses /\ tosvr[i].sw.halt \in BOOLEAN
  BY <1>1, OnTheWay DEF Seen
<1>3. tosvr[i].seq > recvseq /\ recvseq' = tosvr[i].seq
  BY <1>1, <1>2 DEF SvrPass, Stale
<1>4. oldrows' = Append(Tail(oldrows), p)
  BY DEF SvrPass
<1>5. /\ oldrows' \in Seq(Presses) /\ Len(oldrows') = NOLDROWS
      /\ \A j \in 1 .. NOLDROWS : oldrows'[j] = IF j < NOLDROWS THEN oldrows[j + 1] ELSE p
  <2> HIDE DEF p
  <2> QED
    BY <1>0, <1>1, <1>2, <1>4, MoveUp
<1>6. NOLDROWS \in 1 .. NOLDROWS /\ ~ (NOLDROWS < NOLDROWS)
  BY <1>0
<1>7. /\ tosvr' \in Seq(Packets)
      /\ \A j \in 1 .. Len(tosvr') : \E k \in 1 .. Len(tosvr) : tosvr'[j] = tosvr[k]
  BY <1>1, CutMaybe DEF SvrPass
<1>8. acted' = acted \/ (e # 0 /\ acted' = Append(acted, e))
  BY DEF SvrPass
<1>9. e \in Presses
  <2>1. oldrows'[NOLDROWS] \in Presses /\ 0 \in Presses
    BY <1>2, <1>5, <1>6 DEF Presses, Types
  <2> QED
    BY <2>1, EdgeIs
<1>10. acted' \in Seq(Presses)
  <2> HIDE DEF e
  <2>1. acted \in Seq(Presses)
    BY DEF Types
  <2> QED
    BY <2>1, <1>8, <1>9
<1>11. spc' \in {"recv", "step", "reset"} /\ haltreq' \in BOOLEAN /\ swhalt' \in BOOLEAN
  <2>1. PICK k : Console(k, tosvr[i].sw.halt)
    BY DEF SvrPass
  <2>2. haltreq' \in BOOLEAN
    BY <2>1, <1>2 DEF Console, Types
  <2>3. spc' \in {"recv", "step", "reset"}
    BY <2>1 DEF Console
  <2>4. swhalt' = (spc' # "recv" /\ tosvr[i].sw.halt)
    BY DEF SvrPass
  <2> QED
    BY <2>2, <2>3, <2>4
<1>12. tocli' \in Seq(Int)
  <2>1. tocli' = tocli \/ tocli' = Append(tocli, recvseq')
    BY DEF SvrPass, Reply
  <2> QED
    <3>1. recvseq' \in Int /\ tocli \in Seq(Int)
      BY <1>2, <1>3 DEF Types
    <3>2. Append(tocli, recvseq') \in Seq(Int)
      BY <3>1
    <3> QED
      BY <2>1, <3>1, <3>2
<1>13. UNCHANGED <<hsw, down, keyof, swtrows, fresh, cpc, sendseq, halted, haltins>>
  BY DEF SvrPass, panel, client
<1>14. Types'
  <2>1. recvseq' \in Int /\ recvseq' <= sendseq'
    BY <1>2, <1>3, <1>13
  <2>2. \A j \in 1 .. Len(tosvr') : tosvr'[j].seq <= sendseq'
    BY <1>7, <1>13 DEF Types
  <2>3. /\ tosvr' \in Seq(Packets') /\ oldrows' \in Seq(Presses') /\ acted' \in Seq(Presses')
        /\ down' \in Presses' /\ swtrows' \in Seen'
    BY <1>5, <1>7, <1>10, <1>13, SameSets DEF Types
  <2> QED
    BY <1>5, <1>11, <1>12, <1>13, <2>1, <2>2, <2>3 DEF Types
<1> QED
  BY <1>1, <1>3, <1>5, <1>6, <1>7, <1>8, <1>11, <1>14

\* What the readings are made of stays as it is.
readvars == <<keyof, down, swtrows, sendseq, recvseq, oldrows, tosvr, acted>>

\* The rest of the steps, but for the restart of the server.
LEMMA OtherTypes ==
  ASSUME Types, \/ FutexWait \/ RecvTimeout \/ SvrStepped \/ SvrReset \/ SvrStart
                \/ ProcStops \/ ProcRuns \/ HaltInstruction \/ ExtRequest \/ ClientRestart
  PROVE  Types' /\ UNCHANGED readvars
<1> USE DEF panel, client, server, proc, SvrUnch, Event
<1>0. recvseq \in Int /\ tocli \in Seq(Int) /\ <<>> \in Seq(Int) /\ Append(tocli, recvseq) \in Seq(Int)
  BY DEF Types
<1>1. UNCHANGED readvars
  BY DEF FutexWait, RecvTimeout, SvrStepped, SvrReset, SvrStart, ProcStops, ProcRuns,
         HaltInstruction, ExtRequest, ClientRestart, readvars
<1>2. tocli' \in Seq(Int) /\ UNCHANGED hsw
  BY <1>0 DEF FutexWait, RecvTimeout, SvrStepped, SvrReset, SvrStart, ProcStops, ProcRuns,
              HaltInstruction, ExtRequest, ClientRestart, Reply
<1>3. /\ cpc' \in {"look", "asleep", "wait"} /\ spc' \in {"recv", "step", "reset", "start"}
      /\ fresh' \in BOOLEAN /\ swhalt' \in BOOLEAN
  BY DEF FutexWait, RecvTimeout, SvrStepped, SvrReset, SvrStart, ProcStops, ProcRuns,
         HaltInstruction, ExtRequest, ClientRestart, Types
<1>4. haltreq' \in BOOLEAN /\ halted' \in BOOLEAN /\ haltins' \in BOOLEAN
  BY DEF FutexWait, RecvTimeout, SvrStepped, SvrReset, SvrStart, ProcStops, ProcRuns,
         HaltInstruction, ExtRequest, ClientRestart, Types
<1>5. Types'
  <2>1. /\ tosvr' \in Seq(Packets') /\ oldrows' \in Seq(Presses') /\ acted' \in Seq(Presses')
        /\ down' \in Presses' /\ swtrows' \in Seen'
    BY <1>1, SameSets DEF Types, readvars
  <2> QED
    BY <1>1, <1>2, <1>3, <1>4, <2>1 DEF Types, readvars
<1> QED
  BY <1>1, <1>5

\* The server starts over, its readings are forgotten.
LEMMA RestartTypes ==
  ASSUME Types, NEW lost \in BOOLEAN, ServerRestart(lost)
  PROVE  /\ Types'
         /\ \A j \in 1 .. NOLDROWS : oldrows'[j] = 0
<1>1. oldrows \in Seq(Presses) /\ Len(oldrows) = NOLDROWS /\ 0 \in Presses
  BY DEF Types, Presses
<1>2. oldrows' = [j \in DOMAIN oldrows |-> 0]
  BY DEF ServerRestart
<1>3. /\ oldrows' \in Seq(Presses) /\ Len(oldrows') = NOLDROWS
      /\ \A j \in 1 .. NOLDROWS : oldrows'[j] = 0
  BY <1>1, <1>2
<1>4. Types'
  <2>1. /\ tosvr' = <<>> \/ tosvr' = tosvr
        /\ spc' = "recv" /\ swhalt' = FALSE
        /\ UNCHANGED <<panel, client, tocli, recvseq, acted, proc>>
    BY DEF ServerRestart
  <2>2. UNCHANGED <<hsw, down, keyof, swtrows, fresh, cpc, sendseq, haltreq, halted, haltins>>
    BY <2>1 DEF panel, client, proc
  <2>3. tosvr' \in Seq(Packets') /\ \A j \in 1 .. Len(tosvr') : tosvr'[j].seq <= sendseq'
    <3>1. CASE tosvr' = <<>>
      <4>1. Len(tosvr') = 0
        BY <3>1
      <4>2. <<>> \in Seq(Packets')
        OBVIOUS
      <4> QED
        BY <3>1, <4>1, <4>2
    <3>2. CASE tosvr' = tosvr
      <4>1. tosvr \in Seq(Packets) /\ Packets' = Packets
        BY <2>2, SameSets DEF Types
      <4>2. \A j \in 1 .. Len(tosvr) : tosvr[j].seq <= sendseq
        BY DEF Types
      <4> QED
        BY <3>2, <2>2, <4>1, <4>2
    <3> QED
      BY <2>1, <3>1, <3>2
  <2>4. /\ oldrows' \in Seq(Presses') /\ acted' \in Seq(Presses')
        /\ down' \in Presses' /\ swtrows' \in Seen'
    BY <1>3, <2>1, <2>2, SameSets DEF Types
  <2> QED
    BY <1>3, <2>1, <2>2, <2>3, <2>4 DEF Types
<1> QED
  BY <1>3, <1>4

------------------------------------------------------------------------------
(* Order.                                                                  *)

\* The readings, one kind by one.
LEMMA ReadsAre ==
  ASSUME NEW x
  PROVE  x \in Reads <=>
           \/ x = [at |-> recvseq, press |-> oldrows[NOLDROWS]]
           \/ \E i \in 1 .. Len(tosvr) : /\ tosvr[i].seq > recvseq
                                         /\ x = [at |-> tosvr[i].seq, press |-> tosvr[i].sw.press]
           \/ x = [at |-> sendseq + 1, press |-> swtrows.press]
           \/ x = [at |-> sendseq + 2, press |-> down]
  BY DEF Reads

\* A reading is what it says.
LEMMA OneReading ==
  ASSUME NEW a \in Int, NEW p \in Nat
  PROVE  LET x == [at |-> a, press |-> p] IN x \in Readings /\ x.at = a /\ x.press = p
  BY DEF Readings

\* Where readings are: the one on the panel is the last.
LEMMA ReadsTyped ==
  ASSUME Types
  PROVE  /\ Reads \subseteq Readings
         /\ \A x \in Reads : /\ x.press \in Presses /\ x.at >= recvseq
                             /\ \/ x.at <= sendseq + 1
                                \/ x = [at |-> sendseq + 2, press |-> down]
         /\ Len(keyof) \in Nat /\ sendseq \in Int /\ recvseq \in Int
<1>1. /\ sendseq \in Int /\ recvseq \in Int /\ recvseq <= sendseq
      /\ Len(keyof) \in Nat /\ Presses \subseteq Nat
      /\ down \in Presses /\ swtrows.press \in Presses
  BY DEF Types, Presses, Seen
<1>2. oldrows[NOLDROWS] \in Presses
  BY PidpAssumption, ElementOfSeq DEF Types
<1> SUFFICES ASSUME NEW x \in Reads
             PROVE  /\ x \in Readings /\ x.press \in Presses /\ x.at >= recvseq
                    /\ \/ x.at <= sendseq + 1
                       \/ x = [at |-> sendseq + 2, press |-> down]
  BY <1>1
<1>3. CASE x = [at |-> recvseq, press |-> oldrows[NOLDROWS]]
  <2>1. x \in Readings /\ x.at = recvseq /\ x.press \in Presses
    BY <1>1, <1>2, <1>3, OneReading
  <2> QED
    BY <1>1, <2>1
<1>4. ASSUME NEW i \in 1 .. Len(tosvr), tosvr[i].seq > recvseq,
             x = [at |-> tosvr[i].seq, press |-> tosvr[i].sw.press]
      PROVE  x \in Readings /\ x.press \in Presses /\ x.at >= recvseq /\ x.at <= sendseq + 1
  <2>1. tosvr[i].seq \in Int /\ tosvr[i].seq <= sendseq /\ tosvr[i].sw.press \in Presses
    BY OnTheWay
  <2>2. x \in Readings /\ x.at = tosvr[i].seq /\ x.press \in Presses
    BY <1>1, <1>4, <2>1, OneReading
  <2> QED
    BY <1>1, <1>4, <2>1, <2>2
<1>5. CASE x = [at |-> sendseq + 1, press |-> swtrows.press]
  <2> DEFINE a == sendseq + 1  p == swtrows.press
  <2>1. a \in Int /\ p \in Presses
    BY <1>1
  <2>0. p \in Nat
    BY <1>1, <2>1
  <2>2. x = [at |-> a, press |-> p]
    BY <1>5
  <2> HIDE DEF a, p
  <2>3. x \in Readings /\ x.at = a /\ x.press \in Presses
    BY <2>0, <2>1, <2>2, OneReading
  <2> QED
    BY <1>1, <2>3 DEF a
<1>6. CASE x = [at |-> sendseq + 2, press |-> down]
  BY <1>1, <1>6 DEF Readings
<1> QED
  BY <1>3, <1>4, <1>5, <1>6, ReadsAre

\* Whether a press is past depends on the presses of the readings only.
LEMMA PastOf ==
  ASSUME NEW R, NEW S, NEW a, Past(R, a),
         \A x \in S : \E y \in R : y.press = x.press
  PROVE  Past(S, a)
  BY DEF Past

\* So it is kept by a step that leaves the readings kept and brings no press.
LEMMA StillActed ==
  ASSUME Acted, \A x \in Reads' : \E y \in Reads : y.press = x.press,
         UNCHANGED <<keyof, oldrows, acted>>
  PROVE  Acted'
<1>1. \A i \in 1 .. Len(acted) : acted[i] # 0 /\ Past(Reads', acted[i])
  BY PastOf DEF Acted
<1>2. \A i \in 1 .. Len(acted) : Past(Reads, acted[i])' <=> Past(Reads', acted[i])
  BY DEF Past, Key
<1>3. InTurn'
  BY DEF Acted, InTurn
<1> QED
  BY <1>1, <1>2, <1>3 DEF Acted

\* Fewer readings.
LEMMA FewerOrder ==
  ASSUME InOrder(Reads), Acted, Reads' \subseteq Reads, UNCHANGED <<keyof, oldrows, acted>>
  PROVE  InOrder(Reads') /\ Acted'
  BY FewerReadings, StillActed

\* A switch is pressed or let go.
LEMMA PanelOrder ==
  ASSUME Types, InOrder(Reads), Acted, LetGo \/ \E k \in Keys : Press(k)
  PROVE  InOrder(Reads') /\ Acted'
<1> DEFINE n == [at |-> sendseq + 2, press |-> down']
<1>1. /\ UNCHANGED <<swtrows, sendseq, recvseq, oldrows, tosvr, acted>>
      /\ \/ down' = 0 /\ UNCHANGED keyof
         \/ \E k \in Keys : keyof' = Append(keyof, k) /\ down' = Len(keyof) + 1
  BY DEF LetGo, Press, client, server
<1>2. keyof \in Seq(Keys) /\ Len(keyof) \in Nat
  BY DEF Types
<1>3. down' = 0 \/ down' = Len(keyof) + 1
  BY <1>1
<1>4. \A x \in Reads' : x = n \/ (x \in Reads /\ x.at <= sendseq + 1)
  <2> SUFFICES ASSUME NEW x \in Reads', x # n PROVE x \in Reads /\ x.at <= sendseq + 1
    OBVIOUS
  <2>1. \/ x = [at |-> recvseq, press |-> oldrows[NOLDROWS]]
        \/ \E i \in 1 .. Len(tosvr) : /\ tosvr[i].seq > recvseq
                                      /\ x = [at |-> tosvr[i].seq, press |-> tosvr[i].sw.press]
        \/ x = [at |-> sendseq + 1, press |-> swtrows.press]
    BY <1>1 DEF Reads
  <2>2. x \in Reads
    BY <2>1, ReadsAre
  <2>3. recvseq \in Int /\ sendseq \in Int /\ recvseq <= sendseq
    BY DEF Types
  <2>4. x.at <= sendseq + 1
    BY <2>1, <2>3, OnTheWay
  <2> QED
    BY <2>2, <2>4
<1>5. n \in Readings /\ \A x \in Reads : x \in Readings /\ x.press <= Len(keyof)
  BY <1>2, <1>3, ReadsTyped DEF Readings, Presses
<1>6. InOrder(Reads')
  <2>1. \A x \in Reads' : x = n \/ (x \in Reads /\ x.at < n.at)
    <3>1. n.at = sendseq + 2 /\ sendseq \in Int
      BY DEF Types
    <3> HIDE DEF n
    <3>2. \A x \in Reads : x.at \in Int
      BY <1>5 DEF Readings
    <3> QED
      BY <1>4, <3>1, <3>2
  <2>2. n.press = 0 \/ \A x \in Reads : x.press < n.press
    BY <1>2, <1>3, <1>5 DEF Readings
  <2> HIDE DEF n
  <2> QED
    BY <2>1, <2>2, <1>5, LastReading
<1>7. \A q \in Presses : Key(q)' = Key(q)
  <2>1. \A q \in 1 .. Len(keyof) : keyof'[q] = keyof[q]
    BY <1>1, <1>2
  <2> QED
    BY <2>1, <1>2 DEF Key, Presses
<1>8. ASSUME NEW i \in 1 .. Len(acted) PROVE acted[i] # 0 /\ Past(Reads, acted[i])'
  <2>1. acted[i] \in Presses /\ acted[i] # 0 /\ Past(Reads, acted[i])
    BY ElementOfSeq DEF Types, Acted
  <2>2. acted[i] \in Nat /\ acted[i] <= Len(keyof)
    BY <1>2, <2>1 DEF Presses
  <2>3. \A j \in 2 .. NOLDROWS : oldrows[j] \in Presses
    BY PidpAssumption, ElementOfSeq DEF Types
  <2>4. ASSUME NEW x \in Reads'
        PROVE  /\ x.press = 0 \/ x.press >= acted[i]
               /\ x.press = acted[i] => /\ oldrows[NOLDROWS] = acted[i]
                                        /\ \A j \in 2 .. NOLDROWS : Key(oldrows[j])' = Key(acted[i])'
    <3>1. CASE x = n
      BY <3>1, <1>2, <1>3, <2>1, <2>2
    <3>2. CASE x \in Reads
      <4>1. /\ x.press = 0 \/ x.press >= acted[i]
            /\ x.press = acted[i] => /\ oldrows[NOLDROWS] = acted[i]
                                     /\ \A j \in 2 .. NOLDROWS : Key(oldrows[j]) = Key(acted[i])
        BY <3>2, <2>1 DEF Past
      <4>2. /\ Key(acted[i])' = Key(acted[i])
            /\ \A j \in 2 .. NOLDROWS : Key(oldrows[j])' = Key(oldrows[j])
        BY <1>1, <1>7, <2>1, <2>3 DEF Key
      <4> QED
        BY <4>1, <4>2
    <3> QED
      BY <3>1, <3>2, <1>4
  <2> QED
    BY <1>1, <2>1, <2>4 DEF Past, Key
<1>9. Acted'
  BY <1>1, <1>8 DEF Acted, InTurn
<1> QED
  BY <1>6, <1>9

\* The client sees the switches: a reading becomes that on the panel.
LEMMA CycleOrder ==
  ASSUME Types, InOrder(Reads), Acted, GpioCycle
  PROVE  InOrder(Reads') /\ Acted'
<1> DEFINE n == [at |-> sendseq + 1, press |-> down]
           d == [at |-> sendseq + 2, press |-> down]
<1>1. /\ UNCHANGED <<keyof, down, sendseq, recvseq, oldrows, tosvr, acted>>
      /\ swtrows'.press = down
  BY DEF GpioCycle, panel, server
<1>2. \A x \in Reads' : x = n \/ x = d \/ (x \in Reads /\ x.at <= sendseq)
  <2> SUFFICES ASSUME NEW x \in Reads', x # n, x # d PROVE x \in Reads /\ x.at <= sendseq
    OBVIOUS
  <2>1. \/ x = [at |-> recvseq, press |-> oldrows[NOLDROWS]]
        \/ \E i \in 1 .. Len(tosvr) : /\ tosvr[i].seq > recvseq
                                      /\ x = [at |-> tosvr[i].seq, press |-> tosvr[i].sw.press]
    BY <1>1 DEF Reads
  <2>2. x \in Reads
    BY <2>1, ReadsAre
  <2>3. recvseq \in Int /\ sendseq \in Int /\ recvseq <= sendseq
    BY DEF Types
  <2>4. x.at <= sendseq
    BY <2>1, <2>3, OnTheWay
  <2> QED
    BY <2>2, <2>4
<1>3. d \in Reads /\ \A x \in Reads : x.at \in Int
  BY ReadsAre, ReadsTyped DEF Readings
<1>4. sendseq \in Int /\ n.at = sendseq + 1 /\ d.at = sendseq + 2 /\ n.press = d.press
  BY DEF Types
<1> DEFINE f == [x \in Reads' |-> IF x = n THEN d ELSE x]
<1> HIDE DEF n, d
<1>5. f \in [Reads' -> Reads] /\ \A x \in Reads' : f[x].press = x.press
  BY <1>2, <1>3, <1>4
<1>6. \A x, y \in Reads' : x.at <= y.at => f[x].at <= f[y].at
  <2> SUFFICES ASSUME NEW x \in Reads', NEW y \in Reads', x.at <= y.at
               PROVE  f[x].at <= f[y].at
    OBVIOUS
  <2>1. f[x] = (IF x = n THEN d ELSE x) /\ f[y] = (IF y = n THEN d ELSE y)
    OBVIOUS
  <2>2. CASE x = n
    <3>1. y = n \/ y = d
      BY <1>2, <1>3, <1>4, <2>2
    <3> QED
      BY <2>1, <2>2, <3>1, <1>4
  <2>3. CASE x # n
    BY <1>2, <1>3, <1>4, <2>1, <2>3
  <2> QED
    BY <2>2, <2>3
<1>7. InOrder(Reads')
  <2> HIDE DEF f
  <2> QED
    BY <1>5, <1>6, SameOrder
<1>8. \A x \in Reads' : \E y \in Reads : y.press = x.press
  BY <1>2, <1>3, <1>4
<1> QED
  BY <1>1, <1>7, <1>8, StillActed

\* A reading is sent and comes into its place between those on the way and the
\* next one.
LEMMA SendOrder ==
  ASSUME Types, InOrder(Reads), Acted, Send
  PROVE  InOrder(Reads') /\ Acted'
<1> DEFINE w == [at |-> sendseq + 1, press |-> swtrows.press]
           d == [at |-> sendseq + 2, press |-> down]
<1>1. /\ recvseq' = 0 /\ sendseq' = sendseq + 1 - recvseq
      /\ UNCHANGED <<keyof, down, swtrows, oldrows, acted>>
  BY DEF Send, panel
<1>2. /\ sendseq \in Int /\ recvseq \in Int /\ recvseq <= sendseq /\ Len(tosvr) \in Nat
      /\ w \in Reads /\ d \in Reads /\ \A x \in Reads : x.at \in Int
  BY ReadsAre, ReadsTyped DEF Types, Readings
<1>3. /\ Len(tosvr') = Len(tosvr) + 1
      /\ tosvr'[Len(tosvr) + 1] = [seq |-> sendseq', sw |-> swtrows]
      /\ \A i \in 1 .. Len(tosvr) : /\ tosvr'[i].seq = Rel(tosvr[i].seq)
                                    /\ tosvr'[i].sw = tosvr[i].sw
  BY SendTypes
<1> DEFINE old(x) == [at |-> x.at + recvseq, press |-> x.press]
           Comes(x) == \/ /\ x.at = sendseq' + 2 /\ x.press = down
                       \/ /\ x.at \in {sendseq', sendseq' + 1} /\ x.press = swtrows.press
                       \/ /\ x.at \in Int /\ x.at < sendseq' /\ old(x) \in Reads
<1>4. ASSUME NEW x \in Reads' PROVE Comes(x)
  <2>1. CASE x = [at |-> 0, press |-> oldrows[NOLDROWS]]
    <3>1. x.at = 0 /\ x.at < sendseq'
      BY <2>1, <1>1, <1>2
    <3>2. old(x) = [at |-> recvseq, press |-> oldrows[NOLDROWS]]
      BY <2>1, <1>2
    <3>3. old(x) \in Reads
      BY <3>2, ReadsAre
    <3> QED
      BY <3>1, <3>3
  <2>2. ASSUME NEW i \in 1 .. Len(tosvr'), tosvr'[i].seq > 0,
               x = [at |-> tosvr'[i].seq, press |-> tosvr'[i].sw.press]
        PROVE  Comes(x)
    <3>1. CASE i = Len(tosvr) + 1
      BY <3>1, <2>2, <1>3
    <3>2. CASE i # Len(tosvr) + 1
      <4>1. i \in 1 .. Len(tosvr)
        BY <3>2, <1>2, <1>3
      <4>2. tosvr[i].seq \in Int /\ tosvr[i].seq <= sendseq
        BY <4>1, OnTheWay
      <4>3. Rel(tosvr[i].seq) = IF tosvr[i].seq - recvseq >= -1 THEN tosvr[i].seq - recvseq ELSE -1
        BY <4>2, <1>2, RelIs
      <4>4. x.at = Rel(tosvr[i].seq) /\ x.press = tosvr[i].sw.press /\ x.at > 0
        BY <4>1, <2>2, <1>3
      <4>5. /\ x.at = tosvr[i].seq - recvseq /\ x.at \in Int
            /\ tosvr[i].seq > recvseq /\ x.at < sendseq'
        BY <4>2, <4>3, <4>4, <1>1, <1>2
      <4>6. x.at + recvseq = tosvr[i].seq
        BY <4>2, <4>5, <1>2
      <4>7. old(x) = [at |-> tosvr[i].seq, press |-> tosvr[i].sw.press]
        BY <4>4, <4>6
      <4>8. old(x) \in Reads
        BY <4>1, <4>5, <4>7, ReadsAre
      <4> QED
        BY <4>5, <4>8
    <3> QED
      BY <3>1, <3>2
  <2>3. CASE x = [at |-> sendseq' + 1, press |-> swtrows.press]
    BY <2>3
  <2>4. CASE x = [at |-> sendseq' + 2, press |-> down]
    BY <2>4
  <2> HIDE DEF Comes
  <2> QED
    BY <2>1, <2>2, <2>3, <2>4, <1>1 DEF Reads
<1> DEFINE from(x) == IF x.at = sendseq' + 2 THEN d
                      ELSE IF x.at \in {sendseq', sendseq' + 1} THEN w ELSE old(x)
           f == [x \in Reads' |-> from(x)]
<1>5. ASSUME NEW x \in Reads'
      PROVE  /\ from(x) \in Reads /\ from(x).press = x.press
             /\ x.at \in Int /\ x.at <= sendseq' + 2
             /\ from(x).at = IF x.at = sendseq' + 2 THEN sendseq + 2
                             ELSE IF x.at \in {sendseq', sendseq' + 1} THEN sendseq + 1
                             ELSE x.at + recvseq
             /\ x.at \notin {sendseq', sendseq' + 1, sendseq' + 2} => x.at < sendseq'
  BY <1>1, <1>2, <1>4
<1>6. f \in [Reads' -> Reads] /\ \A x \in Reads' : f[x] = from(x)
  <2> HIDE DEF from
  <2> QED
    BY <1>5
<1>7. \A x \in Reads' : f[x].press = x.press
  BY <1>5, <1>6
<1>8. \A x, y \in Reads' : x.at <= y.at => f[x].at <= f[y].at
  <2> SUFFICES ASSUME NEW x \in Reads', NEW y \in Reads', x.at <= y.at
               PROVE  from(x).at <= from(y).at
    BY <1>6
  <2> DEFINE place(a) == IF a = sendseq' + 2 THEN sendseq + 2
                         ELSE IF a \in {sendseq', sendseq' + 1} THEN sendseq + 1
                         ELSE a + recvseq
  <2>1. from(x).at = place(x.at) /\ from(y).at = place(y.at)
    BY <1>5
  <2>2. x.at \in Int /\ x.at <= sendseq' + 2 /\ y.at \in Int /\ y.at <= sendseq' + 2
    BY <1>5
  <2>3. ASSUME NEW a \in Int, NEW b \in Int, a <= b, b <= sendseq' + 2
        PROVE  place(a) <= place(b)
    BY SMTT(30), <2>3, <1>1, <1>2
  <2> HIDE DEF place, from
  <2> QED
    BY <2>1, <2>2, <2>3
<1>9. InOrder(Reads')
  <2> HIDE DEF f
  <2> QED
    BY <1>6, <1>7, <1>8, SameOrder
<1>10. \A x \in Reads' : \E y \in Reads : y.press = x.press
  <2> HIDE DEF from
  <2> QED
    BY <1>5
<1> QED
  BY <1>1, <1>9, <1>10, StillActed

\* The server takes a reading: those before it are gone.  If it is an edge, it
\* is of a press that is later than all acted on, since a press that was acted
\* on and still comes shows in all readings kept but the one to be forgotten.
LEMMA PassOrder ==
  ASSUME Types, InOrder(Reads), Acted,
         NEW i \in 1 .. MaxNet, NEW dup \in BOOLEAN, SvrPass(i, dup)
  PROVE  InOrder(Reads') /\ Acted'
<1> DEFINE m == [at |-> tosvr[i].seq, press |-> tosvr[i].sw.press]
           k == [at |-> recvseq, press |-> oldrows[NOLDROWS]]
           e == Edge(oldrows')
<1>0. NOLDROWS \in Nat /\ NOLDROWS > 1
  BY PidpAssumption
<1>1. /\ i \in 1 .. Len(tosvr) /\ tosvr[i].seq > recvseq /\ recvseq' = tosvr[i].seq
      /\ oldrows'[NOLDROWS] = tosvr[i].sw.press
      /\ \A j \in 1 .. NOLDROWS : j < NOLDROWS => oldrows'[j] = oldrows[j + 1]
      /\ \A j \in 1 .. Len(tosvr') : \E n \in 1 .. Len(tosvr) : tosvr'[j] = tosvr[n]
      /\ acted' = acted \/ (e # 0 /\ acted' = Append(acted, e))
  BY PassTypes
<1>2. UNCHANGED <<keyof, down, swtrows, sendseq>>
  BY DEF SvrPass, panel, client
<1>3. /\ Reads \subseteq Readings /\ recvseq \in Int /\ sendseq \in Int
      /\ tosvr[i].seq \in Int /\ tosvr[i].seq <= sendseq
      /\ m \in Reads /\ k \in Reads
  BY <1>1, ReadsAre, ReadsTyped, OnTheWay
<1>4. ASSUME NEW x \in Reads' PROVE x \in Reads /\ x.at >= tosvr[i].seq
  <2>1. CASE x = m
    BY <2>1, <1>3
  <2>2. ASSUME NEW j \in 1 .. Len(tosvr'), tosvr'[j].seq > recvseq',
               x = [at |-> tosvr'[j].seq, press |-> tosvr'[j].sw.press]
        PROVE  x \in Reads /\ x.at >= tosvr[i].seq
    <3>1. PICK n \in 1 .. Len(tosvr) : tosvr'[j] = tosvr[n]
      BY <1>1
    <3>2. tosvr[n].seq \in Int /\ tosvr[n].seq > tosvr[i].seq
      BY <3>1, <2>2, <1>1, OnTheWay
    <3>3. tosvr[n].seq > recvseq /\ x = [at |-> tosvr[n].seq, press |-> tosvr[n].sw.press]
      BY <3>1, <3>2, <2>2, <1>1, <1>3
    <3>4. x \in Reads
      BY <3>3, ReadsAre
    <3>5. x.at = tosvr[n].seq
      BY <3>3
    <3> QED
      BY <3>2, <3>4, <3>5, <1>3
  <2>3. CASE x = [at |-> sendseq + 1, press |-> swtrows.press]
    <3>1. x.at = sendseq + 1 /\ x \in Reads
      BY <2>3, ReadsAre
    <3> QED
      BY <3>1, <1>3
  <2>4. CASE x = [at |-> sendseq + 2, press |-> down]
    <3>1. x.at = sendseq + 2 /\ x \in Reads
      BY <2>4, ReadsAre
    <3> QED
      BY <3>1, <1>3
  <2> HIDE DEF m
  <2> QED
    BY <2>1, <2>2, <2>3, <2>4, <1>1, <1>2 DEF Reads, m
<1>5. InOrder(Reads')
  BY <1>4, FewerReadings
<1>6. Len(acted) \in Nat /\ \A n \in 1 .. Len(acted) : acted[n] \in Nat /\ acted[n] # 0
  <2>1. acted \in Seq(Presses) /\ Presses \subseteq Nat /\ Len(acted) \in Nat
    BY DEF Types, Presses
  <2>2. \A n \in 1 .. Len(acted) : acted[n] \in Presses
    BY <2>1, ElementOfSeq
  <2> QED
    BY <2>1, <2>2 DEF Acted
<1>7. m.at = tosvr[i].seq /\ k.at = recvseq /\ m.press = oldrows'[NOLDROWS] /\ k.press = oldrows[NOLDROWS]
  BY <1>1
<1> HIDE DEF m, k
\* What was acted on is past still.
<1>8. ASSUME NEW n \in 1 .. Len(acted) PROVE Past(Reads, acted[n])'
  <2> DEFINE a == acted[n]
  <2>1. Past(Reads, a) /\ a \in Nat /\ a # 0
    BY <1>6 DEF Acted
  <2>2. acted'[n] = a
    BY <1>1, <1>6
  <2> SUFFICES ASSUME NEW x \in Reads'
               PROVE  /\ x.press = 0 \/ x.press >= a
                      /\ x.press = a => /\ oldrows'[NOLDROWS] = a
                                        /\ \A j \in 2 .. NOLDROWS : Key(oldrows'[j]) = Key(a)
    BY <2>2, <1>2 DEF Past, Key
  <2> HIDE DEF a
  <2>3. x.press = 0 \/ x.press >= a
    BY <2>1, <1>4 DEF Past
  <2>4. ASSUME x.press = a
        PROVE  /\ oldrows'[NOLDROWS] = a
               /\ \A j \in 2 .. NOLDROWS : Key(oldrows'[j]) = Key(a)
    <3>1. oldrows[NOLDROWS] = a /\ \A j \in 2 .. NOLDROWS : Key(oldrows[j]) = Key(a)
      BY <2>1, <2>4, <1>4 DEF Past
    <3>2. oldrows'[NOLDROWS] = a
      <4>1. x \in Reads /\ m.at <= x.at /\ k.at <= m.at
        BY <1>1, <1>3, <1>4, <1>7
      <4>2. k.press = x.press /\ k.press # 0
        BY <2>1, <2>4, <3>1, <1>7
      <4> QED
        BY <4>1, <4>2, <2>4, <1>3, <1>7 DEF InOrder
    <3>3. ASSUME NEW j \in 2 .. NOLDROWS PROVE Key(oldrows'[j]) = Key(a)
      <4>1. CASE j = NOLDROWS
        BY <4>1, <3>2
      <4>2. CASE j # NOLDROWS
        <5>1. j \in 1 .. NOLDROWS /\ j < NOLDROWS /\ j + 1 \in 2 .. NOLDROWS
          BY <4>2, <1>0
        <5> QED
          BY <5>1, <3>1, <1>1
      <4> QED
        BY <4>1, <4>2
    <3> QED
      BY <3>2, <3>3
  <2> QED
    BY <2>3, <2>4
<1>9. CASE acted' = acted
  BY <1>5, <1>8, <1>9 DEF Acted, InTurn
<1>10. CASE e # 0 /\ acted' = Append(acted, e)
  <2>1. /\ e = oldrows'[NOLDROWS] /\ m.press = e
        /\ Key(oldrows'[1]) # Key(e)
        /\ \A j \in 2 .. NOLDROWS : Key(oldrows'[j]) = Key(e)
    BY <1>7, <1>10, EdgeIs
  <2>2. e \in Nat
    BY <2>1, <1>3 DEF Readings
  <2>3. ASSUME NEW n \in 1 .. Len(acted) PROVE acted[n] < e
    <3>1. Past(Reads, acted[n]) /\ acted[n] \in Nat
      BY <1>6 DEF Acted
    <3>2. acted[n] <= e
      BY <2>1, <3>1, <1>3, <1>10 DEF Past
    <3>3. ASSUME acted[n] = e PROVE FALSE
      <4>1. \A j \in 2 .. NOLDROWS : Key(oldrows[j]) = Key(e)
        BY <2>1, <3>1, <3>3, <1>3 DEF Past
      <4>2. oldrows'[1] = oldrows[2] /\ 2 \in 2 .. NOLDROWS
        BY <1>0, <1>1
      <4> QED
        BY <2>1, <4>1, <4>2
    <3> QED
      BY <2>2, <3>1, <3>2, <3>3
  <2>4. ASSUME NEW x \in Reads'
        PROVE  /\ x.press = 0 \/ x.press >= e
               /\ x.press = e => /\ oldrows'[NOLDROWS] = e
                                 /\ \A j \in 2 .. NOLDROWS : Key(oldrows'[j]) = Key(e)
    <3>1. x.press = 0 \/ x.press >= e
      <4>1. m.at <= x.at /\ x \in Reads
        BY <1>4, <1>7
      <4> QED
        BY <4>1, <2>1, <2>2, <1>3, <1>10 DEF InOrder, Readings
    <3> QED
      BY <3>1, <2>1
  <2>5. /\ Len(acted') = Len(acted) + 1 /\ acted'[Len(acted) + 1] = e
        /\ \A n \in 1 .. Len(acted) : acted'[n] = acted[n]
    <3> HIDE DEF e
    <3>1. acted \in Seq(Presses)
      BY DEF Types
    <3> QED
      BY <3>1, <1>10
  <2>6. ASSUME NEW n \in 1 .. Len(acted') PROVE acted'[n] # 0 /\ Past(Reads, acted[n])'
    <3>1. CASE n = Len(acted) + 1
      <4>1. acted'[n] = e
        BY <3>1, <2>5
      <4> HIDE DEF e
      <4> QED
        BY <4>1, <1>2, <1>10, <2>4 DEF Past, Key
    <3>2. CASE n # Len(acted) + 1
      <4>1. n \in 1 .. Len(acted)
        BY <3>2, <2>5, <1>6
      <4> QED
        BY <4>1, <2>5, <1>6, <1>8
    <3> QED
      BY <3>1, <3>2
  <2>7. ASSUME NEW a \in 1 .. Len(acted'), NEW b \in 1 .. Len(acted'), a < b
        PROVE  acted'[a] < acted'[b]
    <3>1. a \in 1 .. Len(acted) /\ acted'[a] = acted[a]
      BY <2>5, <2>7, <1>6
    <3>2. CASE b = Len(acted) + 1
      <4> HIDE DEF e
      <4> QED
        BY <3>1, <3>2, <2>3, <2>5
    <3>3. CASE b # Len(acted) + 1
      <4>1. b \in 1 .. Len(acted) /\ acted'[b] = acted[b]
        BY <3>3, <2>5, <1>6
      <4> QED
        BY <3>1, <4>1, <2>7 DEF Acted, InTurn
    <3> QED
      BY <3>2, <3>3
  <2>8. Acted'
    <3>1. acted' \in Seq(Presses')
      BY PassTypes DEF Types
    <3>2. InTurn'
      BY <3>1, <2>7 DEF InTurn
    <3> QED
      BY <2>6, <3>2 DEF Acted
  <2> QED
    BY <1>5, <2>8
<1> QED
  BY <1>1, <1>9, <1>10

\* A restart of the server while no press is seen: what comes is later than
\* all that was.
LEMMA RestartOrder ==
  ASSUME Types, InOrder(Reads), Acted, NEW lost \in BOOLEAN, ServerRestart(lost), ~ Intrude
  PROVE  InOrder(Reads') /\ Acted'
<1>1. /\ down' = 0 /\ swtrows'.press = 0 /\ UNCHANGED acted
      /\ \A i \in 1 .. Len(tosvr') : tosvr'[i].sw.press = 0
      /\ oldrows'[NOLDROWS] = 0
  <2>1. \A j \in 1 .. NOLDROWS : oldrows'[j] = 0
    BY RestartTypes
  <2>2. tosvr' \in Seq(Packets')
    BY RestartTypes DEF Types
  <2>3. DOMAIN tosvr' = 1 .. Len(tosvr')
    BY <2>2
  <2> QED
    BY <2>1, <2>3, PidpAssumption DEF ServerRestart, panel, client
<1>2. \A x \in Reads' : x.press = 0
  BY <1>1 DEF Reads
<1>3. InOrder(Reads')
  BY <1>2 DEF InOrder
<1>4. \A i \in 1 .. Len(acted) : acted[i] # 0
  BY DEF Acted
<1>5. Acted'
  BY <1>1, <1>2, <1>4 DEF Acted, InTurn, Past
<1> QED
  BY <1>3, <1>5

------------------------------------------------------------------------------
(* The invariant.                                                          *)

\* It holds at first: nothing is pressed, sent or read.
LEMMA PidpInitInv == Init => PidpInv
<1> SUFFICES ASSUME Init PROVE PidpInv
  OBVIOUS
<1>1. NOLDROWS \in Nat /\ NOLDROWS > 1 /\ MaxPress \in Nat
  BY PidpAssumption
<1>2. /\ keyof = <<>> /\ Len(keyof) = 0 /\ down = 0 /\ swtrows = [halt |-> FALSE, press |-> 0]
      /\ recvseq = 0 /\ sendseq = 0 /\ tosvr = <<>> /\ acted = <<>> /\ Len(tosvr) = 0
  BY DEF Init, Off
<1>3. 0 \in Presses /\ swtrows \in Seen
  BY <1>2 DEF Presses, Seen
<1>4. /\ oldrows \in Seq(Presses) /\ Len(oldrows) = NOLDROWS
      /\ \A j \in 1 .. NOLDROWS : oldrows[j] = 0
  BY <1>1, <1>3 DEF Init
<1>5. Types
  <2>1. tosvr \in Seq(Packets) /\ acted \in Seq(Presses) /\ keyof \in Seq(Keys)
    BY <1>2
  <2>2. tocli \in Seq(Int)
    BY DEF Init
  <2>3. \A i \in 1 .. Len(tosvr) : tosvr[i].seq <= sendseq
    BY <1>2
  <2> QED
    <3>1. /\ hsw \in BOOLEAN /\ fresh = FALSE /\ swhalt = FALSE /\ haltreq = FALSE /\ halted = FALSE
          /\ haltins = FALSE /\ cpc = "look" /\ spc = "recv"
      BY DEF Init
    <3>2. /\ down \in Presses /\ Len(keyof) <= MaxPress
          /\ sendseq \in Int /\ recvseq \in Int /\ recvseq <= sendseq
      BY <1>1, <1>2, <1>3
    <3> QED
      BY <1>3, <1>4, <2>1, <2>2, <2>3, <3>1, <3>2 DEF Types
<1>6. \A x \in Reads : x.press = 0
  BY <1>1, <1>2, <1>4 DEF Reads
<1>7. InOrder(Reads)
  BY <1>6 DEF InOrder
<1>8. Acted
  BY <1>2 DEF Acted, InTurn
<1> QED
  BY <1>5, <1>7, <1>8 DEF PidpInv

\* Every step keeps the types, and unless somebody intrudes the order.
LEMMA PidpNextInv ==
  ASSUME PidpInv, Next
  PROVE  Types' /\ (~ Intrude => InOrder(Reads') /\ Acted')
<1> DEFINE Kept == Types' /\ (~ Intrude => InOrder(Reads') /\ Acted')
<1>0. Types /\ (~ Intrude => InOrder(Reads) /\ Acted)
  BY DEF PidpInv
<1>1. CASE FlipHalt
  <2>1. Types'
    BY <1>0, <1>1, PanelTypes
  <2>2. UNCHANGED readvars
    BY <1>1 DEF FlipHalt, client, server, readvars
  <2>3. Reads' = Reads /\ UNCHANGED <<keyof, oldrows, acted>>
    BY <2>2 DEF Reads, readvars
  <2> QED
    BY <1>0, <2>1, <2>3, FewerOrder
<1>2. CASE LetGo \/ \E k \in Keys : Press(k)
  BY <1>0, <1>2, PanelTypes, PanelOrder
<1>3. CASE GpioCycle
  BY <1>0, <1>3, PanelTypes, CycleOrder
<1>4. CASE Send
  BY <1>0, <1>4, SendTypes, SendOrder
<1>5. CASE \/ \E i \in 1 .. MaxLeds, dup \in BOOLEAN : RecvLeds(i, dup)
           \/ LoseSome
           \/ \E i \in 1 .. MaxNet : SvrDrop(i)
  <2>1. /\ Types'
        /\ \A j \in 1 .. Len(tosvr') : \E k \in 1 .. Len(tosvr) : tosvr'[j] = tosvr[k]
        /\ UNCHANGED <<panel, swtrows, sendseq, server, proc>>
    BY <1>0, <1>5, NetTypes
  <2>2. UNCHANGED <<keyof, down, swtrows, sendseq, recvseq, oldrows, acted>>
    BY <2>1 DEF panel, server
  <2>3. Reads' \subseteq Reads
    BY <2>1, <2>2 DEF Reads
  <2> QED
    BY <1>0, <2>1, <2>2, <2>3, FewerOrder
<1>6. ASSUME NEW i \in 1 .. MaxNet, NEW dup \in BOOLEAN, SvrPass(i, dup) PROVE Kept
  BY <1>0, <1>6, PassTypes, PassOrder
<1>7. CASE \/ FutexWait \/ RecvTimeout \/ SvrStepped \/ SvrReset \/ SvrStart
           \/ ProcStops \/ ProcRuns \/ HaltInstruction \/ ExtRequest \/ ClientRestart
  <2>1. Types' /\ UNCHANGED readvars
    BY <1>0, <1>7, OtherTypes
  <2>2. Reads' = Reads /\ UNCHANGED <<keyof, oldrows, acted>>
    BY <2>1 DEF Reads, readvars
  <2> QED
    BY <1>0, <2>1, <2>2, FewerOrder
<1>8. ASSUME NEW lost \in BOOLEAN, ServerRestart(lost) PROVE Kept
  BY <1>0, <1>8, RestartTypes, RestartOrder
<1> QED
  BY <1>1, <1>2, <1>3, <1>4, <1>5, <1>6, <1>7, <1>8 DEF Next, Link, Server

\* A step that changes nothing.
LEMMA PidpStutter == PidpInv /\ UNCHANGED vars => PidpInv'
<1> SUFFICES ASSUME PidpInv, UNCHANGED vars PROVE PidpInv'
  OBVIOUS
<1>1. /\ UNCHANGED <<hsw, down, keyof, swtrows, fresh, cpc, sendseq, tosvr, tocli>>
      /\ UNCHANGED <<recvseq, oldrows, spc, swhalt, haltreq, halted, haltins, acted>>
  BY DEF vars, panel, client, server, proc
<1>2. Types'
  BY <1>1, SameSets DEF PidpInv, Types
<1>3. Reads' = Reads
  BY <1>1 DEF Reads
<1>4. ASSUME ~ Intrude PROVE InOrder(Reads') /\ Acted'
  BY <1>1, <1>3, <1>4, FewerOrder DEF PidpInv
<1> QED
  BY <1>2, <1>4 DEF PidpInv

\* Every reachable state satisfies the invariant, for any keys and bounds.
THEOREM PidpInvariance == Spec => []PidpInv
<1>1. PidpInv /\ Next => PidpInv'
  <2> SUFFICES ASSUME PidpInv, Next PROVE PidpInv'
    OBVIOUS
  <2>1. Types' /\ (~ Intrude => InOrder(Reads') /\ Acted')
    BY PidpNextInv
  <2> QED
    BY <2>1 DEF PidpInv
<1>2. PidpInv /\ [Next]_vars => PidpInv'
  BY <1>1, PidpStutter
<1> QED
  BY <1>2, PidpInitInv, PTL DEF Spec

\* The types say what the type invariant says.
LEMMA TypesMean == Types => PidpTypeOK
<1> SUFFICES ASSUME Types PROVE PidpTypeOK
  OBVIOUS
<1>1. Len(keyof) \in Nat /\ MaxPress \in Nat /\ Len(keyof) <= MaxPress
  BY PidpAssumption DEF Types
<1>2. Seen \subseteq Reading
  BY <1>1 DEF Seen, Presses, Reading
<1>3. \A m \in ToSet(tosvr) : m.sw \in Reading /\ m.seq <= sendseq
  BY SMTT(30), <1>2, OnTheWay DEF ToSet, Types
<1>4. ToSet(acted) \subseteq Presses /\ ToSet(oldrows) \subseteq Presses /\ ToSet(tocli) \subseteq Int
  BY ElementOfSeq DEF ToSet, Types
<1> QED
  BY <1>2, <1>3, <1>4 DEF Types, PidpTypeOK, Presses

\* A press is acted on at most once and in its turn, whatever readings are lost,
\* repeated and overtaken and however often the client
\* restarts; the server, unless it restarts while a press is seen.
THEOREM EachPressOnce == ~ Intrude => (Spec => []ActedOnce)
<1> SUFFICES ASSUME ~ Intrude PROVE Spec => []ActedOnce
  OBVIOUS
<1>1. PidpInv => ActedOnce
  BY TypesMean DEF PidpInv, Acted, ActedOnce
<1> QED
  BY <1>1, PidpInvariance, PTL
=============================================================================
