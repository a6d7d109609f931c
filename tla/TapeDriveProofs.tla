-------------------------- MODULE TapeDriveProofs --------------------------
(***************************************************************************)
(* The tape drives, for any drives, tapes, record lengths and width of the *)
(* counter: what the arithmetic of tapelib.cc on curposn keeps.            *)
(*                                                                         *)
(* Where records begin and end is a set defined by reading from the        *)
(* beginning (Boundaries).  The first part says what that set is and what  *)
(* writing does to it; the rest shows that each step of the threads keeps  *)
(* the strengthening TapeInv.  Assumed are readable tapes to begin with    *)
(* and that files and power clear come between commands (Intrude FALSE):   *)
(* MCTapeDriveClear shows a power clear that comes during a command.       *)
(***************************************************************************)
EXTENDS TapeDrive, SequenceTheorems, FiniteSetTheorems, WellFoundedInduction, TLAPS

------------------------------------------------------------------------------
(* Records on a tape.                                                      *)

\* A set of numbers has a least one.
LEMMA Least ==
  ASSUME NEW T, T \subseteq Nat, T # {}
  PROVE  \E x \in T : \A y \in T : x <= y
<1> DEFINE R == OpToRel(<, Nat)
<1>1. IsWellFoundedOn(R, Nat)
  BY NatLessThanWellFounded
<1>3. \A x, y \in Nat : y < x => <<y, x>> \in R
  BY DEF OpToRel
<1> HIDE DEF R
<1>2. PICK x \in T : \A y \in T : ~ (<<y, x>> \in R)
  BY <1>1, WFMin
<1>4. \A y \in T : x \in Nat /\ y \in Nat /\ ~ (y < x)
  BY <1>2, <1>3
<1> QED
  BY <1>2, <1>4

\* What begins at q ends at p.
Ends(f, q, p) ==
  \/ f[q + 1] = 0 /\ p = q + 1
  \/ f[q + 1] > 0 /\ p = q + f[q + 1] + 2 /\ f[p] = f[q + 1]

\* S is where reading from the beginning gets to.
Marks(f, S) ==
  /\ S \subseteq 0 .. Len(f)
  /\ \A p \in 0 .. Len(f) : p \in S <=> p = 0 \/ \E q \in 0 .. p - 1 : q \in S /\ Ends(f, q, p)

\* Boundaries is such a set, for a tape of any length.
LEMMA BoundariesMark ==
  ASSUME NEW f \in Seq(Int)
  PROVE  Marks(f, Boundaries(f))
<1> DEFINE D == 0 .. Len(f)
           Reads(b) == b = [p \in D |-> p = 0 \/ \E q \in 0 .. p - 1 : b[q] /\ Ends(f, q, p)]
           Closed(S) == 0 \in S /\ \A p \in D : \A q \in 0 .. p - 1 : q \in S /\ Ends(f, q, p) => p \in S
           L == {p \in D : \A S \in SUBSET D : Closed(S) => p \in S}
           e == [p \in D |-> p \in L]
<1>0. Len(f) \in Nat /\ 0 \in D
  OBVIOUS
<1>1. \A p \in D : p \in L <=> p = 0 \/ \E q \in 0 .. p - 1 : q \in L /\ Ends(f, q, p)
  <2> TAKE p \in D
  <2> HIDE DEF D
  <2>0. 0 \in L
    BY <1>0
  <2>1. ASSUME NEW q \in 0 .. p - 1, q \in L, Ends(f, q, p) PROVE p \in L
    BY <2>1
  <2>2. ASSUME p \in L, p # 0, \A q \in 0 .. p - 1 : ~ (q \in L /\ Ends(f, q, p)) PROVE FALSE
    <3>1. L \ {p} \in SUBSET D
      OBVIOUS
    <3>2. 0 \in L \ {p}
      BY <2>0, <2>2
    <3>3. ASSUME NEW r \in D, NEW q \in 0 .. r - 1, q \in L \ {p}, Ends(f, q, r) PROVE r \in L \ {p}
      <4>1. r \in L
        BY <3>3
      <4>2. r # p
        BY <2>2, <3>3
      <4> QED
        BY <4>1, <4>2
    <3>4. Closed(L \ {p})
      BY <3>2, <3>3
    <3> QED
      BY <2>2, <3>1, <3>4
  <2> QED
    BY <2>0, <2>1, <2>2
<1>2. Reads(e)
  <2>1. \A p \in D : (p \in L) = (p = 0 \/ \E q \in 0 .. p - 1 : e[q] /\ Ends(f, q, p))
    <3> TAKE p \in D
    <3> HIDE DEF L
    <3>1. \A q \in 0 .. p - 1 : q \in D
      BY <1>0
    <3>2. \A q \in D : e[q] <=> q \in L
      OBVIOUS
    <3> HIDE DEF e, D
    <3>3. p \in L <=> (p = 0 \/ \E q \in 0 .. p - 1 : e[q] /\ Ends(f, q, p))
      BY <1>1, <3>1, <3>2
    <3> QED
      BY <3>3
  <2> HIDE DEF L
  <2> QED
    BY <2>1
<1>3. PICK b : b = CHOOSE c : Reads(c)
  OBVIOUS
<1>4. Reads(b)
  BY <1>2, <1>3
<1>5. Boundaries(f) = {p \in D : b[p]}
  BY <1>3 DEF Boundaries, Ends
<1>6. \A p \in D : b[p] <=> p = 0 \/ \E q \in 0 .. p - 1 : b[q] /\ Ends(f, q, p)
  BY <1>4
<1> HIDE DEF Reads
<1>7. \A p \in D : \A q \in 0 .. p - 1 : q \in D
  BY <1>0
<1> QED
  BY <1>5, <1>6, <1>7 DEF Marks

\* Reading starts at the beginning, and gets to the end of a record only from where
\* it begins.
LEMMA Reached ==
  ASSUME NEW f \in Seq(Int)
  PROVE  /\ Len(f) \in Nat /\ Boundaries(f) \subseteq 0 .. Len(f) /\ 0 \in Boundaries(f)
         /\ \A p \in Boundaries(f) : p # 0 => \E q \in Boundaries(f) : q < p /\ Ends(f, q, p)
         /\ \A q \in Boundaries(f) : \A p \in 0 .. Len(f) : q < p /\ Ends(f, q, p) => p \in Boundaries(f)
<1>1. Marks(f, Boundaries(f)) /\ Len(f) \in Nat
  BY BoundariesMark
<1>2. Boundaries(f) \subseteq 0 .. Len(f) /\ 0 \in Boundaries(f)
  BY <1>1 DEF Marks
<1>3. ASSUME NEW p \in Boundaries(f), p # 0
      PROVE  \E q \in Boundaries(f) : q < p /\ Ends(f, q, p)
  BY <1>1, <1>2, <1>3 DEF Marks
<1>4. ASSUME NEW q \in Boundaries(f), NEW p \in 0 .. Len(f), q < p, Ends(f, q, p)
      PROVE  p \in Boundaries(f)
  <2>1. q \in 0 .. p - 1
    BY <1>2, <1>4
  <2> QED
    BY <1>1, <1>4, <2>1 DEF Marks
<1> QED
  BY <1>1, <1>2, <1>3, <1>4

\* Where something ends depends on where it begins.
LEMMA OneEnd ==
  ASSUME NEW f \in Seq(Int), NEW q \in 0 .. Len(f) - 1, NEW p, NEW r, Ends(f, q, p), Ends(f, q, r)
  PROVE  p = r
<1>1. f[q + 1] \in Int
  OBVIOUS
<1> QED
  BY <1>1 DEF Ends

\* Nothing begins or ends inside a record.
LEMMA Whole1 ==
  ASSUME NEW f \in Seq(Int), NEW q \in Boundaries(f), NEW r \in 0 .. Len(f), q < r, Ends(f, q, r),
         NEW s \in Boundaries(f)
  PROVE  s <= q \/ r <= s
<1> DEFINE B == Boundaries(f)
           In(x) == \E a \in B : \E b \in 0 .. Len(f) : Ends(f, a, b) /\ a < x /\ x < b
           T == {x \in B : In(x)}
<1>1. Len(f) \in Nat /\ B \subseteq 0 .. Len(f)
  BY Reached
<1>2. \A p \in B : p # 0 => \E y \in B : y < p /\ Ends(f, y, p)
  BY Reached
<1> HIDE DEF B
<1>3. T = {}
  <2> SUFFICES ASSUME T # {} PROVE FALSE
    OBVIOUS
  <2>1. T \subseteq Nat
    <3>1. T \subseteq B
      OBVIOUS
    <3> HIDE DEF T
    <3> QED
      BY <1>1, <3>1
  <2>2. PICK x \in T : \A y \in T : x <= y
    <3> HIDE DEF T
    <3> QED
      BY <2>1, Least
  <2>3. PICK a \in B, b \in 0 .. Len(f) : Ends(f, a, b) /\ a < x /\ x < b
    BY <2>2
  <2>4. x \in B /\ x # 0 /\ x \in Nat /\ a \in Nat /\ b \in Nat
    BY <1>1, <2>2, <2>3
  <2>5. PICK y \in B : y < x /\ Ends(f, y, x)
    BY <1>2, <2>4
  <2>6. y \in Nat
    BY <1>1
  <2>7. CASE a < y
    <3>1. y < b
      BY <2>3, <2>4, <2>5, <2>6
    <3>2. y \in T
      BY <2>3, <2>7, <3>1
    <3> QED
      BY <2>2, <2>4, <2>5, <2>6, <3>2
  <2>8. CASE y = a
    <3>1. a \in 0 .. Len(f) - 1
      BY <1>1, <2>3, <2>4
    <3>2. x = b
      BY <2>3, <2>5, <2>8, <3>1, OneEnd
    <3> QED
      BY <2>3, <2>4, <3>2
  <2>9. CASE y < a
    <3>1. x \in 0 .. Len(f)
      BY <1>1, <2>4
    <3>2. a \in T
      BY <2>3, <2>5, <2>9, <3>1
    <3> QED
      BY <2>2, <2>3, <2>4, <3>2
  <2> QED
    BY <2>4, <2>6, <2>7, <2>8, <2>9
<1>4. ~ In(s)
  BY <1>3 DEF B
<1>5. q \in B /\ s \in B /\ q \in Nat /\ s \in Nat
  BY <1>1 DEF B
<1> QED
  BY <1>4, <1>5

\* What the records end at determines Boundaries.
LEMMA OnlyBoundaries ==
  ASSUME NEW f \in Seq(Int), NEW S, Marks(f, S)
  PROVE  S = Boundaries(f)
<1> DEFINE B == Boundaries(f)
           T == {p \in 0 .. Len(f) : ~ (p \in S <=> p \in B)}
<1>1. Marks(f, B) /\ Len(f) \in Nat
  BY BoundariesMark
<1> HIDE DEF B
<1>2. T = {}
  <2> SUFFICES ASSUME T # {} PROVE FALSE
    OBVIOUS
  <2>1. T \subseteq Nat
    BY <1>1
  <2>2. PICK x \in T : \A y \in T : x <= y
    <3> HIDE DEF T
    <3> QED
      BY <2>1, Least
  <2>3. \A q \in 0 .. x - 1 : q \in S <=> q \in B
    <3> TAKE q \in 0 .. x - 1
    <3>1. q \in 0 .. Len(f) /\ ~ (x <= q)
      BY <1>1, <2>2
    <3>2. q \notin T
      BY <2>2, <3>1
    <3> QED
      BY <3>1, <3>2
  <2>4. x \in S <=> x \in B
    <3>1. x \in 0 .. Len(f)
      BY <2>2
    <3> HIDE DEF T
    <3> QED
      BY <1>1, <2>3, <3>1 DEF Marks
  <2> QED
    BY <2>2, <2>4
<1> QED
  BY <1>1, <1>2 DEF Marks, B

\* Writing a record or a mark behind the last record, or over one of the same
\* length, leaves a readable tape with the same records and the new one.
LEMMA Rewritten ==
  ASSUME NEW f \in Seq(Int), NEW g \in Seq(Int), NEW p \in Boundaries(f), NEW e \in Nat,
         p < e, Readable(f),
         p = Len(f) \/ (e <= Len(f) /\ Ends(f, p, e)),
         Len(g) = IF e > Len(f) THEN e ELSE Len(f),
         \A i \in 1 .. p : g[i] = f[i],
         \A i \in e + 1 .. Len(f) : g[i] = f[i],
         Ends(g, p, e)
  PROVE  Boundaries(g) = Boundaries(f) \cup {e} /\ Readable(g)
<1> DEFINE B == Boundaries(f)
           C == B \cup {e}
<1>1. Len(f) \in Nat /\ Len(g) \in Nat /\ B \subseteq 0 .. Len(f) /\ 0 \in B /\ p \in 0 .. Len(f)
  BY Reached
<1>2. \A r \in B : r # 0 => \E q \in B : q < r /\ Ends(f, q, r)
  BY Reached
<1>3. \A q \in B : \A r \in 0 .. Len(f) : q < r /\ Ends(f, q, r) => r \in B
  BY Reached
<1>4. Len(f) <= Len(g) /\ e <= Len(g)
  BY <1>1
<1>5. \A s \in B : s <= p \/ (e <= s /\ Ends(f, p, e) /\ e <= Len(f))
  <2> TAKE s \in B
  <2>1. CASE p = Len(f)
    BY <1>1, <2>1
  <2>2. CASE e <= Len(f) /\ Ends(f, p, e)
    <3>1. e \in 0 .. Len(f)
      BY <1>1, <2>2
    <3> QED
      BY <2>2, <3>1, Whole1
  <2> QED
    BY <2>1, <2>2
<1>6. \A i \in 1 .. Len(f) : f[i] \in Int
  OBVIOUS
<1>7. \A i \in 1 .. Len(g) : g[i] \in Int
  OBVIOUS
<1>8. \A q \in B : ReadsAt(f, q)
  BY DEF Readable
<1>9. \A s \in C : s # p => s < p \/ (e <= s /\ s <= Len(f) /\ e <= Len(f)) \/ (s = e /\ p = Len(f))
  BY <1>1, <1>5
<1> HIDE DEF B
<1>10. \A q \in B : \A r \in 0 .. p : q < r => (Ends(f, q, r) <=> Ends(g, q, r))
  <2> TAKE q \in B
  <2> TAKE r \in 0 .. p
  <2> HAVE q < r
  <2>1. q + 1 \in 1 .. p /\ r \in 1 .. p
    BY <1>1
  <2>2. g[q + 1] = f[q + 1] /\ g[r] = f[r]
    BY <2>1
  <2> QED
    BY <2>2 DEF Ends
<1>11. \A q \in C : \A r \in 0 .. Len(f) : e <= q /\ q < r => (Ends(f, q, r) <=> Ends(g, q, r))
  <2> TAKE q \in C
  <2> TAKE r \in 0 .. Len(f)
  <2> HAVE e <= q /\ q < r
  <2>1. q + 1 \in e + 1 .. Len(f) /\ r \in e + 1 .. Len(f)
    BY <1>1
  <2>2. g[q + 1] = f[q + 1] /\ g[r] = f[r]
    BY <2>1
  <2> QED
    BY <2>2 DEF Ends
<1>12. C \subseteq 0 .. Len(g)
  BY <1>1, <1>4
<1>13. ASSUME NEW r \in C, r # 0 PROVE \E q \in C : q < r /\ Ends(g, q, r)
  <2>1. CASE r = e
    BY <2>1 DEF B
  <2>2. CASE r # e
    <3>1. PICK q \in B : q < r /\ Ends(f, q, r)
      BY <1>2, <1>13, <2>2
    <3>2. r \in B /\ r \in 0 .. Len(f) /\ q \in Nat
      BY <1>1, <2>2
    <3>3. CASE r <= p
      <4>1. r \in 0 .. p
        BY <3>2, <3>3
      <4> QED
        BY <1>10, <3>1, <4>1
    <3>4. CASE ~ (r <= p)
      <4>1. e < r /\ Ends(f, p, e) /\ e <= Len(f)
        BY <1>1, <1>5, <2>2, <3>2, <3>4
      <4>2. e <= q
        <5>1. e \in B
          BY <1>1, <1>3, <4>1 DEF B
        <5>2. e <= q \/ r <= e
          BY <3>1, <3>2, <5>1, Whole1 DEF B
        <5> QED
          BY <1>1, <3>2, <4>1, <5>2
      <4> QED
        BY <1>11, <3>1, <3>2, <4>2
    <3> QED
      BY <3>3, <3>4
  <2> QED
    BY <2>1, <2>2
<1>14. ASSUME NEW r \in 0 .. Len(g), NEW q \in C, q < r, Ends(g, q, r) PROVE r \in C
  <2>0. q \in Nat /\ r \in Nat
    BY <1>1
  <2>1. CASE q = p
    <3>1. p \in 0 .. Len(g) - 1
      BY <1>1, <1>4
    <3>2. r = e
      BY <1>14, <2>1, <3>1, OneEnd
    <3> QED
      BY <3>2
  <2>2. CASE q < p
    <3>1. q \in B
      BY <1>1, <2>2
    <3>2. q + 1 \in 1 .. p /\ q < Len(f)
      BY <1>1, <2>0, <2>2
    <3>3. g[q + 1] = f[q + 1] /\ f[q + 1] \in Int
      BY <1>1, <1>6, <3>2
    <3>4. ReadsAt(f, q)
      BY <1>8, <3>1
    <3>5. Ends(f, q, r) /\ r \in 0 .. Len(f)
      BY SMTT(30), <1>1, <1>14, <2>0, <3>2, <3>3, <3>4 DEF Ends, ReadsAt
    <3> QED
      BY <1>3, <1>14, <3>1, <3>5
  <2>3. CASE e <= q /\ q <= Len(f) /\ e <= Len(f)
    <3>1. Len(g) = Len(f)
      BY <1>1, <2>3
    <3>2. Ends(f, q, r)
      BY <1>11, <1>14, <2>3, <3>1
    <3>3. q \in B
      <4>1. Ends(f, p, e)
        BY <1>1, <2>3
      <4> QED
        BY <1>1, <1>3, <2>3, <4>1 DEF B
    <3> QED
      BY <1>3, <1>14, <3>1, <3>2, <3>3
  <2>4. CASE q = e /\ p = Len(f)
    BY <1>1, <1>14, <2>0, <2>4
  <2> QED
    BY <1>9, <2>1, <2>2, <2>3, <2>4
<1>15. Marks(g, C)
  <2> SUFFICES ASSUME NEW r \in 0 .. Len(g)
               PROVE  r \in C <=> r = 0 \/ \E q \in 0 .. r - 1 : q \in C /\ Ends(g, q, r)
    BY <1>12 DEF Marks
  <2>1. ASSUME r \in C, r # 0 PROVE \E q \in 0 .. r - 1 : q \in C /\ Ends(g, q, r)
    <3>1. PICK q \in C : q < r /\ Ends(g, q, r)
      BY <1>13, <2>1
    <3>2. q \in 0 .. r - 1
      BY <1>1, <3>1
    <3> QED
      BY <3>1, <3>2
  <2>2. ASSUME NEW q \in 0 .. r - 1, q \in C, Ends(g, q, r) PROVE r \in C
    BY <1>14, <2>2
  <2>3. 0 \in C
    BY <1>1
  <2> QED
    BY <2>1, <2>2, <2>3
<1>16. C = Boundaries(g)
  <2> HIDE DEF C
  <2> QED
    BY <1>15, OnlyBoundaries
<1>17. ASSUME NEW q \in C PROVE ReadsAt(g, q)
  <2> SUFFICES ASSUME q < Len(g), g[q + 1] > 0
               PROVE  q + g[q + 1] + 2 <= Len(g) /\ g[q + g[q + 1] + 2] = g[q + 1]
    BY DEF ReadsAt
  <2>0. q \in Nat
    BY <1>1
  <2>1. CASE q = p
    <3>1. g[p + 1] > 0
      BY <2>1
    <3>2. e = p + g[p + 1] + 2 /\ g[e] = g[p + 1]
      BY <3>1 DEF Ends
    <3> QED
      BY <1>4, <2>1, <3>2
  <2>2. CASE q < p
    <3>1. q \in B
      BY <1>1, <2>2
    <3>2. q + 1 \in 1 .. p /\ q < Len(f)
      BY <1>1, <2>0, <2>2
    <3>3. g[q + 1] = f[q + 1] /\ f[q + 1] \in Int
      BY <1>1, <1>6, <3>2
    <3>9. ReadsAt(f, q)
      BY <1>8, <3>1
    <3>10. PICK n \in Nat : n = f[q + 1] /\ n > 0
      BY <3>3
    <3>11. PICK r \in Nat : r = q + n + 2
      BY <2>0
    <3>4. r <= Len(f) /\ f[r] = f[q + 1] /\ r \in Nat /\ q < r
      BY SMTT(30), <2>0, <3>2, <3>9, <3>10, <3>11 DEF ReadsAt
    <3>5. Ends(f, q, r)
      BY <3>4, <3>10, <3>11 DEF Ends
    <3>6. r <= p
      <4>1. p <= q \/ r <= p
        BY <3>1, <3>4, <3>5, Whole1 DEF B
      <4> QED
        BY <1>1, <2>0, <2>2, <4>1
    <3>7. g[r] = f[r]
      BY <1>1, <2>0, <3>4, <3>6
    <3>12. g[q + 1] = n /\ q + g[q + 1] + 2 = r /\ g[r] = n
      BY <3>3, <3>4, <3>7, <3>10, <3>11
    <3>13. r <= Len(g)
      BY <1>1, <1>4, <3>4
    <3> QED
      BY <3>12, <3>13
  <2>3. CASE e <= q /\ q <= Len(f) /\ e <= Len(f)
    <3>1. Len(g) = Len(f)
      BY <1>1, <2>3
    <3>2. q \in B
      <4>1. Ends(f, p, e)
        BY <1>1, <2>3
      <4> QED
        BY <1>1, <1>3, <2>3, <4>1 DEF B
    <3>3. q + 1 \in e + 1 .. Len(f) /\ f[q + 1] \in Int
      BY SMTT(30), <1>1, <1>6, <2>0, <2>3, <3>1
    <3>4. g[q + 1] = f[q + 1]
      BY <3>3
    <3>9. ReadsAt(f, q)
      BY <1>8, <3>2
    <3>10. PICK n \in Nat : n = f[q + 1] /\ n > 0
      BY <3>3, <3>4
    <3>11. PICK r \in Nat : r = q + n + 2
      BY <2>0
    <3>5. r <= Len(f) /\ f[r] = f[q + 1] /\ r \in Nat /\ q < r
      BY SMTT(30), <2>0, <3>1, <3>9, <3>10, <3>11 DEF ReadsAt
    <3>6. g[r] = f[r]
      BY <1>1, <2>0, <2>3, <3>5
    <3> QED
      BY <2>0, <3>1, <3>4, <3>5, <3>6, <3>10, <3>11
  <2>4. CASE q = e /\ p = Len(f)
    BY <1>1, <2>4
  <2> QED
    BY <1>9, <2>1, <2>2, <2>3, <2>4
<1> QED
  BY <1>16, <1>17 DEF Readable, B

------------------------------------------------------------------------------
(* Types.                                                                  *)

\* A status is of its type.
LEMMA StatusTyped == Updated \in Statuses
BY DEF Updated, Status, Statuses

\* So is the next one.
LEMMA StatusTypedNext == Updated' \in Statuses
BY DEF Updated, Status, Statuses

\* The time a rewind gets is one no thread waits for.
LEMMA FreshTime ==
  ASSUME TapeTypes, NEW d \in Drives
  PROVE  Fresh(d) \in 1 .. 4
<1> DEFINE T == 1 .. 4 \ {rewend[d], saw[d], loc.saw}
<1>1. T \subseteq Nat
  OBVIOUS
<1>2. T # {}
  OBVIOUS
<1>3. \E x \in T : \A y \in T : x <= y
  <2> HIDE DEF T
  <2> QED
    BY <1>1, <1>2, Least
<1>4. Fresh(d) = CHOOSE x \in T : \A y \in T : x <= y
  BY DEF Fresh, Min
<1>5. Fresh(d) \in T
  <2> HIDE DEF T
  <2> QED
    BY <1>3, <1>4
<1> QED
  BY <1>5

\* What startrewind does to each drive.
LEMMA Rewinds ==
  ASSUME TapeTypes, NEW D, D \subseteq Drives, NEW unl \in BOOLEAN, StartRewind(D, unl)
  PROVE  /\ DriveTypes' /\ img' = img /\ saw' = saw
         /\ tpc' \in [Drives -> {"look", "going", "goingtimed", "asleep", "timed"}]
         /\ \A d \in Drives : /\ d \notin D => rewend'[d] = rewend[d]
                              /\ curposn'[d] \in {curposn[d], 0} /\ file'[d] \in {file[d], None}
<1> DEFINE moves == {d \in D : curposn[d] # 0 /\ ~ fastio}
<1>1. /\ unload' = [d \in Drives |-> IF d \in D THEN unl ELSE unload[d]]
      /\ rewend' = [d \in Drives |-> IF d \in moves THEN Fresh(d) ELSE rewend[d]]
      /\ late' = [d \in Drives |-> d \notin moves /\ late[d]]
      /\ tpc' = [d \in Drives |-> IF d \in moves THEN Wake(tpc[d], {"asleep", "timed"}, "look") ELSE tpc[d]]
      /\ curposn' = [d \in Drives |-> IF d \in D \ moves THEN 0 ELSE curposn[d]]
      /\ file' = [d \in Drives |-> IF d \in D \ moves /\ unl THEN None ELSE file[d]]
      /\ img' = img /\ saw' = saw
  BY DEF StartRewind
<1>2. DriveTypes /\ ThreadTypes
  BY DEF TapeTypes
<1>3. \A d \in Drives : Fresh(d) \in 0 .. 4
  BY FreshTime
<1> HIDE DEF moves
<1>4. unload' \in [Drives -> BOOLEAN]
  BY <1>1, <1>2 DEF DriveTypes
<1>5. rewend' \in [Drives -> 0 .. 4]
  BY <1>1, <1>2, <1>3 DEF DriveTypes
<1>6. late' \in [Drives -> BOOLEAN]
  BY <1>1
<1>7. tpc' \in [Drives -> {"look", "going", "goingtimed", "asleep", "timed"}]
  BY <1>1, <1>2 DEF ThreadTypes, Wake
<1>8. curposn' \in [Drives -> Nat]
  BY <1>1, <1>2 DEF DriveTypes
<1>9. file' \in [Drives -> Tapes \cup {None}]
  BY <1>1, <1>2 DEF DriveTypes
<1>10. DriveTypes'
  BY <1>1, <1>2, <1>4, <1>5, <1>6, <1>8, <1>9 DEF DriveTypes
<1>11. ASSUME NEW d \in Drives
       PROVE  /\ d \notin D => rewend'[d] = rewend[d]
              /\ curposn'[d] \in {curposn[d], 0} /\ file'[d] \in {file[d], None}
  BY <1>1 DEF moves
<1> QED
  BY <1>1, <1>7, <1>10, <1>11

\* What the end of a command leaves in the variables of the i/o thread.
LEMMA Dones ==
  ASSUME TapeTypes, NEW b \in Nat, NEW e \in Errors, Done(b, e)
  PROVE  /\ io' = "done" /\ loc' \in Locs /\ loc'.brc = b % Wrap /\ loc'.err = e
         /\ loc'.d = loc.d /\ loc'.fn = loc.fn /\ loc'.n0 = loc.n0 /\ loc'.from = loc.from
<1>1. io' = "done" /\ loc' = [loc EXCEPT !.brc = b % Wrap, !.err = e] /\ loc \in Locs
  BY DEF Done, TapeTypes, ThreadTypes
<1>2. Wrap \in Nat \ {0}
  BY TapeAssumption
<1>3. b % Wrap \in 0 .. Wrap - 1
  BY <1>2
<1>4. PICK m \in 0 .. Wrap - 1 : m = b % Wrap
  BY <1>3
<1> QED
  BY <1>1, <1>4 DEF Locs

\* Writing on the tape of the drive at work.
LEMMA Puts ==
  ASSUME TapeTypes, NEW w \in Seq(Int), file[loc.d] # None, Pos <= Len(Tape), Put(w)
  PROVE  /\ img' \in [Tapes -> Seq(Int)] /\ curposn' \in [Drives -> Nat]
         /\ curposn'[loc.d] = Pos + Len(w)
         /\ \A d \in Drives : d # loc.d => curposn'[d] = curposn[d]
         /\ \A t \in Tapes : t # file[loc.d] => img'[t] = img[t]
         /\ LET g == img'[file[loc.d]] IN
            /\ Len(g) = IF Pos + Len(w) > Len(Tape) THEN Pos + Len(w) ELSE Len(Tape)
            /\ \A i \in 1 .. Pos : g[i] = Tape[i]
            /\ \A i \in 1 .. Len(w) : g[Pos + i] = w[i]
            /\ \A i \in Pos + Len(w) + 1 .. Len(Tape) : g[i] = Tape[i]
<1>1. /\ loc.d \in Drives /\ file[loc.d] \in Tapes /\ img \in [Tapes -> Seq(Int)]
      /\ curposn \in [Drives -> Nat] /\ Pos \in Nat
  BY DEF TapeTypes, DriveTypes, ThreadTypes, Locs, Pos
<1>2. Tape = img[file[loc.d]] /\ Tape \in Seq(Int)
  BY <1>1 DEF Tape
<1>3. PICK f \in Seq(Int) : f = Tape
  BY <1>2
<1>4. PICK p \in Nat : p = Pos
  BY <1>1
<1>5. Len(w) \in Nat /\ Len(f) \in Nat /\ p <= Len(f)
  BY <1>3, <1>4
<1> DEFINE a == SubSeq(f, 1, p)
           c == SubSeq(f, p + Len(w) + 1, Len(f))
           g == a \o w \o c
<1>6. a \in Seq(Int) /\ Len(a) = p /\ \A i \in 1 .. p : a[i] = f[i]
  BY <1>5
<1>7. /\ c \in Seq(Int) /\ Len(c) = IF p + Len(w) > Len(f) THEN 0 ELSE Len(f) - (p + Len(w))
      /\ \A i \in 1 .. Len(c) : c[i] = f[p + Len(w) + i]
  BY <1>5
<1> HIDE DEF a, c
<1>8. a \o w \in Seq(Int) /\ Len(a \o w) = p + Len(w)
  <2>1. a \o w \in Seq(Int) /\ Len(a \o w) = Len(a) + Len(w)
    BY <1>6, ConcatProperties, Zenon
  <2> QED
    BY <1>6, <2>1
<1>9. /\ \A i \in 1 .. p : (a \o w)[i] = f[i]
      /\ \A i \in 1 .. Len(w) : (a \o w)[p + i] = w[i]
  BY SMTT(30), <1>5, <1>6
<1>10. PICK h \in Seq(Int) : h = a \o w
  BY <1>8
<1>11. g = h \o c /\ Len(h) = p + Len(w)
  BY <1>8, <1>10
<1>12. /\ g \in Seq(Int) /\ Len(g) = IF p + Len(w) > Len(f) THEN p + Len(w) ELSE Len(f)
       /\ \A i \in 1 .. Len(h) : g[i] = h[i]
       /\ \A i \in 1 .. Len(c) : g[Len(h) + i] = c[i]
  <2>1. /\ h \o c \in Seq(Int) /\ Len(h \o c) = Len(h) + Len(c)
        /\ \A i \in 1 .. Len(h) + Len(c) : (h \o c)[i] = IF i <= Len(h) THEN h[i] ELSE c[i - Len(h)]
    <3>1. c \in Seq(Int) /\ h \in Seq(Int)
      BY <1>7, <1>10
    <3> QED
      BY <3>1, ConcatProperties, Zenon
  <2>2. Len(h) \in Nat /\ Len(c) \in Nat
    BY <1>5, <1>7, <1>11
  <2>3. ASSUME NEW i \in 1 .. Len(h) PROVE g[i] = h[i]
    <3>1. i \in 1 .. Len(h) + Len(c) /\ i <= Len(h)
      BY <2>2
    <3> QED
      BY <1>11, <2>1, <3>1
  <2>4. ASSUME NEW i \in 1 .. Len(c) PROVE g[Len(h) + i] = c[i]
    <3>1. PICK k \in Nat : k = Len(h) + i
      BY <2>2
    <3>2. k \in 1 .. Len(h) + Len(c) /\ ~ (k <= Len(h)) /\ k - Len(h) = i
      BY <2>2, <3>1
    <3>3. (h \o c)[k] = c[k - Len(h)]
      BY <2>1, <3>2
    <3> QED
      BY <1>11, <3>1, <3>2, <3>3
  <2>5. Len(g) = IF p + Len(w) > Len(f) THEN p + Len(w) ELSE Len(f)
    <3>1. Len(g) = Len(h) + Len(c)
      BY <1>11, <2>1, Zenon
    <3>2. Len(h) = p + Len(w)
      BY <1>11
    <3>3. Len(c) = IF p + Len(w) > Len(f) THEN 0 ELSE Len(f) - (p + Len(w))
      BY <1>7
    <3>4. PICK m, n, k \in Nat : m = p + Len(w) /\ n = Len(f) /\ k = Len(c)
      BY <1>5, <2>2
    <3>5. k = IF m > n THEN 0 ELSE n - m
      BY <3>3, <3>4
    <3>6. Len(g) = m + k
      BY <3>1, <3>2, <3>4
    <3>7. m + k = IF m > n THEN m ELSE n
      BY <3>5
    <3> QED
      BY <3>4, <3>6, <3>7
  <2> QED
    BY <1>11, <2>1, <2>3, <2>4, <2>5
<1> HIDE DEF g
<1>13. \A i \in 1 .. p : g[i] = f[i]
  <2> TAKE i \in 1 .. p
  <2>1. i \in 1 .. Len(h)
    BY <1>5, <1>11
  <2> QED
    BY <1>9, <1>10, <1>12, <2>1
<1>14. \A i \in 1 .. Len(w) : g[p + i] = w[i]
  <2> TAKE i \in 1 .. Len(w)
  <2>1. p + i \in 1 .. Len(h)
    BY <1>5, <1>11
  <2> QED
    BY <1>9, <1>10, <1>12, <2>1
<1>15. \A i \in p + Len(w) + 1 .. Len(f) : g[i] = f[i]
  <2> TAKE i \in p + Len(w) + 1 .. Len(f)
  <2>1. PICK k \in Int : k = i - (p + Len(w))
    BY <1>5
  <2>2. k \in 1 .. Len(c) /\ i = p + Len(w) + k
    BY <1>5, <1>7, <2>1
  <2>3. g[i] = c[k] /\ c[k] = f[i]
    BY <1>7, <1>11, <1>12, <2>2
  <2> QED
    BY <2>3
<1>16. img' = [img EXCEPT ![file[loc.d]] = g] /\ curposn' = [curposn EXCEPT ![loc.d] = p + Len(w)]
  BY <1>2, <1>3, <1>4 DEF Put, MoveTo, g, a, c
<1>17. img' \in [Tapes -> Seq(Int)] /\ img'[file[loc.d]] = g /\ \A t \in Tapes : t # file[loc.d] => img'[t] = img[t]
  BY <1>1, <1>12, <1>16
<1>18. /\ curposn' \in [Drives -> Nat] /\ curposn'[loc.d] = p + Len(w)
       /\ \A d \in Drives : d # loc.d => curposn'[d] = curposn[d]
  BY <1>1, <1>5, <1>16
<1> QED
  BY <1>3, <1>4, <1>12, <1>13, <1>14, <1>15, <1>17, <1>18

\* The least of two numbers is a number.
LEMMA LeastOfTwo ==
  ASSUME NEW a \in Nat, NEW b \in Nat
  PROVE  Min({a, b}) \in Nat
<1>1. Min({a, b}) = CHOOSE x \in {a, b} : \A y \in {a, b} : x <= y
  BY DEF Min
<1>2. \E x \in {a, b} : \A y \in {a, b} : x <= y
  OBVIOUS
<1> QED
  BY <1>1, <1>2

\* The drive at work.
LEMMA AtWork ==
  ASSUME TapeTypes
  PROVE  /\ loc \in Locs /\ loc.d \in Drives /\ Pos \in Nat /\ Tape \in Seq(Int) /\ Len(Tape) \in Nat
         /\ Count \in 1 .. Wrap /\ loc.brc \in 0 .. Wrap - 1 /\ Wrap \in Nat \ {0, 1}
         /\ \A p \in Nat : HasLen(p) => /\ Tape[p + 1] \in Nat /\ p < Len(Tape) /\ Tape # <<>>
<1>1. /\ loc \in Locs /\ file \in [Drives -> Tapes \cup {None}] /\ img \in [Tapes -> Seq(Int)]
      /\ curposn \in [Drives -> Nat] /\ Wrap \in Nat \ {0, 1}
  BY TapeAssumption DEF TapeTypes, DriveTypes, ThreadTypes
<1>2. loc.d \in Drives /\ loc.brc \in 0 .. Wrap - 1
  BY <1>1 DEF Locs
<1>3. Tape \in Seq(Int)
  BY <1>1, <1>2 DEF Tape
<1>4. Pos \in Nat /\ Count \in 1 .. Wrap
  BY <1>1, <1>2 DEF Pos, Count
<1>5. ASSUME NEW p \in Nat, HasLen(p) PROVE Tape[p + 1] \in Nat /\ p < Len(Tape) /\ Tape # <<>>
  <2>1. p \in 0 .. Len(Tape) - 1 /\ Tape[p + 1] >= 0 /\ Len(Tape) \in Nat
    BY <1>3, <1>5 DEF HasLen
  <2>2. p + 1 \in 1 .. Len(Tape)
    BY <2>1
  <2>3. Tape[p + 1] \in Int
    BY <1>3, <2>2
  <2> QED
    BY <2>1, <2>3
<1> QED
  BY <1>1, <1>2, <1>3, <1>4, <1>5

\* A command that moves the head of its drive, or none.
LEMMA HeadMoves ==
  ASSUME TapeTypes, NEW p \in Nat, MoveTo(p)
  PROVE  /\ curposn' \in [Drives -> Nat] /\ curposn'[loc.d] = p
         /\ \A d \in Drives : d # loc.d => curposn'[d] = curposn[d]
<1>1. loc.d \in Drives /\ curposn \in [Drives -> Nat]
  BY AtWork DEF TapeTypes, DriveTypes
<1> QED
  BY <1>1 DEF MoveTo

\* Reading: where the head goes, and that nothing else of the drive changes.
LEMMA Read ==
  ASSUME TapeTypes, DoRead
  PROVE  /\ \E b \in Nat, e \in Errors : Done(b, e)
         /\ \/ curposn' = curposn
            \/ HasLen(Pos) /\ \E p \in Nat :
                 /\ MoveTo(p)
                 /\ LET n == Tape[Pos + 1] IN
                    IF n = 0 THEN p = Pos + 1 ELSE Whole(Pos) => p = Pos + n + 2
<1>1. Pos \in Nat /\ loc.brc \in Nat /\ Count \in Nat
  BY AtWork
<1>2. {"crc", "mark", "none", "long", "nxm"} \subseteq Errors
  BY DEF Errors
<1>3. CASE ~ HasLen(Pos)
  BY <1>1, <1>2, <1>3 DEF DoRead
<1>4. CASE HasLen(Pos)
  <2>1. PICK n \in Nat : n = Tape[Pos + 1]
    BY <1>1, <1>4, AtWork
  <2>2. CASE n = 0
    <3>1. Done(loc.brc, "mark") /\ MoveTo(Pos + 1)
      BY <1>4, <2>1, <2>2 DEF DoRead
    <3> QED
      BY <1>1, <1>2, <1>4, <2>1, <2>2, <3>1
  <2>3. CASE n # 0 /\ ~ Whole(Pos)
    <3>1. Done(loc.brc, "crc") /\ MoveTo(Pos + 1 + (IF Pos + 1 + n > Len(Tape) THEN 0 ELSE n))
      BY <1>4, <2>1, <2>3 DEF DoRead
    <3>2. PICK p \in Nat : p = Pos + 1 + (IF Pos + 1 + n > Len(Tape) THEN 0 ELSE n)
      BY <1>1
    <3>3. MoveTo(p)
      BY <3>1, <3>2
    <3> QED
      BY <1>1, <1>2, <1>4, <2>1, <2>3, <3>1, <3>3
  <2>4. CASE n # 0 /\ Whole(Pos)
    <3>1. /\ MoveTo(Pos + n + 2)
          /\ \/ Done(loc.brc + Min({n, Count}), IF n > Count THEN "long" ELSE "none")
             \/ Done(loc.brc, "nxm")
      BY <1>4, <2>1, <2>4 DEF DoRead
    <3>2. PICK b \in Nat : b = loc.brc + Min({n, Count})
      BY <1>1, <2>1, LeastOfTwo
    <3>3. \E x \in Nat, e \in Errors : Done(x, e)
      BY <1>1, <1>2, <3>1, <3>2
    <3>4. PICK p \in Nat : p = Pos + n + 2
      BY <1>1
    <3>5. MoveTo(p)
      BY <3>1, <3>4
    <3> QED
      BY <1>4, <2>1, <2>4, <3>3, <3>4, <3>5
  <2> QED
    BY <2>2, <2>3, <2>4
<1> QED
  BY <1>3, <1>4

------------------------------------------------------------------------------
(* Spacing.                                                                *)

\* The drive at work has a tape when it skips, and the skip ends where a record
\* ends or begins, one record on or back.
LEMMA Skips ==
  ASSUME TapeInv, io = "skip"
  PROVE  /\ file[loc.d] \in Tapes /\ Tape = img[file[loc.d]] /\ loc.fn \in Spacing /\ loc.len \in Nat
         /\ Before \in Boundaries(Tape)
         /\ \E p \in Boundaries(Tape) :
              /\ p = IF loc.len = 0 THEN Pos
                     ELSE IF loc.fn = "SPF" THEN Pos + Over(loc.len) ELSE Pos - Over(loc.len)
              /\ IF loc.fn = "SPF" THEN Before < p /\ Ends(Tape, Before, p)
                 ELSE p < Before /\ Ends(Tape, p, Before)
<1>1. /\ TapeTypes /\ loc \in Locs /\ loc.d \in Drives /\ Pos \in Nat /\ Tape \in Seq(Int)
      /\ Len(Tape) \in Nat
  BY AtWork DEF TapeInv
<1>2. file[loc.d] \in Tapes /\ Tape = img[file[loc.d]] /\ loc.fn \in Spacing /\ loc.len \in Nat
  BY <1>1 DEF TapeInv, TapeTypes, DriveTypes, Skipping, OneCommand, Locs, Tape
<1>3. /\ Before \in Boundaries(Tape)
      /\ Tape[IF loc.fn = "SPF" THEN Pos ELSE Pos + 1] = loc.len
      /\ IF loc.fn = "SPF" THEN Pos > 0 /\ Pos <= Len(Tape) ELSE Pos >= 0 /\ Pos < Len(Tape)
  BY DEF TapeInv, Skipping
<1>4. ReadsAt(Tape, Before)
  BY <1>2, <1>3 DEF TapeInv, AllReadable, Readable
<1>5. PICK f \in Seq(Int), x \in Nat, n \in Nat : f = Tape /\ x = Pos /\ n = loc.len
  BY <1>1, <1>2
<1>6. CASE loc.fn = "SPF"
  <2>1. PICK q \in Nat : q = Before /\ q = x - 1
    BY <1>3, <1>5, <1>6 DEF Before
  <2>2. q < Len(f) /\ f[q + 1] = n /\ q + 1 = x /\ Len(f) \in Nat /\ ReadsAt(f, q) /\ q \in Boundaries(f)
    BY <1>1, <1>3, <1>4, <1>5, <1>6, <2>1
  <2>3. PICK p \in Nat : p = IF n = 0 THEN x ELSE x + (n + 1)
    OBVIOUS
  <2>4. p <= Len(f) /\ q < p /\ Ends(f, q, p)
    BY <2>1, <2>2, <2>3 DEF ReadsAt, Ends
  <2>5. p \in Boundaries(f)
    BY <2>2, <2>4, Reached
  <2> QED
    BY <1>2, <1>3, <1>5, <1>6, <2>1, <2>3, <2>4, <2>5 DEF Over
<1>7. CASE loc.fn # "SPF"
  <2>1. PICK r \in Nat : r = Before /\ r = x + 1
    BY <1>5, <1>7 DEF Before
  <2>2. r \in Boundaries(f) /\ f[r] = n /\ r # 0
    BY <1>3, <1>5, <1>7, <2>1
  <2>3. PICK q \in Boundaries(f) : q < r /\ Ends(f, q, r)
    BY <2>2, Reached
  <2>4. q \in Nat
    BY Reached
  <2>5. q = IF n = 0 THEN x ELSE x - (n + 1)
    BY <2>1, <2>2, <2>3, <2>4 DEF Ends
  <2> QED
    BY <1>2, <1>3, <1>5, <1>7, <2>1, <2>3, <2>5 DEF Over
<1> QED
  BY <1>6, <1>7

\* Beginning to space: over what, if anything.
LEMMA SpaceOn ==
  ASSUME TapeTypes, SpaceForward
  PROVE  \/ /\ io' = "skip" /\ HasLen(Pos) /\ MoveTo(Pos + 1)
            /\ loc' = [loc EXCEPT !.len = Tape[Pos + 1]] /\ loc' \in Locs
         \/ Done(loc.brc, "crc") /\ curposn' = curposn
<1>1. CASE HasLen(Pos)
  <2>1. loc \in Locs /\ Tape[Pos + 1] \in Nat
    BY <1>1, AtWork
  <2>2. io' = "skip" /\ MoveTo(Pos + 1) /\ loc' = [loc EXCEPT !.len = Tape[Pos + 1]]
    BY <1>1 DEF SpaceForward
  <2>3. loc' \in Locs
    BY <2>1, <2>2 DEF Locs
  <2> QED
    BY <1>1, <2>2, <2>3
<1>2. CASE ~ HasLen(Pos)
  BY <1>2 DEF SpaceForward
<1> QED
  BY <1>1, <1>2

\* Beginning to space back: over what, if anything.
LEMMA SpaceBack ==
  ASSUME TapeTypes, SpaceReverse
  PROVE  \/ /\ io' = "skip" /\ Pos # 0 /\ HasLen(Pos - 1) /\ MoveTo(Pos - 1)
            /\ loc' = [loc EXCEPT !.len = Tape[Pos]] /\ loc' \in Locs
         \/ Pos # 0 /\ ~ HasLen(Pos - 1) /\ Done(loc.brc, "crc") /\ MoveTo(Pos - 1)
         \/ Pos = 0 /\ Done(loc.brc, "none") /\ curposn' = curposn
<1>1. CASE Pos # 0 /\ HasLen(Pos - 1)
  <2>1. loc \in Locs /\ Pos - 1 \in Nat
    BY <1>1, AtWork
  <2>2. Tape[(Pos - 1) + 1] \in Nat /\ (Pos - 1) + 1 = Pos
    BY <1>1, <2>1, AtWork
  <2>3. io' = "skip" /\ MoveTo(Pos - 1) /\ loc' = [loc EXCEPT !.len = Tape[Pos]]
    BY <1>1 DEF SpaceReverse
  <2>4. loc' \in Locs
    BY <2>1, <2>2, <2>3 DEF Locs
  <2> QED
    BY <1>1, <2>3, <2>4
<1>2. CASE Pos # 0 /\ ~ HasLen(Pos - 1)
  BY <1>2 DEF SpaceReverse
<1>3. CASE Pos = 0
  BY <1>3 DEF SpaceReverse
<1> QED
  BY <1>1, <1>2, <1>3

\* The end of a skip.
LEMMA SkipOn ==
  ASSUME TapeInv, IoSkip
  PROVE  \/ loc.len = 0 /\ Done(loc.brc + 1, "mark") /\ curposn' = curposn /\ brc' = brc
         \/ \E p \in Nat :
              /\ p = (IF loc.fn = "SPF" THEN Pos + Over(loc.len) ELSE Pos - Over(loc.len))
              /\ loc.len # 0 /\ MoveTo(p) /\ brc' = (loc.brc + 1) % Wrap /\ brc' \in 0 .. Wrap - 1
              /\ loc' = [loc EXCEPT !.brc = brc', !.len = 0] /\ loc' \in Locs
              /\ io' \in {"done", "space"}
<1>1. CASE loc.len = 0
  BY <1>1 DEF IoSkip, Passed
<1>2. CASE loc.len # 0
  <2>1. io = "skip" /\ loc \in Locs /\ Wrap \in Nat \ {0} /\ loc.brc \in Nat /\ Tape \in Seq(Int)
    BY AtWork DEF TapeInv, IoSkip
  <2>2. PICK b \in 0 .. Wrap - 1 : b = (loc.brc + 1) % Wrap
    BY <2>1
  <2>3. PICK p \in Nat : p = (IF loc.fn = "SPF" THEN Pos + Over(loc.len) ELSE Pos - Over(loc.len))
    <3>1. Boundaries(Tape) \subseteq Nat
      BY <2>1, Reached
    <3> QED
      BY <1>2, <2>1, <3>1, Skips
  <2>4. brc' = b /\ loc' = [loc EXCEPT !.brc = b, !.len = 0] /\ io' \in {"done", "space"}
    BY <1>2, <2>2 DEF IoSkip, Passed
  <2>5. MoveTo(p)
    BY <1>2, <2>3 DEF IoSkip
  <2>6. loc' \in Locs
    BY <2>1, <2>4 DEF Locs
  <2> QED
    BY <1>2, <2>2, <2>3, <2>4, <2>5, <2>6
<1> QED
  BY <1>1, <1>2

------------------------------------------------------------------------------
(* What the threads do.                                                    *)

\* A timer thread that looks: the rewind of its drive ends, or it goes to sleep.
LEMMA Looks ==
  ASSUME TapeTypes, NEW d \in Drives, TimerLook(d)
  PROVE  /\ UNCHANGED <<regs, fastio, img, unload, loc, cmd>>
         /\ tpc' \in [Drives -> {"look", "going", "goingtimed", "asleep", "timed"}]
         /\ saw' \in [Drives -> 0 .. 4]
         /\ \/ UNCHANGED <<rewend, late, curposn, file, io, st>>
            \/ /\ rewend[d] # 0 /\ DriveTypes' /\ st' = Updated'
               /\ io' = io \/ (io = "asleep" /\ io' = "rew")
               /\ rewend'[d] = 0 /\ curposn'[d] = 0 /\ file'[d] \in {file[d], None}
               /\ \A e \in Drives : e # d => rewend'[e] = rewend[e] /\ curposn'[e] = curposn[e] /\ file'[e] = file[e]
<1>1. /\ file \in [Drives -> Tapes \cup {None}] /\ curposn \in [Drives -> Nat] /\ rewend \in [Drives -> 0 .. 4]
      /\ late \in [Drives -> BOOLEAN] /\ saw \in [Drives -> 0 .. 4]
      /\ tpc \in [Drives -> {"look", "going", "goingtimed", "asleep", "timed"}]
  BY DEF TapeTypes, DriveTypes, ThreadTypes
<1>2. UNCHANGED <<regs, fastio, img, unload, loc, cmd>>
  BY DEF TimerLook
<1>3. CASE file[d] # None /\ rewend[d] # 0 /\ late[d]
  <2>1. RewindEnds(d) /\ tpc' = [tpc EXCEPT ![d] = "going"] /\ saw' = [saw EXCEPT ![d] = 0]
    BY <1>3 DEF TimerLook
  <2>2. /\ rewend' = [rewend EXCEPT ![d] = 0] /\ late' = [late EXCEPT ![d] = FALSE]
        /\ curposn' = [curposn EXCEPT ![d] = 0] /\ st' = Updated'
        /\ file' = IF unload[d] THEN [file EXCEPT ![d] = None] ELSE file
        /\ io' = IF loc.d = d THEN Wake(io, {"asleep"}, "rew") ELSE io
    BY <2>1 DEF RewindEnds
  <2>3. io' = io \/ (io = "asleep" /\ io' = "rew")
    BY <2>2 DEF Wake
  <2>4. file' \in [Drives -> Tapes \cup {None}]
    BY <1>1, <2>2
  <2>5. /\ rewend' \in [Drives -> 0 .. 4] /\ late' \in [Drives -> BOOLEAN] /\ curposn' \in [Drives -> Nat]
        /\ tpc' \in [Drives -> {"look", "going", "goingtimed", "asleep", "timed"}]
        /\ saw' \in [Drives -> 0 .. 4]
    BY <1>1, <2>1, <2>2
  <2>6. DriveTypes'
    BY <1>2, <2>4, <2>5 DEF DriveTypes, TapeTypes
  <2>7. /\ rewend'[d] = 0 /\ curposn'[d] = 0 /\ file'[d] \in {file[d], None}
        /\ \A e \in Drives : e # d => rewend'[e] = rewend[e] /\ curposn'[e] = curposn[e] /\ file'[e] = file[e]
    BY <1>1, <2>2
  <2> QED
    BY <1>2, <1>3, <2>2, <2>3, <2>5, <2>6, <2>7
<1>4. CASE ~ (file[d] # None /\ rewend[d] # 0 /\ late[d])
  <2>1. /\ tpc' = [tpc EXCEPT ![d] = IF file[d] # None /\ rewend[d] # 0 THEN "goingtimed" ELSE "going"]
        /\ saw' = [saw EXCEPT ![d] = rewend[d]] /\ UNCHANGED <<rewend, late, curposn, file, io, st>>
    BY <1>4 DEF TimerLook
  <2> QED
    BY <1>1, <1>2, <2>1
<1> QED
  BY <1>3, <1>4

\* A timer thread that sleeps or wakes up.
LEMMA Sleeps ==
  ASSUME TapeTypes, NEW d \in Drives, TimerFutex(d) \/ TimerTimeout(d) \/ TimePasses(d)
  PROVE  /\ UNCHANGED <<regs, st, fastio, file, img, curposn, rewend, unload, iov, cmd>>
         /\ tpc' \in [Drives -> {"look", "going", "goingtimed", "asleep", "timed"}]
         /\ saw' \in [Drives -> 0 .. 4] /\ late' \in [Drives -> BOOLEAN]
<1>1. /\ rewend \in [Drives -> 0 .. 4] /\ late \in [Drives -> BOOLEAN] /\ saw \in [Drives -> 0 .. 4]
      /\ tpc \in [Drives -> {"look", "going", "goingtimed", "asleep", "timed"}]
  BY DEF TapeTypes, DriveTypes, ThreadTypes
<1>2. CASE TimerFutex(d)
  BY <1>1, <1>2 DEF TimerFutex, drive
<1>3. CASE TimerTimeout(d)
  BY <1>1, <1>3 DEF TimerTimeout, drive
<1>4. CASE TimePasses(d)
  BY <1>1, <1>4 DEF TimePasses, timer
<1> QED
  BY <1>2, <1>3, <1>4

\* What the operator's commands do, when all rests.
Attended ==
  /\ ready /\ ~ go /\ ~ pclr /\ io = "wait" /\ DriveTypes' /\ st' \in Statuses /\ cmd' \in Orders
  /\ UNCHANGED <<regs, fastio, img, rewend, late, unload, iov, timer>>
  /\ cmd' # Idle => rewend = [d \in Drives |-> 0] /\ cmd'.st = Updated'
  /\ cmd' = Idle => st' = Updated'
  /\ \A d \in Drives : \/ file'[d] = file[d] /\ curposn'[d] = curposn[d]
                       \/ file'[d] = None
                       \/ curposn'[d] = 0 /\ file'[d] \in Tapes
                          /\ \A e \in Drives : file[e] # file'[d] /\ (file'[e] = file'[d] => e = d)

\* The operator comes when all rests, if at all.
LEMMA Orderly ==
  ASSUME ~ Intrude, TapeInv, Operator
  PROVE  Attended
<1>1. /\ file \in [Drives -> Tapes \cup {None}] /\ curposn \in [Drives -> Nat] /\ cmd \in Orders
      /\ st \in Statuses /\ Updated \in Statuses /\ Updated' \in Statuses
  BY StatusTyped, StatusTypedNext DEF TapeInv, TapeTypes, DriveTypes, ThreadTypes, RegTypes
<1>2. ASSUME NEW d \in Drives, CmdUnload(d) PROVE Attended
  <2>1. /\ file' = [file EXCEPT ![d] = None] /\ st' = Updated' /\ cmd = Idle /\ Resting
        /\ UNCHANGED <<regs, fastio, img, curposn, rewend, late, unload, iov, timer, cmd>>
    BY <1>2 DEF CmdUnload, Polite
  <2>2. DriveTypes'
    BY <1>1, <2>1 DEF TapeInv, TapeTypes, DriveTypes
  <2> QED
    BY <1>1, <2>1, <2>2 DEF Attended, Resting
<1>3. ASSUME NEW d \in Drives, NEW t \in Tapes, LoadClose(d, t) PROVE Attended
  <2>1. /\ file' = [file EXCEPT ![d] = None] /\ cmd' = [op |-> "closing", d |-> d, t |-> t, st |-> Updated']
        /\ Resting /\ rewend = [e \in Drives |-> 0]
        /\ UNCHANGED <<regs, st, fastio, img, curposn, rewend, late, unload, iov, timer>>
    BY <1>3 DEF LoadClose, Polite
  <2>2. DriveTypes'
    BY <1>1, <2>1 DEF TapeInv, TapeTypes, DriveTypes
  <2>3. cmd' \in Orders /\ cmd'.st = Updated' /\ cmd' # Idle
    BY <1>1, <2>1 DEF Orders, Idle
  <2> QED
    BY <1>1, <2>1, <2>2, <2>3 DEF Attended, Resting
<1>4. CASE LoadOpen
  <2>1. /\ cmd # Idle /\ st' = cmd.st /\ st' = Updated
        /\ UNCHANGED <<regs, fastio, img, rewend, late, unload, iov, timer>>
    BY <1>4 DEF LoadOpen, Idle, TapeInv, Shows
  <2>2. ready /\ ~ go /\ ~ pclr /\ io = "wait" /\ rewend = [d \in Drives |-> 0]
    BY <2>1 DEF TapeInv, OneCommand
  <2>3. CASE cmd.t \in {file[d] : d \in Drives}
    <3>1. cmd' = Idle /\ UNCHANGED <<file, curposn>>
      BY <1>4, <2>3 DEF LoadOpen
    <3>2. Updated' = Updated
      BY <2>1, <3>1 DEF Updated, Status
    <3>3. DriveTypes' /\ cmd' \in Orders
      BY <2>1, <3>1, TapeAssumption DEF TapeInv, TapeTypes, DriveTypes, Orders, Idle
    <3> QED
      BY <1>1, <2>1, <2>2, <3>1, <3>2, <3>3 DEF Attended
  <2>4. CASE cmd.t \notin {file[d] : d \in Drives}
    <3>1. /\ file' = [file EXCEPT ![cmd.d] = cmd.t] /\ curposn' = [curposn EXCEPT ![cmd.d] = 0]
          /\ cmd' = [cmd EXCEPT !.op = "opened", !.st = Updated']
      BY <1>4, <2>4 DEF LoadOpen
    <3>2. cmd.d \in Drives /\ cmd.t \in Tapes \cup {None}
      BY <1>1 DEF Orders
    <3>3. cmd' \in Orders /\ cmd'.st = Updated' /\ cmd' # Idle
      BY <1>1, <3>1 DEF Orders, Idle
    <3>4. DriveTypes'
      BY <1>1, <2>1, <3>1, <3>2 DEF TapeInv, TapeTypes, DriveTypes
    <3>5. ASSUME NEW d \in Drives
          PROVE  \/ file'[d] = file[d] /\ curposn'[d] = curposn[d]
                 \/ file'[d] = None
                 \/ curposn'[d] = 0 /\ file'[d] \in Tapes
                    /\ \A e \in Drives : file[e] # file'[d] /\ (file'[e] = file'[d] => e = d)
      BY <1>1, <2>4, <3>1, <3>2
    <3> QED
      BY <1>1, <2>1, <2>2, <3>3, <3>4, <3>5 DEF Attended
  <2> QED
    BY <2>3, <2>4
<1>5. CASE LoadDone
  <2>1. /\ cmd # Idle /\ st' = cmd.st /\ st' = Updated /\ cmd' = Idle
        /\ UNCHANGED <<regs, fastio, drive, iov, timer>>
    BY <1>5 DEF LoadDone, Idle, TapeInv, Shows
  <2>2. ready /\ ~ go /\ ~ pclr /\ io = "wait"
    BY <2>1 DEF TapeInv, OneCommand
  <2>3. Updated' = Updated
    BY <2>1 DEF Updated, Status, drive
  <2>4. DriveTypes' /\ cmd' \in Orders
    BY <2>1, TapeAssumption DEF TapeInv, TapeTypes, DriveTypes, Orders, Idle, drive
  <2> QED
    BY <1>1, <2>1, <2>2, <2>3, <2>4 DEF drive, Attended
<1> QED
  BY <1>2, <1>3, <1>4, <1>5 DEF Operator

\* The head of the drive that works, but for a skip, stands where a record
\* begins or ends.
LEMMA Stands ==
  ASSUME TapeInv, io # "skip", file[loc.d] # None
  PROVE  /\ file[loc.d] \in Tapes /\ Tape = img[file[loc.d]] /\ Pos \in Boundaries(Tape) /\ Pos <= Len(Tape)
         /\ ReadsAt(Tape, Pos)
<1>1. loc.d \in Drives /\ Tape = img[file[loc.d]] /\ Tape \in Seq(Int) /\ file[loc.d] \in Tapes
  BY AtWork DEF Tape, TapeInv, TapeTypes, DriveTypes
<1>2. Pos \in Boundaries(Tape)
  BY <1>1 DEF TapeInv, Headed, Pos
<1>3. Boundaries(Tape) \subseteq 0 .. Len(Tape)
  BY <1>1, Reached
<1>4. ReadsAt(Tape, Pos)
  BY <1>1, <1>2 DEF TapeInv, AllReadable, Readable
<1> QED
  BY <1>1, <1>2, <1>3, <1>4

\* A record that is written is one that can be read.
LEMMA RecordIs ==
  ASSUME NEW n \in Nat
  PROVE  /\ Record(n) \in Seq(Int) /\ Len(Record(n)) = n + 2
         /\ Record(n)[1] = n /\ Record(n)[n + 2] = n
<1> DEFINE a == <<n>>
           b == [i \in 1 .. n |-> Word]
<1>1. a \in Seq(Int) /\ Len(a) = 1 /\ a[1] = n
  OBVIOUS
<1>2. b \in Seq(Int) /\ Len(b) = n
  BY DEF Word
<1> HIDE DEF a, b
<1>3. PICK c \in Seq(Int) : c = a \o b
  <2>1. a \o b \in Seq(Int)
    BY <1>1, <1>2, ConcatProperties, Zenon
  <2> QED
    BY <2>1
<1>4. Len(c) = n + 1 /\ c[1] = n
  <2>1. /\ Len(a \o b) = Len(a) + Len(b)
        /\ \A i \in 1 .. Len(a) + Len(b) : (a \o b)[i] = IF i <= Len(a) THEN a[i] ELSE b[i - Len(a)]
    BY <1>1, <1>2, ConcatProperties, Zenon
  <2>2. 1 \in 1 .. Len(a) + Len(b) /\ 1 <= Len(a)
    BY <1>1, <1>2
  <2> QED
    BY <1>1, <1>2, <1>3, <2>1, <2>2
<1>5. c \o a \in Seq(Int) /\ Len(c \o a) = (n + 1) + 1 /\ (c \o a)[1] = n /\ (c \o a)[n + 2] = n
  <2>1. /\ c \o a \in Seq(Int) /\ Len(c \o a) = Len(c) + Len(a)
        /\ \A i \in 1 .. Len(c) + Len(a) : (c \o a)[i] = IF i <= Len(c) THEN c[i] ELSE a[i - Len(c)]
    BY <1>1, <1>3, ConcatProperties, Zenon
  <2>2. PICK m \in Nat : m = n + 2
    OBVIOUS
  <2>3. /\ m \in 1 .. Len(c) + Len(a) /\ ~ (m <= Len(c)) /\ m - Len(c) = 1
        /\ 1 \in 1 .. Len(c) + Len(a) /\ 1 <= Len(c)
    BY <1>1, <1>4, <2>2
  <2>4. (c \o a)[m] = n /\ (c \o a)[1] = n
    BY <1>1, <1>4, <2>1, <2>3
  <2>5. Len(c \o a) = (n + 1) + 1
    BY <1>1, <1>4, <2>1
  <2> QED
    BY <2>1, <2>2, <2>4, <2>5
<1>6. Record(n) = c \o a
  BY <1>3 DEF Record, a, b
<1> QED
  BY <1>5, <1>6

\* A write: none of it, or a record or mark where the head is.
LEMMA Written ==
  ASSUME TapeTypes, DoWrite \/ DoMark
  PROVE  /\ io = "do" /\ loc.fn \in {"WRITE", "WMARK"}
         /\ \E b \in Nat, e \in Errors : Done(b, e)
         /\ UNCHANGED <<file, unload>> /\ IoUnch
         /\ \/ UNCHANGED <<img, curposn>>
            \/ /\ file[loc.d] # None
               /\ \E w \in Seq(Int) : w = (IF loc.fn = "WMARK" THEN <<0>> ELSE Record(Count)) /\ Put(w)
<1>1. loc.brc \in Nat /\ 0 \in Nat /\ {"crc", "none", "nxm"} \subseteq Errors /\ Count \in Nat
  BY AtWork DEF Errors
<1>2. CASE DoWrite
  <2>1. Record(Count) \in Seq(Int)
    BY <1>1, RecordIs
  <2> QED
    BY <1>1, <1>2, <2>1 DEF DoWrite
<1>3. CASE DoMark
  <2>1. <<0>> \in Seq(Int)
    OBVIOUS
  <2> QED
    BY <1>1, <1>3, <2>1 DEF DoMark
<1> QED
  BY <1>2, <1>3

\* The types hold after what the i/o thread does with the command it has.
LEMMA WorkTypes ==
  ASSUME TapeInv, DoRead \/ DoWrite \/ DoMark \/ DoRewind \/ SpaceForward \/ SpaceReverse \/ IoSkip
  PROVE  TapeTypes' /\ loc'.d = loc.d /\ loc'.fn = loc.fn /\ cmd' = cmd /\ io # "wait"
         /\ UNCHANGED <<go, pclr, ready, fn, sel, err, st, fastio>>
<1>0. TapeTypes /\ RegTypes /\ DriveTypes /\ ThreadTypes /\ loc.d \in Drives /\ Pos \in Nat /\ loc.brc \in Nat
  BY AtWork DEF TapeInv, TapeTypes
<1>1. ASSUME NEW b \in Nat, NEW e \in Errors, Done(b, e)
      PROVE  /\ io' = "done" /\ loc' \in Locs /\ loc'.d = loc.d /\ loc'.fn = loc.fn
  BY <1>0, <1>1, Dones
<1>2. ASSUME NEW p \in Nat, MoveTo(p) PROVE curposn' \in [Drives -> Nat]
  BY <1>0, <1>2, HeadMoves
<1>3. {"mark", "crc", "none"} \subseteq Errors
  BY DEF Errors
<1>4. ASSUME loc' \in Locs, io' \in {"done", "skip", "space"}, curposn' \in [Drives -> Nat], img' \in [Tapes -> Seq(Int)],
             UNCHANGED <<file, unload, late, rewend, timer, cmd, fastio>>,
             UNCHANGED <<go, pclr, ready, fn, sel, err, st>>, brc' \in 0 .. Wrap - 1
      PROVE  TapeTypes'
  <2>1. RegTypes'
    BY <1>0, <1>4 DEF RegTypes
  <2>2. DriveTypes'
    BY <1>0, <1>4 DEF DriveTypes
  <2>3. ThreadTypes'
    BY <1>0, <1>4 DEF ThreadTypes, timer
  <2> QED
    BY <2>1, <2>2, <2>3 DEF TapeTypes
<1>5. img \in [Tapes -> Seq(Int)] /\ curposn \in [Drives -> Nat] /\ brc \in 0 .. Wrap - 1
  BY <1>0 DEF DriveTypes, RegTypes
<1>6. CASE DoRead
  <2>1. io = "do" /\ UNCHANGED <<file, img, unload>> /\ IoUnch
    BY <1>6 DEF DoRead
  <2>2. /\ \E b \in Nat, e \in Errors : Done(b, e)
        /\ curposn' = curposn \/ \E p \in Nat : MoveTo(p)
    BY <1>0, <1>6, Read
  <2> QED
    BY <1>1, <1>2, <1>4, <1>5, <2>1, <2>2 DEF IoUnch, regs
<1>7. CASE DoWrite \/ DoMark
  <2>1. /\ io = "do" /\ UNCHANGED <<file, unload>> /\ IoUnch
        /\ \E b \in Nat, e \in Errors : Done(b, e)
        /\ \/ UNCHANGED <<img, curposn>>
           \/ file[loc.d] # None /\ \E w \in Seq(Int) : Put(w)
    BY <1>0, <1>7, Written
  <2>2. file[loc.d] # None => Pos <= Len(Tape)
    BY <2>1, Stands
  <2> QED
    BY <1>0, <1>1, <1>4, <1>5, <2>1, <2>2, Puts DEF IoUnch, regs
<1>8. CASE DoRewind
  <2>1. /\ io = "do" /\ StartRewind({loc.d}, loc.fn = "UNLOAD") /\ Done(loc.brc, "none")
        /\ UNCHANGED <<regs, st, fastio, cmd, cmds, loads>>
    BY <1>8 DEF DoRewind
  <2>2. DriveTypes' /\ saw' = saw /\ tpc' \in [Drives -> {"look", "going", "goingtimed", "asleep", "timed"}]
    <3>1. {loc.d} \subseteq Drives /\ (loc.fn = "UNLOAD") \in BOOLEAN
      BY <1>0
    <3> QED
      BY <1>0, <2>1, <3>1, Rewinds
  <2>3. /\ io' = "done" /\ loc' \in Locs /\ loc'.d = loc.d /\ loc'.fn = loc.fn
    BY <1>0, <1>1, <1>3, <2>1
  <2> QED
    BY <1>0, <2>1, <2>2, <2>3 DEF TapeTypes, RegTypes, ThreadTypes, regs
<1>9. CASE SpaceForward
  <2>1. io # "wait" /\ UNCHANGED <<file, img, unload>> /\ IoUnch
    BY <1>9 DEF SpaceForward
  <2>2. \/ io' = "skip" /\ MoveTo(Pos + 1) /\ loc' = [loc EXCEPT !.len = Tape[Pos + 1]] /\ loc' \in Locs
        \/ Done(loc.brc, "crc") /\ curposn' = curposn
    BY <1>0, <1>9, SpaceOn
  <2>3. loc'.d = loc.d /\ loc'.fn = loc.fn /\ loc' \in Locs /\ io' \in {"done", "skip"}
    BY <1>0, <1>1, <1>3, <2>2 DEF ThreadTypes, Locs
  <2>4. Pos + 1 \in Nat
    BY <1>0
  <2> QED
    BY <1>2, <1>4, <1>5, <2>1, <2>2, <2>3, <2>4 DEF IoUnch, regs
<1>10. CASE SpaceReverse
  <2>1. io # "wait" /\ UNCHANGED <<file, img, unload>> /\ IoUnch
    BY <1>10 DEF SpaceReverse
  <2>2. \/ /\ io' = "skip" /\ Pos # 0 /\ MoveTo(Pos - 1)
           /\ loc' = [loc EXCEPT !.len = Tape[Pos]] /\ loc' \in Locs
        \/ Pos # 0 /\ Done(loc.brc, "crc") /\ MoveTo(Pos - 1)
        \/ Done(loc.brc, "none") /\ curposn' = curposn
    BY <1>0, <1>10, SpaceBack
  <2>3. loc'.d = loc.d /\ loc'.fn = loc.fn /\ loc' \in Locs /\ io' \in {"done", "skip"}
    BY <1>0, <1>1, <1>3, <2>2 DEF ThreadTypes, Locs
  <2>4. Pos # 0 => Pos - 1 \in Nat
    BY <1>0
  <2> QED
    BY <1>2, <1>4, <1>5, <2>1, <2>2, <2>3, <2>4 DEF IoUnch, regs
<1>11. CASE IoSkip
  <2>1. io = "skip" /\ UNCHANGED <<go, pclr, ready, fn, sel, err, st, fastio, file, img, late, rewend, unload, timer, cmd>>
    BY <1>11 DEF IoSkip
  <2>2. \/ Done(loc.brc + 1, "mark") /\ curposn' = curposn /\ brc' = brc
        \/ \E p \in Nat : /\ MoveTo(p) /\ brc' \in 0 .. Wrap - 1
                          /\ loc' = [loc EXCEPT !.brc = brc', !.len = 0] /\ loc' \in Locs
                          /\ io' \in {"done", "space"}
    BY <1>11, SkipOn
  <2>3. loc.brc + 1 \in Nat
    BY <1>0
  <2>4. loc'.d = loc.d /\ loc'.fn = loc.fn /\ loc' \in Locs /\ io' \in {"done", "space"}
    BY <1>0, <1>1, <1>3, <2>2, <2>3 DEF ThreadTypes, Locs
  <2> QED
    BY <1>2, <1>4, <1>5, <2>1, <2>2, <2>4
<1> QED
  BY <1>6, <1>7, <1>8, <1>9, <1>10, <1>11

------------------------------------------------------------------------------
(* The strengthening holds after every step: the PDP-11, the operator and  *)
(* the timer threads.                                                      *)

\* While the i/o thread does nothing with a tape, what it has counted does not matter.
Quiet == io \notin {"do", "space", "skip", "done"}

\* In a quiet state three conjuncts have nothing to say.
LEMMA QuietOnes ==
  ASSUME Quiet'
  PROVE  Still' /\ Skipping' /\ Counted'
BY DEF Quiet, Still, Skipping, Counted

\* The PDP-11 writes a register.
LEMMA DriverStep ==
  ASSUME ~ Intrude, TapeInv, Driver
  PROVE  TapeInv'
<1>0. /\ TapeTypes /\ OneCommand /\ Shows /\ Apart /\ AllReadable /\ Headed
      /\ RegTypes /\ DriveTypes /\ ThreadTypes
  BY DEF TapeInv, TapeTypes
<1>1. ASSUME NEW d \in Drives, NEW f \in Fns, NEW n \in 0 .. Wrap - 1, Go(d, f, n)
      PROVE  TapeInv'
  <2>1. /\ ready /\ ~ pclr /\ cmd = Idle /\ (f \in {"WRITE", "WMARK"} => Fits(d, f, n))
        /\ go' = TRUE /\ ready' = FALSE /\ fn' = f /\ sel' = d /\ brc' = n /\ err' = "none"
        /\ st' = [st EXCEPT ![d].tur = FALSE]
        /\ UNCHANGED <<pclr, fastio, drive, iov, timer, cmd>>
    BY <1>1 DEF Go
  <2>2. io = "wait"
    BY <1>0, <2>1 DEF OneCommand, ThreadTypes
  <2>3. TapeTypes'
    <3>1. st' \in Statuses
      BY <1>0, <2>1 DEF RegTypes, Statuses
    <3> QED
      BY <1>0, <2>1, <3>1 DEF TapeTypes, RegTypes, DriveTypes, ThreadTypes, Errors, drive, iov,
           timer
  <2>4. OneCommand' /\ Shows'
    BY <1>0, <2>1, <2>2 DEF OneCommand, Shows, iov
  <2>5. Apart' /\ AllReadable' /\ Headed'
    BY <1>0, <2>1 DEF Apart, AllReadable, Headed, drive, iov
  <2>6. Fitting'
    <3>1. f \in {"WRITE", "WMARK"} => Room(d, IF f = "WMARK" THEN 0 ELSE Wrap - n)
      BY <2>1 DEF Fits, Room
    <3> QED
      BY <2>1, <3>1 DEF Fitting, Room, drive
  <2>7. Quiet'
    BY <2>1, <2>2 DEF Quiet, iov
  <2> QED
    BY <2>3, <2>4, <2>5, <2>6, <2>7, QuietOnes DEF TapeInv
<1>2. CASE PowerClear
  <2>1. /\ Resting /\ pclr' = TRUE /\ ready' = TRUE /\ go' = FALSE /\ err' = "none"
        /\ UNCHANGED <<fn, sel, brc, st, fastio, drive, iov, timer, cmd>>
    BY <1>2 DEF PowerClear
  <2>2. TapeTypes'
    BY <1>0, <2>1 DEF TapeTypes, RegTypes, DriveTypes, ThreadTypes, Errors, drive, iov, timer
  <2>3. Updated' = Updated
    BY <2>1 DEF Updated, Status, drive
  <2>4. OneCommand' /\ Shows'
    BY <1>0, <2>1, <2>3 DEF OneCommand, Shows, Resting, iov
  <2>5. Apart' /\ AllReadable' /\ Headed'
    BY <1>0, <2>1 DEF Apart, AllReadable, Headed, drive, iov
  <2>6. Fitting' /\ Quiet'
    BY <2>1 DEF Fitting, Quiet, Resting, iov
  <2> QED
    BY <2>2, <2>4, <2>5, <2>6, QuietOnes DEF TapeInv
<1> QED
  BY <1>1, <1>2 DEF Driver

\* A file is loaded or unloaded, at a time when no command runs.
LEMMA OperatorStep ==
  ASSUME ~ Intrude, TapeInv, Operator
  PROVE  TapeInv'
<1>0. /\ TapeTypes /\ OneCommand /\ Shows /\ Apart /\ AllReadable /\ Headed
      /\ RegTypes /\ DriveTypes /\ ThreadTypes
  BY DEF TapeInv, TapeTypes
<1>1. /\ ready /\ ~ go /\ ~ pclr /\ io = "wait" /\ DriveTypes' /\ st' \in Statuses /\ cmd' \in Orders
      /\ UNCHANGED <<regs, fastio, img, rewend, late, unload, iov, timer>>
      /\ cmd' # Idle => rewend = [d \in Drives |-> 0] /\ cmd'.st = Updated'
      /\ cmd' = Idle => st' = Updated'
  BY Orderly DEF Attended
<1>2. \A d \in Drives : \/ file'[d] = file[d] /\ curposn'[d] = curposn[d]
                        \/ file'[d] = None
                        \/ curposn'[d] = 0 /\ file'[d] \in Tapes
                           /\ \A e \in Drives : file[e] # file'[d] /\ (file'[e] = file'[d] => e = d)
  BY Orderly DEF Attended
<1>3. TapeTypes'
  BY <1>0, <1>1 DEF TapeTypes, RegTypes, ThreadTypes, regs, iov, timer
<1>4. OneCommand' /\ Shows'
  BY <1>0, <1>1 DEF OneCommand, Shows, regs, iov
<1>5. Apart'
  BY <1>0, <1>2 DEF Apart
<1>6. AllReadable'
  BY <1>0, <1>1 DEF AllReadable
<1>7. Headed'
  <2> SUFFICES ASSUME NEW d \in Drives, file'[d] # None
               PROVE  curposn'[d] \in Boundaries(img'[file'[d]])
    BY DEF Headed
  <2>1. CASE file'[d] = file[d] /\ curposn'[d] = curposn[d]
    BY <1>0, <1>1, <2>1 DEF Headed
  <2>2. CASE curposn'[d] = 0 /\ file'[d] \in Tapes
    <3>1. img'[file'[d]] \in Seq(Int)
      BY <1>1, <2>2 DEF DriveTypes
    <3> QED
      BY <2>2, <3>1, Reached
  <2> QED
    BY <1>2, <2>1, <2>2
<1>8. Fitting' /\ Quiet'
  BY <1>1 DEF Fitting, Quiet, regs, iov
<1> QED
  BY <1>3, <1>4, <1>5, <1>6, <1>7, <1>8, QuietOnes DEF TapeInv

\* A timer thread takes a step, or time passes: the rewind that ends is not that
\* of the drive that works.
LEMMA TimerStep ==
  ASSUME TapeInv, NEW d \in Drives, Timer(d) \/ TimePasses(d)
  PROVE  TapeInv'
<1>0. /\ TapeTypes /\ OneCommand /\ Still /\ Shows /\ Apart /\ AllReadable /\ Fitting /\ Skipping
      /\ Headed /\ Counted /\ RegTypes /\ DriveTypes /\ ThreadTypes /\ loc.d \in Drives
  BY AtWork DEF TapeInv, TapeTypes
<1>1. CASE TimerFutex(d) \/ TimerTimeout(d) \/ TimePasses(d)
  <2>1. /\ UNCHANGED <<regs, st, fastio, file, img, curposn, rewend, unload, iov, cmd>>
        /\ tpc' \in [Drives -> {"look", "going", "goingtimed", "asleep", "timed"}]
        /\ saw' \in [Drives -> 0 .. 4] /\ late' \in [Drives -> BOOLEAN]
    BY <1>0, <1>1, Sleeps
  <2>2. TapeTypes'
    BY <1>0, <2>1 DEF TapeTypes, RegTypes, DriveTypes, ThreadTypes, regs, iov
  <2>3. Updated' = Updated /\ Tape' = Tape /\ Pos' = Pos /\ Before' = Before /\ Gone' = Gone
    BY <2>1 DEF Updated, Status, Tape, Pos, Before, Gone, Between, iov
  <2>4. OneCommand' /\ Still' /\ Shows'
    BY <1>0, <2>1, <2>3 DEF OneCommand, Still, Shows, regs, iov
  <2>5. Apart' /\ AllReadable' /\ Headed'
    BY <1>0, <2>1 DEF Apart, AllReadable, Headed, iov
  <2>6. Fitting'
    BY <1>0, <2>1 DEF Fitting, Room, regs, iov
  <2>7. Skipping' /\ Counted'
    BY <1>0, <2>1, <2>3 DEF Skipping, Counted, iov
  <2> QED
    BY <2>2, <2>4, <2>5, <2>6, <2>7 DEF TapeInv
<1>2. CASE TimerLook(d)
  <2>1. /\ UNCHANGED <<regs, fastio, img, unload, loc, cmd>>
        /\ tpc' \in [Drives -> {"look", "going", "goingtimed", "asleep", "timed"}]
        /\ saw' \in [Drives -> 0 .. 4]
        /\ \/ UNCHANGED <<rewend, late, curposn, file, io, st>>
           \/ /\ rewend[d] # 0 /\ DriveTypes' /\ st' = Updated'
              /\ io' = io \/ (io = "asleep" /\ io' = "rew")
              /\ rewend'[d] = 0 /\ curposn'[d] = 0 /\ file'[d] \in {file[d], None}
              /\ \A e \in Drives : e # d => rewend'[e] = rewend[e] /\ curposn'[e] = curposn[e] /\ file'[e] = file[e]
    BY <1>0, <1>2, Looks
  <2>2. CASE UNCHANGED <<rewend, late, curposn, file, io, st>>
    <3>1. TapeTypes'
      BY <1>0, <2>1, <2>2 DEF TapeTypes, RegTypes, DriveTypes, ThreadTypes, regs
    <3>2. Updated' = Updated /\ Tape' = Tape /\ Pos' = Pos /\ Before' = Before /\ Gone' = Gone
      BY <2>1, <2>2 DEF Updated, Status, Tape, Pos, Before, Gone, Between
    <3>3. OneCommand' /\ Still' /\ Shows'
      BY <1>0, <2>1, <2>2, <3>2 DEF OneCommand, Still, Shows, regs
    <3>4. Apart' /\ AllReadable' /\ Headed'
      BY <1>0, <2>1, <2>2 DEF Apart, AllReadable, Headed
    <3>5. Fitting'
      BY <1>0, <2>1, <2>2 DEF Fitting, Room, regs
    <3>6. Skipping' /\ Counted'
      BY <1>0, <2>1, <2>2, <3>2 DEF Skipping, Counted
    <3> QED
      BY <3>1, <3>3, <3>4, <3>5, <3>6 DEF TapeInv
  <2>3. CASE /\ rewend[d] # 0 /\ DriveTypes' /\ st' = Updated'
             /\ io' = io \/ (io = "asleep" /\ io' = "rew")
             /\ rewend'[d] = 0 /\ curposn'[d] = 0 /\ file'[d] \in {file[d], None}
             /\ \A e \in Drives : e # d => rewend'[e] = rewend[e] /\ curposn'[e] = curposn[e] /\ file'[e] = file[e]
    <3>0. cmd = Idle /\ cmd' = Idle
      BY <1>0, <2>1, <2>3 DEF OneCommand
    <3>1. TapeTypes'
      BY <1>0, <2>1, <2>3, StatusTypedNext DEF TapeTypes, RegTypes, ThreadTypes, regs
    <3>2. OneCommand' /\ Shows'
      BY <1>0, <2>1, <2>3, <3>0 DEF OneCommand, Shows, regs
    <3>3. Still'
      BY <1>0, <2>1, <2>3 DEF Still
    <3>4. Apart' /\ AllReadable'
      BY <1>0, <2>1, <2>3 DEF Apart, AllReadable
    <3>5. Headed'
      <4> SUFFICES ASSUME NEW e \in Drives, file'[e] # None
                   PROVE  curposn'[e] \in Boundaries(img'[file'[e]]) \/ (io' = "skip" /\ loc'.d = e)
        BY DEF Headed
      <4>1. CASE e = d
        <5>1. img'[file'[e]] \in Seq(Int)
          BY <2>3 DEF DriveTypes
        <5> QED
          BY <2>3, <4>1, <5>1, Reached
      <4>2. CASE e # d
        BY <1>0, <2>1, <2>3, <4>2 DEF Headed
      <4> QED
        BY <4>1, <4>2
    <3>6. Fitting'
      <4>1. ASSUME NEW n, Room(sel, n) PROVE Room(sel, n)'
        BY <1>0, <2>1, <2>3, <4>1 DEF Room, RegTypes, regs
      <4> QED
        BY <1>0, <2>1, <2>3, <4>1 DEF Fitting, regs
    <3>7. Skipping' /\ Counted'
      <4>1. CASE io \in {"do", "space", "skip"} \/ (io = "done" /\ loc.fn \in Spacing)
        <5>1. loc.d # d /\ io' = io
          BY <1>0, <2>3, <4>1 DEF Still
        <5>2. Tape' = Tape /\ Pos' = Pos /\ Before' = Before /\ Gone' = Gone /\ file'[loc.d] = file[loc.d]
          BY <1>0, <2>1, <2>3, <5>1 DEF Tape, Pos, Before, Gone, Between
        <5> QED
          BY <1>0, <2>1, <5>1, <5>2 DEF Skipping, Counted
      <4>2. CASE ~ (io \in {"do", "space", "skip"} \/ (io = "done" /\ loc.fn \in Spacing))
        BY <2>1, <2>3, <4>2 DEF Skipping, Counted
      <4> QED
        BY <4>1, <4>2
    <3> QED
      BY <3>1, <3>2, <3>3, <3>4, <3>5, <3>6, <3>7 DEF TapeInv
  <2> QED
    BY <2>1, <2>2, <2>3
<1> QED
  BY <1>1, <1>2 DEF Timer

------------------------------------------------------------------------------
(* The strengthening holds after every step of the i/o thread.             *)

\* Taking a command and waiting for the drive.
LEMMA TakeStep ==
  ASSUME TapeInv, IoTake \/ IoRewound \/ IoFutex
  PROVE  TapeInv'
<1>0. /\ TapeTypes /\ OneCommand /\ Still /\ Shows /\ Apart /\ AllReadable /\ Fitting /\ Headed
      /\ RegTypes /\ DriveTypes /\ ThreadTypes /\ loc \in Locs /\ loc.d \in Drives /\ Wrap \in Nat \ {0}
  BY AtWork DEF TapeInv, TapeTypes
<1>1. UNCHANGED <<brc, st, fastio, drive, timer, cmd>>
  BY DEF IoTake, IoRewound, IoFutex, regs
<1>2. DriveTypes' /\ Updated' = Updated /\ Apart' /\ AllReadable'
  BY <1>0, <1>1 DEF DriveTypes, Updated, Status, Apart, AllReadable, drive
<1>3. (\A d \in Drives : file[d] # None => curposn[d] \in Boundaries(img[file[d]])) => Headed'
  BY <1>1 DEF Headed, drive
<1>4. CASE IoTake
  <2>1. io = "wait" /\ (go \/ pclr) /\ loc' = [NoLoc EXCEPT !.fn = fn, !.d = sel]
    BY <1>4 DEF IoTake
  <2>2. /\ UNCHANGED <<pclr, ready, fn, sel>>
        /\ \/ pclr /\ io' = "clear" /\ UNCHANGED regs
           \/ ~ pclr /\ io' = "rew" /\ go' = FALSE /\ err' = "none"
    BY <1>4 DEF IoTake, regs
  <2>3. loc' \in Locs /\ loc'.fn = fn /\ loc'.d = sel
    <3>1. NoLoc \in Locs
      BY <1>0, TapeAssumption DEF NoLoc, Locs, Errors
    <3>2. fn \in Fns \cup {"REWIND"} /\ sel \in Drives
      BY <1>0 DEF RegTypes
    <3> QED
      BY <2>1, <3>1, <3>2 DEF Locs
  <2>4. TapeTypes'
    BY <1>0, <1>1, <1>2, <2>2, <2>3 DEF TapeTypes, RegTypes, ThreadTypes, Errors, regs, timer
  <2>5. cmd = Idle /\ cmd' = Idle
    BY <1>0, <1>1, <2>1 DEF OneCommand
  <2>6. OneCommand' /\ Shows'
    BY <1>0, <1>1, <1>2, <2>1, <2>2, <2>3, <2>5 DEF OneCommand, Shows, regs
  <2>7. Headed' /\ Quiet'
    BY <1>0, <1>3, <2>1, <2>2 DEF Headed, Quiet
  <2>8. Fitting'
    BY <1>0, <1>1, <2>1, <2>2 DEF Fitting, Room, OneCommand, drive, regs
  <2> QED
    BY <1>2, <2>4, <2>6, <2>7, <2>8, QuietOnes DEF TapeInv
<1>5. CASE IoRewound
  <2>0. io = "rew" /\ UNCHANGED regs
    BY <1>5 DEF IoRewound
  <2>1. \/ /\ rewend[loc.d] = 0 /\ io' = "do"
           /\ loc' = [loc EXCEPT !.brc = brc, !.n0 = brc, !.from = curposn[loc.d]]
        \/ io' = "going" /\ loc' = [loc EXCEPT !.saw = rewend[loc.d]]
    BY <1>5 DEF IoRewound
  <2>2. loc' \in Locs /\ loc'.fn = loc.fn /\ loc'.d = loc.d
    <3>1. brc \in 0 .. Wrap - 1 /\ curposn[loc.d] \in Nat /\ rewend[loc.d] \in 0 .. 4
      BY <1>0 DEF RegTypes, DriveTypes
    <3>2. CASE loc' = [loc EXCEPT !.brc = brc, !.n0 = brc, !.from = curposn[loc.d]]
      BY <1>0, <3>1, <3>2 DEF Locs
    <3>3. CASE loc' = [loc EXCEPT !.saw = rewend[loc.d]]
      BY <1>0, <3>1, <3>3 DEF Locs
    <3> QED
      BY <2>1, <3>2, <3>3
  <2>3. TapeTypes'
    BY <1>0, <1>1, <1>2, <2>0, <2>1, <2>2 DEF TapeTypes, RegTypes, ThreadTypes, regs, timer
  <2>4. io' = "do" => loc'.brc = brc /\ loc'.n0 = brc /\ loc'.from = curposn[loc.d]
    BY <1>0, <2>1 DEF Locs
  <2>5. OneCommand' /\ Shows'
    BY <1>0, <1>1, <1>2, <2>0, <2>1, <2>2, <2>4 DEF OneCommand, Shows, regs
  <2>6. Headed' /\ Still' /\ Skipping'
    BY <1>0, <1>1, <1>3, <2>0, <2>1, <2>2 DEF Headed, Still, Skipping, drive
  <2>7. Fitting'
    BY <1>0, <1>1, <2>0, <2>1 DEF Fitting, Room, drive, regs
  <2>8. Counted'
    <3> SUFFICES ASSUME io' = "do"
                 PROVE  /\ IF loc'.fn = "SPF" THEN loc'.from <= Before' ELSE Before' <= loc'.from
                        /\ (loc'.brc - loc'.n0) % Wrap = Cardinality(Gone') % Wrap
      BY <2>1 DEF Counted
    <3>1. PICK p \in Nat : p = Pos /\ p = loc'.from /\ p = Before'
      BY <1>0, <1>1, <2>2, <2>4 DEF Before, Pos, DriveTypes, drive
    <3>2. Gone' = {q \in Boundaries(Tape)' : p <= q /\ q < p}
      BY <3>1 DEF Gone, Between
    <3>3. Boundaries(Tape)' \subseteq Nat
      <4>1. Tape' = Tape
        BY <1>1, <2>2 DEF Tape, drive
      <4>2. Tape \in Seq(Int)
        BY <1>0, AtWork
      <4>3. Boundaries(Tape) \subseteq 0 .. Len(Tape) /\ Len(Tape) \in Nat
        BY <4>2, Reached
      <4> QED
        BY <4>1, <4>3
    <3>4. Cardinality(Gone') = 0
      <4>1. Gone' = {}
        BY <3>2, <3>3
      <4> QED
        BY <4>1, FS_EmptySet
    <3>5. loc'.brc - loc'.n0 = 0
      BY <1>0, <2>4 DEF RegTypes
    <3> QED
      BY <3>1, <3>4, <3>5
  <2> QED
    BY <1>2, <2>3, <2>5, <2>6, <2>7, <2>8 DEF TapeInv
<1>6. CASE IoFutex
  <2>1. io = "going" /\ io' \in {"asleep", "rew"} /\ UNCHANGED regs /\ loc' = [loc EXCEPT !.saw = 0]
    BY <1>6 DEF IoFutex
  <2>2. loc' \in Locs /\ loc'.fn = loc.fn /\ loc'.d = loc.d
    BY <1>0, <2>1 DEF Locs
  <2>3. TapeTypes'
    BY <1>0, <1>1, <1>2, <2>1, <2>2 DEF TapeTypes, RegTypes, ThreadTypes, regs, timer
  <2>4. OneCommand' /\ Shows'
    BY <1>0, <1>1, <1>2, <2>1, <2>2 DEF OneCommand, Shows, regs
  <2>5. Headed' /\ Quiet'
    BY <1>0, <1>3, <2>1 DEF Headed, Quiet
  <2>6. Fitting'
    BY <1>0, <1>1, <2>1 DEF Fitting, Room, drive, regs
  <2> QED
    BY <1>2, <2>3, <2>4, <2>5, <2>6, QuietOnes DEF TapeInv
<1> QED
  BY <1>4, <1>5, <1>6

\* The end of a command or of a power clear.
LEMMA DoneStep ==
  ASSUME TapeInv, IoDone \/ IoClear
  PROVE  TapeInv'
<1>0. /\ TapeTypes /\ OneCommand /\ Apart /\ AllReadable /\ Headed
      /\ RegTypes /\ DriveTypes /\ ThreadTypes /\ loc \in Locs /\ Wrap \in Nat \ {0}
  BY AtWork DEF TapeInv, TapeTypes
<1>1. /\ io \in {"done", "clear"} /\ io' = "wait" /\ loc' = NoLoc /\ UNCHANGED <<fastio, cmd>>
      /\ go' = FALSE /\ pclr' = FALSE /\ ready' = TRUE /\ fn' = loc.fn /\ sel' = loc.d
  BY DEF IoDone, IoClear, WriteMtc
<1>2. brc' \in {brc, loc.brc} /\ err' \in {loc.err, "none"}
  BY DEF IoDone, IoClear, WriteMtc
<1>3. /\ DriveTypes' /\ img' = img /\ st' = Updated' /\ st' \in Statuses /\ saw' = saw
      /\ tpc' \in [Drives -> {"look", "going", "goingtimed", "asleep", "timed"}]
      /\ \A d \in Drives : curposn'[d] \in {curposn[d], 0} /\ file'[d] \in {file[d], None}
  <2>1. CASE IoDone
    <3>1. st' = Updated /\ UNCHANGED <<drive, timer>>
      BY <2>1 DEF IoDone
    <3>2. Updated' = Updated
      BY <3>1 DEF Updated, Status, drive
    <3> QED
      BY <1>0, <3>1, <3>2, StatusTyped DEF DriveTypes, ThreadTypes, drive, timer
  <2>2. CASE IoClear
    <3>1. StartRewind({d \in Drives : file[d] # None}, FALSE) /\ st' = Updated'
      BY <2>2 DEF IoClear
    <3>2. {d \in Drives : file[d] # None} \subseteq Drives /\ FALSE \in BOOLEAN
      OBVIOUS
    <3> QED
      BY <1>0, <3>1, <3>2, Rewinds, StatusTypedNext
  <2> QED
    BY <2>1, <2>2
<1>4. TapeTypes'
  <2>1. NoLoc \in Locs
    BY <1>0, TapeAssumption DEF NoLoc, Locs, Errors
  <2>2. loc.fn \in Fns \cup {"REWIND"} /\ loc.d \in Drives /\ loc.brc \in 0 .. Wrap - 1 /\ loc.err \in Errors
    BY <1>0 DEF Locs
  <2>3. RegTypes'
    BY <1>0, <1>1, <1>2, <1>3, <2>2 DEF RegTypes, Errors
  <2>4. ThreadTypes'
    BY <1>0, <1>1, <1>3, <2>1 DEF ThreadTypes
  <2> QED
    BY <1>3, <2>3, <2>4 DEF TapeTypes
<1>5. cmd = Idle
  BY <1>0, <1>1 DEF OneCommand
<1>6. OneCommand' /\ Shows'
  BY <1>1, <1>3, <1>5 DEF OneCommand, Shows
<1>7. Apart' /\ AllReadable'
  BY <1>0, <1>3 DEF Apart, AllReadable
<1>8. Headed'
  <2> SUFFICES ASSUME NEW d \in Drives, file'[d] # None
               PROVE  curposn'[d] \in Boundaries(img'[file'[d]])
    BY DEF Headed
  <2>1. img'[file'[d]] \in Seq(Int)
    BY <1>3 DEF DriveTypes
  <2>2. CASE curposn'[d] = 0
    BY <2>1, <2>2, Reached
  <2>3. CASE curposn'[d] = curposn[d]
    BY <1>0, <1>1, <1>3, <2>3 DEF Headed
  <2> QED
    BY <1>3, <2>2, <2>3
<1>9. Fitting' /\ Quiet'
  BY <1>1 DEF Fitting, Quiet
<1> QED
  BY <1>4, <1>6, <1>7, <1>8, <1>9, QuietOnes DEF TapeInv

\* What the i/o thread does with a command.
Working == DoRead \/ DoWrite \/ DoMark \/ DoRewind \/ SpaceForward \/ SpaceReverse \/ IoSkip

\* What a command does while it is carried out does not touch these.
LEMMA Undisturbed ==
  ASSUME TapeInv, Working
  PROVE  /\ TapeTypes' /\ OneCommand' /\ Shows' /\ Fitting' /\ Apart'
         /\ loc'.d = loc.d /\ loc'.fn = loc.fn
<1>0. TapeTypes /\ OneCommand /\ Shows /\ Apart /\ ThreadTypes /\ DriveTypes /\ loc.d \in Drives /\ loc.brc \in Nat
  BY AtWork DEF TapeInv, TapeTypes
<1>1. /\ TapeTypes' /\ loc'.d = loc.d /\ loc'.fn = loc.fn /\ cmd' = cmd /\ io # "wait"
      /\ UNCHANGED <<go, pclr, ready, fn, sel, err, st, fastio>>
  BY WorkTypes DEF Working
<1>2. io' \in {"done", "skip", "space"} /\ (io' \in {"skip", "space"} => loc.fn \in Spacing) /\ io # "clear"
  BY DEF Working, DoRead, DoWrite, DoMark, DoRewind, SpaceForward, SpaceReverse, IoSkip, Done,
       Spacing,
         TapeInv, OneCommand
<1>3. ~ ready /\ ~ go /\ ~ pclr /\ loc.fn = fn /\ loc.d = sel /\ cmd = Idle
  BY <1>0, <1>1, <1>2 DEF OneCommand
<1>4. OneCommand' /\ Shows' /\ Fitting'
  BY <1>1, <1>2, <1>3 DEF OneCommand, Shows, Fitting
<1>5. \A d \in Drives : file'[d] \in {file[d], None}
  <2>1. CASE DoRewind
    <3>1. {loc.d} \subseteq Drives /\ (loc.fn = "UNLOAD") \in BOOLEAN /\ StartRewind({loc.d}, loc.fn = "UNLOAD")
      BY <1>0, <2>1 DEF DoRewind
    <3> QED
      BY <1>0, <3>1, Rewinds
  <2>2. CASE ~ DoRewind
    BY <2>2 DEF Working, DoRead, DoWrite, DoMark, SpaceForward, SpaceReverse, IoSkip
  <2> QED
    BY <2>1, <2>2
<1>6. Apart'
  BY <1>0, <1>5 DEF Apart
<1> QED
  BY <1>1, <1>4, <1>6

\* Commands that do not space count nothing.
LEMMA NoSpacing ==
  ASSUME TapeInv, DoRead \/ DoWrite \/ DoMark \/ DoRewind
  PROVE  Still' /\ Skipping' /\ Counted'
<1>1. io' = "done" /\ loc.fn \notin Spacing
  BY DEF DoRead, DoWrite, DoMark, DoRewind, Done, Spacing
<1>2. loc'.fn = loc.fn
  BY Undisturbed DEF Working
<1> QED
  BY <1>1, <1>2 DEF Still, Skipping, Counted

\* A read leaves the head behind the record or mark it has read.
LEMMA ReadStep ==
  ASSUME TapeInv, DoRead
  PROVE  TapeInv'
<1>0. /\ TapeTypes /\ Headed /\ AllReadable /\ loc.d \in Drives /\ Pos \in Nat /\ Tape \in Seq(Int) /\ Len(Tape) \in Nat
  BY AtWork DEF TapeInv
<1>1. io = "do" /\ UNCHANGED <<file, img>>
  BY DEF DoRead
<1>2. AllReadable'
  BY <1>0, <1>1 DEF AllReadable
<1>3. Headed'
  <2> SUFFICES ASSUME NEW d \in Drives, file[d] # None
               PROVE  curposn'[d] \in Boundaries(img[file[d]])
    BY <1>1 DEF Headed
  <2>1. curposn[d] \in Boundaries(img[file[d]])
    BY <1>0, <1>1 DEF Headed
  <2>2. CASE curposn' = curposn
    BY <2>1, <2>2
  <2>3. ASSUME NEW p \in Nat, HasLen(Pos), MoveTo(p),
               IF Tape[Pos + 1] = 0 THEN p = Pos + 1 ELSE Whole(Pos) => p = Pos + Tape[Pos + 1] + 2
        PROVE  curposn'[d] \in Boundaries(img[file[d]])
    <3>1. curposn'[loc.d] = p /\ \A e \in Drives : e # loc.d => curposn'[e] = curposn[e]
      BY <1>0, <2>3, HeadMoves
    <3>2. CASE d = loc.d
      <4>1. Tape = img[file[d]] /\ Pos \in Boundaries(Tape) /\ ReadsAt(Tape, Pos)
        BY <1>1, <3>2, Stands
      <4>2. PICK f \in Seq(Int), q \in Nat, n \in Nat : f = Tape /\ q = Pos /\ n = f[q + 1] /\ q < Len(f)
        BY <1>0, <2>3, AtWork
      <4>3. p <= Len(f) /\ q < p /\ Ends(f, q, p)
        <5>1. CASE n = 0
          BY <1>0, <2>3, <4>2, <5>1 DEF Ends
        <5>2. CASE n # 0
          <6>1. q + n + 2 <= Len(f) /\ f[q + n + 2] = n
            BY <4>1, <4>2, <5>2 DEF ReadsAt
          <6>2. p = q + n + 2
            BY <2>3, <4>2, <5>2, <6>1 DEF Whole
          <6> QED
            BY <4>2, <5>2, <6>1, <6>2 DEF Ends
        <5> QED
          BY <5>1, <5>2
      <4>4. p \in 0 .. Len(f) /\ q \in Boundaries(f)
        BY <1>0, <4>1, <4>2, <4>3
      <4>5. p \in Boundaries(f)
        BY <4>2, <4>3, <4>4, Reached
      <4> QED
        BY <3>1, <3>2, <4>1, <4>2, <4>5
    <3>3. CASE d # loc.d
      BY <2>1, <3>1, <3>3
    <3> QED
      BY <3>2, <3>3
  <2> QED
    BY <1>0, <2>2, <2>3, Read
<1> QED
  BY <1>2, <1>3, Undisturbed, NoSpacing DEF TapeInv, Working

\* A write leaves readable tapes and the head behind what it has written.
LEMMA WriteStep ==
  ASSUME TapeInv, DoWrite \/ DoMark
  PROVE  TapeInv'
<1>0. /\ TapeTypes /\ DriveTypes /\ Headed /\ AllReadable /\ loc.d \in Drives /\ Pos \in Nat /\ Tape \in Seq(Int)
      /\ Len(Tape) \in Nat /\ Count \in Nat \ {0} /\ OneCommand /\ Apart /\ Fitting /\ Still
  BY AtWork DEF TapeInv, TapeTypes
<1>1. /\ io = "do" /\ loc.fn \in {"WRITE", "WMARK"} /\ UNCHANGED <<file, unload>>
      /\ \/ UNCHANGED <<img, curposn>>
         \/ /\ file[loc.d] # None
            /\ \E w \in Seq(Int) : w = (IF loc.fn = "WMARK" THEN <<0>> ELSE Record(Count)) /\ Put(w)
  BY <1>0, Written
<1>2. AllReadable' /\ Headed'
  <2>1. CASE UNCHANGED <<img, curposn>>
    BY <1>0, <1>1, <2>1 DEF AllReadable, Headed
  <2>2. ASSUME file[loc.d] # None, NEW w \in Seq(Int),
               w = (IF loc.fn = "WMARK" THEN << 0 >> ELSE Record(Count)), Put(w)
        PROVE  AllReadable' /\ Headed'
    <3>1. /\ file[loc.d] \in Tapes /\ Tape = img[file[loc.d]] /\ Pos \in Boundaries(Tape) /\ Pos <= Len(Tape)
          /\ ReadsAt(Tape, Pos) /\ Readable(Tape)
      BY <1>0, <1>1, <2>2, Stands DEF AllReadable
    <3>2. PICK g : g = img'[file[loc.d]]
      OBVIOUS
    <3>3. PICK n \in Nat : n = IF loc.fn = "WMARK" THEN 0 ELSE Count
      BY <1>0
    <3>4. PICK f \in Seq(Int), p \in Nat : f = Tape /\ p = Pos
      BY <1>0
    <3>5. PICK e \in Nat : e = p + Len(w)
      OBVIOUS
    <3>6. /\ f = Tape /\ g = img'[file[loc.d]] /\ p = Pos /\ e = p + Len(w)
          /\ n = IF loc.fn = "WMARK" THEN 0 ELSE Count
      BY <3>2, <3>3, <3>4, <3>5
    <3>7. /\ g \in Seq(Int)
          /\ curposn'[loc.d] = e
          /\ \A d \in Drives : d # loc.d => curposn'[d] = curposn[d]
          /\ \A t \in Tapes : t # file[loc.d] => img'[t] = img[t]
          /\ Len(g) = IF e > Len(f) THEN e ELSE Len(f)
          /\ \A i \in 1 .. p : g[i] = f[i]
          /\ \A i \in 1 .. Len(w) : g[p + i] = w[i]
          /\ \A i \in e + 1 .. Len(f) : g[i] = f[i]
      BY <1>0, <2>2, <3>1, <3>6, Puts, ZenonT(40)
    <3>8. /\ Len(w) = IF n = 0 THEN 1 ELSE n + 2
          /\ w[1] = n /\ w[Len(w)] = n
      <4>1. CASE loc.fn = "WMARK"
        BY <2>2, <3>6, <4>1
      <4>2. CASE loc.fn # "WMARK"
        <5>1. w = Record(n) /\ n # 0
          BY <1>0, <2>2, <3>6, <4>2
        <5> QED
          BY <5>1, RecordIs
      <4> QED
        BY <4>1, <4>2
    <3>9. Ends(g, p, e)
      <4>1. 1 \in 1 .. Len(w) /\ Len(w) \in 1 .. Len(w)
        BY <3>8
      <4>2. g[p + 1] = n /\ g[e] = n
        BY <3>6, <3>7, <3>8, <4>1
      <4> QED
        BY SMTT(30), <3>6, <3>8, <4>2 DEF Ends
    <3>10. p = Len(f) \/ (e <= Len(f) /\ Ends(f, p, e))
      <4>1. rewend[loc.d] = 0 /\ sel = loc.d /\ fn = loc.fn /\ brc = loc.brc
        BY <1>0, <1>1 DEF Still, OneCommand
      <4>2. Room(sel, IF fn = "WMARK" THEN 0 ELSE Wrap - brc)
        BY <1>0, <1>1, <4>1 DEF Fitting
      <4>3. Room(loc.d, n)
        BY <3>6, <4>1, <4>2 DEF Count
      <4>4. p = Len(f) \/ (p < Len(f) /\ f[p + 1] = n)
        BY <2>2, <3>1, <3>6, <4>1, <4>3 DEF Room, Pos
      <4>5. CASE p < Len(f) /\ f[p + 1] = n
        <5>1. CASE n = 0
          BY <3>6, <3>8, <4>5, <5>1 DEF Ends
        <5>2. CASE n # 0
          <6>1. p + n + 2 <= Len(f) /\ f[p + n + 2] = n
            BY <3>1, <3>6, <4>5, <5>2 DEF ReadsAt
          <6>2. e = p + n + 2
            BY <3>6, <3>8, <5>2
          <6>3. e <= Len(f) /\ f[e] = n
            BY <6>1, <6>2
          <6> QED
            BY <4>5, <5>2, <6>2, <6>3 DEF Ends
        <5> QED
          BY <5>1, <5>2
      <4> QED
        BY <4>4, <4>5
    <3>11. p < e /\ p \in Boundaries(f) /\ Readable(f)
      BY <3>1, <3>6, <3>8
    <3>12. Boundaries(g) = Boundaries(f) \cup {e} /\ Readable(g)
      BY SMTT(30), <3>7, <3>9, <3>10, <3>11, Rewritten
    <3>13. AllReadable'
      BY <1>0, <3>1, <3>6, <3>7, <3>12 DEF AllReadable
    <3>14. ASSUME NEW d \in Drives, file[d] # None
           PROVE  curposn'[d] \in Boundaries(img'[file[d]])
      <4>1. CASE d = loc.d
        BY <3>6, <3>7, <3>12, <4>1
      <4>2. CASE d # loc.d
        <5>1. file[d] # file[loc.d] /\ file[d] \in Tapes
          BY <1>0, <3>14, <4>2 DEF Apart, DriveTypes
        <5> QED
          BY <1>0, <1>1, <3>7, <3>14, <4>2, <5>1 DEF Headed
      <4> QED
        BY <4>1, <4>2
    <3> QED
      BY <1>1, <3>13, <3>14 DEF Headed
  <2> QED
    BY <1>1, <2>1, <2>2
<1> QED
  BY <1>2, Undisturbed, NoSpacing DEF TapeInv, Working

\* A rewind leaves the head where it is or at the beginning.
LEMMA RewindStep ==
  ASSUME TapeInv, DoRewind
  PROVE  TapeInv'
<1>0. TapeTypes /\ Headed /\ AllReadable /\ loc.d \in Drives
  BY AtWork DEF TapeInv
<1>1. io = "do" /\ StartRewind({loc.d}, loc.fn = "UNLOAD")
  BY DEF DoRewind
<1>2. /\ DriveTypes' /\ img' = img
      /\ \A d \in Drives : curposn'[d] \in {curposn[d], 0} /\ file'[d] \in {file[d], None}
  <2>1. {loc.d} \subseteq Drives /\ (loc.fn = "UNLOAD") \in BOOLEAN
    BY <1>0
  <2> QED
    BY <1>0, <1>1, <2>1, Rewinds
<1>3. AllReadable'
  BY <1>0, <1>2 DEF AllReadable
<1>4. Headed'
  <2> SUFFICES ASSUME NEW d \in Drives, file'[d] # None
               PROVE  curposn'[d] \in Boundaries(img'[file'[d]])
    BY DEF Headed
  <2>1. img'[file'[d]] \in Seq(Int)
    BY <1>2 DEF DriveTypes
  <2>2. CASE curposn'[d] = 0
    BY <2>1, <2>2, Reached
  <2>3. CASE curposn'[d] = curposn[d]
    BY <1>0, <1>1, <1>2, <2>3 DEF Headed
  <2> QED
    BY <1>2, <2>2, <2>3
<1> QED
  BY <1>3, <1>4, Undisturbed, NoSpacing DEF TapeInv, Working

------------------------------------------------------------------------------
(* Counting.                                                               *)

\* Dividing: quotient and remainder, for any number.
LEMMA Divided ==
  ASSUME NEW a \in Int, NEW n \in Nat \ {0}
  PROVE  a \div n \in Int /\ a % n \in 0 .. n - 1 /\ a = (a \div n) * n + (a % n)
OBVIOUS

\* A remainder is what is left of a multiple, and nothing else is.
LEMMA Remainder ==
  ASSUME NEW n \in Nat \ {0}, NEW q \in Int, NEW r \in 0 .. n - 1
  PROVE  (q * n + r) % n = r
<1>1. PICK a \in Int : a = q * n + r
  OBVIOUS
<1>2. PICK p \in Int, s \in 0 .. n - 1 : a = p * n + s /\ s = a % n
  BY Divided
<1>3. ASSUME NEW x \in Int, NEW y \in Int, x < y PROVE x * n + n <= y * n
  <2>1. PICK d \in Nat : y = x + 1 + d
    <3>1. y - x - 1 \in Nat /\ y = x + 1 + (y - x - 1)
      BY <1>3
    <3> QED
      BY <3>1
  <2>2. d * n \in Nat
    OBVIOUS
  <2>3. (x + 1 + d) * n = x * n + n + d * n
    OBVIOUS
  <2>4. y * n = x * n + n + d * n
    BY <2>1, <2>3
  <2>5. x * n \in Int
    OBVIOUS
  <2> QED
    BY <2>2, <2>4, <2>5
<1>4. p * n \in Int /\ q * n \in Int
  OBVIOUS
<1>5. p = q
  BY <1>1, <1>2, <1>3, <1>4
<1>6. q * n + r = q * n + s
  BY <1>1, <1>2, <1>5
<1>7. r = s
  BY <1>4, <1>6
<1> QED
  BY <1>1, <1>2, <1>7

\* Multiples do not matter to a remainder.
LEMMA Shifted ==
  ASSUME NEW n \in Nat \ {0}, NEW k \in Int, NEW t \in Int
  PROVE  (k * n + t) % n = t % n
<1>1. PICK j \in Int, u \in 0 .. n - 1 : t = j * n + u /\ u = t % n
  BY Divided
<1>2. k * n + t = (k + j) * n + u /\ k + j \in Int
  BY <1>1
<1> QED
  BY <1>1, <1>2, Remainder

\* Counting one more, around or not.
LEMMA OneMore ==
  ASSUME NEW n \in Nat \ {0}, NEW x \in Int, NEW y \in Int, NEW c \in Int, (x - y) % n = c % n
  PROVE  (((x + 1) % n) - y) % n = (c + 1) % n
<1>1. PICK k \in Int, r \in 0 .. n - 1 : x + 1 = k * n + r /\ r = (x + 1) % n
  <2>1. x + 1 \in Int
    OBVIOUS
  <2> QED
    BY <2>1, Divided
<1>2. PICK p \in Int, s \in 0 .. n - 1 : x - y = p * n + s /\ s = (x - y) % n
  <2>1. x - y \in Int
    OBVIOUS
  <2> QED
    BY <2>1, Divided
<1>3. PICK q \in Int : c = q * n + s
  <2>1. PICK q \in Int, t \in 0 .. n - 1 : c = q * n + t /\ t = c % n
    BY Divided
  <2>2. t = s
    BY <1>2, <2>1
  <2> QED
    BY <2>1, <2>2
<1>4. r - y = (p - k) * n + (s + 1) /\ c + 1 = q * n + (s + 1) /\ p - k \in Int /\ s + 1 \in Int
  BY <1>1, <1>2, <1>3
<1>5. ((p - k) * n + (s + 1)) % n = (s + 1) % n /\ (q * n + (s + 1)) % n = (s + 1) % n
  BY <1>4, Shifted
<1>6. (r - y) % n = (c + 1) % n
  BY <1>4, <1>5
<1> QED
  BY <1>1, <1>6

\* Where records begin or end, from one place to another.
Among(f, low, high) == {q \in Boundaries(f) : low <= q /\ q < high}

\* Between where a record begins and where it ends nothing else does: one more
\* has gone by.
LEMMA OneMorePassed ==
  ASSUME NEW f \in Seq(Int), NEW a \in Boundaries(f), NEW b \in Boundaries(f), a < b, Ends(f, a, b),
         NEW s \in Nat
  PROVE  /\ Cardinality(Among(f, s, a)) \in Nat /\ Cardinality(Among(f, b, s)) \in Nat
         /\ s <= a => Cardinality(Among(f, s, b)) = Cardinality(Among(f, s, a)) + 1
         /\ b <= s => Cardinality(Among(f, a, s)) = Cardinality(Among(f, b, s)) + 1
<1> DEFINE B == Boundaries(f)
           S(low, high) == {q \in B : low <= q /\ q < high}
<1>1. B \subseteq 0 .. Len(f) /\ Len(f) \in Nat /\ a \in Nat /\ b \in Nat /\ b \in 0 .. Len(f)
  BY Reached
<1>2. \A q \in B : q <= a \/ b <= q
  BY <1>1, Whole1
<1>3. \A low, high \in Nat : IsFiniteSet(S(low, high)) /\ Cardinality(S(low, high)) \in Nat
  <2> TAKE low, high \in Nat
  <2>1. S(low, high) \in SUBSET (0 .. Len(f))
    BY <1>1
  <2>2. IsFiniteSet(0 .. Len(f))
    BY <1>1, FS_Interval
  <2> HIDE DEF S
  <2>3. IsFiniteSet(S(low, high))
    BY <2>1, <2>2, FS_Subset
  <2> QED
    BY <2>3, FS_CardinalityType
<1>4. ASSUME s <= a PROVE S(s, b) = S(s, a) \cup {a} /\ a \notin S(s, a)
  BY <1>1, <1>2, <1>4
<1>5. ASSUME b <= s PROVE S(a, s) = S(b, s) \cup {a} /\ a \notin S(b, s)
  BY <1>1, <1>2, <1>5
<1>6. /\ Cardinality(S(s, a)) \in Nat /\ Cardinality(S(b, s)) \in Nat
      /\ s <= a => Cardinality(S(s, b)) = Cardinality(S(s, a)) + 1
      /\ b <= s => Cardinality(S(a, s)) = Cardinality(S(b, s)) + 1
  <2> HIDE DEF S
  <2> QED
    BY <1>1, <1>3, <1>4, <1>5, FS_AddElement
<1> QED
  BY <1>6 DEF Among

\* The commands that space.
LEMMA SpacingUnchanged ==
  ASSUME TapeInv, SpaceForward \/ SpaceReverse \/ IoSkip
  PROVE  /\ UNCHANGED <<file, img, rewend>> /\ AllReadable' /\ Still' /\ loc.fn \in Spacing
         /\ Tape' = Tape /\ \A n \in Nat : MoveTo(n) => Pos' = n
<1>0. TapeTypes /\ AllReadable /\ Still /\ loc.d \in Drives
  BY AtWork DEF TapeInv
<1>1. /\ UNCHANGED <<file, img, rewend>> /\ loc.fn \in Spacing /\ io \in {"do", "space", "skip"}
  BY DEF SpaceForward, SpaceReverse, IoSkip, IoUnch, Spacing, TapeInv, OneCommand
<1>2. loc'.d = loc.d /\ loc'.fn = loc.fn
  BY Undisturbed DEF Working
<1>3. AllReadable' /\ Still'
  BY <1>0, <1>1, <1>2 DEF AllReadable, Still
<1>4. Tape' = Tape
  BY <1>1, <1>2 DEF Tape
<1>5. ASSUME NEW n \in Nat, MoveTo(n) PROVE Pos' = n
  BY <1>0, <1>2, <1>5, HeadMoves DEF Pos
<1> QED
  BY <1>1, <1>3, <1>4, <1>5

\* A space as far as the delay: the head is inside a record, and the count is as
\* it was.
LEMMA SpaceStep ==
  ASSUME TapeInv, SpaceForward \/ SpaceReverse
  PROVE  TapeInv'
<1>0. /\ TapeTypes /\ Headed /\ Counted /\ loc \in Locs /\ loc.d \in Drives /\ Pos \in Nat /\ Tape \in Seq(Int)
      /\ Len(Tape) \in Nat /\ loc.brc \in 0 .. Wrap - 1 /\ Wrap \in Nat \ {0}
  BY AtWork DEF TapeInv
<1>1. /\ UNCHANGED <<file, img, rewend>> /\ AllReadable' /\ Still' /\ Tape' = Tape
      /\ \A n \in Nat : MoveTo(n) => Pos' = n
      /\ loc'.d = loc.d /\ loc'.fn = loc.fn
  BY SpacingUnchanged, Undisturbed DEF Working
<1>2. io \in {"do", "space"} /\ Before = Pos
  BY DEF SpaceForward, SpaceReverse, Before
<1>3. \A d \in Drives : file[d] # None => curposn[d] \in Boundaries(img[file[d]])
  BY <1>0, <1>2 DEF Headed
<1>4. ASSUME \A d \in Drives : d # loc.d => curposn'[d] = curposn[d],
             io' = "skip" \/ curposn'[loc.d] = curposn[loc.d] \/ file[loc.d] = None
      PROVE  Headed'
  BY <1>1, <1>3, <1>4 DEF Headed
<1>5. ASSUME Before' = Pos, loc'.brc = loc.brc, loc'.n0 = loc.n0, loc'.from = loc.from
      PROVE  Counted'
  <2>1. Gone' = Gone
    BY <1>1, <1>2, <1>5 DEF Gone, Between
  <2> QED
    BY <1>0, <1>1, <1>2, <1>5, <2>1 DEF Counted
<1>6. \A e \in Errors : Done(loc.brc, e) =>
        io' = "done" /\ loc'.brc = loc.brc /\ loc'.n0 = loc.n0 /\ loc'.from = loc.from
  <2> TAKE e \in Errors
  <2> HAVE Done(loc.brc, e)
  <2>1. loc.brc \in Nat /\ loc.brc % Wrap = loc.brc
    <3>1. PICK n \in Nat \ {0}, b \in Nat : n = Wrap /\ b = loc.brc /\ b \in 0 .. n - 1
      BY SMTT(30), <1>0
    <3>2. (0 * n + b) % n = b /\ 0 * n + b = b
      BY <3>1, Remainder
    <3> QED
      BY <1>0, <3>1, <3>2
  <2> QED
    BY <1>0, <2>1, Dones
<1>7. {"crc", "none"} \subseteq Errors
  BY DEF Errors
<1>8. ASSUME NEW e \in Errors, Done(loc.brc, e), curposn' = curposn PROVE Headed' /\ Skipping' /\ Counted'
  <2>1. io' = "done" /\ loc'.brc = loc.brc /\ loc'.n0 = loc.n0 /\ loc'.from = loc.from
    BY <1>6, <1>8
  <2>2. Before' = Pos
    BY <1>1, <1>8, <2>1 DEF Before, Pos
  <2> QED
    BY <1>4, <1>5, <1>8, <2>1, <2>2 DEF Skipping
<1>9. ASSUME NEW p \in Nat, io' = "skip", MoveTo(p), loc' = [loc EXCEPT !.len = loc'.len],
             file[loc.d] # None, IF loc.fn = "SPF" THEN p - 1 = Pos ELSE p + 1 = Pos,
             loc'.len = Tape[IF loc.fn = "SPF" THEN p ELSE p + 1],
             IF loc.fn = "SPF" THEN p > 0 /\ p <= Len(Tape) ELSE p >= 0 /\ p < Len(Tape)
      PROVE  Headed' /\ Skipping' /\ Counted'
  <2>1. Pos' = p /\ \A d \in Drives : d # loc.d => curposn'[d] = curposn[d]
    BY <1>0, <1>1, <1>9, HeadMoves
  <2>2. loc'.brc = loc.brc /\ loc'.n0 = loc.n0 /\ loc'.from = loc.from
    BY <1>0, <1>9 DEF Locs
  <2>3. Before' = Pos
    BY <1>1, <1>9, <2>1 DEF Before
  <2>4. Headed' /\ Counted'
    BY <1>4, <1>5, <1>9, <2>1, <2>2, <2>3
  <2>5. Pos \in Boundaries(Tape)
    BY <1>2, <1>9, Stands
  <2>6. Skipping'
    BY <1>1, <1>9, <2>1, <2>3, <2>5 DEF Skipping
  <2> QED
    BY <2>4, <2>6
<1>10. CASE SpaceForward
  <2>0. loc.fn = "SPF"
    BY <1>10 DEF SpaceForward
  <2>1. CASE /\ io' = "skip" /\ HasLen(Pos) /\ MoveTo(Pos + 1)
             /\ loc' = [loc EXCEPT !.len = Tape[Pos + 1]]
    <3>1. Pos < Len(Tape) /\ Tape # <<>>
      BY <1>0, <2>1, AtWork
    <3>2. PICK p \in Nat : p = Pos + 1
      BY <1>0
    <3>3. loc'.len = Tape[p] /\ loc' = [loc EXCEPT !.len = loc'.len]
      BY <1>0, <2>1, <3>2 DEF Locs
    <3>4. file[loc.d] # None
      BY <3>1 DEF Tape
    <3>5. MoveTo(p) /\ p - 1 = Pos /\ p > 0 /\ p <= Len(Tape)
      BY SMTT(30), <1>0, <2>1, <3>1, <3>2
    <3>6. Headed' /\ Skipping' /\ Counted'
      BY <1>9, <2>0, <2>1, <3>3, <3>4, <3>5
    <3> QED
      BY <1>1, <3>6, Undisturbed DEF TapeInv, Working
  <2>2. CASE Done(loc.brc, "crc") /\ curposn' = curposn
    BY <1>1, <1>7, <1>8, <2>2, Undisturbed DEF TapeInv, Working
  <2> QED
    BY <1>0, <1>10, <2>1, <2>2, SpaceOn
<1>11. CASE SpaceReverse
  <2>0. loc.fn # "SPF"
    BY <1>11 DEF SpaceReverse
  <2>1. CASE /\ io' = "skip" /\ Pos # 0 /\ HasLen(Pos - 1) /\ MoveTo(Pos - 1)
             /\ loc' = [loc EXCEPT !.len = Tape[Pos]]
    <3>1. PICK p \in Nat : p = Pos - 1 /\ p + 1 = Pos
      BY <1>0, <2>1
    <3>2. p < Len(Tape) /\ Tape # <<>>
      BY <1>0, <2>1, <3>1, AtWork
    <3>3. loc'.len = Tape[p + 1] /\ loc' = [loc EXCEPT !.len = loc'.len]
      BY <1>0, <2>1, <3>1 DEF Locs
    <3>4. file[loc.d] # None
      BY <3>2 DEF Tape
    <3>5. MoveTo(p) /\ p >= 0
      BY <2>1, <3>1
    <3>6. Headed' /\ Skipping' /\ Counted'
      BY <1>9, <2>0, <2>1, <3>1, <3>2, <3>3, <3>4, <3>5
    <3> QED
      BY <1>1, <3>6, Undisturbed DEF TapeInv, Working
  <2>2. CASE Pos # 0 /\ ~ HasLen(Pos - 1) /\ Done(loc.brc, "crc") /\ MoveTo(Pos - 1)
    <3>1. PICK p \in Nat : p = Pos - 1 /\ p + 1 = Pos
      BY <1>0, <2>2
    <3>2. file[loc.d] = None
      <4> SUFFICES ASSUME file[loc.d] # None PROVE FALSE
        OBVIOUS
      <4>1. PICK f \in Seq(Int), x \in Nat : f = Tape /\ x = Pos /\ x \in Boundaries(f) /\ x <= Len(f)
        BY <1>0, <1>2, Stands
      <4>2. PICK q \in Boundaries(f) : q < x /\ Ends(f, q, x)
        BY <2>2, <4>1, Reached
      <4>3. f[x] >= 0
        BY <4>1, <4>2, Reached DEF Ends
      <4> QED
        BY <1>0, <2>2, <3>1, <4>1, <4>3 DEF HasLen
    <3>3. \A d \in Drives : d # loc.d => curposn'[d] = curposn[d]
      BY <1>0, <2>2, <3>1, HeadMoves
    <3>4. io' = "done"
      BY <1>6, <1>7, <2>2
    <3>5. Headed' /\ Skipping' /\ Counted'
      BY <1>1, <1>4, <3>2, <3>3, <3>4 DEF Skipping, Counted
    <3> QED
      BY <1>1, <3>5, Undisturbed DEF TapeInv, Working
  <2>3. CASE Done(loc.brc, "none") /\ curposn' = curposn
    BY <1>1, <1>7, <1>8, <2>3, Undisturbed DEF TapeInv, Working
  <2> QED
    BY <1>0, <1>11, <2>1, <2>2, <2>3, SpaceBack
<1> QED
  BY <1>10, <1>11

\* The rest of a skip: the head is where a record begins or ends, and one more has
\* been counted.
LEMMA SkipStep ==
  ASSUME TapeInv, IoSkip
  PROVE  TapeInv'
<1>0. /\ TapeTypes /\ Headed /\ Counted /\ loc \in Locs /\ loc.d \in Drives /\ Pos \in Nat /\ Tape \in Seq(Int)
      /\ Len(Tape) \in Nat /\ loc.brc \in 0 .. Wrap - 1 /\ Wrap \in Nat \ {0}
      /\ loc.brc \in Nat /\ loc.n0 \in Nat /\ loc.from \in Nat
  BY AtWork DEF TapeInv, Locs
<1>1. /\ UNCHANGED <<file, img, rewend>> /\ AllReadable' /\ Still' /\ Tape' = Tape
      /\ \A n \in Nat : MoveTo(n) => Pos' = n
      /\ loc'.d = loc.d /\ loc'.fn = loc.fn
  BY SpacingUnchanged, Undisturbed DEF Working
<1>2. io = "skip"
  BY DEF IoSkip
<1>3. /\ file[loc.d] \in Tapes /\ Tape = img[file[loc.d]] /\ loc.fn \in Spacing /\ loc.len \in Nat
      /\ Before \in Boundaries(Tape)
  BY <1>2, Skips
<1>4. PICK p \in Boundaries(Tape) :
        /\ p = IF loc.len = 0 THEN Pos
               ELSE IF loc.fn = "SPF" THEN Pos + Over(loc.len) ELSE Pos - Over(loc.len)
        /\ IF loc.fn = "SPF" THEN Before < p /\ Ends(Tape, Before, p)
           ELSE p < Before /\ Ends(Tape, p, Before)
  BY <1>2, Skips
<1>5. p \in Nat /\ Before \in Nat
  BY <1>0, <1>3, Reached
<1>6. /\ io' \in {"done", "space"} /\ Pos' = p /\ \A d \in Drives : d # loc.d => curposn'[d] = curposn[d]
      /\ loc'.brc = (loc.brc + 1) % Wrap /\ loc'.n0 = loc.n0 /\ loc'.from = loc.from
  <2>1. CASE loc.len = 0 /\ Done(loc.brc + 1, "mark") /\ curposn' = curposn
    <3>1. loc.brc + 1 \in Nat /\ "mark" \in Errors
      BY <1>0 DEF Errors
    <3> QED
      BY <1>0, <1>1, <1>4, <2>1, <3>1, Dones DEF Pos
  <2>2. CASE /\ loc.len # 0 /\ MoveTo(p) /\ brc' = (loc.brc + 1) % Wrap
             /\ loc' = [loc EXCEPT !.brc = brc', !.len = 0] /\ io' \in {"done", "space"}
    <3>1. loc'.brc = brc' /\ loc'.n0 = loc.n0 /\ loc'.from = loc.from
      BY <1>0, <2>2 DEF Locs
    <3> QED
      BY <1>0, <1>1, <1>5, <2>2, <3>1, HeadMoves
  <2> QED
    BY <1>4, <2>1, <2>2, SkipOn
<1>7. Headed' /\ Skipping'
  <2>1. ASSUME NEW d \in Drives, file[d] # None PROVE curposn'[d] \in Boundaries(img[file[d]])
    <3>1. CASE d = loc.d
      BY <1>1, <1>3, <1>4, <1>6, <3>1 DEF Pos
    <3>2. CASE d # loc.d
      BY <1>0, <1>6, <2>1, <3>2 DEF Headed
    <3> QED
      BY <3>1, <3>2
  <2> QED
    BY <1>1, <1>6, <2>1 DEF Headed, Skipping
<1>8. Counted'
  <2>1. Before' = p
    BY <1>6 DEF Before
  <2>2. /\ IF loc.fn = "SPF" THEN loc.from <= Before ELSE Before <= loc.from
        /\ (loc.brc - loc.n0) % Wrap = Cardinality(Gone) % Wrap
    BY <1>2, <1>3, TapeAssumption DEF TapeInv, Counted
  <2>3. Cardinality(Gone) \in Nat /\ Cardinality(Gone') = Cardinality(Gone) + 1
    <3>1. CASE loc.fn = "SPF"
      <4>1. Gone = Among(Tape, loc.from, Before)
        BY <3>1 DEF Gone, Between, Among
      <4>2. Gone' = Among(Tape, loc.from, p)
        BY <1>1, <1>6, <2>1, <3>1 DEF Gone, Between, Among
      <4>3. /\ Cardinality(Among(Tape, loc.from, Before)) \in Nat
            /\ Cardinality(Among(Tape, loc.from, p)) = Cardinality(Among(Tape, loc.from, Before)) + 1
        <5>1. PICK f \in Seq(Int), a, b, s \in Nat : f = Tape /\ a = Before /\ b = p /\ s = loc.from
          BY <1>0, <1>5
        <5>2. /\ a \in Boundaries(f) /\ b \in Boundaries(f) /\ a < b /\ Ends(f, a, b)
              /\ s <= a
          BY <1>3, <1>4, <2>2, <3>1, <5>1
        <5>3. /\ Cardinality(Among(f, s, a)) \in Nat
              /\ Cardinality(Among(f, s, b)) = Cardinality(Among(f, s, a)) + 1
          BY <5>2, OneMorePassed
        <5> QED
          BY <5>1, <5>3
      <4> QED
        BY <4>1, <4>2, <4>3
    <3>2. CASE loc.fn # "SPF"
      <4>1. Gone = Among(Tape, Before, loc.from)
        BY <3>2 DEF Gone, Between, Among
      <4>2. Gone' = Among(Tape, p, loc.from)
        BY <1>1, <1>6, <2>1, <3>2 DEF Gone, Between, Among
      <4>3. /\ Cardinality(Among(Tape, Before, loc.from)) \in Nat
            /\ Cardinality(Among(Tape, p, loc.from)) = Cardinality(Among(Tape, Before, loc.from)) + 1
        <5>1. PICK f \in Seq(Int), a, b, s \in Nat : f = Tape /\ a = p /\ b = Before /\ s = loc.from
          BY <1>0, <1>5
        <5>2. /\ a \in Boundaries(f) /\ b \in Boundaries(f) /\ a < b /\ Ends(f, a, b)
              /\ b <= s
          BY <1>3, <1>4, <2>2, <3>2, <5>1
        <5>3. /\ Cardinality(Among(f, b, s)) \in Nat
              /\ Cardinality(Among(f, a, s)) = Cardinality(Among(f, b, s)) + 1
          BY <5>2, OneMorePassed
        <5> QED
          BY <5>1, <5>3
      <4> QED
        BY <4>1, <4>2, <4>3
    <3> QED
      BY <3>1, <3>2
  <2>4. (((loc.brc + 1) % Wrap) - loc.n0) % Wrap = (Cardinality(Gone) + 1) % Wrap
    <3>1. PICK n \in Nat \ {0}, x \in Int, y \in Int, c \in Int :
            n = Wrap /\ x = loc.brc /\ y = loc.n0 /\ c = Cardinality(Gone)
      BY <1>0, <2>3
    <3>2. (((x + 1) % n) - y) % n = (c + 1) % n
      BY <2>2, <3>1, OneMore
    <3> QED
      BY <3>1, <3>2
  <2>5. IF loc.fn = "SPF" THEN loc.from <= p ELSE p <= loc.from
    BY <1>0, <1>4, <1>5, <2>2
  <2> QED
    BY <1>1, <1>6, <2>1, <2>3, <2>4, <2>5 DEF Counted
<1> QED
  BY <1>1, <1>7, <1>8, Undisturbed DEF TapeInv, Working

------------------------------------------------------------------------------
(* The theorems.                                                           *)

\* The initial states have it, when what is on the tapes can be read.
LEMMA TapeInit ==
  ASSUME \A f \in Images : Readable(f), Init
  PROVE  TapeInv
<1>0. /\ go = FALSE /\ pclr = FALSE /\ ready = TRUE /\ fn = "REWIND" /\ sel = Drive0 /\ brc = 0 /\ err = "none"
      /\ fastio \in BOOLEAN /\ img \in [Tapes -> Images] /\ file \in [Drives -> Tapes] /\ IsInjective(file)
      /\ curposn = [d \in Drives |-> 0] /\ rewend = [d \in Drives |-> 0]
      /\ late = [d \in Drives |-> FALSE] /\ unload = [d \in Drives |-> FALSE]
      /\ st = Updated /\ io = "wait" /\ loc = NoLoc
      /\ tpc = [d \in Drives |-> "asleep"] /\ saw = [d \in Drives |-> 0] /\ cmd = Idle
  BY DEF Init
<1>1. Images \subseteq Seq(Int) /\ Drive0 \in Drives /\ Wrap \in Nat \ {0}
  BY TapeAssumption
<1>2. NoLoc \in Locs /\ Idle \in Orders
  BY <1>1 DEF NoLoc, Locs, Idle, Orders, Errors
<1>3. RegTypes
  <2>1. st \in Statuses
    BY <1>0, StatusTyped
  <2>2. brc \in 0 .. Wrap - 1 /\ sel \in Drives /\ fn \in Fns \cup {"REWIND"} /\ err \in Errors
    BY <1>0, <1>1 DEF Errors
  <2> QED
    BY <1>0, <2>1, <2>2 DEF RegTypes
<1>4. DriveTypes
  BY <1>0, <1>1 DEF DriveTypes
<1>5. ThreadTypes
  BY <1>0, <1>2 DEF ThreadTypes
<1>6. OneCommand /\ Shows /\ Still /\ Fitting /\ Skipping /\ Counted
  BY <1>0 DEF OneCommand, Shows, Still, Fitting, Skipping, Counted
<1>7. Apart
  BY <1>0 DEF Apart, IsInjective
<1>8. AllReadable
  BY <1>0 DEF AllReadable
<1>9. Headed
  <2> SUFFICES ASSUME NEW d \in Drives, file[d] # None PROVE curposn[d] \in Boundaries(img[file[d]])
    BY DEF Headed
  <2>1. img[file[d]] \in Seq(Int) /\ curposn[d] = 0
    BY <1>0, <1>1
  <2> QED
    BY <2>1, Reached
<1> QED
  BY <1>3, <1>4, <1>5, <1>6, <1>7, <1>8, <1>9 DEF TapeInv, TapeTypes

\* Nothing changes it.
LEMMA TapeStays ==
  ASSUME TapeInv, UNCHANGED vars
  PROVE  TapeInv'
<1>1. UNCHANGED <<go, pclr, ready, fn, sel, brc, err, st, fastio, file, img, curposn, rewend, late, unload,
                  io, loc, tpc, saw, cmd>>
  BY DEF vars, regs, drive, iov, timer
<1>2. TapeTypes'
  BY <1>1 DEF TapeInv, TapeTypes, RegTypes, DriveTypes, ThreadTypes
<1>3. Updated' = Updated /\ Tape' = Tape /\ Pos' = Pos /\ Before' = Before /\ Gone' = Gone
  BY <1>1 DEF Updated, Status, Tape, Pos, Before, Gone, Between
<1>4. OneCommand' /\ Still' /\ Shows' /\ Apart' /\ AllReadable'
  BY <1>1, <1>3 DEF TapeInv, OneCommand, Still, Shows, Apart, AllReadable
<1>5. Fitting' /\ Headed'
  BY <1>1 DEF TapeInv, Fitting, Room, Headed
<1>6. Skipping' /\ Counted'
  BY <1>1, <1>3 DEF TapeInv, Skipping, Counted
<1> QED
  BY <1>2, <1>4, <1>5, <1>6 DEF TapeInv

\* Every step keeps the strengthening.
LEMMA TapeStep ==
  ASSUME ~ Intrude, TapeInv, [Next]_vars
  PROVE  TapeInv'
<1>1. CASE Driver
  BY <1>1, DriverStep
<1>2. CASE IoTake \/ IoRewound \/ IoFutex
  BY <1>2, TakeStep
<1>3. CASE IoClear \/ IoDone
  BY <1>3, DoneStep
<1>4. CASE DoRead
  BY <1>4, ReadStep
<1>5. CASE DoWrite \/ DoMark
  BY <1>5, WriteStep
<1>6. CASE DoRewind
  BY <1>6, RewindStep
<1>7. CASE SpaceForward \/ SpaceReverse
  BY <1>7, SpaceStep
<1>8. CASE IoSkip
  BY <1>8, SkipStep
<1>9. CASE Operator
  BY <1>9, OperatorStep
<1>10. ASSUME NEW d \in Drives, Timer(d) \/ TimePasses(d) PROVE TapeInv'
  BY <1>10, TimerStep
<1>11. CASE UNCHANGED vars
  BY <1>11, TapeStays
<1> QED
  BY <1>1, <1>2, <1>3, <1>4, <1>5, <1>6, <1>7, <1>8, <1>9, <1>10, <1>11 DEF Next, Io

\* The strengthening holds, for any drives, tapes and counters: for tapes that
\* can be read to begin with, when files and power clear come between commands.
THEOREM TapeInvariance ==
  ASSUME ~ Intrude, \A f \in Images : Readable(f)
  PROVE  Spec => []TapeInv
<1>1. Init => TapeInv
  BY TapeInit
<1>2. TapeInv /\ [Next]_vars => TapeInv'
  BY TapeStep
<1> QED
  BY <1>1, <1>2, PTL DEF Spec

\* However long the reads, writes, spaces and rewinds: the head of each drive is
\* where a record begins or ends, unless a command moves it (tapelib.cc).
THEOREM HeadAtRecordHolds ==
  ASSUME ~ Intrude, \A f \in Images : Readable(f)
  PROVE  Spec => []HeadAtRecord
<1>1. TapeInv => HeadAtRecord
  <2> SUFFICES ASSUME TapeInv PROVE HeadAtRecord
    OBVIOUS
  <2>1. RegTypes /\ DriveTypes /\ ThreadTypes /\ Headed
    BY DEF TapeInv, TapeTypes
  <2>2. TapeTypeOK
    BY <2>1 DEF TapeTypeOK, RegTypes, DriveTypes, ThreadTypes, Errors
  <2> QED
    BY <2>1, <2>2 DEF HeadAtRecord, Headed
<1> QED
  BY <1>1, TapeInvariance, PTL

\* With the threads at rest registers 5 and 6 say what the drives do (updstbits).
THEOREM StatusTrueHolds ==
  ASSUME ~ Intrude, \A f \in Images : Readable(f)
  PROVE  Spec => []StatusTrue
<1>1. TapeInv => StatusTrue
  BY DEF TapeInv, Shows, StatusTrue, Resting
<1> QED
  BY <1>1, TapeInvariance, PTL

\* A space counts, modulo the width of the counter, what has gone by (z11tm.cc).
THEOREM CountsRecordsHolds ==
  ASSUME ~ Intrude, \A f \in Images : Readable(f)
  PROVE  Spec => CountsRecords
<1> DEFINE Ended == IoDone /\ loc.fn \in {"SPF", "SPR"} /\ file[loc.d] # None
           Passing == {q \in Boundaries(img[file[loc.d]]) :
                         IF loc.fn = "SPF" THEN loc.from <= q /\ q < curposn[loc.d]
                         ELSE curposn[loc.d] <= q /\ q < loc.from}
           Counts == (brc' - loc.n0) % Wrap = Cardinality(Passing) % Wrap
<1>1. TapeInv /\ [Next]_vars =>
        [IoDone /\ loc.fn \in {"SPF", "SPR"} /\ file[loc.d] # None =>
           LET p == curposn[loc.d]
               passed == {q \in Boundaries(img[file[loc.d]]) :
                            IF loc.fn = "SPF" THEN loc.from <= q /\ q < p ELSE p <= q /\ q < loc.from} IN
           (brc' - loc.n0) % Wrap = Cardinality(passed) % Wrap]_vars
  <2> SUFFICES ASSUME TapeInv, Ended PROVE Counts
    OBVIOUS
  <2>1. io = "done" /\ brc' = loc.brc
    BY DEF IoDone
  <2>2. Gone = Passing
    <3>1. Tape = img[file[loc.d]] /\ Before = curposn[loc.d]
      BY <2>1 DEF Tape, Before, Pos
    <3> QED
      BY <3>1 DEF Gone, Between
  <2>3. (loc.brc - loc.n0) % Wrap = Cardinality(Gone) % Wrap
    BY <2>1 DEF TapeInv, Counted, Spacing
  <2> QED
    BY <2>1, <2>2, <2>3
<1> QED
  BY <1>1, TapeInvariance, PTL DEF Spec, CountsRecords
=============================================================================
