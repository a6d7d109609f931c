---------------------------- MODULE RhDiskProofs ----------------------------
(***************************************************************************)
(* What rh11.v and dotransfer promise, for any number of drives and packs, *)
(* any geometry, any counts and any outcome of a transfer, with a daemon   *)
(* that is left alone while it works.                                      *)
(*                                                                         *)
(* First the arithmetic of a pack: Sectors, which steps the address sector *)
(* by sector, gives the address of the block that many sectors on.  It is  *)
(* a recursive function, and what it says of every count is proved from    *)
(* the first count for which it might fail (Least).  Then a lemma for      *)
(* each of the drive's and the daemon's actions, and one for each part of  *)
(* the invariant.                                                          *)
(***************************************************************************)
EXTENDS RhDisk, WellFoundedInduction, TLAPS

-----------------------------------------------------------------------------
(* Sectors of a pack. *)

\* A set of numbers has a least one.
LEMMA Least ==
  ASSUME NEW T, T \subseteq Nat, T # {}
  PROVE  \E x \in T : \A y \in T : x <= y
<1> DEFINE R == OpToRel(<, Nat)
<1>1. IsWellFoundedOn(R, Nat)
  BY NatLessThanWellFounded
<1>3. \A x, y \in Nat : y < x => <<y, x>> \in R
  BY DEF OpToRel
<1> HIDE DEF R
<1>2. PICK x \in T : \A y \in T : ~ (<<y, x>> \in R)
  BY <1>1, WFMin
<1>4. \A y \in T : x \in Nat /\ y \in Nat /\ ~ (y < x)
  BY <1>2, <1>3
<1> QED
  BY <1>2, <1>4

\* Products of numbers.
LEMMA Product ==
  ASSUME NEW a \in Nat, NEW b \in Nat, NEW c \in Nat
  PROVE  /\ a * c \in Nat
         /\ a <= b => a * c <= b * c
         /\ (a + 1) * c = a * c + c
         /\ a # 0 /\ c # 0 => a * c # 0
<1>1. a * c \in Nat /\ (a + 1) * c = a * c + c
  OBVIOUS
<1>2. ASSUME a <= b PROVE a * c <= b * c
  <2>1. b - a \in Nat /\ b = a + (b - a)
    BY <1>2
  <2>2. (b - a) * c \in Nat /\ b * c = a * c + (b - a) * c
    BY <2>1
  <2> QED
    BY <1>1, <2>2
<1>3. a # 0 /\ c # 0 => a * c # 0
  OBVIOUS
<1> QED
  BY <1>1, <1>2, <1>3

\* Quotient and remainder are what they should be, and nothing else is.
LEMMA Divide ==
  ASSUME NEW a \in Nat, NEW n \in Nat \ {0}
  PROVE  /\ a \div n \in Nat /\ a % n \in 0 .. n - 1
         /\ a = (a \div n) * n + (a % n)
OBVIOUS

\* They are determined by that.
LEMMA Quotient ==
  ASSUME NEW n \in Nat \ {0}, NEW q \in Nat, NEW r \in 0 .. n - 1
  PROVE  (q * n + r) \div n = q /\ (q * n + r) % n = r
<1> DEFINE a == q * n + r
<1>1. a \in Nat
  OBVIOUS
<1>2. /\ a \div n \in Nat /\ a % n \in 0 .. n - 1
      /\ a = (a \div n) * n + (a % n)
  BY <1>1, Divide
<1> DEFINE p == a \div n
<1>3. CASE p < q
  <2>1. (p + 1) * n <= q * n
    BY <1>2, <1>3, Product
  <2> QED
    BY <1>2, <2>1
<1>4. CASE q < p
  <2>1. (q + 1) * n <= p * n
    BY <1>2, <1>4, Product
  <2> QED
    BY <1>2, <2>1
<1>5. CASE p = q
  BY <1>2, <1>5
<1> QED
  BY <1>2, <1>3, <1>4, <1>5

\* Counting up by one.
LEMMA CountUp ==
  ASSUME NEW a \in Nat, NEW n \in Nat \ {0}
  PROVE  IF a % n = n - 1 THEN (a + 1) \div n = a \div n + 1 /\ (a + 1) % n = 0
         ELSE (a + 1) \div n = a \div n /\ (a + 1) % n = (a % n) + 1
<1> DEFINE q == a \div n
           r == a % n
<1>1. q \in Nat /\ r \in 0 .. n - 1 /\ a = q * n + r
  BY Divide
<1> HIDE DEF q, r
<1>2. CASE r = n - 1
  <2>1. a + 1 = (q + 1) * n + 0
    BY <1>1, <1>2
  <2>2. ((q + 1) * n + 0) \div n = q + 1 /\ ((q + 1) * n + 0) % n = 0
    <3>1. q + 1 \in Nat /\ 0 \in 0 .. n - 1
      BY <1>1
    <3> QED
      BY <3>1, Quotient
  <2> QED
    BY <1>2, <2>1, <2>2 DEF q, r
<1>3. CASE r # n - 1
  <2>1. a + 1 = q * n + (r + 1) /\ r + 1 \in 0 .. n - 1
    BY <1>1, <1>3
  <2>2. (q * n + (r + 1)) \div n = q /\ (q * n + (r + 1)) % n = r + 1
    BY <1>1, <2>1, Quotient
  <2> QED
    BY <1>3, <2>1, <2>2 DEF q, r
<1> QED
  BY <1>2, <1>3

\* Dividing twice.
LEMMA DivideTwice ==
  ASSUME NEW a \in Nat, NEW m \in Nat \ {0}, NEW n \in Nat \ {0}
  PROVE  /\ m * n \in Nat \ {0}
         /\ a \div (m * n) = (a \div m) \div n
<1> DEFINE q == a \div m
           r == a % m
           p == q \div n
           t == q % n
<1>1. q \in Nat /\ r \in 0 .. m - 1 /\ a = q * m + r
  BY Divide
<1>2. p \in Nat /\ t \in 0 .. n - 1 /\ q = p * n + t
  BY <1>1, Divide
<1>3. m * n \in Nat \ {0}
  BY Product
<1> HIDE DEF q, r, p, t
<1>4. q * m = (p * n) * m + t * m /\ (p * n) * m = p * (m * n)
  BY <1>1, <1>2
<1>5. (t + 1) * m <= n * m /\ n * m = m * n /\ (t + 1) * m = t * m + m /\ t * m \in Nat
  BY <1>2, Product
<1>6. t * m + r \in 0 .. m * n - 1
  BY <1>1, <1>3, <1>5
<1>7. a = p * (m * n) + (t * m + r)
  BY <1>1, <1>2, <1>3, <1>4, <1>5
<1>8. a \div (m * n) = p
  BY <1>2, <1>3, <1>6, <1>7, Quotient
<1> QED
  BY <1>3, <1>8 DEF p, q

\* The sizes of a pack are positive.
LEMMA Sizes ==
  /\ Small \in Nat \ {0} /\ Large \in Nat \ {0} /\ Small <= Large
  /\ Trks \in Nat \ {0} /\ Secs \in Nat \ {0} /\ WPS \in Nat \ {0} /\ WMax \in Nat \ {0}
  /\ Bank \in Nat \ {0}
BY RhAssumption DEF RhAssumption

\* A block has an address, and the block after it the address of the next sector.
LEMMA NextAddress ==
  ASSUME NEW b \in Nat
  PROVE  Address(b) \in Places /\ Address(b + 1) = NextSector(Address(b))
<1> DEFINE c == b \div Secs
<1>0. Trks \in Nat \ {0} /\ Secs \in Nat \ {0}
  BY Sizes
<1>1. /\ c \in Nat /\ b % Secs \in 0 .. Secs - 1
      /\ c \div Trks \in Nat /\ c % Trks \in 0 .. Trks - 1
  BY <1>0, Divide
<1>2. /\ Secs * Trks \in Nat \ {0}
      /\ b \div (Secs * Trks) = c \div Trks
      /\ (b + 1) \div (Secs * Trks) = ((b + 1) \div Secs) \div Trks
  <2>1. ASSUME NEW a \in Nat PROVE Secs * Trks \in Nat \ {0} /\ a \div (Secs * Trks) = (a \div Secs) \div Trks
    <3>1. Secs \in Nat \ {0}
      BY <1>0
    <3>2. Trks \in Nat \ {0}
      BY <1>0
    <3> HIDE DEF c
    <3>3. a \div (Secs * Trks) = (a \div Secs) \div Trks
      BY <3>1, <3>2, DivideTwice
    <3>4. Secs * Trks \in Nat \ {0}
      BY <3>1, <3>2, DivideTwice
    <3> QED
      BY <3>3, <3>4
  <2>2. b \in Nat /\ b + 1 \in Nat
    OBVIOUS
  <2> QED
    BY <2>1, <2>2, Zenon
<1>3. Address(b) = <<c \div Trks, c % Trks, b % Secs>>
  BY <1>2 DEF Address
<1>4. Address(b + 1) = <<((b + 1) \div Secs) \div Trks, ((b + 1) \div Secs) % Trks, (b + 1) % Secs>>
  BY <1>2 DEF Address
<1>5. IF b % Secs = Secs - 1 THEN (b + 1) \div Secs = c + 1 /\ (b + 1) % Secs = 0
      ELSE (b + 1) \div Secs = c /\ (b + 1) % Secs = (b % Secs) + 1
  BY <1>0, CountUp
<1>6. IF c % Trks = Trks - 1 THEN (c + 1) \div Trks = c \div Trks + 1 /\ (c + 1) % Trks = 0
      ELSE (c + 1) \div Trks = c \div Trks /\ (c + 1) % Trks = (c % Trks) + 1
  BY <1>0, <1>1, CountUp
<1> DEFINE cyl == c \div Trks
           trk == c % Trks
           sec == b % Secs
<1>7. NextSector(Address(b)) = IF sec < Secs - 1 THEN <<cyl, trk, sec + 1>>
                               ELSE IF trk < Trks - 1 THEN <<cyl, trk + 1, 0>> ELSE <<cyl + 1, 0, 0>>
  BY <1>3 DEF NextSector
<1>8. Address(b) \in Places
  BY <1>1, <1>3 DEF Places
<1>9. CASE sec < Secs - 1
  <2>1. (b + 1) \div Secs = c /\ (b + 1) % Secs = sec + 1
    BY <1>0, <1>1, <1>5, <1>9
  <2> HIDE DEF c
  <2> QED
    BY <1>4, <1>7, <1>8, <1>9, <2>1
<1>10. CASE ~ (sec < Secs - 1)
  <2>1. (b + 1) \div Secs = c + 1 /\ (b + 1) % Secs = 0
    BY <1>0, <1>1, <1>5, <1>10
  <2>2. Address(b + 1) = <<(c + 1) \div Trks, (c + 1) % Trks, 0>>
    BY <1>4, <2>1
  <2> HIDE DEF c
  <2>3. CASE trk < Trks - 1
    BY <1>0, <1>1, <1>6, <1>7, <1>8, <1>10, <2>2, <2>3
  <2>4. CASE ~ (trk < Trks - 1)
    BY <1>0, <1>1, <1>6, <1>7, <1>8, <1>10, <2>2, <2>4
  <2> QED
    BY <2>3, <2>4
<1> QED
  BY <1>9, <1>10

\* An address on a pack is that of its block.
LEMMA AddressOfBlock ==
  ASSUME NEW at \in Places, at[2] < Trks, at[3] < Secs
  PROVE  Block(at) \in Nat /\ Address(Block(at)) = at
<1> DEFINE c == at[1] * Trks + at[2]
<1>0. Trks \in Nat \ {0} /\ Secs \in Nat \ {0}
  BY Sizes
<1>1. /\ at[1] \in Nat /\ at[2] \in 0 .. Trks - 1 /\ at[3] \in 0 .. Secs - 1
      /\ at = <<at[1], at[2], at[3]>>
  BY <1>0 DEF Places
<1>2. c \in Nat /\ c \div Trks = at[1] /\ c % Trks = at[2]
  <2>1. (at[1] * Trks + at[2]) \div Trks = at[1] /\ (at[1] * Trks + at[2]) % Trks = at[2]
    BY <1>0, <1>1, Quotient, Zenon
  <2> QED
    BY <1>0, <1>1, <2>1
<1> HIDE DEF c
<1>3. Block(at) = c * Secs + at[3]
  BY DEF Block, c
<1>4. Block(at) \in Nat
  BY <1>0, <1>1, <1>2, <1>3
<1>5. Block(at) \div Secs = c /\ Block(at) % Secs = at[3]
  BY <1>0, <1>1, <1>2, <1>3, Quotient
<1>6. Block(at) \div (Secs * Trks) = (Block(at) \div Secs) \div Trks
  BY <1>0, <1>4, DivideTwice
<1> QED
  BY <1>1, <1>2, <1>4, <1>5, <1>6 DEF Address

\* Words are rounded up to sectors: the next word begins one when the words
\* before it filled theirs.
LEMMA RoundUp ==
  ASSUME NEW m \in Nat
  PROVE  /\ (m + WPS - 1) \div WPS \in Nat
         /\ (m + WPS) \div WPS = IF m % WPS = 0 THEN ((m + WPS - 1) \div WPS) + 1 ELSE (m + WPS - 1) \div WPS
         /\ (0 + WPS - 1) \div WPS = 0
         /\ (m * WPS + WPS - 1) \div WPS = m
<1> DEFINE q == m \div WPS
           r == m % WPS
<1>0. WPS \in Nat \ {0}
  BY Sizes
<1>1. q \in Nat /\ r \in 0 .. WPS - 1 /\ m = q * WPS + r
  BY <1>0, Divide
<1>2. \A k \in Nat, t \in 0 .. WPS - 1 : (k * WPS + t) \div WPS = k
  BY <1>0, Quotient, Zenon
<1>3. /\ m * WPS + WPS - 1 = m * WPS + (WPS - 1) /\ 0 + WPS - 1 = 0 * WPS + (WPS - 1)
      /\ WPS - 1 \in 0 .. WPS - 1
  BY <1>0
<1>4. (m * WPS + WPS - 1) \div WPS = m /\ (0 + WPS - 1) \div WPS = 0
  BY <1>2, <1>3
<1>5. (m + WPS) \div WPS = q + 1
  <2>1. m + WPS = (q + 1) * WPS + r /\ q + 1 \in Nat
    BY <1>0, <1>1
  <2> QED
    BY <1>1, <1>2, <2>1
<1>6. CASE r = 0
  <2>1. m + WPS - 1 = q * WPS + (WPS - 1)
    BY <1>0, <1>1, <1>6
  <2>2. (m + WPS - 1) \div WPS = q
    BY <1>1, <1>2, <1>3, <2>1
  <2> QED
    BY <1>1, <1>4, <1>5, <1>6, <2>2
<1>7. CASE r # 0
  <2>1. m + WPS - 1 = (q + 1) * WPS + (r - 1) /\ q + 1 \in Nat /\ r - 1 \in 0 .. WPS - 1
    BY <1>0, <1>1, <1>7
  <2>2. (m + WPS - 1) \div WPS = q + 1
    BY <1>2, <2>1
  <2> QED
    BY <1>1, <1>4, <1>5, <1>7, <2>2
<1> QED
  BY <1>6, <1>7

\* The sector where so many words end, counted along the pack, is the one the
\* daemon computes.
LEMMA SectorsAre ==
  ASSUME NEW at \in Places, at[2] < Trks, at[3] < Secs, NEW w \in Nat
  PROVE  Sectors(at, w) = Address(Block(at) + ((w + WPS - 1) \div WPS))
<1> DEFINE Up(n) == (n + WPS - 1) \div WPS
           End(n) == Address(Block(at) + Up(n))
           Counts(s) == s = [n \in 0 .. w |->
                              IF n <= 0 THEN at
                              ELSE IF (n - 1) % WPS = 0 THEN NextSector(s[n - 1]) ELSE s[n - 1]]
<1>0. Block(at) \in Nat /\ Address(Block(at)) = at
  BY AddressOfBlock
<1>1. End(0) = at
  BY <1>0, RoundUp
<1>2. ASSUME NEW n \in 1 .. w
      PROVE  End(n) = IF (n - 1) % WPS = 0 THEN NextSector(End(n - 1)) ELSE End(n - 1)
  <2> DEFINE m == n - 1
  <2>1. m \in Nat /\ n + WPS - 1 = m + WPS
    BY Sizes
  <2>2. Up(m) \in Nat /\ Up(n) = IF m % WPS = 0 THEN Up(m) + 1 ELSE Up(m)
    BY <2>1, RoundUp
  <2> HIDE DEF m, Up
  <2>3. Block(at) + Up(m) \in Nat /\ Block(at) + (Up(m) + 1) = (Block(at) + Up(m)) + 1
    BY <1>0, <2>2
  <2>4. CASE m % WPS = 0
    <3>1. End(n) = Address((Block(at) + Up(m)) + 1)
      BY <2>2, <2>3, <2>4
    <3>2. End(n) = NextSector(End(m))
      BY <2>3, <3>1, NextAddress
    <3> QED
      BY <2>4, <3>2 DEF m
  <2>5. CASE m % WPS # 0
    <3>1. End(n) = End(m)
      BY <2>2, <2>5
    <3> QED
      BY <2>5, <3>1 DEF m
  <2> QED
    BY <2>4, <2>5
<1> HIDE DEF End
<1>3. Counts([n \in 0 .. w |-> End(n)])
  <2> DEFINE e == [n \in 0 .. w |-> End(n)]
  <2>1. \A n \in 0 .. w : End(n) = IF n <= 0 THEN at
                                   ELSE IF (n - 1) % WPS = 0 THEN NextSector(e[n - 1]) ELSE e[n - 1]
    <3> TAKE n \in 0 .. w
    <3>1. CASE n = 0
      BY <1>1, <3>1
    <3>2. CASE n # 0
      <4>1. n \in 1 .. w /\ n - 1 \in 0 .. w /\ e[n - 1] = End(n - 1)
        BY <3>2
      <4> QED
        BY <1>2, <4>1
    <3> QED
      BY <3>1, <3>2
  <2> QED
    BY <2>1
<1>4. PICK s : s = CHOOSE f : Counts(f)
  OBVIOUS
<1>5. Counts(s)
  BY <1>3, <1>4
<1>6. Sectors(at, w) = s[w]
  BY <1>4 DEF Sectors
<1>7. \A n \in 0 .. w : s[n] = End(n)
  <2> DEFINE T == {n \in 0 .. w : s[n] # End(n)}
  <2>1. CASE T = {}
    BY <2>1
  <2>2. CASE T # {}
    <3>1. PICK x \in T : \A y \in T : x <= y
      <4>1. T \subseteq Nat
        OBVIOUS
      <4> HIDE DEF T
      <4> QED
        BY <2>2, <4>1, Least
    <3>2. s[x] = IF x <= 0 THEN at ELSE IF (x - 1) % WPS = 0 THEN NextSector(s[x - 1]) ELSE s[x - 1]
      BY <1>5, <3>1
    <3>3. CASE x = 0
      BY <1>1, <3>1, <3>2, <3>3
    <3>4. CASE x # 0
      <4>1. x \in 1 .. w /\ x - 1 \in 0 .. w /\ x - 1 \notin T
        BY <3>1, <3>4
      <4>2. s[x - 1] = End(x - 1)
        BY <4>1
      <4>3. s[x] = End(x)
        BY <1>2, <3>2, <4>1, <4>2
      <4> QED
        BY <3>1, <4>3
    <3> QED
      BY <3>3, <3>4
  <2> QED
    BY <2>1, <2>2
<1>8. s[w] = End(w)
  BY <1>7
<1> QED
  BY <1>6, <1>8 DEF End

\* The smaller and the larger of two numbers.
LEMMA OfTwo ==
  ASSUME NEW a \in Int, NEW b \in Int
  PROVE  /\ Min({a, b}) = IF a <= b THEN a ELSE b
         /\ Max({a, b}) = IF a <= b THEN b ELSE a
<1>1. ASSUME NEW x, x = Min({a, b})
      PROVE  x = IF a <= b THEN a ELSE b
  <2>1. \E y \in {a, b} : \A z \in {a, b} : y <= z
    OBVIOUS
  <2>2. x = CHOOSE y \in {a, b} : \A z \in {a, b} : y <= z
    BY <1>1 DEF Min
  <2>3. x \in {a, b} /\ \A z \in {a, b} : x <= z
    BY <2>1, <2>2
  <2> QED
    BY <2>3
<1>2. ASSUME NEW x, x = Max({a, b})
      PROVE  x = IF a <= b THEN b ELSE a
  <2>1. \E y \in {a, b} : \A z \in {a, b} : y >= z
    OBVIOUS
  <2>2. x = CHOOSE y \in {a, b} : \A z \in {a, b} : y >= z
    BY <1>2 DEF Max
  <2>3. x \in {a, b} /\ \A z \in {a, b} : x >= z
    BY <2>1, <2>2
  <2> QED
    BY <2>3
<1> QED
  BY <1>1, <1>2

\* What a transfer may move: no more than the count has left, and no more than
\* the pack; when it moves all of that, the count is done or the pack is at its end.
LEMMA MayMove ==
  ASSUME RhTypes
  PROVE  /\ Words \in 0 .. WMax /\ Words <= WMax - loc.wc
         /\ loc.at[1] < loc.cyls /\ loc.at[2] < Trks /\ loc.at[3] < Secs /\ Words # WMax - loc.wc
              => Sectors(loc.at, Words)[1] = loc.cyls
<1> DEFINE at == loc.at
           cyls == loc.cyls
           all == cyls * Trks * Secs
           rest == all - Block(at)
           most == Max({rest, 0})
           left == most * WPS
<1>0. /\ Trks \in Nat \ {0} /\ Secs \in Nat \ {0} /\ WPS \in Nat \ {0} /\ WMax \in Nat \ {0}
      /\ Small \in Nat /\ Large \in Nat
  BY Sizes
<1>1. at \in Places /\ loc.wc \in 0 .. WMax - 1
  BY DEF RhTypes, IoTypes
<1>2. cyls \in Nat
  BY DEF RhTypes, IoTypes
<1>3. Block(at) \in Nat
  <2>1. at[1] \in Nat /\ at[2] \in Nat /\ at[3] \in Nat
    BY <1>1 DEF Places
  <2>2. at[1] * Trks + at[2] \in Nat
    BY <1>0, <2>1
  <2>3. (at[1] * Trks + at[2]) * Secs + at[3] \in Nat
    BY <1>0, <2>1, <2>2
  <2> QED
    BY <2>3 DEF Block
<1> HIDE DEF at, cyls
<1>4. cyls * Trks \in Nat /\ all \in Nat
  BY <1>0, <1>2, Product
<1>5. rest \in Int
  BY <1>3, <1>4
<1> HIDE DEF all
<1>6. most = IF rest <= 0 THEN 0 ELSE rest
  <2> HIDE DEF rest
  <2>1. 0 \in Int
    OBVIOUS
  <2> QED
    BY <1>5, <2>1, OfTwo, Zenon
<1>7. most \in Nat
  BY <1>5, <1>6
<1> HIDE DEF most
<1>8. left \in Nat
  BY <1>0, <1>7
<1>9. Words = Min({WMax - loc.wc, left})
  BY DEF Words, Left, left, most, rest, all, cyls, at
<1> HIDE DEF left
<1>10. WMax - loc.wc \in 1 .. WMax
  BY <1>0, <1>1
<1>11. Words = IF WMax - loc.wc <= left THEN WMax - loc.wc ELSE left
  BY <1>8, <1>9, <1>10, OfTwo
<1>12. ASSUME at[1] < cyls, at[2] < Trks, at[3] < Secs, Words # WMax - loc.wc
       PROVE  Sectors(at, Words)[1] = cyls
  <2>1. Words = most * WPS /\ Words \in Nat
    BY <1>8, <1>11, <1>12 DEF left
  <2>2. Sectors(at, Words) = Address(Block(at) + ((Words + WPS - 1) \div WPS))
    BY <1>1, <1>12, <2>1, SectorsAre
  <2>3. (Words + WPS - 1) \div WPS = most
    BY <1>7, <2>1, RoundUp
  <2>4. Block(at) <= all
    <3>1. at[1] \in Nat /\ at[2] \in Nat /\ at[3] \in Nat
      BY <1>1 DEF Places
    <3>2. at[1] + 1 \in Nat /\ at[1] + 1 <= cyls
      BY <1>2, <1>12, <3>1
    <3>3. /\ (at[1] + 1) * Trks <= cyls * Trks /\ (at[1] + 1) * Trks = at[1] * Trks + Trks
          /\ at[1] * Trks \in Nat
      BY <1>0, <1>2, <3>1, <3>2, Product
    <3>4. at[1] * Trks + at[2] + 1 \in Nat /\ at[1] * Trks + at[2] + 1 <= cyls * Trks
      BY <1>0, <1>4, <1>12, <3>1, <3>3
    <3> DEFINE c == at[1] * Trks + at[2]
    <3>5. c \in Nat /\ c + 1 <= cyls * Trks
      BY <3>1, <3>3, <3>4
    <3> HIDE DEF c
    <3>6. /\ (c + 1) * Secs <= (cyls * Trks) * Secs /\ (c + 1) * Secs = c * Secs + Secs
          /\ c * Secs \in Nat
      BY <1>0, <1>4, <3>5, Product
    <3>7. Block(at) = c * Secs + at[3] /\ all = (cyls * Trks) * Secs
      BY DEF Block, c, all
    <3>8. (cyls * Trks) * Secs \in Nat
      BY <1>4, <3>7
    <3> QED
      BY <1>0, <1>12, <3>1, <3>6, <3>7, <3>8
  <2>5. most = rest
    BY <1>3, <1>4, <1>6, <2>4
  <2>6. Block(at) + most = all
    BY <1>3, <1>4, <2>5
  <2>7. all \div (Secs * Trks) = cyls
    <3>1. all = cyls * (Secs * Trks) + 0 /\ Secs * Trks \in Nat
      BY <1>0, <1>2 DEF all
    <3>2. Secs * Trks # 0
      BY <1>0, Product
    <3> DEFINE n == Secs * Trks
    <3>3. n \in Nat \ {0} /\ 0 \in 0 .. n - 1
      BY <3>1, <3>2
    <3> HIDE DEF n
    <3>4. (cyls * n + 0) \div n = cyls
      BY <1>2, <3>3, Quotient
    <3> QED
      BY <3>1, <3>4 DEF n
  <2> QED
    BY <2>2, <2>3, <2>6, <2>7 DEF Address
<1>13. Words \in 0 .. WMax /\ Words <= WMax - loc.wc
  BY <1>0, <1>1, <1>8, <1>10, <1>11
<1> QED
  BY <1>12, <1>13, Zenon DEF at, cyls

-----------------------------------------------------------------------------
(* Types. *)

\* What a record of a drive keeps when fields of it are set.
LEMMA DriveRegsKept ==
  ASSUME NEW r \in DriveRegs, NEW f \in Fns \cup {"DCLR"}, NEW at \in Places, NEW cc \in 0 .. Large,
         NEW b \in BOOLEAN, NEW c \in BOOLEAN
  PROVE  /\ Ends(r) \in DriveRegs
         /\ [r EXCEPT !.fn = f, !.go = TRUE, !.fin = TRUE, !.dry = FALSE, !.at = at] \in DriveRegs
         /\ [r EXCEPT !.err = b] \in DriveRegs /\ [r EXCEPT !.fin = b] \in DriveRegs
         /\ [r EXCEPT !.cc = cc] \in DriveRegs /\ [r EXCEPT !.sip = b] \in DriveRegs
         /\ [r EXCEPT !.err = b, !.dry = c] \in DriveRegs /\ [r EXCEPT !.pip = b, !.sip = c] \in DriveRegs
         /\ [r EXCEPT !.sip = b, !.cc = cc] \in DriveRegs
         /\ [r EXCEPT !.pip = b, !.fin = c, !.cc = cc] \in DriveRegs
         /\ [r EXCEPT !.at = at, !.lst = b, !.cc = cc] \in DriveRegs
<1>0. "DCLR" \in Fns \cup {"DCLR"}
  OBVIOUS
<1>1. Ends(r) \in DriveRegs
  BY <1>0 DEF Ends, DriveRegs
<1>2. [r EXCEPT !.fn = f, !.go = TRUE, !.fin = TRUE, !.dry = FALSE, !.at = at] \in DriveRegs
  BY DEF DriveRegs
<1>3. [r EXCEPT !.err = b] \in DriveRegs /\ [r EXCEPT !.fin = b] \in DriveRegs
  BY DEF DriveRegs
<1>4. [r EXCEPT !.cc = cc] \in DriveRegs /\ [r EXCEPT !.sip = b] \in DriveRegs
  BY DEF DriveRegs
<1>5. [r EXCEPT !.err = b, !.dry = c] \in DriveRegs /\ [r EXCEPT !.pip = b, !.sip = c] \in DriveRegs
  BY DEF DriveRegs
<1>6. [r EXCEPT !.sip = b, !.cc = cc] \in DriveRegs
  BY DEF DriveRegs
<1>7. [r EXCEPT !.pip = b, !.fin = c, !.cc = cc] \in DriveRegs
  BY DEF DriveRegs
<1>8. [r EXCEPT !.at = at, !.lst = b, !.cc = cc] \in DriveRegs
  BY DEF DriveRegs
<1> QED
  BY <1>1, <1>2, <1>3, <1>4, <1>5, <1>6, <1>7, <1>8

\* One drive changes, and its record stays one.
LEMMA DriveSet ==
  ASSUME DrTypes, NEW d \in Drives, NEW r \in DriveRegs, dr' = [dr EXCEPT ![d] = r]
  PROVE  DrTypes'
BY DEF DrTypes

\* What an action makes of the drive's registers.
LEMMA DriveActs ==
  ASSUME RhTypes, NEW d \in Drives
  PROVE  /\ DriveClear(d) => dr' = [dr EXCEPT ![d] = [Ends(dr[d]) EXCEPT !.err = FALSE]]
         /\ Illegal(d) => dr' = [dr EXCEPT ![d] = [dr[d] EXCEPT !.err = TRUE, !.dry = TRUE]]
         /\ SeekBad(d) => dr' = [dr EXCEPT ![d] = [Ends(dr[d]) EXCEPT !.err = TRUE]]
         /\ SeekBegin(d) => dr' = [dr EXCEPT ![d] = [dr[d] EXCEPT !.pip = TRUE, !.sip = TRUE]]
         /\ SeekEnd(d) => dr' = [dr EXCEPT ![d] = Ends(dr[d])]
         /\ RecalBegin(d) => dr' = [dr EXCEPT ![d] = [dr[d] EXCEPT !.pip = TRUE, !.fin = FALSE, !.cc = Large]]
         /\ RecalEnd(d) => dr' = [dr EXCEPT ![d] = [Ends(dr[d]) EXCEPT !.cc = 0]]
         /\ XferBad(d) => dr' = [dr EXCEPT ![d] = [Ends(dr[d]) EXCEPT !.err = TRUE]]
         /\ XferSeek(d) => dr' = [dr EXCEPT ![d] = [dr[d] EXCEPT !.sip = TRUE]]
         /\ XferStart(d) => dr' = [dr EXCEPT ![d] = [dr[d] EXCEPT !.fin = FALSE]]
         /\ Step(d) => dr' = [dr EXCEPT ![d] = [dr[d] EXCEPT !.sip = FALSE, !.cc = dr[d].at[1]]]
         /\ XferPost(d) => dr' = [dr EXCEPT ![d] = [Ends(dr[d]) EXCEPT
              !.at = xfer.at, !.lst = (xfer.at[1] > MaxCyl(d)), !.cc = Min({xfer.at[1], MaxCyl(d)})]]
<1>0. d \in DOMAIN dr
  BY DEF RhTypes, DrTypes
<1>1. DriveClear(d) => dr' = [dr EXCEPT ![d] = [Ends(dr[d]) EXCEPT !.err = FALSE]]
  BY <1>0 DEF DriveClear
<1>2. Illegal(d) => dr' = [dr EXCEPT ![d] = [dr[d] EXCEPT !.err = TRUE, !.dry = TRUE]]
  BY <1>0 DEF Illegal
<1>3. SeekBad(d) => dr' = [dr EXCEPT ![d] = [Ends(dr[d]) EXCEPT !.err = TRUE]]
  BY <1>0 DEF SeekBad
<1>4. SeekBegin(d) => dr' = [dr EXCEPT ![d] = [dr[d] EXCEPT !.pip = TRUE, !.sip = TRUE]]
  BY <1>0 DEF SeekBegin
<1>5. SeekEnd(d) => dr' = [dr EXCEPT ![d] = Ends(dr[d])]
  BY <1>0 DEF SeekEnd
<1>6. RecalBegin(d) => dr' = [dr EXCEPT ![d] = [dr[d] EXCEPT !.pip = TRUE, !.fin = FALSE, !.cc = Large]]
  BY <1>0 DEF RecalBegin
<1>7. RecalEnd(d) => dr' = [dr EXCEPT ![d] = [Ends(dr[d]) EXCEPT !.cc = 0]]
  BY <1>0 DEF RecalEnd
<1>8. XferBad(d) => dr' = [dr EXCEPT ![d] = [Ends(dr[d]) EXCEPT !.err = TRUE]]
  BY <1>0 DEF XferBad
<1>9. XferSeek(d) => dr' = [dr EXCEPT ![d] = [dr[d] EXCEPT !.sip = TRUE]]
  BY <1>0 DEF XferSeek
<1>10. XferStart(d) => dr' = [dr EXCEPT ![d] = [dr[d] EXCEPT !.fin = FALSE]]
  BY <1>0 DEF XferStart
<1>11. Step(d) => dr' = [dr EXCEPT ![d] = [dr[d] EXCEPT !.sip = FALSE, !.cc = dr[d].at[1]]]
  BY <1>0 DEF Step
<1>12. XferPost(d) => dr' = [dr EXCEPT ![d] = [Ends(dr[d]) EXCEPT
           !.at = xfer.at, !.lst = (xfer.at[1] > MaxCyl(d)), !.cc = Min({xfer.at[1], MaxCyl(d)})]]
  BY <1>0 DEF XferPost
<1> QED
  BY <1>1, <1>2, <1>3, <1>4, <1>5, <1>6, <1>7, <1>8, <1>9, <1>10, <1>11, <1>12

\* What a command makes of them.
LEMMA Given ==
  ASSUME DrTypes, NEW d \in Drives, NEW f, NEW at, Give(d, f, at)
  PROVE  dr' = [dr EXCEPT ![d] = [dr[d] EXCEPT !.fn = f, !.go = TRUE, !.fin = TRUE, !.dry = FALSE, !.at = at]]
BY DEF Give, DrTypes

\* A step is one of these.
LEMMA Steps ==
  ASSUME RhTypes, "ILX" \notin Fns, [Next]_vars
  PROVE  \/ \E d \in Drives :
              \/ Fpga(d) \/ Refused(d) \/ CmdUnload(d)
              \/ \E f \in Fns \ Transfers, at \in Places : GiveMotion(d, f, at)
              \/ \E f \in Fns \cap Transfers, a \in Asks : GiveTransfer(d, f, a)
              \/ \E f \in Files : LoadBegins(d, f)
         \/ Io \/ Clear \/ InitOn \/ InitOff \/ LoadOpen \/ LoadFails \/ LoadDone
         \/ LoadClose \/ LoadEmpty \/ LoadType
         \/ UNCHANGED vars
<1>2. Fns \cap XferClass = Fns \cap Transfers /\ Fns \ XferClass = Fns \ Transfers
  BY DEF XferClass
<1>1. \A d \in Drives : {a.at : a \in Asks} \cup {dr[d].at} \subseteq Places
  BY RhAssumption DEF RhAssumption, Places, RhTypes, DrTypes, DriveRegs
<1> QED
  BY <1>1, <1>2 DEF Next, Load

\* What transfers ask is of the right kind.
LEMMA AsksTyped ==
  ASSUME NEW a \in Asks
  PROVE  a.at \in Places /\ a.wc \in 0 .. WMax - 1 /\ a.ba \in Nat /\ a.inh \in BOOLEAN
BY RhAssumption DEF RhAssumption, Places

\* The last cylinder of a drive.
LEMMA LastCyl ==
  ASSUME NEW d \in Drives
  PROVE  MaxCyl(d) \in 0 .. Large - 1
BY Sizes DEF MaxCyl

\* The registers of the drives keep their types.
LEMMA DrTyped ==
  ASSUME RhTypes, OneDrive, "ILX" \notin Fns, [Next]_vars
  PROVE  DrTypes'
<1> USE DEF RhTypes
<1>0. Large \in 0 .. Large /\ 0 \in 0 .. Large
  BY Sizes
<1>1. ASSUME NEW d \in Drives, Fpga(d) PROVE DrTypes'
  <2>1. CASE DriveClear(d)
    <4>1. [Ends(dr[d]) EXCEPT !.err = FALSE] \in DriveRegs
      BY DEF Ends, DrTypes, DriveRegs
    <4>2. dr' = [dr EXCEPT ![d] = [Ends(dr[d]) EXCEPT !.err = FALSE]]
      BY <2>1, DriveActs
    <4> QED
      BY <4>1, <4>2, DriveSet
  <2>2. CASE Illegal(d)
    <4>1. [dr[d] EXCEPT !.err = TRUE, !.dry = TRUE] \in DriveRegs
      BY DEF Ends, DrTypes, DriveRegs
    <4>2. dr' = [dr EXCEPT ![d] = [dr[d] EXCEPT !.err = TRUE, !.dry = TRUE]]
      BY <2>2, DriveActs
    <4> QED
      BY <4>1, <4>2, DriveSet
  <2>3. CASE SeekBad(d)
    <4>1. [Ends(dr[d]) EXCEPT !.err = TRUE] \in DriveRegs
      BY DEF Ends, DrTypes, DriveRegs
    <4>2. dr' = [dr EXCEPT ![d] = [Ends(dr[d]) EXCEPT !.err = TRUE]]
      BY <2>3, DriveActs
    <4> QED
      BY <4>1, <4>2, DriveSet
  <2>4. CASE SeekBegin(d)
    <4>1. [dr[d] EXCEPT !.pip = TRUE, !.sip = TRUE] \in DriveRegs
      BY DEF Ends, DrTypes, DriveRegs
    <4>2. dr' = [dr EXCEPT ![d] = [dr[d] EXCEPT !.pip = TRUE, !.sip = TRUE]]
      BY <2>4, DriveActs
    <4> QED
      BY <4>1, <4>2, DriveSet
  <2>5. CASE Step(d)
    <4>0. dr[d].at[1] \in 0 .. Large
      BY <2>5, LastCyl, Sizes DEF Step, OneDrive, Alone, DrTypes, DriveRegs, Places
    <4>1. [dr[d] EXCEPT !.sip = FALSE, !.cc = dr[d].at[1]] \in DriveRegs
      BY <4>0 DEF Ends, DrTypes, DriveRegs
    <4>2. dr' = [dr EXCEPT ![d] = [dr[d] EXCEPT !.sip = FALSE, !.cc = dr[d].at[1]]]
      BY <2>5, DriveActs
    <4> QED
      BY <4>1, <4>2, DriveSet
  <2>6. CASE SeekEnd(d)
    <4>1. Ends(dr[d]) \in DriveRegs
      BY DEF Ends, DrTypes, DriveRegs
    <4>2. dr' = [dr EXCEPT ![d] = Ends(dr[d])]
      BY <2>6, DriveActs
    <4> QED
      BY <4>1, <4>2, DriveSet
  <2>7. CASE RecalBegin(d)
    <4>1. [dr[d] EXCEPT !.pip = TRUE, !.fin = FALSE, !.cc = Large] \in DriveRegs
      BY <1>0 DEF Ends, DrTypes, DriveRegs
    <4>2. dr' = [dr EXCEPT ![d] = [dr[d] EXCEPT !.pip = TRUE, !.fin = FALSE, !.cc = Large]]
      BY <2>7, DriveActs
    <4> QED
      BY <4>1, <4>2, DriveSet
  <2>8. CASE RecalEnd(d)
    <4>1. [Ends(dr[d]) EXCEPT !.cc = 0] \in DriveRegs
      BY <1>0 DEF Ends, DrTypes, DriveRegs
    <4>2. dr' = [dr EXCEPT ![d] = [Ends(dr[d]) EXCEPT !.cc = 0]]
      BY <2>8, DriveActs
    <4> QED
      BY <4>1, <4>2, DriveSet
  <2>9. CASE XferBad(d)
    <4>1. [Ends(dr[d]) EXCEPT !.err = TRUE] \in DriveRegs
      BY DEF Ends, DrTypes, DriveRegs
    <4>2. dr' = [dr EXCEPT ![d] = [Ends(dr[d]) EXCEPT !.err = TRUE]]
      BY <2>9, DriveActs
    <4> QED
      BY <4>1, <4>2, DriveSet
  <2>10. CASE XferSeek(d)
    <4>1. [dr[d] EXCEPT !.sip = TRUE] \in DriveRegs
      BY DEF Ends, DrTypes, DriveRegs
    <4>2. dr' = [dr EXCEPT ![d] = [dr[d] EXCEPT !.sip = TRUE]]
      BY <2>10, DriveActs
    <4> QED
      BY <4>1, <4>2, DriveSet
  <2>11. CASE XferStart(d)
    <4>1. [dr[d] EXCEPT !.fin = FALSE] \in DriveRegs
      BY DEF Ends, DrTypes, DriveRegs
    <4>2. dr' = [dr EXCEPT ![d] = [dr[d] EXCEPT !.fin = FALSE]]
      BY <2>11, DriveActs
    <4> QED
      BY <4>1, <4>2, DriveSet
  <2>12. CASE XferPost(d)
    <4>0. xfer.at \in Places /\ Min({xfer.at[1], MaxCyl(d)}) \in 0 .. Large
      <5>1. xfer.at \in Places /\ xfer.at[1] \in Nat
        BY DEF XferTypes, Places
      <5>2. MaxCyl(d) \in 0 .. Large - 1
        BY LastCyl
      <5>3. Min({xfer.at[1], MaxCyl(d)}) = IF xfer.at[1] <= MaxCyl(d) THEN xfer.at[1] ELSE MaxCyl(d)
        BY <5>1, <5>2, OfTwo
      <5> QED
        BY <5>1, <5>2, <5>3, Sizes
    <4>1. [Ends(dr[d]) EXCEPT
           !.at = xfer.at, !.lst = (xfer.at[1] > MaxCyl(d)), !.cc = Min({xfer.at[1], MaxCyl(d)})] \in DriveRegs
      <5>1. PICK r : r = Ends(dr[d])
        OBVIOUS
      <5>2. r \in DriveRegs
        BY <5>1 DEF Ends, DrTypes, DriveRegs
      <5>3. PICK c \in 0 .. Large : c = Min({xfer.at[1], MaxCyl(d)})
        BY <4>0
      <5>4. PICK b : b = (xfer.at[1] > MaxCyl(d))
        OBVIOUS
      <5>6. b \in BOOLEAN
        BY <5>4
      <5>5. [r EXCEPT !.at = xfer.at, !.lst = b, !.cc = c] \in DriveRegs
        BY <4>0, <5>2, <5>6 DEF DriveRegs
      <5> QED
        BY <5>1, <5>3, <5>4, <5>5
    <4>2. dr' = [dr EXCEPT ![d] = [Ends(dr[d]) EXCEPT
           !.at = xfer.at, !.lst = (xfer.at[1] > MaxCyl(d)), !.cc = Min({xfer.at[1], MaxCyl(d)})]]
      BY <2>12, DriveActs
    <4> QED
      BY <4>1, <4>2, DriveSet
  <2> QED
    BY <1>1, <2>1, <2>2, <2>3, <2>4, <2>5, <2>6, <2>7, <2>8, <2>9, <2>10, <2>11, <2>12 DEF Fpga
<1>2. CASE Io
  <2>1. CASE IoLook
    BY <2>1 DEF IoLook, IoUnch, DrTypes
  <2>2. CASE IoStatus
    BY <2>2 DEF IoStatus, IoUnch, DrTypes
  <2>3. CASE IoWrite1
    BY <2>3 DEF IoWrite1, IoUnch, DrTypes
  <2>4. CASE IoCleared
    BY <2>4 DEF IoCleared, IoUnch, DrTypes
  <2>5. CASE IoSetup
    BY <2>5 DEF IoSetup, IoUnch, DrTypes
  <2>6. CASE IoMove
    BY <2>6 DEF IoMove, IoUnch, DrTypes
  <2>7. CASE IoEnd2
    BY <2>7 DEF IoEnd2, IoUnch, DrTypes
  <2>8. CASE IoEnd3
    BY <2>8 DEF IoEnd3, IoUnch, DrTypes
  <2> QED
    BY <1>2, <2>1, <2>2, <2>3, <2>4, <2>5, <2>6, <2>7, <2>8 DEF Io
<1>3. ASSUME NEW d \in Drives, NEW f \in Fns \ Transfers, NEW at \in Places, GiveMotion(d, f, at)
     PROVE  DrTypes'
  <3>1. [dr[d] EXCEPT !.fn = f, !.go = TRUE, !.fin = TRUE, !.dry = FALSE, !.at = at] \in DriveRegs
    BY DEF Ends, DrTypes, DriveRegs
  <3>2. dr' = [dr EXCEPT ![d] = [dr[d] EXCEPT !.fn = f, !.go = TRUE, !.fin = TRUE, !.dry = FALSE, !.at = at]]
    <4>1. Give(d, f, at) /\ f \in Fns
      BY <1>3 DEF GiveMotion
    <4> QED
      BY <4>1 DEF Give, DrTypes
  <3> QED
    BY <3>1, <3>2, DriveSet
<1>4. ASSUME NEW d \in Drives, NEW f \in Fns \cap Transfers, NEW a \in Asks, GiveTransfer(d, f, a)
     PROVE  DrTypes'
  <3>0. a.at \in Places
    BY AsksTyped
  <3>1. [dr[d] EXCEPT !.fn = f, !.go = TRUE, !.fin = TRUE, !.dry = FALSE, !.at = a.at] \in DriveRegs
    BY <3>0 DEF Ends, DrTypes, DriveRegs
  <3>2. dr' = [dr EXCEPT ![d] = [dr[d] EXCEPT !.fn = f, !.go = TRUE, !.fin = TRUE, !.dry = FALSE, !.at = a.at]]
    <4>1. Give(d, f, a.at) /\ f \in Fns
      BY <1>4 DEF GiveTransfer
    <4> QED
      BY <3>0, <4>1 DEF Give, DrTypes
  <3> QED
    BY <3>1, <3>2, DriveSet
<1>5. ASSUME NEW d \in Drives, Refused(d) PROVE DrTypes'
  BY <1>5 DEF Refused, disks, hist, DrTypes
<1>6. ASSUME NEW d \in Drives, CmdUnload(d) PROVE DrTypes'
  BY <1>6 DEF CmdUnload, CmdUnch, ctlr, hist, disks, DrTypes
<1>7. ASSUME NEW d \in Drives, NEW f \in Files, LoadBegins(d, f) PROVE DrTypes'
  BY <1>7 DEF LoadBegins, CmdUnch, ctlr, hist, disks, DrTypes
<1>8. CASE Clear
  <3>1. dr' = [d \in Drives |-> [dr[d] EXCEPT !.fn = "DCLR", !.fin = FALSE, !.go = FALSE, !.at[1] = 0, !.cc = 0, !.dry = TRUE,
                                       !.err = FALSE, !.pip = FALSE, !.sip = FALSE, !.lst = FALSE]]
    BY <1>8 DEF Clear, ClearAll
  <3>2. ASSUME NEW d \in Drives PROVE dr'[d] \in DriveRegs
    <4>1. PICK a : a = [dr[d].at EXCEPT ![1] = 0]
      OBVIOUS
    <4>2. a \in Places
      BY <4>1 DEF DrTypes, DriveRegs, Places
    <4>3. dr'[d] = [dr[d] EXCEPT !.fn = "DCLR", !.fin = FALSE, !.go = FALSE, !.at = a, !.cc = 0, !.dry = TRUE,
                                  !.err = FALSE, !.pip = FALSE, !.sip = FALSE, !.lst = FALSE]
      BY <3>1, <4>1 DEF DrTypes, DriveRegs
    <4> QED
      BY <1>0, <4>2, <4>3 DEF DrTypes, DriveRegs
  <3> QED
    BY <3>1, <3>2 DEF DrTypes
<1>9. CASE InitOn
  BY <1>9 DEF InitOn, disks, hist, DrTypes
<1>10. CASE InitOff
  <3>1. dr' = [d \in Drives |-> [dr[d] EXCEPT !.fn = "DCLR", !.fin = FALSE, !.go = FALSE, !.at[1] = 0, !.cc = 0, !.dry = TRUE,
                                       !.err = FALSE, !.pip = FALSE, !.sip = FALSE, !.lst = FALSE]]
    BY <1>10 DEF InitOff, ClearAll
  <3>2. ASSUME NEW d \in Drives PROVE dr'[d] \in DriveRegs
    <4>1. PICK a : a = [dr[d].at EXCEPT ![1] = 0]
      OBVIOUS
    <4>2. a \in Places
      BY <4>1 DEF DrTypes, DriveRegs, Places
    <4>3. dr'[d] = [dr[d] EXCEPT !.fn = "DCLR", !.fin = FALSE, !.go = FALSE, !.at = a, !.cc = 0, !.dry = TRUE,
                                  !.err = FALSE, !.pip = FALSE, !.sip = FALSE, !.lst = FALSE]
      BY <3>1, <4>1 DEF DrTypes, DriveRegs
    <4> QED
      BY <1>0, <4>2, <4>3 DEF DrTypes, DriveRegs
  <3> QED
    BY <3>1, <3>2 DEF DrTypes
<1>11. CASE LoadOpen
  BY <1>11 DEF LoadOpen, CmdUnch, ctlr, hist, disks, DrTypes
<1>12. CASE LoadFails
  BY <1>12 DEF LoadFails, CmdUnch, ctlr, hist, disks, DrTypes
<1>13. CASE LoadDone
  BY <1>13 DEF LoadDone, CmdUnch, ctlr, hist, disks, DrTypes
<1>14. CASE UNCHANGED vars
  BY <1>14 DEF vars, ctlr, disks, hist, DrTypes
<1>15. CASE LoadClose
  BY <1>15 DEF LoadClose, CmdUnch, ctlr, hist, disks, DrTypes
<1>16. CASE LoadEmpty
  BY <1>16 DEF LoadEmpty, CmdUnch, ctlr, hist, disks, DrTypes
<1>17. CASE LoadType
  BY <1>17 DEF LoadType, CmdUnch, ctlr, hist, disks, DrTypes
<1> QED
  BY <1>1, <1>2, <1>3, <1>4, <1>5, <1>6, <1>7, <1>8, <1>9, <1>10, <1>11, <1>12, <1>13, <1>14,
       <1>15, <1>16, <1>17, Steps, Zenon

\* What a clear leaves.
LEMMA Clears ==
  ASSUME ClearAll
  PROVE  /\ rdy' = TRUE /\ cserr' = {} /\ clr' = TRUE /\ wc' = 0 /\ ba' = 0 /\ inh' = FALSE
         /\ UNCHANGED <<xfer, reg1, file, page, io, loc, cmd, asked, kept, did>>
<1>1. rdy' = TRUE /\ cserr' = {} /\ clr' = TRUE /\ wc' = 0 /\ ba' = 0 /\ inh' = FALSE
  BY Zenon DEF ClearAll
<1>2. /\ xfer' = xfer /\ reg1' = reg1 /\ disks' = disks /\ io' = io /\ loc' = loc /\ cmd' = cmd
      /\ hist' = hist
  BY Zenon DEF ClearAll
<1> QED
  BY <1>1, <1>2 DEF disks, hist

\* A move leaves a place and counts of the right kind.
LEMMA MovesTyped ==
  ASSUME RhTypes, IoMove
  PROVE  IoTypes' /\ HistTypes'
<1> USE DEF RhTypes
<1>1. PICK k \in Nat, seen \in Nat, e \in BOOLEAN, n \in BOOLEAN, t \in BOOLEAN : Moved(k, seen, e, n, t)
  <2>1. Words \in 0 .. WMax
    BY MayMove DEF RhTypes
  <2>4. Words \in Nat /\ 0 \in Nat /\ TRUE \in BOOLEAN /\ FALSE \in BOOLEAN
    BY <2>1, Sizes
  <2>5. \A k \in 0 .. Words - 1 : k \in Nat /\ k + 1 \in Nat
    BY <2>1, Sizes
  <2>2. CASE MoveAll
    BY <2>2, <2>4, Zenon DEF MoveAll
  <2>3. CASE MoveSome
    BY <2>3, <2>4, <2>5, Zenon DEF MoveSome
  <2> QED
    BY <2>2, <2>3 DEF IoMove
<1>2. Block(loc.at) \in Nat
  <2>1. /\ loc.at[1] \in Nat /\ loc.at[2] \in Nat /\ loc.at[3] \in Nat
        /\ Trks \in Nat /\ Secs \in Nat
    BY Sizes DEF IoTypes, Places
  <2>2. loc.at[1] * Trks + loc.at[2] \in Nat
    BY <2>1
  <2>3. (loc.at[1] * Trks + loc.at[2]) * Secs \in Nat
    BY <2>1, <2>2
  <2> QED
    BY <2>1, <2>3 DEF Block
<1>3. EndBlock(seen) \in Nat
  BY <1>2, RoundUp DEF EndBlock
<1>4. PICK at \in Places : at = Address(EndBlock(seen))
  BY <1>3, NextAddress
<1>5. PICK w \in 0 .. WMax - 1 : w = (loc.wc + k) % WMax
  <2>1. loc.wc + k \in Nat /\ WMax \in Nat \ {0}
    BY Sizes DEF IoTypes
  <2> QED
    BY <2>1, Divide
<1>6. PICK b \in Nat : b = IF loc.inh THEN loc.ba ELSE loc.ba + k
  BY DEF IoTypes
<1>7. loc' = [loc EXCEPT !.at = at, !.wc = w, !.ba = b, !.wce = e, !.nxm = n, !.fer = t]
  BY <1>1, <1>4, <1>5, <1>6 DEF Moved
<1>8. PICK ok \in BOOLEAN : ok = (~ (e \/ n \/ t))
  OBVIOUS
<1>9. did' = [o |-> Order(loc), cyls |-> loc.cyls, k |-> k, seen |-> seen, ok |-> ok]
  BY <1>1, <1>8 DEF Moved
<1>10. io' = "end2" /\ asked' = asked /\ kept' = kept
  BY DEF IoMove, IoUnch
<1>11. IoTypes'
  BY <1>1, <1>7, <1>10 DEF IoTypes
<1>12. Order(loc) \in Orders
  BY DEF Order, IoTypes, Transfers, Orders
<1>13. loc.cyls \in Nat
  BY DEF IoTypes
<1> QED
  BY <1>8, <1>9, <1>10, <1>11, <1>12, <1>13 DEF HistTypes

\* Selecting a drive writes the address inhibit and the bank.
BusKept == ba' % Bank = ba % Bank /\ (kept' => kept /\ ba' = ba /\ inh' = inh)

LEMMA BusWritten ==
  ASSUME RhTypes, WritesBus
  PROVE  inh' \in BOOLEAN /\ ba' \in Nat /\ kept' \in BOOLEAN /\ BusKept
<1>1. ba \in Nat /\ Bank \in Nat \ {0}
  BY Sizes DEF RhTypes, RegTypes
<1>2. ba % Bank \in 0 .. Bank - 1
  BY <1>1, Divide
<1>3. PICK b \in 0 .. 3 : ba' = b * Bank + (ba % Bank)
  BY DEF WritesBus
<1>4. ba' % Bank = ba % Bank
  <2>1. b \in Nat
    OBVIOUS
  <2>2. PICK r \in 0 .. Bank - 1 : r = ba % Bank
    BY <1>2
  <2>3. (b * Bank + r) % Bank = r
    BY <1>1, <2>1, Quotient
  <2> QED
    BY <1>3, <2>2, <2>3
<1>5. ba' \in Nat
  <2>1. b * Bank \in Nat
    BY <1>1
  <2> QED
    BY <1>1, <1>2, <1>3, <2>1
<1>6. inh' \in BOOLEAN /\ kept' = (kept /\ inh' = inh /\ ba' = ba)
  BY DEF WritesBus
<1>7. kept' \in BOOLEAN /\ (kept' => kept /\ ba' = ba /\ inh' = inh)
  BY <1>6, Zenon
<1> QED
  BY <1>4, <1>5, <1>6, <1>7 DEF BusKept

\* What the files say drives are.
LEMMA StatusTyped ==
  /\ DiskTypes => Status \in Shown
  /\ file' \in [Drives -> Files \cup {None}] /\ page' \in [Drives -> [big : BOOLEAN, ro : BOOLEAN]] => Status' \in Shown
  /\ \A f \in Files : PageOf(f) \in [big : BOOLEAN, ro : BOOLEAN]
<1>1. DiskTypes => Status \in Shown
  BY DEF Status, DiskTypes, Shown
<1>2. file' \in [Drives -> Files \cup {None}] /\ page' \in [Drives -> [big : BOOLEAN, ro : BOOLEAN]] => Status' \in Shown
  BY DEF Status, Shown
<1>3. \A f \in Files : PageOf(f) \in [big : BOOLEAN, ro : BOOLEAN]
  BY DEF PageOf
<1> QED
  BY <1>1, <1>2, <1>3

\* The other variables keep their types.
LEMMA RestTyped ==
  ASSUME RhTypes, OneDrive, "ILX" \notin Fns, [Next]_vars
  PROVE  RegTypes' /\ XferTypes' /\ DiskTypes' /\ IoTypes' /\ CmdTypes' /\ HistTypes'
<1>1. ASSUME NEW d \in Drives, Fpga(d) PROVE RegTypes' /\ XferTypes' /\ DiskTypes' /\ IoTypes' /\ CmdTypes' /\ HistTypes'
  <2>1. CASE DriveClear(d)
    BY <2>1 DEF RhTypes, DriveClear, FpgaUnch, PdpUnch, disks, hist, RegTypes, XferTypes,
         DiskTypes, IoTypes, CmdTypes, HistTypes
  <2>2. CASE Illegal(d)
    <4>1. XferTypes' /\ DiskTypes' /\ IoTypes' /\ CmdTypes' /\ HistTypes'
      BY <2>2 DEF RhTypes, Illegal, FpgaUnch, PdpUnch, disks, hist, XferTypes, DiskTypes, IoTypes,
           CmdTypes, HistTypes
    <4>2. rdy' \in BOOLEAN
      <5>1. rdy' = (rdy \/ dr[d].fn = "ILX")
        BY <2>2 DEF Illegal
      <5> QED
        BY <5>1, Zenon
    <4>3. RegTypes'
      BY <2>2, <4>2 DEF RhTypes, Illegal, FpgaUnch, PdpUnch, disks, RegTypes
    <4> QED
      BY <4>1, <4>3
  <2>3. CASE SeekBad(d)
    BY <2>3 DEF RhTypes, SeekBad, FpgaUnch, PdpUnch, disks, hist, RegTypes, XferTypes,
         DiskTypes, IoTypes, CmdTypes, HistTypes
  <2>4. CASE SeekBegin(d)
    BY <2>4 DEF RhTypes, SeekBegin, FpgaUnch, PdpUnch, disks, hist, RegTypes, XferTypes,
         DiskTypes, IoTypes, CmdTypes, HistTypes
  <2>5. CASE Step(d)
    BY <2>5 DEF RhTypes, Step, FpgaUnch, PdpUnch, disks, hist, RegTypes, XferTypes, DiskTypes,
         IoTypes, CmdTypes, HistTypes
  <2>6. CASE SeekEnd(d)
    BY <2>6 DEF RhTypes, SeekEnd, FpgaUnch, PdpUnch, disks, hist, RegTypes, XferTypes,
         DiskTypes, IoTypes, CmdTypes, HistTypes
  <2>7. CASE RecalBegin(d)
    BY <2>7 DEF RhTypes, RecalBegin, FpgaUnch, PdpUnch, disks, hist, RegTypes, XferTypes,
         DiskTypes, IoTypes, CmdTypes, HistTypes
  <2>8. CASE RecalEnd(d)
    BY <2>8 DEF RhTypes, RecalEnd, FpgaUnch, PdpUnch, disks, hist, RegTypes, XferTypes,
         DiskTypes, IoTypes, CmdTypes, HistTypes
  <2>9. CASE XferBad(d)
    <4>1. XferTypes' /\ DiskTypes' /\ IoTypes' /\ CmdTypes'
      BY <2>9 DEF RhTypes, XferBad, PdpUnch, disks, XferTypes, DiskTypes, IoTypes, CmdTypes
    <4>2. RegTypes'
      BY <2>9 DEF RhTypes, XferBad, PdpUnch, disks, RegTypes
    <4>3. HistTypes'
      BY <2>9, Sizes DEF RhTypes, XferBad, PdpUnch, disks, RegTypes, HistTypes, Nothing, Orders,
           Places, Transfers
    <4> QED
      BY <4>1, <4>2, <4>3
  <2>10. CASE XferSeek(d)
    BY <2>10 DEF RhTypes, XferSeek, FpgaUnch, PdpUnch, disks, hist, RegTypes, XferTypes,
         DiskTypes, IoTypes, CmdTypes, HistTypes
  <2>11. CASE XferStart(d)
    <4>1. RegTypes' /\ DiskTypes' /\ IoTypes' /\ CmdTypes' /\ HistTypes'
      BY <2>11 DEF RhTypes, XferStart, FpgaUnch, PdpUnch, disks, hist, RegTypes, DiskTypes,
           IoTypes, CmdTypes, HistTypes
    <4>2. XferTypes'
      <5>1. dr[d].fn \in Fns /\ dr[d].at \in Places
        BY <2>11 DEF RhTypes, XferStart, CanXfer, Works, Transfers, DrTypes, DriveRegs
      <5>2. PICK b : b = (dr[d].fn = "WCHECK")
        OBVIOUS
      <5>3. b \in BOOLEAN
        BY <5>2
      <5>4. PICK f, at : f = dr[d].fn /\ at = dr[d].at
        OBVIOUS
      <5>5. xfer' = [xfer EXCEPT !.go = TRUE, !.fn = f, !.d = d, !.at = at, !.wce = b]
        BY <2>11, <5>2, <5>4 DEF RhTypes, XferStart
      <5> QED
        BY <5>1, <5>3, <5>4, <5>5 DEF RhTypes, XferTypes
    <4> QED
      BY <4>1, <4>2
  <2>12. CASE XferPost(d)
    <4>1. DiskTypes' /\ IoTypes' /\ CmdTypes'
      BY <2>12 DEF RhTypes, XferPost, PdpUnch, disks, DiskTypes, IoTypes, CmdTypes
    <4>2. RegTypes'
      BY <2>12 DEF RhTypes, XferPost, PdpUnch, disks, RegTypes
    <4>3. XferTypes'
      BY <2>12 DEF RhTypes, XferPost, PdpUnch, disks, RegTypes, XferTypes, Places, NoXfer
    <4>4. HistTypes'
      BY <2>12, Sizes DEF RhTypes, XferPost, PdpUnch, disks, RegTypes, HistTypes, Nothing,
           NotDone, Orders, Places, Transfers
    <4> QED
      BY <4>1, <4>2, <4>3, <4>4
  <2> QED
    BY <1>1, <2>1, <2>2, <2>3, <2>4, <2>5, <2>6, <2>7, <2>8, <2>9, <2>10, <2>11, <2>12 DEF Fpga
<1>2. CASE Io
  <2>1. CASE IoLook
    <4>1. RegTypes' /\ XferTypes' /\ DiskTypes' /\ CmdTypes' /\ HistTypes'
      BY <2>1 DEF RhTypes, IoLook, IoUnch, disks, RegTypes, XferTypes, DiskTypes, CmdTypes,
           HistTypes
    <4>2. IoTypes'
      <5>1. loc' = NoLoc \/ loc' = [NoLoc EXCEPT !.wc = wc, !.wce = xfer.wce]
        BY <2>1 DEF RhTypes, IoLook
      <5>2. wc \in 0 .. WMax - 1 /\ xfer.wce \in BOOLEAN /\ 0 \in 0 .. WMax - 1
        BY Sizes DEF RhTypes, RegTypes, XferTypes
      <5>4. io' \in {"upd", "setup"}
        BY <2>1 DEF RhTypes, IoLook
      <5>5. <<0, 0, 0>> \in Places
        BY DEF RhTypes, Places
      <5>6. CASE loc' = NoLoc
        BY <5>2, <5>4, <5>5, <5>6 DEF RhTypes, IoTypes, NoLoc
      <5>7. CASE loc' = [NoLoc EXCEPT !.wc = wc, !.wce = xfer.wce]
        <6>1. PICK w, b : w = wc /\ b = xfer.wce
          OBVIOUS
        <6>2. loc' = [NoLoc EXCEPT !.wc = w, !.wce = b]
          BY <5>7, <6>1
        <6> QED
          BY <5>2, <5>4, <5>5, <6>1, <6>2 DEF RhTypes, IoTypes, NoLoc
      <5> QED
        BY <5>1, <5>6, <5>7
    <4> QED
      BY <4>1, <4>2
  <2>2. CASE IoStatus
    <4>1. RegTypes' /\ XferTypes' /\ DiskTypes' /\ CmdTypes' /\ HistTypes'
      BY <2>2 DEF RhTypes, IoStatus, IoUnch, disks, RegTypes, XferTypes, DiskTypes, CmdTypes,
           HistTypes
    <4>2. IoTypes'
      <5>1. PICK s : s = Status
        OBVIOUS
      <5>2. s \in Shown
        BY <5>1, StatusTyped DEF RhTypes, RhTypes
      <5>3. loc' = [loc EXCEPT !.st = s] /\ io' = "write1"
        BY <2>2, <5>1 DEF RhTypes, IoStatus
      <5> QED
        BY <5>2, <5>3 DEF RhTypes, IoTypes
    <4> QED
      BY <4>1, <4>2
  <2>3. CASE IoWrite1
    <4>0. loc.st \in Shown
      BY <2>3 DEF RhTypes, IoWrite1, IoTypes
    <4>1. RegTypes' /\ XferTypes' /\ CmdTypes' /\ HistTypes'
      BY <2>3, <4>0 DEF RhTypes, IoWrite1, IoUnch, disks, RegTypes, XferTypes, CmdTypes, HistTypes
    <4>2. IoTypes'
      BY <2>3, <4>0, Sizes DEF RhTypes, IoWrite1, IoUnch, disks, RegTypes, IoTypes, NoLoc, Places
    <4>3. DiskTypes'
      BY <2>3, <4>0 DEF RhTypes, IoWrite1, IoUnch, disks, RegTypes, DiskTypes, Status, PageOf
    <4> QED
      BY <4>1, <4>2, <4>3
  <2>4. CASE IoCleared
    <4>1. XferTypes' /\ DiskTypes' /\ CmdTypes' /\ HistTypes'
      BY <2>4 DEF RhTypes, IoCleared, IoUnch, disks, XferTypes, DiskTypes, CmdTypes, HistTypes
    <4>2. IoTypes'
      BY <2>4 DEF RhTypes, IoCleared, IoUnch, disks, RegTypes, IoTypes, NoLoc, Places
    <4>3. RegTypes'
      BY <2>4 DEF RhTypes, IoCleared, IoUnch, disks, RegTypes
    <4> QED
      BY <4>1, <4>2, <4>3
  <2>5. CASE IoSetup
    <4>1. RegTypes' /\ XferTypes' /\ DiskTypes' /\ CmdTypes' /\ HistTypes'
      BY <2>5 DEF RhTypes, IoSetup, IoUnch, disks, RegTypes, XferTypes, DiskTypes, CmdTypes,
           HistTypes
    <4>2. IoTypes'
      <5>1. PICK f : f = IF xfer.fn = "WRITE" THEN "WRITE" ELSE IF loc.wce THEN "WCHECK" ELSE "READ"
        OBVIOUS
      <5>2. f \in {"READ", "WRITE", "WCHECK"}
        BY <5>1
      <5>5. PICK c : c = Cyls(xfer.d)
        OBVIOUS
      <5>6. c \in Nat
        BY <5>5, Sizes DEF Cyls
      <5>3. loc' = [loc EXCEPT !.d = xfer.d, !.ba = ba, !.inh = inh, !.at = xfer.at, !.cyls = c, !.fn = f]
            /\ io' = "move"
        BY <2>5, <5>1, <5>5 DEF RhTypes, IoSetup
      <5>4. xfer.d \in Drives \cup {None} /\ xfer.at \in Places /\ ba \in Nat /\ inh \in BOOLEAN
        BY DEF RhTypes, XferTypes, RegTypes
      <5> QED
        BY <5>2, <5>3, <5>4, <5>6 DEF RhTypes, IoTypes
    <4> QED
      BY <4>1, <4>2
  <2>6. CASE IoMove
    <4>1. RegTypes' /\ XferTypes' /\ DiskTypes' /\ CmdTypes'
      BY <2>6 DEF RhTypes, IoMove, IoUnch, disks, RegTypes, XferTypes, DiskTypes, CmdTypes
    <4>2. IoTypes'
      BY <2>6, MovesTyped
    <4>3. HistTypes'
      BY <2>6, MovesTyped
    <4> QED
      BY <4>1, <4>2, <4>3
  <2>7. CASE IoEnd2
    <4>1. DiskTypes' /\ CmdTypes' /\ HistTypes'
      BY <2>7 DEF RhTypes, IoEnd2, IoUnch, disks, DiskTypes, CmdTypes, HistTypes
    <4>2. IoTypes'
      BY <2>7 DEF RhTypes, IoEnd2, IoUnch, disks, RegTypes, IoTypes, NoLoc, Places
    <4>3. XferTypes'
      <5>1. PICK at : at = [xfer.at EXCEPT ![1] = loc.at[1]]
        OBVIOUS
      <5>2. at \in Places
        BY <5>1 DEF RhTypes, XferTypes, IoTypes, Places
      <5>3. xfer' = xfer \/ xfer' = [xfer EXCEPT !.at = at]
        BY <2>7, <5>1 DEF RhTypes, IoEnd2, XferTypes
      <5> QED
        BY <5>2, <5>3 DEF RhTypes, XferTypes
    <4>4. RegTypes'
      <5>1. loc.ba \in Nat /\ loc.wc \in 0 .. WMax - 1
        BY DEF RhTypes, IoTypes
      <5>2. /\ UNCHANGED <<init, rdy, cserr, clr, inh>> /\ wc' \in {wc, loc.wc}
            /\ ba' \in {ba, loc.ba}
        BY <2>7 DEF RhTypes, IoEnd2, IoUnch
      <5> QED
        BY <5>1, <5>2 DEF RhTypes, RegTypes
    <4> QED
      BY <4>1, <4>2, <4>3, <4>4
  <2>8. CASE IoEnd3
    <4>1. DiskTypes' /\ CmdTypes' /\ HistTypes'
      BY <2>8 DEF RhTypes, IoEnd3, IoUnch, disks, DiskTypes, CmdTypes, HistTypes
    <4>2. IoTypes'
      BY SMTT(30), <2>8, Sizes DEF RhTypes, IoEnd3, IoUnch, disks, RegTypes, IoTypes, NoLoc, Places
    <4>3. XferTypes'
      <5>1. PICK at : at = <<xfer.at[1], loc.at[2], loc.at[3]>>
        OBVIOUS
      <5>2. at \in Places
        BY <5>1 DEF RhTypes, XferTypes, IoTypes, Places
      <5>3. xfer' = xfer \/ xfer' = [xfer EXCEPT !.go = FALSE, !.at = at, !.wce = loc.wce, !.nxm = loc.nxm, !.fer = loc.fer]
        BY <2>8, <5>1 DEF RhTypes, IoEnd3
      <5>4. loc.wce \in BOOLEAN /\ loc.nxm \in BOOLEAN /\ loc.fer \in BOOLEAN
        BY DEF RhTypes, IoTypes
      <5> QED
        BY <5>2, <5>3, <5>4 DEF RhTypes, XferTypes
    <4>4. RegTypes'
      <5>1. loc.ba \in Nat /\ loc.wc \in 0 .. WMax - 1
        BY DEF RhTypes, IoTypes
      <5>2. /\ UNCHANGED <<init, rdy, cserr, clr, inh>> /\ wc' \in {wc, loc.wc}
            /\ ba' \in {ba, loc.ba}
        BY <2>8 DEF RhTypes, IoEnd3, IoUnch
      <5> QED
        BY <5>1, <5>2 DEF RhTypes, RegTypes
    <4> QED
      BY <4>1, <4>2, <4>3, <4>4
  <2> QED
    BY <1>2, <2>1, <2>2, <2>3, <2>4, <2>5, <2>6, <2>7, <2>8 DEF Io
<1>3. ASSUME NEW d \in Drives, NEW f \in Fns \ Transfers, NEW at \in Places, GiveMotion(d, f, at)
     PROVE  RegTypes' /\ XferTypes' /\ DiskTypes' /\ IoTypes' /\ CmdTypes' /\ HistTypes'
  <3>1. inh' \in BOOLEAN /\ ba' \in Nat /\ kept' \in BOOLEAN
    BY <1>3, BusWritten DEF GiveMotion
  <3>2. XferTypes' /\ DiskTypes' /\ IoTypes' /\ CmdTypes'
    BY <1>3 DEF RhTypes, GiveMotion, Give, disks, XferTypes, DiskTypes, IoTypes, CmdTypes
  <3>3. RegTypes' /\ HistTypes'
    BY <1>3, <3>1 DEF RhTypes, GiveMotion, Give, RegTypes, HistTypes
  <3> QED
    BY <3>2, <3>3
<1>4. ASSUME NEW d \in Drives, NEW f \in Fns \cap Transfers, NEW a \in Asks, GiveTransfer(d, f, a)
     PROVE  RegTypes' /\ XferTypes' /\ DiskTypes' /\ IoTypes' /\ CmdTypes' /\ HistTypes'
  <3>0. a.at \in Places /\ a.wc \in 0 .. WMax - 1 /\ a.ba \in Nat /\ a.inh \in BOOLEAN
    BY AsksTyped
  <3>1. XferTypes' /\ DiskTypes' /\ IoTypes' /\ CmdTypes'
    BY <1>4, <3>0 DEF RhTypes, GiveTransfer, Give, disks, XferTypes, DiskTypes, IoTypes, CmdTypes
  <3>2. RegTypes'
    BY <1>4, <3>0 DEF RhTypes, GiveTransfer, Give, disks, RegTypes
  <3>3. HistTypes'
    BY <1>4, <3>0, Sizes DEF RhTypes, GiveTransfer, Give, disks, RegTypes, HistTypes, Orders
  <3> QED
    BY <3>1, <3>2, <3>3
<1>5. ASSUME NEW d \in Drives, Refused(d) PROVE RegTypes' /\ XferTypes' /\ DiskTypes' /\ IoTypes' /\ CmdTypes' /\ HistTypes'
  <3>1. XferTypes' /\ DiskTypes' /\ IoTypes' /\ CmdTypes'
    BY <1>5 DEF RhTypes, Refused, disks, XferTypes, DiskTypes, IoTypes, CmdTypes
  <3>2. inh' \in BOOLEAN /\ ba' \in Nat /\ kept' \in BOOLEAN
    BY <1>5, BusWritten DEF Refused
  <3>3. RegTypes' /\ HistTypes'
    BY <1>5, <3>2 DEF RhTypes, Refused, RegTypes, HistTypes
  <3> QED
    BY <3>1, <3>3
<1>6. ASSUME NEW d \in Drives, CmdUnload(d) PROVE RegTypes' /\ XferTypes' /\ DiskTypes' /\ IoTypes' /\ CmdTypes' /\ HistTypes'
  <3>1. RegTypes' /\ XferTypes' /\ IoTypes' /\ CmdTypes' /\ HistTypes'
    BY <1>6 DEF RhTypes, CmdUnload, CmdUnch, ctlr, hist, disks, RegTypes, XferTypes, IoTypes,
         CmdTypes, HistTypes
  <3>2. DiskTypes'
    <4>1. /\ file' \in [Drives -> Files \cup {None}]
          /\ page' \in [Drives -> [big : BOOLEAN, ro : BOOLEAN]]
      BY <1>6 DEF RhTypes, CmdUnload, DiskTypes
    <4>2. reg1' \in {reg1, Status'}
      BY <1>6 DEF RhTypes, CmdUnload
    <4> QED
      BY <4>1, <4>2, StatusTyped DEF RhTypes, DiskTypes
  <3> QED
    BY <3>1, <3>2
<1>7. ASSUME NEW d \in Drives, NEW f \in Files, LoadBegins(d, f) PROVE RegTypes' /\ XferTypes' /\ DiskTypes' /\ IoTypes' /\ CmdTypes' /\ HistTypes'
  <3>1. RegTypes' /\ XferTypes' /\ IoTypes' /\ HistTypes'
    BY <1>7 DEF RhTypes, LoadBegins, CmdUnch, ctlr, hist, RegTypes, XferTypes, IoTypes, HistTypes
  <3>2. DiskTypes'
    <4>1. PICK b : b = (f \in ReadOnly)
      OBVIOUS
    <4>2. b \in BOOLEAN
      BY <4>1
    <4>3. page' = [page EXCEPT ![d].ro = b] /\ UNCHANGED <<reg1, file>>
      BY <1>7, <4>1 DEF LoadBegins
    <4> QED
      BY <4>2, <4>3 DEF RhTypes, DiskTypes
  <3>3. CmdTypes'
    BY <1>7 DEF RhTypes, LoadBegins, CmdTypes
  <3> QED
    BY <3>1, <3>2, <3>3
<1>8. CASE Clear
  <3>0. ClearAll
    BY <1>8 DEF RhTypes, Clear
  <3>1. XferTypes' /\ DiskTypes' /\ IoTypes' /\ CmdTypes' /\ HistTypes'
    BY <1>8, <3>0, Clears DEF RhTypes, Clear, XferTypes, DiskTypes, IoTypes, CmdTypes, HistTypes
  <3>2. RegTypes'
    BY <1>8, <3>0, Clears, Sizes DEF RhTypes, Clear, RegTypes
  <3> QED
    BY <3>1, <3>2
<1>9. CASE InitOn
  <3>1. XferTypes' /\ DiskTypes' /\ IoTypes' /\ CmdTypes' /\ HistTypes'
    BY <1>9 DEF RhTypes, InitOn, disks, hist, XferTypes, DiskTypes, IoTypes, CmdTypes, HistTypes
  <3>2. RegTypes'
    BY <1>9 DEF RhTypes, InitOn, disks, hist, RegTypes
  <3> QED
    BY <3>1, <3>2
<1>10. CASE InitOff
  <3>0. ClearAll
    BY <1>10 DEF RhTypes, InitOff
  <3>1. XferTypes' /\ DiskTypes' /\ IoTypes' /\ CmdTypes' /\ HistTypes'
    BY <1>10, <3>0, Clears DEF RhTypes, InitOff, XferTypes, DiskTypes, IoTypes, CmdTypes,
         HistTypes
  <3>2. RegTypes'
    <4>1. init' = FALSE
      BY <1>10 DEF RhTypes, InitOff
    <4> QED
      <5>1. rdy' = TRUE /\ cserr' = {} /\ clr' = TRUE /\ wc' = 0 /\ ba' = 0 /\ inh' = FALSE
        BY <3>0, Clears, Zenon
      <5> QED
        <6>1. init' \in BOOLEAN /\ rdy' \in BOOLEAN /\ clr' \in BOOLEAN /\ inh' \in BOOLEAN
          BY <4>1, <5>1, Zenon
        <6>2. wc' \in 0 .. WMax - 1 /\ ba' \in Nat /\ cserr' \subseteq {"pge", "wce", "nxm"}
          BY <5>1, Sizes
        <6> QED
          BY <6>1, <6>2 DEF RhTypes, RegTypes
  <3> QED
    BY <3>1, <3>2
<1>11. CASE LoadOpen
  <3>1. RegTypes' /\ XferTypes' /\ IoTypes' /\ HistTypes'
    BY <1>11 DEF RhTypes, LoadOpen, CmdUnch, ctlr, hist, disks, RegTypes, XferTypes, IoTypes,
         HistTypes
  <3>2. DiskTypes'
    <4>1. cmd.d \in Drives /\ cmd.f \in Files
      BY <1>11 DEF RhTypes, LoadOpen, CmdTypes
    <4> QED
      BY <1>11, <4>1 DEF RhTypes, LoadOpen, DiskTypes
  <3>3. CmdTypes'
    <4>1. PICK s : s = Status'
      OBVIOUS
    <4>2. s \in Shown
      BY <4>1, <3>2, StatusTyped DEF RhTypes, DiskTypes
    <4>3. cmd' = [cmd EXCEPT !.op = "opened", !.st = s]
      BY <1>11, <4>1 DEF RhTypes, LoadOpen
    <4> QED
      BY <1>11, <4>2, <4>3 DEF RhTypes, LoadOpen, CmdTypes
  <3> QED
    BY <3>1, <3>2, <3>3
<1>12. CASE LoadFails
  <3>1. RegTypes' /\ XferTypes' /\ DiskTypes' /\ IoTypes' /\ HistTypes'
    BY <1>12 DEF RhTypes, LoadFails, CmdUnch, ctlr, hist, disks, RegTypes, XferTypes, DiskTypes,
         IoTypes, HistTypes
  <3>2. CmdTypes'
    BY <1>12 DEF RhTypes, LoadFails, CmdUnch, ctlr, hist, disks, RegTypes, CmdTypes, Idle
  <3> QED
    BY <3>1, <3>2
<1>13. CASE LoadDone
  <3>0. cmd.st \in Shown
    BY <1>13 DEF RhTypes, LoadDone, CmdTypes
  <3>1. RegTypes' /\ XferTypes' /\ IoTypes' /\ HistTypes'
    BY <1>13, <3>0 DEF RhTypes, LoadDone, CmdUnch, ctlr, hist, disks, RegTypes, XferTypes,
         IoTypes, HistTypes
  <3>2. DiskTypes'
    BY <1>13, <3>0 DEF RhTypes, LoadDone, CmdUnch, ctlr, hist, disks, RegTypes, DiskTypes,
         Status, PageOf
  <3>3. CmdTypes'
    BY <1>13, <3>0 DEF RhTypes, LoadDone, CmdUnch, ctlr, hist, disks, RegTypes, CmdTypes, Idle
  <3> QED
    BY <3>1, <3>2, <3>3
<1>14. CASE UNCHANGED vars
  BY <1>14 DEF RhTypes, vars, ctlr, disks, hist, RegTypes, XferTypes, DiskTypes, IoTypes,
       CmdTypes, HistTypes
<1>15. CASE LoadClose
  <3>1. RegTypes' /\ XferTypes' /\ IoTypes' /\ HistTypes'
    BY <1>15 DEF RhTypes, LoadClose, CmdUnch, ctlr, hist, RegTypes, XferTypes, IoTypes, HistTypes
  <3>2. DiskTypes'
    BY <1>15 DEF RhTypes, LoadClose, DiskTypes
  <3>3. CmdTypes'
    <4>1. PICK s : s = Status'
      OBVIOUS
    <4>2. s \in Shown
      BY <4>1, <3>2, StatusTyped DEF DiskTypes
    <4>3. cmd' = [cmd EXCEPT !.op = "closed", !.st = s]
      BY <1>15, <4>1 DEF LoadClose
    <4> QED
      BY <1>15, <4>2, <4>3 DEF RhTypes, LoadClose, CmdTypes
  <3> QED
    BY <3>1, <3>2, <3>3
<1>16. CASE LoadEmpty
  <3>0. cmd.st \in Shown
    BY <1>16 DEF RhTypes, LoadEmpty, CmdTypes
  <3>1. RegTypes' /\ XferTypes' /\ IoTypes' /\ HistTypes'
    BY <1>16 DEF RhTypes, LoadEmpty, CmdUnch, ctlr, hist, RegTypes, XferTypes, IoTypes, HistTypes
  <3>2. DiskTypes'
    BY <1>16, <3>0 DEF RhTypes, LoadEmpty, disks, DiskTypes
  <3>3. CmdTypes'
    BY <1>16 DEF RhTypes, LoadEmpty, CmdTypes
  <3> QED
    BY <3>1, <3>2, <3>3
<1>17. CASE LoadType
  <3>1. RegTypes' /\ XferTypes' /\ IoTypes' /\ HistTypes'
    BY <1>17 DEF RhTypes, LoadType, CmdUnch, ctlr, hist, RegTypes, XferTypes, IoTypes, HistTypes
  <3>2. DiskTypes'
    <4>1. PICK b : b = (cmd.f \in Big)
      OBVIOUS
    <4>2. b \in BOOLEAN
      BY <4>1
    <4>3. page' = [page EXCEPT ![cmd.d].big = b] /\ UNCHANGED <<reg1, file>>
      BY <1>17, <4>1 DEF LoadType
    <4> QED
      BY <4>2, <4>3 DEF RhTypes, DiskTypes
  <3>3. CmdTypes'
    BY <1>17 DEF RhTypes, LoadType, CmdTypes
  <3> QED
    BY <3>1, <3>2, <3>3
<1> QED
  BY <1>1, <1>2, <1>3, <1>4, <1>5, <1>6, <1>7, <1>8, <1>9, <1>10, <1>11, <1>12, <1>13, <1>14,
       <1>15, <1>16, <1>17, Steps, Zenon

-----------------------------------------------------------------------------
(* What drives are is told in time. *)

\* What the files say of the kind of drives is what the page says.
LEMMA StatusTells ==
  ASSUME RhTypes
  PROVE  Tells(Status) /\ Tells(Status)'
BY DEF Status, Tells

\* Packs are replaced by packs of the same kind.
LEMMA PageKept ==
  ASSUME RhTypes, Told, ~ Intrude, "ILX" \notin Fns, [Next]_vars
  PROVE  page' = page
<1>1. ASSUME NEW d \in Drives, NEW f \in Files, LoadBegins(d, f) PROVE page' = page
  <2>1. page[d].ro = (f \in ReadOnly) /\ page' = [page EXCEPT ![d].ro = f \in ReadOnly]
    BY <1>1 DEF LoadBegins, PageOf
  <2> QED
    BY <2>1 DEF RhTypes, DiskTypes
<1>2. CASE LoadType
  <2>1. /\ cmd.d \in Drives /\ page[cmd.d].big = (cmd.f \in Big)
        /\ page' = [page EXCEPT ![cmd.d].big = cmd.f \in Big]
    BY <1>2 DEF LoadType, PageOf, Told, RhTypes, CmdTypes
  <2> QED
    BY <2>1 DEF RhTypes, DiskTypes
<1>3. ASSUME NEW d \in Drives, Fpga(d) \/ Refused(d) \/ CmdUnload(d) PROVE page' = page
  BY <1>3 DEF Fpga, DriveClear, Illegal, SeekBad, SeekBegin, Step, SeekEnd, RecalBegin, RecalEnd,
       XferBad, XferSeek, XferStart, XferPost, FpgaUnch, PdpUnch, Refused, CmdUnload, disks
<1>4. ASSUME NEW d \in Drives, NEW f, NEW at, GiveMotion(d, f, at) \/ GiveTransfer(d, f, at) PROVE page' = page
  BY <1>4 DEF GiveMotion, GiveTransfer, Give, disks
<1>5. CASE Io
  BY <1>5 DEF Io, IoLook, IoStatus, IoWrite1, IoCleared, IoSetup, IoMove, IoEnd2, IoEnd3, IoUnch, disks
<1>6. CASE Clear \/ InitOn \/ InitOff
  BY <1>6 DEF Clear, InitOn, InitOff, ClearAll, disks
<1>7. CASE LoadOpen \/ LoadFails \/ LoadDone \/ LoadClose \/ LoadEmpty \/ UNCHANGED vars
  BY <1>7 DEF LoadOpen, LoadFails, LoadDone, LoadClose, LoadEmpty, vars, disks
<1> QED
  BY <1>1, <1>2, <1>3, <1>4, <1>5, <1>6, <1>7, Steps, Zenon

\* So no step brings back what drives were.
LEMMA ToldStep ==
  ASSUME RhTypes, Told, "ILX" \notin Fns, ~ Intrude, page' = page, [Next]_vars
  PROVE  Told'
<1>1. ASSUME NEW d \in Drives, Fpga(d) PROVE Told'
  <2>1. CASE DriveClear(d)
    BY <2>1 DEF DriveClear, FpgaUnch, PdpUnch, disks, hist, Told, Tells
  <2>2. CASE Illegal(d)
    BY <2>2 DEF Illegal, FpgaUnch, PdpUnch, disks, hist, Told, Tells
  <2>3. CASE SeekBad(d)
    BY <2>3 DEF SeekBad, FpgaUnch, PdpUnch, disks, hist, Told, Tells
  <2>4. CASE SeekBegin(d)
    BY <2>4 DEF SeekBegin, FpgaUnch, PdpUnch, disks, hist, Told, Tells
  <2>5. CASE Step(d)
    BY <2>5 DEF Step, FpgaUnch, PdpUnch, disks, hist, Told, Tells
  <2>6. CASE SeekEnd(d)
    BY <2>6 DEF SeekEnd, FpgaUnch, PdpUnch, disks, hist, Told, Tells
  <2>7. CASE RecalBegin(d)
    BY <2>7 DEF RecalBegin, FpgaUnch, PdpUnch, disks, hist, Told, Tells
  <2>8. CASE RecalEnd(d)
    BY <2>8 DEF RecalEnd, FpgaUnch, PdpUnch, disks, hist, Told, Tells
  <2>9. CASE XferBad(d)
    BY <2>9 DEF XferBad, PdpUnch, disks, Told, Tells
  <2>10. CASE XferSeek(d)
    BY <2>10 DEF XferSeek, FpgaUnch, PdpUnch, disks, hist, Told, Tells
  <2>11. CASE XferStart(d)
    BY <2>11 DEF XferStart, FpgaUnch, PdpUnch, disks, hist, Told, Tells
  <2>12. CASE XferPost(d)
    BY <2>12 DEF XferPost, PdpUnch, disks, Told, Tells
  <2> QED
    BY <1>1, <2>1, <2>2, <2>3, <2>4, <2>5, <2>6, <2>7, <2>8, <2>9, <2>10, <2>11, <2>12 DEF Fpga
<1>2. CASE Io
  <2>1. CASE IoLook
    BY <2>1 DEF IoLook, IoUnch, disks, Told, Tells
  <2>2. CASE IoStatus
    BY <2>2, StatusTells DEF IoStatus, IoUnch, disks, Told, Tells, RhTypes, IoTypes
  <2>3. CASE IoWrite1
    BY <2>3 DEF IoWrite1, IoUnch, disks, Told, Tells
  <2>4. CASE IoCleared
    BY <2>4 DEF IoCleared, IoUnch, disks, Told, Tells
  <2>5. CASE IoSetup
    BY <2>5 DEF IoSetup, IoUnch, disks, Told, Tells
  <2>6. CASE IoMove
    BY <2>6 DEF IoMove, IoUnch, disks, Told, Tells
  <2>7. CASE IoEnd2
    BY <2>7 DEF IoEnd2, IoUnch, disks, Told, Tells
  <2>8. CASE IoEnd3
    BY <2>8 DEF IoEnd3, IoUnch, disks, Told, Tells
  <2> QED
    BY <1>2, <2>1, <2>2, <2>3, <2>4, <2>5, <2>6, <2>7, <2>8 DEF Io
<1>3. ASSUME NEW d \in Drives, NEW f \in Fns \ Transfers, NEW at \in Places, GiveMotion(d, f, at)
     PROVE  Told'
  BY <1>3 DEF GiveMotion, Give, disks, Told, Tells
<1>4. ASSUME NEW d \in Drives, NEW f \in Fns \cap Transfers, NEW a \in Asks, GiveTransfer(d, f, a)
     PROVE  Told'
  BY <1>4 DEF GiveTransfer, Give, disks, Told, Tells
<1>5. ASSUME NEW d \in Drives, Refused(d) PROVE Told'
  BY <1>5 DEF Refused, disks, hist, Told, Tells
<1>6. ASSUME NEW d \in Drives, CmdUnload(d) PROVE Told'
  <3>1. reg1' \in {reg1, Status'} /\ io = "wait" /\ io' = io /\ cmd' = cmd
    BY <1>6 DEF CmdUnload, MutexFree, CmdUnch
  <3>2. Tells(reg1)'
    BY <3>1, StatusTells DEF Tells, Told
  <3> QED
    BY <3>1, <3>2 DEF Told, Tells
<1>7. ASSUME NEW d \in Drives, NEW f \in Files, LoadBegins(d, f) PROVE Told'
  <3>1. /\ UNCHANGED <<reg1, io, loc>> /\ PageOf(f) = page[d]
        /\ cmd'.op = "close" /\ cmd'.d = d /\ cmd'.f = f
    BY <1>7 DEF LoadBegins, CmdUnch
  <3> QED
    BY <3>1 DEF Told, Tells, PageOf
<1>8. CASE Clear
  <3>1. ClearAll
    BY <1>8 DEF Clear
  <3> QED
    BY <3>1, Clears DEF Told, Tells
<1>9. CASE InitOn
  BY <1>9 DEF InitOn, disks, hist, Told, Tells
<1>10. CASE InitOff
  <3>1. ClearAll
    BY <1>10 DEF InitOff
  <3> QED
    BY <3>1, Clears DEF Told, Tells
<1>11. CASE LoadOpen
  <3>1. /\ cmd'.st = Status' /\ cmd'.op = "opened" /\ cmd'.d = cmd.d /\ cmd'.f = cmd.f /\ cmd.op = "open"
        /\ UNCHANGED <<reg1, io, loc>>
    BY <1>11 DEF LoadOpen, CmdUnch, RhTypes, CmdTypes
  <3>2. Tells(cmd.st)'
    BY <3>1, StatusTells DEF Tells
  <3> QED
    BY <3>1, <3>2 DEF Told, Tells, PageOf
<1>12. CASE LoadFails
  BY <1>12 DEF LoadFails, CmdUnch, ctlr, hist, disks, Told, Tells, Idle
<1>13. CASE LoadDone
  <3>1. /\ reg1' \in {reg1, cmd.st} /\ cmd.op = "opened" /\ cmd'.op = "none"
        /\ UNCHANGED <<io, loc>>
    BY <1>13 DEF LoadDone, CmdUnch, Idle
  <3> QED
    BY <3>1 DEF Told, Tells
<1>14. CASE UNCHANGED vars
  BY <1>14 DEF vars, ctlr, disks, hist, Told, Tells
<1>15. CASE LoadClose
  <3>1. /\ cmd'.st = Status' /\ cmd'.op = "closed" /\ cmd'.d = cmd.d /\ cmd'.f = cmd.f /\ cmd.op = "close"
        /\ UNCHANGED <<reg1, io, loc>>
    BY <1>15 DEF LoadClose, CmdUnch, RhTypes, CmdTypes
  <3>2. Tells(cmd.st)'
    BY <3>1, StatusTells DEF Tells
  <3> QED
    BY <3>1, <3>2 DEF Told, Tells, PageOf
<1>16. CASE LoadEmpty
  <3>1. /\ reg1' \in {reg1, cmd.st} /\ cmd.op = "closed"
        /\ cmd'.op = "type" /\ cmd'.d = cmd.d /\ cmd'.f = cmd.f
        /\ UNCHANGED <<io, loc>>
    BY <1>16 DEF LoadEmpty, CmdUnch, RhTypes, CmdTypes
  <3> QED
    BY <3>1 DEF Told, Tells, PageOf
<1>17. CASE LoadType
  <3>1. /\ cmd.op = "type" /\ cmd'.op = "open" /\ cmd'.d = cmd.d /\ cmd'.f = cmd.f
        /\ UNCHANGED <<reg1, io, loc>>
    BY <1>17 DEF LoadType, CmdUnch, RhTypes, CmdTypes
  <3> QED
    BY <3>1 DEF Told, Tells, PageOf
<1> QED
  BY <1>1, <1>2, <1>3, <1>4, <1>5, <1>6, <1>7, <1>8, <1>9, <1>10, <1>11, <1>12, <1>13, <1>14,
       <1>15, <1>16, <1>17, Steps, Zenon

-----------------------------------------------------------------------------
(* What the FPGA's steps change. *)

\* A step of a drive leaves the other drives and the daemon alone.
LEMMA FpgaLeaves ==
  ASSUME RhTypes, NEW d \in Drives, Fpga(d)
  PROVE  /\ \A c \in Drives : c # d => dr'[c] = dr[c]
         /\ UNCHANGED <<init, clr, wc, ba, inh, kept, reg1, file, page, io, loc, cmd>>
         /\ ~ init /\ BusKept
<1>1. ~ init /\ PdpUnch /\ kept' = kept
  BY DEF Fpga, hist, DriveClear, Illegal, SeekBad, SeekBegin, Step, SeekEnd, RecalBegin, RecalEnd,
         XferBad, XferSeek, XferStart, XferPost, CanXfer, Works, FpgaUnch
<1>2. \E r : dr' = [dr EXCEPT ![d] = r]
  BY DriveActs, ZenonT(60) DEF Fpga
<1>3. \A c \in Drives : c # d => dr'[c] = dr[c]
  BY <1>2 DEF RhTypes, DrTypes
<1> QED
  BY <1>1, <1>3 DEF PdpUnch, disks, BusKept

\* A motion ends.
LEMMA Ending ==
  ASSUME RhTypes, NEW d \in Drives, DriveClear(d) \/ SeekBad(d) \/ SeekEnd(d) \/ RecalEnd(d)
  PROVE  /\ dr[d].fn \in {"DCLR", "SEEK", "RECAL"} /\ ~ dr[d].sip
         /\ ~ dr'[d].go /\ dr'[d].sip = dr[d].sip
         /\ UNCHANGED <<rdy, xfer, asked, did>>
<1>1. CASE DriveClear(d)
  <2>1. dr[d] \in DriveRegs /\ dr \in [Drives -> DriveRegs]
    BY DEF RhTypes, DrTypes
  <2>2. PICK r : r = [Ends(dr[d]) EXCEPT !.err = FALSE]
    OBVIOUS
  <2>3. dr' = [dr EXCEPT ![d] = r]
    BY <1>1, <2>2, DriveActs
  <2>4. dr'[d] = r
    BY <2>1, <2>3
  <2>5. ~ r.go /\ r.sip = dr[d].sip
    BY <2>1, <2>2 DEF DriveRegs, Ends
  <2>6. dr[d].fn \in {"DCLR", "SEEK", "RECAL"} /\ ~ dr[d].sip
    BY <1>1, Zenon DEF DriveClear, Works, FpgaUnch, hist
  <2>7. UNCHANGED <<rdy, xfer, asked, did>>
    BY <1>1, Zenon DEF DriveClear, FpgaUnch, hist
  <2> QED
    BY <2>4, <2>5, <2>6, <2>7
<1>2. CASE SeekBad(d)
  <2>1. dr[d] \in DriveRegs /\ dr \in [Drives -> DriveRegs]
    BY DEF RhTypes, DrTypes
  <2>2. PICK r : r = [Ends(dr[d]) EXCEPT !.err = TRUE]
    OBVIOUS
  <2>3. dr' = [dr EXCEPT ![d] = r]
    BY <1>2, <2>2, DriveActs
  <2>4. dr'[d] = r
    BY <2>1, <2>3
  <2>5. ~ r.go /\ r.sip = dr[d].sip
    BY <2>1, <2>2 DEF DriveRegs, Ends
  <2>6. dr[d].fn \in {"DCLR", "SEEK", "RECAL"} /\ ~ dr[d].sip
    BY <1>2, Zenon DEF SeekBad, Works, FpgaUnch, hist
  <2>7. UNCHANGED <<rdy, xfer, asked, did>>
    BY <1>2, Zenon DEF SeekBad, FpgaUnch, hist
  <2> QED
    BY <2>4, <2>5, <2>6, <2>7
<1>3. CASE SeekEnd(d)
  <2>1. dr[d] \in DriveRegs /\ dr \in [Drives -> DriveRegs]
    BY DEF RhTypes, DrTypes
  <2>2. PICK r : r = Ends(dr[d])
    OBVIOUS
  <2>3. dr' = [dr EXCEPT ![d] = r]
    BY <1>3, <2>2, DriveActs
  <2>4. dr'[d] = r
    BY <2>1, <2>3
  <2>5. ~ r.go /\ r.sip = dr[d].sip
    BY <2>1, <2>2 DEF DriveRegs, Ends
  <2>6. dr[d].fn \in {"DCLR", "SEEK", "RECAL"} /\ ~ dr[d].sip
    BY <1>3, Zenon DEF SeekEnd, Works, FpgaUnch, hist
  <2>7. UNCHANGED <<rdy, xfer, asked, did>>
    BY <1>3, Zenon DEF SeekEnd, FpgaUnch, hist
  <2> QED
    BY <2>4, <2>5, <2>6, <2>7
<1>4. CASE RecalEnd(d)
  <2>1. dr[d] \in DriveRegs /\ dr \in [Drives -> DriveRegs]
    BY DEF RhTypes, DrTypes
  <2>2. PICK r : r = [Ends(dr[d]) EXCEPT !.cc = 0]
    OBVIOUS
  <2>3. dr' = [dr EXCEPT ![d] = r]
    BY <1>4, <2>2, DriveActs
  <2>4. dr'[d] = r
    BY <2>1, <2>3
  <2>5. ~ r.go /\ r.sip = dr[d].sip
    BY <2>1, <2>2 DEF DriveRegs, Ends
  <2>6. dr[d].fn \in {"DCLR", "SEEK", "RECAL"} /\ ~ dr[d].sip
    BY <1>4, Zenon DEF RecalEnd, Works, FpgaUnch, hist
  <2>7. UNCHANGED <<rdy, xfer, asked, did>>
    BY <1>4, Zenon DEF RecalEnd, FpgaUnch, hist
  <2> QED
    BY <2>4, <2>5, <2>6, <2>7
<1> QED
  BY <1>1, <1>2, <1>3, <1>4

\* An illegal command leaves GO.
LEMMA IllegalLeaves ==
  ASSUME RhTypes, "ILX" \notin Fns, NEW d \in Drives, Illegal(d)
  PROVE  /\ dr[d].fn \in {"ILF"} /\ ~ dr[d].sip
         /\ dr'[d].fn = dr[d].fn /\ dr'[d].go = dr[d].go /\ dr'[d].fin = dr[d].fin
         /\ dr'[d].at = dr[d].at /\ dr'[d].sip = dr[d].sip
         /\ UNCHANGED <<rdy, xfer, asked, did>>
<1>1. dr[d] \in DriveRegs /\ dr \in [Drives -> DriveRegs]
  BY DEF RhTypes, DrTypes
<1>2. PICK r : r = [dr[d] EXCEPT !.err = TRUE, !.dry = TRUE]
  OBVIOUS
<1>3. dr' = [dr EXCEPT ![d] = r]
  BY <1>2, DriveActs
<1>4. dr'[d] = r
  BY <1>1, <1>3
<1>5. /\ r.fn = dr[d].fn /\ r.go = dr[d].go /\ r.fin = dr[d].fin /\ r.at = dr[d].at
      /\ r.sip = dr[d].sip
  BY <1>1, <1>2 DEF DriveRegs, Ends
<1>6. dr[d].fn = "ILF" /\ ~ dr[d].sip
  BY <1>1 DEF Illegal, Works, DriveRegs
<1>8. UNCHANGED <<xfer, asked, did>> /\ rdy' = (rdy \/ dr[d].fn = "ILX")
  BY Zenon DEF Illegal, FpgaUnch, hist
<1>9. "ILF" # "ILX"
  OBVIOUS
<1>10. rdy' = (rdy \/ FALSE) /\ rdy \in BOOLEAN
  BY <1>6, <1>8, <1>9 DEF RhTypes, RegTypes
<1>7. UNCHANGED <<rdy, xfer, asked, did>>
  BY <1>8, <1>10, Zenon
<1> QED
  BY <1>4, <1>5, <1>6, <1>7

\* A seek begins.
LEMMA SeekBegins ==
  ASSUME RhTypes, NEW d \in Drives, SeekBegin(d)
  PROVE  /\ dr[d].fn \in {"SEEK"} /\ dr[d].go /\ dr[d].at[1] <= MaxCyl(d)
         /\ dr'[d].fn = dr[d].fn /\ dr'[d].go = dr[d].go /\ dr'[d].fin = dr[d].fin
         /\ dr'[d].at = dr[d].at /\ dr'[d].dry = dr[d].dry
         /\ UNCHANGED <<rdy, xfer, asked, did>>
<1>1. dr[d] \in DriveRegs /\ dr \in [Drives -> DriveRegs]
  BY DEF RhTypes, DrTypes
<1>2. PICK r : r = [dr[d] EXCEPT !.pip = TRUE, !.sip = TRUE]
  OBVIOUS
<1>3. dr' = [dr EXCEPT ![d] = r]
  BY <1>2, DriveActs
<1>4. dr'[d] = r
  BY <1>1, <1>3
<1>5. /\ r.fn = dr[d].fn /\ r.go = dr[d].go /\ r.fin = dr[d].fin /\ r.at = dr[d].at
      /\ r.dry = dr[d].dry
  BY <1>1, <1>2 DEF DriveRegs, Ends
<1>6. dr[d].fn \in {"SEEK"} /\ dr[d].go /\ dr[d].at[1] <= MaxCyl(d)
  BY Zenon DEF SeekBegin, Works, FpgaUnch, hist
<1>7. UNCHANGED <<rdy, xfer, asked, did>>
  BY Zenon DEF SeekBegin, FpgaUnch, hist
<1> QED
  BY <1>4, <1>5, <1>6, <1>7

\* A recalibration begins.
LEMMA RecalBegins ==
  ASSUME RhTypes, NEW d \in Drives, RecalBegin(d)
  PROVE  /\ dr[d].fn \in {"RECAL"} /\ ~ dr[d].sip
         /\ dr'[d].fn = dr[d].fn /\ dr'[d].go = dr[d].go /\ dr'[d].at = dr[d].at
         /\ dr'[d].dry = dr[d].dry /\ dr'[d].sip = dr[d].sip
         /\ UNCHANGED <<rdy, xfer, asked, did>>
<1>1. dr[d] \in DriveRegs /\ dr \in [Drives -> DriveRegs]
  BY DEF RhTypes, DrTypes
<1>2. PICK r : r = [dr[d] EXCEPT !.pip = TRUE, !.fin = FALSE, !.cc = Large]
  OBVIOUS
<1>3. dr' = [dr EXCEPT ![d] = r]
  BY <1>2, DriveActs
<1>4. dr'[d] = r
  BY <1>1, <1>3
<1>5. /\ r.fn = dr[d].fn /\ r.go = dr[d].go /\ r.at = dr[d].at /\ r.dry = dr[d].dry
      /\ r.sip = dr[d].sip
  BY <1>1, <1>2 DEF DriveRegs, Ends
<1>6. dr[d].fn \in {"RECAL"} /\ ~ dr[d].sip
  BY Zenon DEF RecalBegin, Works, FpgaUnch, hist
<1>7. UNCHANGED <<rdy, xfer, asked, did>>
  BY Zenon DEF RecalBegin, FpgaUnch, hist
<1> QED
  BY <1>4, <1>5, <1>6, <1>7

\* The heads arrive.
LEMMA HeadsArrive ==
  ASSUME RhTypes, NEW d \in Drives, Step(d)
  PROVE  /\ ~ init
         /\ ~ dr'[d].sip /\ dr'[d].fn = dr[d].fn /\ dr'[d].go = dr[d].go
         /\ dr'[d].fin = dr[d].fin /\ dr'[d].at = dr[d].at /\ dr'[d].dry = dr[d].dry
         /\ UNCHANGED <<rdy, xfer, asked, did>>
<1>1. dr[d] \in DriveRegs /\ dr \in [Drives -> DriveRegs]
  BY DEF RhTypes, DrTypes
<1>2. PICK r : r = [dr[d] EXCEPT !.sip = FALSE, !.cc = dr[d].at[1]]
  OBVIOUS
<1>3. dr' = [dr EXCEPT ![d] = r]
  BY <1>2, DriveActs
<1>4. dr'[d] = r
  BY <1>1, <1>3
<1>5. /\ ~ r.sip /\ r.fn = dr[d].fn /\ r.go = dr[d].go /\ r.fin = dr[d].fin /\ r.at = dr[d].at
      /\ r.dry = dr[d].dry
  BY <1>1, <1>2 DEF DriveRegs, Ends
<1>6. ~ init
  BY Zenon DEF Step, Works, FpgaUnch, hist
<1>7. UNCHANGED <<rdy, xfer, asked, did>>
  BY Zenon DEF Step, FpgaUnch, hist
<1> QED
  BY <1>4, <1>5, <1>6, <1>7

\* A transfer seeks.
LEMMA XferSeeks ==
  ASSUME RhTypes, NEW d \in Drives, XferSeek(d)
  PROVE  /\ dr[d].go /\ dr[d].fn \in Transfers /\ ~ BadAddress(d)
         /\ dr'[d].fn = dr[d].fn /\ dr'[d].go = dr[d].go /\ dr'[d].fin = dr[d].fin
         /\ dr'[d].at = dr[d].at /\ dr'[d].dry = dr[d].dry
         /\ UNCHANGED <<rdy, xfer, asked, did>>
<1>1. dr[d] \in DriveRegs /\ dr \in [Drives -> DriveRegs]
  BY DEF RhTypes, DrTypes
<1>2. PICK r : r = [dr[d] EXCEPT !.sip = TRUE]
  OBVIOUS
<1>3. dr' = [dr EXCEPT ![d] = r]
  BY <1>2, DriveActs
<1>4. dr'[d] = r
  BY <1>1, <1>3
<1>5. /\ r.fn = dr[d].fn /\ r.go = dr[d].go /\ r.fin = dr[d].fin /\ r.at = dr[d].at
      /\ r.dry = dr[d].dry
  BY <1>1, <1>2 DEF DriveRegs, Ends
<1>6. dr[d].go /\ dr[d].fn \in Transfers /\ ~ BadAddress(d)
  BY Zenon DEF XferSeek, Works, FpgaUnch, hist, CanXfer
<1>7. UNCHANGED <<rdy, xfer, asked, did>>
  BY Zenon DEF XferSeek, FpgaUnch, hist, CanXfer
<1> QED
  BY <1>4, <1>5, <1>6, <1>7

\* A transfer is told to the daemon.
LEMMA XferStarts ==
  ASSUME RhTypes, NEW d \in Drives, XferStart(d)
  PROVE  /\ dr[d].go /\ dr[d].fn \in Transfers /\ ~ BadAddress(d) /\ ~ Locked(d) /\ dr[d].fin
         /\ ~ xfer.go /\ ~ dr[d].sip
         /\ ~ dr'[d].fin /\ dr'[d].fn = dr[d].fn /\ dr'[d].go = dr[d].go
         /\ dr'[d].at = dr[d].at /\ dr'[d].dry = dr[d].dry /\ dr'[d].sip = dr[d].sip
         /\ UNCHANGED <<rdy, asked, did>>
<1>1. dr[d] \in DriveRegs /\ dr \in [Drives -> DriveRegs]
  BY DEF RhTypes, DrTypes
<1>2. PICK r : r = [dr[d] EXCEPT !.fin = FALSE]
  OBVIOUS
<1>3. dr' = [dr EXCEPT ![d] = r]
  BY <1>2, DriveActs
<1>4. dr'[d] = r
  BY <1>1, <1>3
<1>5. /\ ~ r.fin /\ r.fn = dr[d].fn /\ r.go = dr[d].go /\ r.at = dr[d].at /\ r.dry = dr[d].dry
      /\ r.sip = dr[d].sip
  BY <1>1, <1>2 DEF DriveRegs, Ends
<1>6. /\ dr[d].go /\ dr[d].fn \in Transfers /\ ~ BadAddress(d) /\ ~ Locked(d) /\ dr[d].fin
      /\ ~ xfer.go /\ ~ dr[d].sip
  BY Zenon DEF XferStart, Works, FpgaUnch, hist, CanXfer
<1>7. UNCHANGED <<rdy, asked, did>>
  BY Zenon DEF XferStart, FpgaUnch, hist, CanXfer
<1> QED
  BY <1>4, <1>5, <1>6, <1>7

\* A transfer is refused.
LEMMA XferRefused ==
  ASSUME RhTypes, NEW d \in Drives, XferBad(d)
  PROVE  /\ dr[d].go /\ dr[d].fn \in Transfers /\ (BadAddress(d) \/ Locked(d)) /\ ~ dr[d].sip
         /\ ~ dr'[d].go /\ dr'[d].sip = dr[d].sip
         /\ rdy' = TRUE /\ asked' = Nothing /\ UNCHANGED <<xfer, did>>
<1>1. dr[d] \in DriveRegs /\ dr \in [Drives -> DriveRegs]
  BY DEF RhTypes, DrTypes
<1>2. PICK r : r = [Ends(dr[d]) EXCEPT !.err = TRUE]
  OBVIOUS
<1>3. dr' = [dr EXCEPT ![d] = r]
  BY <1>2, DriveActs
<1>4. dr'[d] = r
  BY <1>1, <1>3
<1>5. ~ r.go /\ r.sip = dr[d].sip
  BY <1>1, <1>2 DEF DriveRegs, Ends
<1>6. dr[d].go /\ dr[d].fn \in Transfers /\ (BadAddress(d) \/ Locked(d)) /\ ~ dr[d].sip
  BY Zenon DEF XferBad, Works
<1>7. rdy' = TRUE /\ asked' = Nothing /\ UNCHANGED <<xfer, did>>
  BY Zenon DEF XferBad
<1> QED
  BY <1>4, <1>5, <1>6, <1>7

\* The end of a transfer is posted.
LEMMA XferPosts ==
  ASSUME RhTypes, NEW d \in Drives, XferPost(d)
  PROVE  /\ dr[d].go /\ dr[d].fn \in Transfers /\ ~ dr[d].fin /\ ~ xfer.go /\ ~ dr[d].sip
         /\ ~ dr'[d].go /\ dr'[d].sip = dr[d].sip /\ dr'[d].at = xfer.at
         /\ dr'[d].lst = (xfer.at[1] > MaxCyl(d))
         /\ rdy' = TRUE /\ xfer' = NoXfer /\ asked' = Nothing /\ did' = NotDone
<1>1. dr[d] \in DriveRegs /\ dr \in [Drives -> DriveRegs]
  BY DEF RhTypes, DrTypes
<1>2. PICK r : r = [Ends(dr[d]) EXCEPT
       !.at = xfer.at, !.lst = (xfer.at[1] > MaxCyl(d)), !.cc = Min({xfer.at[1], MaxCyl(d)})]
  OBVIOUS
<1>3. dr' = [dr EXCEPT ![d] = r]
  BY <1>2, DriveActs
<1>4. dr'[d] = r
  BY <1>1, <1>3
<1>5. ~ r.go /\ r.sip = dr[d].sip /\ r.at = xfer.at /\ r.lst = (xfer.at[1] > MaxCyl(d))
  BY <1>1, <1>2 DEF DriveRegs, Ends
<1>6. dr[d].go /\ dr[d].fn \in Transfers /\ ~ dr[d].fin /\ ~ xfer.go /\ ~ dr[d].sip
  BY Zenon DEF XferPost, Works, CanXfer
<1>7. rdy' = TRUE /\ xfer' = NoXfer /\ asked' = Nothing /\ did' = NotDone
  BY Zenon DEF XferPost, CanXfer
<1> QED
  BY <1>4, <1>5, <1>6, <1>7

\* What the daemon is told.
LEMMA XferGiven ==
  ASSUME RhTypes, NEW d \in Drives, XferStart(d)
  PROVE  /\ xfer'.go /\ xfer'.fn = dr[d].fn /\ xfer'.d = d /\ xfer'.at = dr[d].at
         /\ xfer'.wce = (dr[d].fn = "WCHECK")
<1>1. PICK f, at, b : f = dr[d].fn /\ at = dr[d].at /\ b = (dr[d].fn = "WCHECK")
  OBVIOUS
<1>2. xfer' = [xfer EXCEPT !.go = TRUE, !.fn = f, !.d = d, !.at = at, !.wce = b]
  BY <1>1 DEF XferStart
<1>3. xfer'.go /\ xfer'.fn = f /\ xfer'.d = d /\ xfer'.at = at /\ xfer'.wce = b
  BY <1>2 DEF RhTypes, XferTypes
<1> QED
  BY <1>1, <1>3

\* A command is given to a drive that is ready.
LEMMA GivenLeaves ==
  ASSUME DrTypes, NEW d \in Drives, NEW f, NEW at, Give(d, f, at)
  PROVE  /\ ~ init /\ dr[d].dry
         /\ dr'[d].fn = f /\ dr'[d].go /\ dr'[d].fin /\ dr'[d].at = at /\ ~ dr'[d].dry
         /\ dr'[d].sip = dr[d].sip
         /\ \A c \in Drives : c # d => dr'[c] = dr[c]
         /\ UNCHANGED <<init, clr, xfer, reg1, file, page, io, loc, cmd, did>>
<1>1. PICK r : r = [dr[d] EXCEPT !.fn = f, !.go = TRUE, !.fin = TRUE, !.dry = FALSE, !.at = at]
  OBVIOUS
<1>2. dr' = [dr EXCEPT ![d] = r]
  BY <1>1 DEF Give, DrTypes
<1>3. dr[d] \in DriveRegs
  BY DEF DrTypes
<1>4. r.fn = f /\ r.go /\ r.fin /\ r.at = at /\ ~ r.dry /\ r.sip = dr[d].sip
  BY <1>1, <1>3 DEF DriveRegs
<1>5. dr'[d] = r /\ \A c \in Drives : c # d => dr'[c] = dr[c]
  BY <1>2 DEF DrTypes
<1> QED
  BY <1>4, <1>5 DEF Give, disks

\* A clear leaves no drive at work.
LEMMA ClearsDrives ==
  ASSUME RhTypes, ClearAll, NEW d \in Drives
  PROVE  ~ dr'[d].go /\ ~ dr'[d].sip
<1>1. PICK a : a = [dr[d].at EXCEPT ![1] = 0]
  OBVIOUS
<1>2. dr' = [c \in Drives |-> [dr[c] EXCEPT !.fn = "DCLR", !.fin = FALSE, !.go = FALSE, !.at[1] = 0, !.cc = 0, !.dry = TRUE,
                                           !.err = FALSE, !.pip = FALSE, !.sip = FALSE, !.lst = FALSE]]
  BY Zenon DEF ClearAll
<1>3. dr'[d] = [dr[d] EXCEPT !.fn = "DCLR", !.fin = FALSE, !.go = FALSE, !.at = a, !.cc = 0, !.dry = TRUE,
                             !.err = FALSE, !.pip = FALSE, !.sip = FALSE, !.lst = FALSE]
  BY <1>1, <1>2 DEF RhTypes, DrTypes, DriveRegs
<1>4. dr[d] \in DriveRegs
  BY DEF RhTypes, DrTypes
<1> QED
  BY <1>3, <1>4 DEF DriveRegs

-----------------------------------------------------------------------------
(* One transfer at a time. *)

\* What a drive is counts as long as its page does.
LEMMA KindKept ==
  ASSUME Told, Told', NEW d \in Drives, page'[d] = page[d]
  PROVE  MaxCyl(d)' = MaxCyl(d) /\ reg1'[d].wrl = reg1[d].wrl
BY DEF Told, Tells, MaxCyl

\* At most one drive has a transfer, after a step too.
LEMMA OneDriveStep ==
  ASSUME RhTypes, Told, Told', OneDrive, Ordered, ~ Intrude, "ILX" \notin Fns, page' = page, [Next]_vars
  PROVE  OneDrive'
<1>1. ASSUME NEW d \in Drives, Fpga(d) PROVE OneDrive'
  <2>1. CASE DriveClear(d)
    <4>1. /\ \A c \in Drives : c # d => dr'[c] = dr[c]
          /\ UNCHANGED <<init, reg1, io>> /\ ~ init
      BY <1>1, FpgaLeaves
    <4>2. ASSUME NEW c \in Drives PROVE MaxCyl(c)' = MaxCyl(c)
      BY <4>1 DEF MaxCyl
    <4>3. ASSUME NEW c \in Drives PROVE Alone(c)'
      <5>1. CASE c = d
        BY <2>1, <4>1, <4>2, <5>1, Ending DEF OneDrive, Alone, Transferring, Transfers
      <5>2. CASE c # d
        BY <2>1, <4>1, <4>2, <5>2, Ending DEF OneDrive, Alone, Transferring, Transfers
      <5> QED
        BY <5>1, <5>2
    <4>4. /\ init' => rdy'
          /\ xfer'.go => xfer'.d \in Drives /\ Transferring(xfer.d)' /\ ~ dr'[xfer'.d].fin
          /\ io' \in {"setup", "move", "end2", "end3"} => xfer'.go
      BY <2>1, <4>1, Ending DEF OneDrive, Alone, Transferring, Transfers
    <4> QED
      BY <4>3, <4>4 DEF OneDrive
  <2>2. CASE Illegal(d)
    <4>1. /\ \A c \in Drives : c # d => dr'[c] = dr[c]
          /\ UNCHANGED <<init, reg1, io>> /\ ~ init
      BY <1>1, FpgaLeaves
    <4>2. ASSUME NEW c \in Drives PROVE MaxCyl(c)' = MaxCyl(c)
      BY <4>1 DEF MaxCyl
    <4>3. ASSUME NEW c \in Drives PROVE Alone(c)'
      <5>1. CASE c = d
        BY <2>2, <4>1, <4>2, <5>1, IllegalLeaves DEF OneDrive, Alone, Transferring, Transfers
      <5>2. CASE c # d
        BY <2>2, <4>1, <4>2, <5>2, IllegalLeaves DEF OneDrive, Alone, Transferring, Transfers
      <5> QED
        BY <5>1, <5>2
    <4>4. /\ init' => rdy'
          /\ xfer'.go => xfer'.d \in Drives /\ Transferring(xfer.d)' /\ ~ dr'[xfer'.d].fin
          /\ io' \in {"setup", "move", "end2", "end3"} => xfer'.go
      BY <2>2, <4>1, IllegalLeaves DEF OneDrive, Alone, Transferring, Transfers
    <4> QED
      BY <4>3, <4>4 DEF OneDrive
  <2>3. CASE SeekBad(d)
    <4>1. /\ \A c \in Drives : c # d => dr'[c] = dr[c]
          /\ UNCHANGED <<init, reg1, io>> /\ ~ init
      BY <1>1, FpgaLeaves
    <4>2. ASSUME NEW c \in Drives PROVE MaxCyl(c)' = MaxCyl(c)
      BY <4>1 DEF MaxCyl
    <4>3. ASSUME NEW c \in Drives PROVE Alone(c)'
      <5>1. CASE c = d
        BY <2>3, <4>1, <4>2, <5>1, Ending DEF OneDrive, Alone, Transferring, Transfers
      <5>2. CASE c # d
        BY <2>3, <4>1, <4>2, <5>2, Ending DEF OneDrive, Alone, Transferring, Transfers
      <5> QED
        BY <5>1, <5>2
    <4>4. /\ init' => rdy'
          /\ xfer'.go => xfer'.d \in Drives /\ Transferring(xfer.d)' /\ ~ dr'[xfer'.d].fin
          /\ io' \in {"setup", "move", "end2", "end3"} => xfer'.go
      BY <2>3, <4>1, Ending DEF OneDrive, Alone, Transferring, Transfers
    <4> QED
      BY <4>3, <4>4 DEF OneDrive
  <2>4. CASE SeekBegin(d)
    <4>1. /\ \A c \in Drives : c # d => dr'[c] = dr[c]
          /\ UNCHANGED <<init, reg1, io>> /\ ~ init
      BY <1>1, FpgaLeaves
    <4>2. ASSUME NEW c \in Drives PROVE MaxCyl(c)' = MaxCyl(c)
      BY <4>1 DEF MaxCyl
    <4>3. ASSUME NEW c \in Drives PROVE Alone(c)'
      <5>1. CASE c = d
        BY <2>4, <4>1, <4>2, <5>1, SeekBegins DEF OneDrive, Alone, Transferring, Transfers
      <5>2. CASE c # d
        BY <2>4, <4>1, <4>2, <5>2, SeekBegins DEF OneDrive, Alone, Transferring, Transfers
      <5> QED
        BY <5>1, <5>2
    <4>4. /\ init' => rdy'
          /\ xfer'.go => xfer'.d \in Drives /\ Transferring(xfer.d)' /\ ~ dr'[xfer'.d].fin
          /\ io' \in {"setup", "move", "end2", "end3"} => xfer'.go
      BY <2>4, <4>1, SeekBegins DEF OneDrive, Alone, Transferring, Transfers
    <4> QED
      BY <4>3, <4>4 DEF OneDrive
  <2>5. CASE Step(d)
    <4>1. /\ \A c \in Drives : c # d => dr'[c] = dr[c]
          /\ UNCHANGED <<init, reg1, io>> /\ ~ init
      BY <1>1, FpgaLeaves
    <4>2. ASSUME NEW c \in Drives PROVE MaxCyl(c)' = MaxCyl(c)
      BY <4>1 DEF MaxCyl
    <4>3. ASSUME NEW c \in Drives PROVE Alone(c)'
      <5>1. CASE c = d
        BY <2>5, <4>1, <4>2, <5>1, HeadsArrive DEF OneDrive, Alone, Transferring, Transfers
      <5>2. CASE c # d
        BY <2>5, <4>1, <4>2, <5>2, HeadsArrive DEF OneDrive, Alone, Transferring, Transfers
      <5> QED
        BY <5>1, <5>2
    <4>4. /\ init' => rdy'
          /\ xfer'.go => xfer'.d \in Drives /\ Transferring(xfer.d)' /\ ~ dr'[xfer'.d].fin
          /\ io' \in {"setup", "move", "end2", "end3"} => xfer'.go
      BY <2>5, <4>1, HeadsArrive DEF OneDrive, Alone, Transferring, Transfers
    <4> QED
      BY <4>3, <4>4 DEF OneDrive
  <2>6. CASE SeekEnd(d)
    <4>1. /\ \A c \in Drives : c # d => dr'[c] = dr[c]
          /\ UNCHANGED <<init, reg1, io>> /\ ~ init
      BY <1>1, FpgaLeaves
    <4>2. ASSUME NEW c \in Drives PROVE MaxCyl(c)' = MaxCyl(c)
      BY <4>1 DEF MaxCyl
    <4>3. ASSUME NEW c \in Drives PROVE Alone(c)'
      <5>1. CASE c = d
        BY <2>6, <4>1, <4>2, <5>1, Ending DEF OneDrive, Alone, Transferring, Transfers
      <5>2. CASE c # d
        BY <2>6, <4>1, <4>2, <5>2, Ending DEF OneDrive, Alone, Transferring, Transfers
      <5> QED
        BY <5>1, <5>2
    <4>4. /\ init' => rdy'
          /\ xfer'.go => xfer'.d \in Drives /\ Transferring(xfer.d)' /\ ~ dr'[xfer'.d].fin
          /\ io' \in {"setup", "move", "end2", "end3"} => xfer'.go
      BY <2>6, <4>1, Ending DEF OneDrive, Alone, Transferring, Transfers
    <4> QED
      BY <4>3, <4>4 DEF OneDrive
  <2>7. CASE RecalBegin(d)
    <4>1. /\ \A c \in Drives : c # d => dr'[c] = dr[c]
          /\ UNCHANGED <<init, reg1, io>> /\ ~ init
      BY <1>1, FpgaLeaves
    <4>2. ASSUME NEW c \in Drives PROVE MaxCyl(c)' = MaxCyl(c)
      BY <4>1 DEF MaxCyl
    <4>3. ASSUME NEW c \in Drives PROVE Alone(c)'
      <5>1. CASE c = d
        BY <2>7, <4>1, <4>2, <5>1, RecalBegins DEF OneDrive, Alone, Transferring, Transfers
      <5>2. CASE c # d
        BY <2>7, <4>1, <4>2, <5>2, RecalBegins DEF OneDrive, Alone, Transferring, Transfers
      <5> QED
        BY <5>1, <5>2
    <4>4. /\ init' => rdy'
          /\ xfer'.go => xfer'.d \in Drives /\ Transferring(xfer.d)' /\ ~ dr'[xfer'.d].fin
          /\ io' \in {"setup", "move", "end2", "end3"} => xfer'.go
      BY <2>7, <4>1, RecalBegins DEF OneDrive, Alone, Transferring, Transfers
    <4> QED
      BY <4>3, <4>4 DEF OneDrive
  <2>8. CASE RecalEnd(d)
    <4>1. /\ \A c \in Drives : c # d => dr'[c] = dr[c]
          /\ UNCHANGED <<init, reg1, io>> /\ ~ init
      BY <1>1, FpgaLeaves
    <4>2. ASSUME NEW c \in Drives PROVE MaxCyl(c)' = MaxCyl(c)
      BY <4>1 DEF MaxCyl
    <4>3. ASSUME NEW c \in Drives PROVE Alone(c)'
      <5>1. CASE c = d
        BY <2>8, <4>1, <4>2, <5>1, Ending DEF OneDrive, Alone, Transferring, Transfers
      <5>2. CASE c # d
        BY <2>8, <4>1, <4>2, <5>2, Ending DEF OneDrive, Alone, Transferring, Transfers
      <5> QED
        BY <5>1, <5>2
    <4>4. /\ init' => rdy'
          /\ xfer'.go => xfer'.d \in Drives /\ Transferring(xfer.d)' /\ ~ dr'[xfer'.d].fin
          /\ io' \in {"setup", "move", "end2", "end3"} => xfer'.go
      BY <2>8, <4>1, Ending DEF OneDrive, Alone, Transferring, Transfers
    <4> QED
      BY <4>3, <4>4 DEF OneDrive
  <2>9. CASE XferBad(d)
    <4>1. /\ \A c \in Drives : c # d => dr'[c] = dr[c]
          /\ UNCHANGED <<init, reg1, io>> /\ ~ init
      BY <1>1, FpgaLeaves
    <4>2. /\ Transferring(d) /\ ~ dr'[d].go /\ ~ dr'[d].sip /\ rdy' = TRUE
          /\ xfer' = xfer /\ (BadAddress(d) \/ Locked(d))
      BY <2>9, XferRefused DEF Transferring
    <4>3. asked.d = d /\ \A c \in Drives : c # d => ~ Transferring(c)
      BY <4>2 DEF OneDrive, Alone
    <4>4. ~ xfer.go /\ ~ xfer'.go
      BY <4>2, <4>3 DEF OneDrive, Ordered, AsAsked
    <4>5. ASSUME NEW c \in Drives PROVE Alone(c)'
      <5>1. CASE c = d
        BY <4>2, <5>1 DEF Alone, Transferring
      <5>2. CASE c # d
        BY <4>1, <4>3, <5>2 DEF OneDrive, Alone, Transferring, MaxCyl
      <5> QED
        BY <5>1, <5>2
    <4> QED
      BY <4>1, <4>2, <4>4, <4>5 DEF OneDrive, Transferring
  <2>10. CASE XferSeek(d)
    <4>1. /\ \A c \in Drives : c # d => dr'[c] = dr[c]
          /\ UNCHANGED <<init, reg1, io>> /\ ~ init
      BY <1>1, FpgaLeaves
    <4>2. ASSUME NEW c \in Drives PROVE MaxCyl(c)' = MaxCyl(c)
      BY <4>1 DEF MaxCyl
    <4>3. ASSUME NEW c \in Drives PROVE Alone(c)'
      <5>1. CASE c = d
        <6>1. dr[d].go /\ dr[d].fn \in Transfers /\ UNCHANGED <<rdy, asked>>
              /\ dr'[d].fn = dr[d].fn /\ dr'[d].go = dr[d].go /\ dr'[d].dry = dr[d].dry
              /\ dr'[d].at = dr[d].at
          BY <2>10, XferSeeks
        <6>2. dr[d].at[1] <= MaxCyl(d)
          BY <2>10, XferSeeks, LastCyl DEF BadAddress, RhTypes, DrTypes, DriveRegs, Places
        <6>3. dr[d].fn # "ILF"
          BY <6>1 DEF Transfers
        <6> QED
          BY <4>1, <4>2, <5>1, <6>1, <6>2, <6>3 DEF OneDrive, Alone, Transferring
      <5>2. CASE c # d
        BY <2>10, <4>1, <4>2, <5>2, XferSeeks DEF OneDrive, Alone, Transferring, Transfers,
             BadAddress
      <5> QED
        BY <5>1, <5>2
    <4>4. /\ init' => rdy'
          /\ xfer'.go => xfer'.d \in Drives /\ Transferring(xfer.d)' /\ ~ dr'[xfer'.d].fin
          /\ io' \in {"setup", "move", "end2", "end3"} => xfer'.go
      BY <2>10, <4>1, XferSeeks DEF OneDrive, Alone, Transferring, Transfers, BadAddress
    <4> QED
      BY <4>3, <4>4 DEF OneDrive
  <2>11. CASE XferStart(d)
    <4>1. /\ \A c \in Drives : c # d => dr'[c] = dr[c]
          /\ UNCHANGED <<init, reg1, io>> /\ ~ init
      BY <1>1, FpgaLeaves
    <4>2. ASSUME NEW c \in Drives PROVE MaxCyl(c)' = MaxCyl(c)
      BY <4>1 DEF MaxCyl
    <4>3. ASSUME NEW c \in Drives PROVE Alone(c)'
      <5>1. CASE c = d
        BY <2>11, <4>1, <4>2, <5>1, XferStarts, XferGiven DEF OneDrive, Alone, Transferring,
             Transfers
      <5>2. CASE c # d
        BY <2>11, <4>1, <4>2, <5>2, XferStarts, XferGiven DEF OneDrive, Alone, Transferring,
             Transfers
      <5> QED
        BY <5>1, <5>2
    <4>4. /\ init' => rdy'
          /\ xfer'.go => xfer'.d \in Drives /\ Transferring(xfer.d)' /\ ~ dr'[xfer'.d].fin
          /\ io' \in {"setup", "move", "end2", "end3"} => xfer'.go
      BY <2>11, <4>1, XferStarts, XferGiven DEF OneDrive, Alone, Transferring, Transfers
    <4> QED
      BY <4>3, <4>4 DEF OneDrive
  <2>12. CASE XferPost(d)
    <4>1. /\ \A c \in Drives : c # d => dr'[c] = dr[c]
          /\ UNCHANGED <<init, reg1, io>> /\ ~ init
      BY <1>1, FpgaLeaves
    <4>2. /\ Transferring(d) /\ ~ dr'[d].go /\ ~ dr'[d].sip /\ rdy' = TRUE
          /\ ~ xfer.go /\ xfer' = NoXfer
      BY <2>12, XferPosts DEF Transferring
    <4>3. asked.d = d /\ \A c \in Drives : c # d => ~ Transferring(c)
      BY <4>2 DEF OneDrive, Alone
    <4>4. ~ xfer.go /\ ~ xfer'.go
      BY <4>2 DEF NoXfer
    <4>5. ASSUME NEW c \in Drives PROVE Alone(c)'
      <5>1. CASE c = d
        BY <4>2, <5>1 DEF Alone, Transferring
      <5>2. CASE c # d
        BY <4>1, <4>3, <5>2 DEF OneDrive, Alone, Transferring, MaxCyl
      <5> QED
        BY <5>1, <5>2
    <4> QED
      BY <4>1, <4>2, <4>4, <4>5 DEF OneDrive, Transferring
  <2> QED
    BY <1>1, <2>1, <2>2, <2>3, <2>4, <2>5, <2>6, <2>7, <2>8, <2>9, <2>10, <2>11, <2>12 DEF Fpga
<1>2. CASE Io
  <2>1. CASE IoLook
    <4>1. UNCHANGED <<init, rdy, dr, asked>> /\ UNCHANGED page
      BY <2>1 DEF IoLook, IoUnch, disks
    <4>2. ASSUME NEW c \in Drives PROVE MaxCyl(c)' = MaxCyl(c)
      BY <4>1, KindKept
    <4>3. ASSUME NEW c \in Drives PROVE Alone(c)'
      BY <4>1, <4>2 DEF OneDrive, Alone, Transferring
    <4>4. /\ xfer'.go => xfer.go /\ xfer'.d = xfer.d
          /\ io' \in {"setup", "move", "end2", "end3"} => xfer'.go
      BY <2>1 DEF IoLook, IoUnch, disks, OneDrive, Armintrq, RhTypes, XferTypes
    <4> QED
      BY <4>1, <4>3, <4>4 DEF OneDrive, Transferring
  <2>2. CASE IoStatus
    <4>1. UNCHANGED <<init, rdy, dr, asked>> /\ UNCHANGED page
      BY <2>2 DEF IoStatus, IoUnch, disks
    <4>2. ASSUME NEW c \in Drives PROVE MaxCyl(c)' = MaxCyl(c)
      BY <4>1, KindKept
    <4>3. ASSUME NEW c \in Drives PROVE Alone(c)'
      BY <4>1, <4>2 DEF OneDrive, Alone, Transferring
    <4>4. /\ xfer'.go => xfer.go /\ xfer'.d = xfer.d
          /\ io' \in {"setup", "move", "end2", "end3"} => xfer'.go
      BY <2>2 DEF IoStatus, IoUnch, disks, OneDrive, Armintrq, RhTypes, XferTypes
    <4> QED
      BY <4>1, <4>3, <4>4 DEF OneDrive, Transferring
  <2>3. CASE IoWrite1
    <4>1. UNCHANGED <<init, rdy, dr, asked>> /\ UNCHANGED page
      BY <2>3 DEF IoWrite1, IoUnch, disks
    <4>2. ASSUME NEW c \in Drives PROVE MaxCyl(c)' = MaxCyl(c)
      BY <4>1, KindKept
    <4>3. ASSUME NEW c \in Drives PROVE Alone(c)'
      BY <4>1, <4>2 DEF OneDrive, Alone, Transferring
    <4>4. /\ xfer'.go => xfer.go /\ xfer'.d = xfer.d
          /\ io' \in {"setup", "move", "end2", "end3"} => xfer'.go
      BY <2>3 DEF IoWrite1, IoUnch, disks, OneDrive, Armintrq, RhTypes, XferTypes
    <4> QED
      BY <4>1, <4>3, <4>4 DEF OneDrive, Transferring
  <2>4. CASE IoCleared
    <4>1. UNCHANGED <<init, rdy, dr, asked>> /\ UNCHANGED page
      BY <2>4 DEF IoCleared, IoUnch, disks
    <4>2. ASSUME NEW c \in Drives PROVE MaxCyl(c)' = MaxCyl(c)
      BY <4>1, KindKept
    <4>3. ASSUME NEW c \in Drives PROVE Alone(c)'
      BY <4>1, <4>2 DEF OneDrive, Alone, Transferring
    <4>4. /\ xfer'.go => xfer.go /\ xfer'.d = xfer.d
          /\ io' \in {"setup", "move", "end2", "end3"} => xfer'.go
      BY <2>4 DEF IoCleared, IoUnch, disks, OneDrive, Armintrq, RhTypes, XferTypes
    <4> QED
      BY <4>1, <4>3, <4>4 DEF OneDrive, Transferring
  <2>5. CASE IoSetup
    <4>1. UNCHANGED <<init, rdy, dr, asked>> /\ UNCHANGED page
      BY <2>5 DEF IoSetup, IoUnch, disks
    <4>2. ASSUME NEW c \in Drives PROVE MaxCyl(c)' = MaxCyl(c)
      BY <4>1, KindKept
    <4>3. ASSUME NEW c \in Drives PROVE Alone(c)'
      BY <4>1, <4>2 DEF OneDrive, Alone, Transferring
    <4>4. /\ xfer'.go => xfer.go /\ xfer'.d = xfer.d
          /\ io' \in {"setup", "move", "end2", "end3"} => xfer'.go
      BY <2>5 DEF IoSetup, IoUnch, disks, OneDrive, Armintrq, RhTypes, XferTypes
    <4> QED
      BY <4>1, <4>3, <4>4 DEF OneDrive, Transferring
  <2>6. CASE IoMove
    <4>1. UNCHANGED <<init, rdy, dr, asked>> /\ UNCHANGED page
      BY <2>6 DEF IoMove, IoUnch, disks
    <4>2. ASSUME NEW c \in Drives PROVE MaxCyl(c)' = MaxCyl(c)
      BY <4>1, KindKept
    <4>3. ASSUME NEW c \in Drives PROVE Alone(c)'
      BY <4>1, <4>2 DEF OneDrive, Alone, Transferring
    <4>4. /\ xfer'.go => xfer.go /\ xfer'.d = xfer.d
          /\ io' \in {"setup", "move", "end2", "end3"} => xfer'.go
      BY <2>6 DEF IoMove, IoUnch, disks, OneDrive, Armintrq, RhTypes, XferTypes
    <4> QED
      BY <4>1, <4>3, <4>4 DEF OneDrive, Transferring
  <2>7. CASE IoEnd2
    <4>1. UNCHANGED <<init, rdy, dr, asked>> /\ UNCHANGED page
      BY <2>7 DEF IoEnd2, IoUnch, disks
    <4>2. ASSUME NEW c \in Drives PROVE MaxCyl(c)' = MaxCyl(c)
      BY <4>1, KindKept
    <4>3. ASSUME NEW c \in Drives PROVE Alone(c)'
      BY <4>1, <4>2 DEF OneDrive, Alone, Transferring
    <4>4. /\ xfer'.go => xfer.go /\ xfer'.d = xfer.d
          /\ io' \in {"setup", "move", "end2", "end3"} => xfer'.go
      BY <2>7 DEF IoEnd2, IoUnch, disks, OneDrive, Armintrq, RhTypes, XferTypes
    <4> QED
      BY <4>1, <4>3, <4>4 DEF OneDrive, Transferring
  <2>8. CASE IoEnd3
    <4>1. UNCHANGED <<init, rdy, dr, asked>> /\ UNCHANGED page
      BY <2>8 DEF IoEnd3, IoUnch, disks
    <4>2. ASSUME NEW c \in Drives PROVE MaxCyl(c)' = MaxCyl(c)
      BY <4>1, KindKept
    <4>3. ASSUME NEW c \in Drives PROVE Alone(c)'
      BY <4>1, <4>2 DEF OneDrive, Alone, Transferring
    <4>4. /\ xfer'.go => xfer.go /\ xfer'.d = xfer.d
          /\ io' \in {"setup", "move", "end2", "end3"} => xfer'.go
      BY <2>8 DEF IoEnd3, IoUnch, disks, OneDrive, Armintrq, RhTypes, XferTypes
    <4> QED
      BY <4>1, <4>3, <4>4 DEF OneDrive, Transferring
  <2> QED
    BY <1>2, <2>1, <2>2, <2>3, <2>4, <2>5, <2>6, <2>7, <2>8 DEF Io
<1>3. ASSUME NEW d \in Drives, NEW f \in Fns \ Transfers, NEW at \in Places, GiveMotion(d, f, at)
     PROVE  OneDrive'
  <3>1. Give(d, f, at) /\ DrTypes
    BY <1>3 DEF GiveMotion, RhTypes
  <3>2. /\ ~ init /\ dr[d].dry
        /\ dr'[d].fn = f /\ dr'[d].go /\ dr'[d].fin /\ ~ dr'[d].dry /\ dr'[d].sip = dr[d].sip
        /\ \A c \in Drives : c # d => dr'[c] = dr[c]
        /\ UNCHANGED <<init, xfer, reg1, io>>
    BY <3>1, GivenLeaves
  <3>3. ~ dr'[d].sip /\ ~ Transferring(d)
    BY <3>2 DEF OneDrive, Alone, Transferring, Transfers
  <3>4. rdy' = rdy /\ asked' = asked /\ f \notin Transfers
    BY <1>3 DEF GiveMotion, Nothing
  <3>5. ASSUME NEW c \in Drives PROVE Alone(c)'
    <4>1. CASE c = d
      BY <3>2, <3>3, <3>4, <4>1 DEF Alone, Transferring
    <4>2. CASE c # d
      BY <3>2, <3>4, <4>2 DEF OneDrive, Alone, Transferring, MaxCyl
    <4> QED
      BY <4>1, <4>2
  <3>6. xfer.go => xfer.d # d
    BY <3>3 DEF OneDrive
  <3> QED
    BY <3>2, <3>4, <3>5, <3>6 DEF OneDrive, Alone, Transferring
<1>4. ASSUME NEW d \in Drives, NEW f \in Fns \cap Transfers, NEW a \in Asks, GiveTransfer(d, f, a)
     PROVE  OneDrive'
  <3>1. Give(d, f, a.at) /\ DrTypes
    BY <1>4 DEF GiveTransfer, RhTypes
  <3>2. /\ ~ init /\ dr[d].dry
        /\ dr'[d].fn = f /\ dr'[d].go /\ dr'[d].fin /\ ~ dr'[d].dry /\ dr'[d].sip = dr[d].sip
        /\ \A c \in Drives : c # d => dr'[c] = dr[c]
        /\ UNCHANGED <<init, xfer, reg1, io>>
    BY <3>1, GivenLeaves
  <3>3. ~ dr'[d].sip /\ ~ Transferring(d)
    BY <3>2 DEF OneDrive, Alone, Transferring, Transfers
  <3>4. rdy /\ rdy' = FALSE /\ asked'.d = d
    BY <1>4 DEF GiveTransfer, Nothing
  <3>5. ASSUME NEW c \in Drives PROVE Alone(c)'
    <4>1. CASE c = d
      BY <3>2, <3>3, <3>4, <4>1 DEF Alone, Transferring
    <4>2. CASE c # d
      BY <3>2, <3>4, <4>2 DEF OneDrive, Alone, Transferring, MaxCyl
    <4> QED
      BY <4>1, <4>2
  <3>6. xfer.go => xfer.d # d
    BY <3>3 DEF OneDrive
  <3> QED
    BY <3>2, <3>4, <3>5, <3>6 DEF OneDrive, Alone, Transferring
<1>5. ASSUME NEW d \in Drives, Refused(d) PROVE OneDrive'
  <3>1. UNCHANGED <<init, rdy, dr, asked>> /\ UNCHANGED page
    BY <1>5 DEF Refused, disks, hist
  <3>2. ASSUME NEW c \in Drives PROVE MaxCyl(c)' = MaxCyl(c)
    BY <3>1, KindKept
  <3>3. ASSUME NEW c \in Drives PROVE Alone(c)'
    BY <3>1, <3>2 DEF OneDrive, Alone, Transferring
  <3>4. /\ xfer'.go => xfer.go /\ xfer'.d = xfer.d
        /\ io' \in {"setup", "move", "end2", "end3"} => xfer'.go
    BY <1>5 DEF Refused, disks, hist, OneDrive, Armintrq, RhTypes, XferTypes
  <3> QED
    BY <3>1, <3>3, <3>4 DEF OneDrive, Transferring
<1>6. ASSUME NEW d \in Drives, CmdUnload(d) PROVE OneDrive'
  <3>1. UNCHANGED <<init, rdy, dr, asked>> /\ UNCHANGED page
    BY <1>6 DEF CmdUnload, CmdUnch, ctlr, hist, disks
  <3>2. ASSUME NEW c \in Drives PROVE MaxCyl(c)' = MaxCyl(c)
    BY <3>1, KindKept
  <3>3. ASSUME NEW c \in Drives PROVE Alone(c)'
    BY <3>1, <3>2 DEF OneDrive, Alone, Transferring
  <3>4. /\ xfer'.go => xfer.go /\ xfer'.d = xfer.d
        /\ io' \in {"setup", "move", "end2", "end3"} => xfer'.go
    BY <1>6 DEF CmdUnload, CmdUnch, ctlr, hist, disks, OneDrive, Armintrq, RhTypes, XferTypes
  <3> QED
    BY <3>1, <3>3, <3>4 DEF OneDrive, Transferring
<1>7. ASSUME NEW d \in Drives, NEW f \in Files, LoadBegins(d, f) PROVE OneDrive'
  <3>1. UNCHANGED <<init, rdy, dr, asked>> /\ UNCHANGED page
    BY <1>7 DEF LoadBegins, CmdUnch, ctlr, hist
  <3>2. ASSUME NEW c \in Drives PROVE MaxCyl(c)' = MaxCyl(c)
    BY <3>1, KindKept
  <3>3. ASSUME NEW c \in Drives PROVE Alone(c)'
    BY <3>1, <3>2 DEF OneDrive, Alone, Transferring
  <3>4. /\ xfer'.go => xfer.go /\ xfer'.d = xfer.d
        /\ io' \in {"setup", "move", "end2", "end3"} => xfer'.go
    BY <1>7 DEF LoadBegins, CmdUnch, ctlr, OneDrive
  <3> QED
    BY <3>1, <3>3, <3>4 DEF OneDrive, Transferring
<1>8. CASE Clear
  <3>0. ClearAll
    BY <1>8 DEF Clear
  <3>1. rdy /\ ~ xfer.go
    BY <1>8 DEF Clear, InitOn, Resting
  <3>2. \A c \in Drives : ~ Transferring(c)
    BY <3>1 DEF OneDrive, Alone
  <3>3. \A c \in Drives : ~ dr'[c].go /\ ~ dr'[c].sip
    BY <3>0, ClearsDrives
  <3>4. rdy' = TRUE /\ UNCHANGED <<xfer, io>>
    BY <3>0, Clears
  <3> QED
    BY <3>1, <3>3, <3>4 DEF OneDrive, Alone, Transferring
<1>9. CASE InitOn
  <3>1. rdy /\ ~ xfer.go
    BY <1>9 DEF Clear, InitOn, Resting
  <3>2. \A c \in Drives : ~ Transferring(c)
    BY <3>1 DEF OneDrive, Alone
  <3>3. UNCHANGED <<rdy, dr, reg1, xfer, io, asked>>
    BY <1>9 DEF InitOn, hist
  <3>4. ASSUME NEW c \in Drives PROVE Alone(c)'
    BY <3>2, <3>3 DEF OneDrive, Alone, Transferring, MaxCyl
  <3> QED
    BY <3>1, <3>2, <3>3, <3>4 DEF OneDrive, Transferring
<1>10. CASE InitOff
  <3>0. ClearAll /\ rdy
    BY <1>10 DEF InitOff, OneDrive
  <3>1. ~ xfer.go
    BY <3>0 DEF OneDrive, Alone
  <3>3. \A c \in Drives : ~ dr'[c].go /\ ~ dr'[c].sip
    BY <3>0, ClearsDrives
  <3>4. rdy' = TRUE /\ UNCHANGED <<xfer, io>>
    BY <3>0, Clears
  <3> QED
    BY <3>1, <3>3, <3>4 DEF OneDrive, Alone, Transferring
<1>11. CASE LoadOpen
  <3>1. UNCHANGED <<init, rdy, dr, asked>> /\ UNCHANGED page
    BY <1>11 DEF LoadOpen, CmdUnch, ctlr, hist, disks
  <3>2. ASSUME NEW c \in Drives PROVE MaxCyl(c)' = MaxCyl(c)
    BY <3>1, KindKept
  <3>3. ASSUME NEW c \in Drives PROVE Alone(c)'
    BY <3>1, <3>2 DEF OneDrive, Alone, Transferring
  <3>4. /\ xfer'.go => xfer.go /\ xfer'.d = xfer.d
        /\ io' \in {"setup", "move", "end2", "end3"} => xfer'.go
    BY <1>11 DEF LoadOpen, CmdUnch, ctlr, hist, disks, OneDrive, Armintrq, RhTypes, XferTypes
  <3> QED
    BY <3>1, <3>3, <3>4 DEF OneDrive, Transferring
<1>12. CASE LoadFails
  <3>1. UNCHANGED <<init, rdy, dr, asked>> /\ UNCHANGED page
    BY <1>12 DEF LoadFails, CmdUnch, ctlr, hist, disks
  <3>2. ASSUME NEW c \in Drives PROVE MaxCyl(c)' = MaxCyl(c)
    BY <3>1, KindKept
  <3>3. ASSUME NEW c \in Drives PROVE Alone(c)'
    BY <3>1, <3>2 DEF OneDrive, Alone, Transferring
  <3>4. /\ xfer'.go => xfer.go /\ xfer'.d = xfer.d
        /\ io' \in {"setup", "move", "end2", "end3"} => xfer'.go
    BY <1>12 DEF LoadFails, CmdUnch, ctlr, hist, disks, OneDrive, Armintrq, RhTypes, XferTypes
  <3> QED
    BY <3>1, <3>3, <3>4 DEF OneDrive, Transferring
<1>13. CASE LoadDone
  <3>1. UNCHANGED <<init, rdy, dr, asked>> /\ UNCHANGED page
    BY <1>13 DEF LoadDone, CmdUnch, ctlr, hist, disks
  <3>2. ASSUME NEW c \in Drives PROVE MaxCyl(c)' = MaxCyl(c)
    BY <3>1, KindKept
  <3>3. ASSUME NEW c \in Drives PROVE Alone(c)'
    BY <3>1, <3>2 DEF OneDrive, Alone, Transferring
  <3>4. /\ xfer'.go => xfer.go /\ xfer'.d = xfer.d
        /\ io' \in {"setup", "move", "end2", "end3"} => xfer'.go
    BY <1>13 DEF LoadDone, CmdUnch, ctlr, hist, disks, OneDrive, Armintrq, RhTypes, XferTypes
  <3> QED
    BY <3>1, <3>3, <3>4 DEF OneDrive, Transferring
<1>14. CASE UNCHANGED vars
  BY <1>14 DEF vars, ctlr, disks, hist, OneDrive, Alone, Transferring, MaxCyl
<1>15. CASE LoadClose
  <3>1. UNCHANGED <<init, rdy, dr, asked>> /\ UNCHANGED page
    BY <1>15 DEF LoadClose, CmdUnch, ctlr, hist
  <3>2. ASSUME NEW c \in Drives PROVE MaxCyl(c)' = MaxCyl(c)
    BY <3>1, KindKept
  <3>3. ASSUME NEW c \in Drives PROVE Alone(c)'
    BY <3>1, <3>2 DEF OneDrive, Alone, Transferring
  <3>4. /\ xfer'.go => xfer.go /\ xfer'.d = xfer.d
        /\ io' \in {"setup", "move", "end2", "end3"} => xfer'.go
    BY <1>15 DEF LoadClose, CmdUnch, ctlr, OneDrive
  <3> QED
    BY <3>1, <3>3, <3>4 DEF OneDrive, Transferring
<1>16. CASE LoadEmpty
  <3>1. UNCHANGED <<init, rdy, dr, asked>> /\ UNCHANGED page
    BY <1>16 DEF LoadEmpty, CmdUnch, ctlr, hist
  <3>2. ASSUME NEW c \in Drives PROVE MaxCyl(c)' = MaxCyl(c)
    BY <3>1, KindKept
  <3>3. ASSUME NEW c \in Drives PROVE Alone(c)'
    BY <3>1, <3>2 DEF OneDrive, Alone, Transferring
  <3>4. /\ xfer'.go => xfer.go /\ xfer'.d = xfer.d
        /\ io' \in {"setup", "move", "end2", "end3"} => xfer'.go
    BY <1>16 DEF LoadEmpty, CmdUnch, ctlr, OneDrive
  <3> QED
    BY <3>1, <3>3, <3>4 DEF OneDrive, Transferring
<1>17. CASE LoadType
  <3>1. UNCHANGED <<init, rdy, dr, asked>> /\ UNCHANGED page
    BY <1>17 DEF LoadType, CmdUnch, ctlr, hist
  <3>2. ASSUME NEW c \in Drives PROVE MaxCyl(c)' = MaxCyl(c)
    BY <3>1, KindKept
  <3>3. ASSUME NEW c \in Drives PROVE Alone(c)'
    BY <3>1, <3>2 DEF OneDrive, Alone, Transferring
  <3>4. /\ xfer'.go => xfer.go /\ xfer'.d = xfer.d
        /\ io' \in {"setup", "move", "end2", "end3"} => xfer'.go
    BY <1>17 DEF LoadType, CmdUnch, ctlr, OneDrive
  <3> QED
    BY <3>1, <3>3, <3>4 DEF OneDrive, Transferring
<1> QED
  BY <1>1, <1>2, <1>3, <1>4, <1>5, <1>6, <1>7, <1>8, <1>9, <1>10, <1>11, <1>12, <1>13, <1>14,
       <1>15, <1>16, <1>17, Steps, Zenon

\* A move is for one drive.
LEMMA MoveKeepsDrive ==
  ASSUME RhTypes, IoMove
  PROVE  loc'.d = loc.d
<1>1. PICK k, seen, e, n, t : Moved(k, seen, e, n, t)
  BY Zenon DEF IoMove, MoveAll, MoveSome
<1> QED
  BY <1>1 DEF Moved, RhTypes, IoTypes

-----------------------------------------------------------------------------
(* The order reaches the daemon as it was given. *)

\* A drive's order stays that of the PDP-11 while its registers do.
LEMMA AsAskedKept ==
  ASSUME NEW c \in Drives, AsAsked(c), asked' = asked,
         dr'[c].fn = dr[c].fn, dr'[c].go = dr[c].go, dr'[c].fin = dr[c].fin, dr'[c].at = dr[c].at,
         MaxCyl(c)' = MaxCyl(c), reg1'[c].wrl = reg1[c].wrl,
         Transferring(c) /\ dr[c].fin => wc' = wc /\ BusKept
  PROVE  AsAsked(c)'
BY DEF BusKept, AsAsked, Transferring, BadAddress, Locked, Same, Regs

\* So does a step leave it.
LEMMA OrderedStep ==
  ASSUME RhTypes, Told, Told', OneDrive, OneDrive', Ordered, ~ Intrude, "ILX" \notin Fns,
         page' = page, [Next]_vars
  PROVE  Ordered'
<1>1. ASSUME NEW d \in Drives, Fpga(d) PROVE Ordered'
  <2>1. CASE DriveClear(d)
    <4>1. /\ \A c \in Drives : c # d => dr'[c] = dr[c]
          /\ UNCHANGED <<init, reg1, io, loc, wc, ba, inh, kept>> /\ BusKept
      BY <1>1, FpgaLeaves
    <4>2. ASSUME NEW c \in Drives PROVE MaxCyl(c)' = MaxCyl(c) /\ reg1'[c].wrl = reg1[c].wrl
      BY <4>1 DEF MaxCyl
    <4>3. /\ ~ dr'[d].go
          /\ asked' = asked /\ xfer' = xfer
      BY <2>1, Ending
    <4>4. ASSUME NEW c \in Drives PROVE AsAsked(c)'
      <5>1. CASE c = d
        BY <4>1, <4>2, <4>3, <5>1 DEF AsAsked, Transferring
      <5>2. CASE c # d
        BY <4>1, <4>2, <4>3, <5>2, AsAskedKept DEF Ordered
      <5> QED
        BY <5>1, <5>2
    <4> QED
      BY <4>1, <4>3, <4>4 DEF Ordered, XferAsAsked, LocAsAsked, Cyls, Same, Regs
  <2>2. CASE Illegal(d)
    <4>1. /\ \A c \in Drives : c # d => dr'[c] = dr[c]
          /\ UNCHANGED <<init, reg1, io, loc, wc, ba, inh, kept>> /\ BusKept
      BY <1>1, FpgaLeaves
    <4>2. ASSUME NEW c \in Drives PROVE MaxCyl(c)' = MaxCyl(c) /\ reg1'[c].wrl = reg1[c].wrl
      BY <4>1 DEF MaxCyl
    <4>3. /\ dr'[d].fn = dr[d].fn /\ dr'[d].go = dr[d].go /\ dr'[d].fin = dr[d].fin
          /\ dr'[d].at = dr[d].at
          /\ asked' = asked /\ xfer' = xfer
      BY <2>2, IllegalLeaves
    <4>4. ASSUME NEW c \in Drives PROVE AsAsked(c)'
      <5>1. CASE c = d
        BY <4>1, <4>2, <4>3, <5>1, AsAskedKept DEF Ordered
      <5>2. CASE c # d
        BY <4>1, <4>2, <4>3, <5>2, AsAskedKept DEF Ordered
      <5> QED
        BY <5>1, <5>2
    <4> QED
      BY <4>1, <4>3, <4>4 DEF Ordered, XferAsAsked, LocAsAsked, Cyls, Same, Regs
  <2>3. CASE SeekBad(d)
    <4>1. /\ \A c \in Drives : c # d => dr'[c] = dr[c]
          /\ UNCHANGED <<init, reg1, io, loc, wc, ba, inh, kept>> /\ BusKept
      BY <1>1, FpgaLeaves
    <4>2. ASSUME NEW c \in Drives PROVE MaxCyl(c)' = MaxCyl(c) /\ reg1'[c].wrl = reg1[c].wrl
      BY <4>1 DEF MaxCyl
    <4>3. /\ ~ dr'[d].go
          /\ asked' = asked /\ xfer' = xfer
      BY <2>3, Ending
    <4>4. ASSUME NEW c \in Drives PROVE AsAsked(c)'
      <5>1. CASE c = d
        BY <4>1, <4>2, <4>3, <5>1 DEF AsAsked, Transferring
      <5>2. CASE c # d
        BY <4>1, <4>2, <4>3, <5>2, AsAskedKept DEF Ordered
      <5> QED
        BY <5>1, <5>2
    <4> QED
      BY <4>1, <4>3, <4>4 DEF Ordered, XferAsAsked, LocAsAsked, Cyls, Same, Regs
  <2>4. CASE SeekBegin(d)
    <4>1. /\ \A c \in Drives : c # d => dr'[c] = dr[c]
          /\ UNCHANGED <<init, reg1, io, loc, wc, ba, inh, kept>> /\ BusKept
      BY <1>1, FpgaLeaves
    <4>2. ASSUME NEW c \in Drives PROVE MaxCyl(c)' = MaxCyl(c) /\ reg1'[c].wrl = reg1[c].wrl
      BY <4>1 DEF MaxCyl
    <4>3. /\ dr'[d].fn = dr[d].fn /\ dr'[d].go = dr[d].go /\ dr'[d].fin = dr[d].fin
          /\ dr'[d].at = dr[d].at
          /\ asked' = asked /\ xfer' = xfer
      BY <2>4, SeekBegins
    <4>4. ASSUME NEW c \in Drives PROVE AsAsked(c)'
      <5>1. CASE c = d
        BY <4>1, <4>2, <4>3, <5>1, AsAskedKept DEF Ordered
      <5>2. CASE c # d
        BY <4>1, <4>2, <4>3, <5>2, AsAskedKept DEF Ordered
      <5> QED
        BY <5>1, <5>2
    <4> QED
      BY <4>1, <4>3, <4>4 DEF Ordered, XferAsAsked, LocAsAsked, Cyls, Same, Regs
  <2>5. CASE Step(d)
    <4>1. /\ \A c \in Drives : c # d => dr'[c] = dr[c]
          /\ UNCHANGED <<init, reg1, io, loc, wc, ba, inh, kept>> /\ BusKept
      BY <1>1, FpgaLeaves
    <4>2. ASSUME NEW c \in Drives PROVE MaxCyl(c)' = MaxCyl(c) /\ reg1'[c].wrl = reg1[c].wrl
      BY <4>1 DEF MaxCyl
    <4>3. /\ dr'[d].fn = dr[d].fn /\ dr'[d].go = dr[d].go /\ dr'[d].fin = dr[d].fin
          /\ dr'[d].at = dr[d].at
          /\ asked' = asked /\ xfer' = xfer
      BY <2>5, HeadsArrive
    <4>4. ASSUME NEW c \in Drives PROVE AsAsked(c)'
      <5>1. CASE c = d
        BY <4>1, <4>2, <4>3, <5>1, AsAskedKept DEF Ordered
      <5>2. CASE c # d
        BY <4>1, <4>2, <4>3, <5>2, AsAskedKept DEF Ordered
      <5> QED
        BY <5>1, <5>2
    <4> QED
      BY <4>1, <4>3, <4>4 DEF Ordered, XferAsAsked, LocAsAsked, Cyls, Same, Regs
  <2>6. CASE SeekEnd(d)
    <4>1. /\ \A c \in Drives : c # d => dr'[c] = dr[c]
          /\ UNCHANGED <<init, reg1, io, loc, wc, ba, inh, kept>> /\ BusKept
      BY <1>1, FpgaLeaves
    <4>2. ASSUME NEW c \in Drives PROVE MaxCyl(c)' = MaxCyl(c) /\ reg1'[c].wrl = reg1[c].wrl
      BY <4>1 DEF MaxCyl
    <4>3. /\ ~ dr'[d].go
          /\ asked' = asked /\ xfer' = xfer
      BY <2>6, Ending
    <4>4. ASSUME NEW c \in Drives PROVE AsAsked(c)'
      <5>1. CASE c = d
        BY <4>1, <4>2, <4>3, <5>1 DEF AsAsked, Transferring
      <5>2. CASE c # d
        BY <4>1, <4>2, <4>3, <5>2, AsAskedKept DEF Ordered
      <5> QED
        BY <5>1, <5>2
    <4> QED
      BY <4>1, <4>3, <4>4 DEF Ordered, XferAsAsked, LocAsAsked, Cyls, Same, Regs
  <2>7. CASE RecalBegin(d)
    <4>1. /\ \A c \in Drives : c # d => dr'[c] = dr[c]
          /\ UNCHANGED <<init, reg1, io, loc, wc, ba, inh, kept>> /\ BusKept
      BY <1>1, FpgaLeaves
    <4>2. ASSUME NEW c \in Drives PROVE MaxCyl(c)' = MaxCyl(c) /\ reg1'[c].wrl = reg1[c].wrl
      BY <4>1 DEF MaxCyl
    <4>3. /\ dr'[d].fn = dr[d].fn /\ dr[d].fn \notin Transfers
          /\ asked' = asked /\ xfer' = xfer
      BY <2>7, RecalBegins DEF Transfers
    <4>4. ASSUME NEW c \in Drives PROVE AsAsked(c)'
      <5>1. CASE c = d
        BY <4>1, <4>2, <4>3, <5>1 DEF AsAsked, Transferring
      <5>2. CASE c # d
        BY <4>1, <4>2, <4>3, <5>2, AsAskedKept DEF Ordered
      <5> QED
        BY <5>1, <5>2
    <4> QED
      BY <4>1, <4>3, <4>4 DEF Ordered, XferAsAsked, LocAsAsked, Cyls, Same, Regs
  <2>8. CASE RecalEnd(d)
    <4>1. /\ \A c \in Drives : c # d => dr'[c] = dr[c]
          /\ UNCHANGED <<init, reg1, io, loc, wc, ba, inh, kept>> /\ BusKept
      BY <1>1, FpgaLeaves
    <4>2. ASSUME NEW c \in Drives PROVE MaxCyl(c)' = MaxCyl(c) /\ reg1'[c].wrl = reg1[c].wrl
      BY <4>1 DEF MaxCyl
    <4>3. /\ ~ dr'[d].go
          /\ asked' = asked /\ xfer' = xfer
      BY <2>8, Ending
    <4>4. ASSUME NEW c \in Drives PROVE AsAsked(c)'
      <5>1. CASE c = d
        BY <4>1, <4>2, <4>3, <5>1 DEF AsAsked, Transferring
      <5>2. CASE c # d
        BY <4>1, <4>2, <4>3, <5>2, AsAskedKept DEF Ordered
      <5> QED
        BY <5>1, <5>2
    <4> QED
      BY <4>1, <4>3, <4>4 DEF Ordered, XferAsAsked, LocAsAsked, Cyls, Same, Regs
  <2>9. CASE XferBad(d)
    <4>1. /\ \A c \in Drives : c # d => dr'[c] = dr[c]
          /\ io' = io
      BY <1>1, FpgaLeaves
    <4>2. Transferring(d) /\ ~ dr'[d].go
      BY <2>9, XferRefused DEF Transferring
    <4>3. asked.d = d /\ \A c \in Drives : c # d => ~ Transferring(c)
      BY <4>2 DEF OneDrive, Alone
    <4>4. rdy'
      BY <2>9, XferRefused
    <4>5. ASSUME NEW c \in Drives PROVE AsAsked(c)'
      BY <4>4 DEF OneDrive, Alone, AsAsked
    <4>6. ~ xfer'.go
      BY <4>4 DEF OneDrive, Alone
    <4> QED
      BY <4>5, <4>6 DEF OneDrive, Ordered, XferAsAsked, LocAsAsked, Cyls
  <2>10. CASE XferSeek(d)
    <4>1. /\ \A c \in Drives : c # d => dr'[c] = dr[c]
          /\ UNCHANGED <<init, reg1, io, loc, wc, ba, inh, kept>> /\ BusKept
      BY <1>1, FpgaLeaves
    <4>2. ASSUME NEW c \in Drives PROVE MaxCyl(c)' = MaxCyl(c) /\ reg1'[c].wrl = reg1[c].wrl
      BY <4>1 DEF MaxCyl
    <4>3. /\ dr'[d].fn = dr[d].fn /\ dr'[d].go = dr[d].go /\ dr'[d].fin = dr[d].fin
          /\ dr'[d].at = dr[d].at
          /\ asked' = asked /\ xfer' = xfer
      BY <2>10, XferSeeks
    <4>4. ASSUME NEW c \in Drives PROVE AsAsked(c)'
      <5>1. CASE c = d
        BY <4>1, <4>2, <4>3, <5>1, AsAskedKept DEF Ordered
      <5>2. CASE c # d
        BY <4>1, <4>2, <4>3, <5>2, AsAskedKept DEF Ordered
      <5> QED
        BY <5>1, <5>2
    <4> QED
      BY <4>1, <4>3, <4>4 DEF Ordered, XferAsAsked, LocAsAsked, Cyls, Same, Regs
  <2>11. CASE XferStart(d)
    <4>1. /\ \A c \in Drives : c # d => dr'[c] = dr[c]
          /\ UNCHANGED <<init, reg1, io, loc, wc, ba, inh, kept>> /\ BusKept
      BY <1>1, FpgaLeaves
    <4>2. ASSUME NEW c \in Drives PROVE MaxCyl(c)' = MaxCyl(c) /\ reg1'[c].wrl = reg1[c].wrl
      BY <4>1 DEF MaxCyl
    <4>3. /\ Transferring(d) /\ ~ BadAddress(d) /\ ~ Locked(d) /\ dr[d].fin /\ ~ xfer.go
          /\ ~ dr'[d].fin /\ dr'[d].fn = dr[d].fn /\ dr'[d].go = dr[d].go /\ dr'[d].at = dr[d].at
          /\ asked' = asked
      BY <2>11, XferStarts DEF Transferring
    <4>4. /\ xfer'.go /\ xfer'.fn = dr[d].fn /\ xfer'.d = d /\ xfer'.at = dr[d].at
          /\ xfer'.wce = (dr[d].fn = "WCHECK")
      BY <2>11, XferGiven
    <4>5. Same(Regs) /\ dr[d].fn = asked.fn /\ dr[d].at = asked.at
      BY <4>3 DEF Ordered, AsAsked
    <4>6. ASSUME NEW c \in Drives PROVE AsAsked(c)'
      <5>1. CASE c = d
        BY <4>1, <4>2, <4>3, <5>1 DEF Ordered, AsAsked, Transferring, BadAddress, Locked
      <5>2. CASE c # d
        BY <4>1, <4>2, <4>3, <5>2, AsAskedKept DEF Ordered
      <5> QED
        BY <5>1, <5>2
    <4>7. XferAsAsked'
      BY <4>1, <4>3, <4>4, <4>5 DEF XferAsAsked, Same, Regs
    <4>8. LocAsAsked'
      BY <4>1, <4>3 DEF OneDrive, LocAsAsked, Cyls
    <4> QED
      BY <4>6, <4>7, <4>8 DEF Ordered
  <2>12. CASE XferPost(d)
    <4>1. /\ \A c \in Drives : c # d => dr'[c] = dr[c]
          /\ io' = io
      BY <1>1, FpgaLeaves
    <4>2. Transferring(d) /\ ~ dr'[d].go
      BY <2>12, XferPosts DEF Transferring
    <4>3. asked.d = d /\ \A c \in Drives : c # d => ~ Transferring(c)
      BY <4>2 DEF OneDrive, Alone
    <4>4. rdy'
      BY <2>12, XferPosts
    <4>5. ASSUME NEW c \in Drives PROVE AsAsked(c)'
      BY <4>4 DEF OneDrive, Alone, AsAsked
    <4>6. ~ xfer'.go
      BY <4>4 DEF OneDrive, Alone
    <4> QED
      BY <4>5, <4>6 DEF OneDrive, Ordered, XferAsAsked, LocAsAsked, Cyls
  <2> QED
    BY <1>1, <2>1, <2>2, <2>3, <2>4, <2>5, <2>6, <2>7, <2>8, <2>9, <2>10, <2>11, <2>12 DEF Fpga
<1>2. CASE Io
  <2>1. CASE IoLook
    <4>1. UNCHANGED <<dr, asked, inh, kept, page>>
      BY <2>1 DEF IoLook, IoUnch, disks
    <4>2. ASSUME NEW c \in Drives PROVE MaxCyl(c)' = MaxCyl(c) /\ reg1'[c].wrl = reg1[c].wrl
      BY <4>1, KindKept
    <4>3. UNCHANGED <<wc, ba, xfer>>
      BY <2>1 DEF IoLook, IoUnch, disks
    <4>4. ASSUME NEW c \in Drives PROVE AsAsked(c)'
      BY <4>1, <4>2, <4>3, AsAskedKept DEF Ordered, BusKept
    <4>5. io' \in {"upd", "setup"} /\ (io' = "setup" => loc'.wc = wc /\ loc'.wce = xfer.wce)
      BY <2>1 DEF IoLook, NoLoc
    <4>6. LocAsAsked'
      BY <4>1, <4>3, <4>5 DEF LocAsAsked, Cyls
    <4>7. XferAsAsked'
      BY <2>1, <4>1, <4>3 DEF IoLook, OneDrive, Ordered, XferAsAsked, Same, Regs
    <4> QED
      BY <4>4, <4>6, <4>7 DEF Ordered
  <2>2. CASE IoStatus
    <4>1. UNCHANGED <<dr, asked, inh, kept, page>>
      BY <2>2 DEF IoStatus, IoUnch, disks
    <4>2. ASSUME NEW c \in Drives PROVE MaxCyl(c)' = MaxCyl(c) /\ reg1'[c].wrl = reg1[c].wrl
      BY <4>1, KindKept
    <4>3. UNCHANGED <<wc, ba, xfer>>
      BY <2>2 DEF IoStatus, IoUnch, disks
    <4>4. ASSUME NEW c \in Drives PROVE AsAsked(c)'
      BY <4>1, <4>2, <4>3, AsAskedKept DEF Ordered, BusKept
    <4>5. io' = "write1"
      BY <2>2 DEF IoStatus, NoLoc
    <4>6. LocAsAsked'
      BY <4>1, <4>3, <4>5 DEF LocAsAsked, Cyls
    <4>7. XferAsAsked'
      BY <2>2, <4>1, <4>3 DEF IoStatus, OneDrive, Ordered, XferAsAsked, Same, Regs
    <4> QED
      BY <4>4, <4>6, <4>7 DEF Ordered
  <2>3. CASE IoWrite1
    <4>1. UNCHANGED <<dr, asked, inh, kept, page>>
      BY <2>3 DEF IoWrite1, IoUnch, disks
    <4>2. ASSUME NEW c \in Drives PROVE MaxCyl(c)' = MaxCyl(c) /\ reg1'[c].wrl = reg1[c].wrl
      BY <4>1, KindKept
    <4>3. UNCHANGED <<wc, ba, xfer>>
      BY <2>3 DEF IoWrite1, IoUnch, disks
    <4>4. ASSUME NEW c \in Drives PROVE AsAsked(c)'
      BY <4>1, <4>2, <4>3, AsAskedKept DEF Ordered, BusKept
    <4>5. io' = "done"
      BY <2>3 DEF IoWrite1, NoLoc
    <4>6. LocAsAsked'
      BY <4>1, <4>3, <4>5 DEF LocAsAsked, Cyls
    <4>7. XferAsAsked'
      BY <2>3, <4>1, <4>3 DEF IoWrite1, OneDrive, Ordered, XferAsAsked, Same, Regs
    <4> QED
      BY <4>4, <4>6, <4>7 DEF Ordered
  <2>4. CASE IoCleared
    <4>1. UNCHANGED <<dr, asked, inh, kept, page>>
      BY <2>4 DEF IoCleared, IoUnch, disks
    <4>2. ASSUME NEW c \in Drives PROVE MaxCyl(c)' = MaxCyl(c) /\ reg1'[c].wrl = reg1[c].wrl
      BY <4>1, KindKept
    <4>3. UNCHANGED <<wc, ba, xfer>>
      BY <2>4 DEF IoCleared, IoUnch, disks
    <4>4. ASSUME NEW c \in Drives PROVE AsAsked(c)'
      BY <4>1, <4>2, <4>3, AsAskedKept DEF Ordered, BusKept
    <4>5. io' = "wait"
      BY <2>4 DEF IoCleared, NoLoc
    <4>6. LocAsAsked'
      BY <4>1, <4>3, <4>5 DEF LocAsAsked, Cyls
    <4>7. XferAsAsked'
      BY <2>4, <4>1, <4>3 DEF IoCleared, OneDrive, Ordered, XferAsAsked, Same, Regs
    <4> QED
      BY <4>4, <4>6, <4>7 DEF Ordered
  <2>5. CASE IoSetup
    <4>1. UNCHANGED <<dr, asked, inh, kept, page>>
      BY <2>5 DEF IoSetup, IoUnch, disks
    <4>2. ASSUME NEW c \in Drives PROVE MaxCyl(c)' = MaxCyl(c) /\ reg1'[c].wrl = reg1[c].wrl
      BY <4>1, KindKept
    <4>3. UNCHANGED <<wc, ba, xfer>>
      BY <2>5 DEF IoSetup, IoUnch, disks
    <4>4. ASSUME NEW c \in Drives PROVE AsAsked(c)'
      BY <4>1, <4>2, <4>3, AsAskedKept DEF Ordered, BusKept
    <4>5. xfer.go /\ asked.fn \in Transfers /\ io' = "move" /\ xfer.d = asked.d
      BY <2>5 DEF IoSetup, OneDrive, Alone, Ordered, AsAsked, Transferring
    <4>10. loc'.cyls = Cyls(xfer.d)
      <5>1. PICK c : c = Cyls(xfer.d)
        OBVIOUS
      <5> QED
        BY <2>5, <5>1 DEF IoSetup, RhTypes, IoTypes
    <4>6. /\ loc'.d = xfer.d /\ loc'.ba = ba /\ loc'.inh = inh /\ loc'.at = xfer.at
          /\ loc'.wc = loc.wc
          /\ loc'.fn = IF xfer.fn = "WRITE" THEN "WRITE" ELSE IF loc.wce THEN "WCHECK" ELSE "READ"
      BY <2>5 DEF IoSetup, RhTypes, IoTypes
    <4>7. /\ loc.wc = wc /\ loc.wce = (asked.fn = "WCHECK") /\ Same(Regs) /\ xfer.at = asked.at
          /\ xfer.fn = asked.fn
      BY <2>5, <4>5 DEF IoSetup, Ordered, XferAsAsked, LocAsAsked, Cyls
    <4>8. LocAsAsked'
      BY <4>1, <4>3, <4>5, <4>6, <4>7, <4>10 DEF LocAsAsked, Cyls, Same, Regs, Transfers
    <4>9. XferAsAsked'
      BY <2>5, <4>1, <4>3 DEF IoSetup, OneDrive, Ordered, XferAsAsked, Same, Regs
    <4> QED
      BY <4>4, <4>8, <4>9 DEF Ordered
  <2>6. CASE IoMove
    <4>1. UNCHANGED <<dr, asked, inh, kept, page>>
      BY <2>6 DEF IoMove, IoUnch, disks
    <4>2. ASSUME NEW c \in Drives PROVE MaxCyl(c)' = MaxCyl(c) /\ reg1'[c].wrl = reg1[c].wrl
      BY <4>1, KindKept
    <4>3. UNCHANGED <<wc, ba, xfer>>
      BY <2>6 DEF IoMove, IoUnch, disks
    <4>4. ASSUME NEW c \in Drives PROVE AsAsked(c)'
      BY <4>1, <4>2, <4>3, AsAskedKept DEF Ordered, BusKept
    <4>5. io = "move" /\ io' = "end2" /\ loc'.d = loc.d
      BY <2>6, MoveKeepsDrive DEF IoMove
    <4>6. LocAsAsked'
      BY <4>1, <4>3, <4>5 DEF Ordered, LocAsAsked, Cyls
    <4>7. XferAsAsked'
      BY <2>6, <4>1, <4>3 DEF IoMove, OneDrive, Ordered, XferAsAsked, Same, Regs
    <4> QED
      BY <4>4, <4>6, <4>7 DEF Ordered
  <2>7. CASE IoEnd2
    <4>1. UNCHANGED <<dr, asked, inh, kept, page>>
      BY <2>7 DEF IoEnd2, IoUnch, disks
    <4>2. ASSUME NEW c \in Drives PROVE MaxCyl(c)' = MaxCyl(c) /\ reg1'[c].wrl = reg1[c].wrl
      BY <4>1, KindKept
    <4>3. xfer.go /\ ~ init
      BY <2>7 DEF IoEnd2, OneDrive, Alone
    <4>4. \A c \in Drives : Transferring(c) => ~ dr[c].fin
      BY <4>3 DEF OneDrive, Alone
    <4>5. ASSUME NEW c \in Drives PROVE AsAsked(c)'
      BY <4>1, <4>2, <4>4, AsAskedKept DEF Ordered
    <4>6. wc' = wc /\ io' = "end3" /\ loc'.d = loc.d /\ io = "end2"
      BY <2>7 DEF IoEnd2
    <4>7. XferAsAsked' /\ LocAsAsked'
      BY <4>1, <4>3, <4>6 DEF Ordered, XferAsAsked, LocAsAsked, Cyls
    <4> QED
      BY <4>5, <4>7 DEF Ordered
  <2>8. CASE IoEnd3
    <4>1. UNCHANGED <<dr, asked, inh, kept, page>>
      BY <2>8 DEF IoEnd3, IoUnch, disks
    <4>2. ASSUME NEW c \in Drives PROVE MaxCyl(c)' = MaxCyl(c) /\ reg1'[c].wrl = reg1[c].wrl
      BY <4>1, KindKept
    <4>3. xfer.go /\ ~ init
      BY <2>8 DEF IoEnd3, OneDrive, Alone
    <4>4. \A c \in Drives : Transferring(c) => ~ dr[c].fin
      BY <4>3 DEF OneDrive, Alone
    <4>5. ASSUME NEW c \in Drives PROVE AsAsked(c)'
      BY <4>1, <4>2, <4>4, AsAskedKept DEF Ordered
    <4>6. io' = "wait" /\ ~ xfer'.go
      BY <2>8, <4>3 DEF IoEnd3, RhTypes, XferTypes
    <4>7. XferAsAsked' /\ LocAsAsked'
      BY <4>6 DEF XferAsAsked, LocAsAsked, Cyls
    <4> QED
      BY <4>5, <4>7 DEF Ordered
  <2> QED
    BY <1>2, <2>1, <2>2, <2>3, <2>4, <2>5, <2>6, <2>7, <2>8 DEF Io
<1>3. ASSUME NEW d \in Drives, NEW f \in Fns \ Transfers, NEW at \in Places, GiveMotion(d, f, at)
     PROVE  Ordered'
  <3>1. Give(d, f, at) /\ DrTypes
    BY <1>3 DEF GiveMotion, RhTypes
  <3>2. /\ dr[d].dry /\ dr'[d].fn = f /\ dr'[d].go /\ dr'[d].fin /\ dr'[d].at = at
        /\ \A c \in Drives : c # d => dr'[c] = dr[c]
        /\ UNCHANGED <<xfer, reg1, io, loc>>
    BY <3>1, GivenLeaves
  <3>3. UNCHANGED <<wc, asked>> /\ BusKept
    BY <1>3, BusWritten DEF GiveMotion
  <3>4. ASSUME NEW c \in Drives PROVE AsAsked(c)'
    <4>1. CASE c = d
      BY <3>2, <4>1 DEF AsAsked, Transferring
    <4>2. CASE c # d
      <5>1. MaxCyl(c)' = MaxCyl(c) /\ reg1'[c].wrl = reg1[c].wrl
        BY <3>2 DEF MaxCyl
      <5> QED
        BY <3>2, <3>3, <4>2, <5>1, AsAskedKept DEF Ordered
    <4> QED
      BY <4>1, <4>2
  <3> QED
    BY <3>2, <3>3, <3>4 DEF BusKept, Ordered, XferAsAsked, LocAsAsked, Cyls, Same, Regs
<1>4. ASSUME NEW d \in Drives, NEW f \in Fns \cap Transfers, NEW a \in Asks, GiveTransfer(d, f, a)
     PROVE  Ordered'
  <3>1. Give(d, f, a.at) /\ DrTypes
    BY <1>4 DEF GiveTransfer, RhTypes
  <3>2. /\ dr[d].dry /\ dr'[d].fn = f /\ dr'[d].go /\ dr'[d].fin /\ dr'[d].at = a.at
        /\ \A c \in Drives : c # d => dr'[c] = dr[c]
        /\ UNCHANGED <<xfer, reg1, io, loc>>
    BY <3>1, GivenLeaves
  <3>3. rdy /\ wc' = a.wc /\ ba' = a.ba /\ inh' = a.inh
        /\ asked' = [fn |-> f, d |-> d, at |-> a.at, wc |-> a.wc, ba |-> a.ba, inh |-> a.inh]
    BY <1>4 DEF GiveTransfer
  <3>4. ~ xfer.go /\ \A c \in Drives : ~ Transferring(c)
    BY <3>3 DEF OneDrive, Alone
  <3>5. ASSUME NEW c \in Drives PROVE AsAsked(c)'
    <4>1. CASE c = d
      BY <3>2, <3>3, <4>1 DEF AsAsked, Same, Regs
    <4>2. CASE c # d
      BY <3>2, <3>4, <4>2 DEF AsAsked, Transferring
    <4> QED
      BY <4>1, <4>2
  <3> QED
    BY <3>2, <3>4, <3>5 DEF OneDrive, Ordered, XferAsAsked, LocAsAsked, Cyls
<1>5. ASSUME NEW d \in Drives, Refused(d) PROVE Ordered'
  <3>1. UNCHANGED <<dr, asked, page, wc, xfer, io, loc>>
    BY <1>5 DEF Refused, disks
  <3>2. ASSUME NEW c \in Drives PROVE MaxCyl(c)' = MaxCyl(c) /\ reg1'[c].wrl = reg1[c].wrl
    BY <3>1, KindKept
  <3>3. BusKept
    BY <1>5, BusWritten DEF Refused
  <3>4. ASSUME NEW c \in Drives PROVE AsAsked(c)'
    BY <3>1, <3>2, <3>3, AsAskedKept DEF Ordered
  <3> QED
    BY <3>1, <3>3, <3>4 DEF BusKept, Ordered, XferAsAsked, LocAsAsked, Cyls, Same, Regs
<1>6. ASSUME NEW d \in Drives, CmdUnload(d) PROVE Ordered'
  <3>1. UNCHANGED <<dr, asked, inh, kept, page>>
    BY <1>6 DEF CmdUnload, CmdUnch, ctlr, hist, disks
  <3>2. ASSUME NEW c \in Drives PROVE MaxCyl(c)' = MaxCyl(c) /\ reg1'[c].wrl = reg1[c].wrl
    BY <3>1, KindKept
  <3>3. UNCHANGED <<wc, ba, xfer>>
    BY <1>6 DEF CmdUnload, CmdUnch, ctlr, hist, disks
  <3>4. ASSUME NEW c \in Drives PROVE AsAsked(c)'
    BY <3>1, <3>2, <3>3, AsAskedKept DEF Ordered, BusKept
  <3>5. UNCHANGED <<io, loc>>
    BY <1>6 DEF CmdUnload, CmdUnch, ctlr, hist, disks
  <3> QED
    BY <3>1, <3>3, <3>4, <3>5 DEF Ordered, XferAsAsked, LocAsAsked, Cyls, Same, Regs
<1>7. ASSUME NEW d \in Drives, NEW f \in Files, LoadBegins(d, f) PROVE Ordered'
  <3>1. UNCHANGED <<dr, asked, inh, kept, page>>
    BY <1>7 DEF LoadBegins, CmdUnch, ctlr, hist
  <3>2. ASSUME NEW c \in Drives PROVE MaxCyl(c)' = MaxCyl(c) /\ reg1'[c].wrl = reg1[c].wrl
    BY <3>1, KindKept
  <3>3. UNCHANGED <<wc, ba, xfer>>
    BY <1>7 DEF LoadBegins, CmdUnch, ctlr
  <3>4. ASSUME NEW c \in Drives PROVE AsAsked(c)'
    BY <3>1, <3>2, <3>3, AsAskedKept DEF Ordered, BusKept
  <3>5. UNCHANGED <<io, loc>>
    BY <1>7 DEF LoadBegins, CmdUnch
  <3> QED
    BY <3>1, <3>3, <3>4, <3>5 DEF Ordered, XferAsAsked, LocAsAsked, Cyls, Same, Regs
<1>8. CASE Clear
  <3>1. rdy'
    <4>1. ClearAll
      BY <1>8 DEF Clear
    <4> QED
      BY <4>1, Clears
  <3> QED
    BY <3>1 DEF OneDrive, Alone, Ordered, AsAsked, XferAsAsked, LocAsAsked, Cyls
<1>9. CASE InitOn
  <3>1. rdy'
    BY <1>9 DEF InitOn, Resting, OneDrive
  <3> QED
    BY <3>1 DEF OneDrive, Alone, Ordered, AsAsked, XferAsAsked, LocAsAsked, Cyls
<1>10. CASE InitOff
  <3>1. rdy'
    <4>1. ClearAll
      BY <1>10 DEF InitOff
    <4> QED
      BY <4>1, Clears
  <3> QED
    BY <3>1 DEF OneDrive, Alone, Ordered, AsAsked, XferAsAsked, LocAsAsked, Cyls
<1>11. CASE LoadOpen
  <3>1. UNCHANGED <<dr, asked, inh, kept, page>>
    BY <1>11 DEF LoadOpen, CmdUnch, ctlr, hist, disks
  <3>2. ASSUME NEW c \in Drives PROVE MaxCyl(c)' = MaxCyl(c) /\ reg1'[c].wrl = reg1[c].wrl
    BY <3>1, KindKept
  <3>3. UNCHANGED <<wc, ba, xfer>>
    BY <1>11 DEF LoadOpen, CmdUnch, ctlr, hist, disks
  <3>4. ASSUME NEW c \in Drives PROVE AsAsked(c)'
    BY <3>1, <3>2, <3>3, AsAskedKept DEF Ordered, BusKept
  <3>5. UNCHANGED <<io, loc>>
    BY <1>11 DEF LoadOpen, CmdUnch, ctlr, hist, disks
  <3> QED
    BY <3>1, <3>3, <3>4, <3>5 DEF Ordered, XferAsAsked, LocAsAsked, Cyls, Same, Regs
<1>12. CASE LoadFails
  <3>1. UNCHANGED <<dr, asked, inh, kept, page>>
    BY <1>12 DEF LoadFails, CmdUnch, ctlr, hist, disks
  <3>2. ASSUME NEW c \in Drives PROVE MaxCyl(c)' = MaxCyl(c) /\ reg1'[c].wrl = reg1[c].wrl
    BY <3>1, KindKept
  <3>3. UNCHANGED <<wc, ba, xfer>>
    BY <1>12 DEF LoadFails, CmdUnch, ctlr, hist, disks
  <3>4. ASSUME NEW c \in Drives PROVE AsAsked(c)'
    BY <3>1, <3>2, <3>3, AsAskedKept DEF Ordered, BusKept
  <3>5. UNCHANGED <<io, loc>>
    BY <1>12 DEF LoadFails, CmdUnch, ctlr, hist, disks
  <3> QED
    BY <3>1, <3>3, <3>4, <3>5 DEF Ordered, XferAsAsked, LocAsAsked, Cyls, Same, Regs
<1>13. CASE LoadDone
  <3>1. UNCHANGED <<dr, asked, inh, kept, page>>
    BY <1>13 DEF LoadDone, CmdUnch, ctlr, hist, disks
  <3>2. ASSUME NEW c \in Drives PROVE MaxCyl(c)' = MaxCyl(c) /\ reg1'[c].wrl = reg1[c].wrl
    BY <3>1, KindKept
  <3>3. UNCHANGED <<wc, ba, xfer>>
    BY <1>13 DEF LoadDone, CmdUnch, ctlr, hist, disks
  <3>4. ASSUME NEW c \in Drives PROVE AsAsked(c)'
    BY <3>1, <3>2, <3>3, AsAskedKept DEF Ordered, BusKept
  <3>5. UNCHANGED <<io, loc>>
    BY <1>13 DEF LoadDone, CmdUnch, ctlr, hist, disks
  <3> QED
    BY <3>1, <3>3, <3>4, <3>5 DEF Ordered, XferAsAsked, LocAsAsked, Cyls, Same, Regs
<1>14. CASE UNCHANGED vars
  <3>1. UNCHANGED <<dr, asked, inh, kept, page>>
    BY <1>14 DEF vars, ctlr, disks, hist
  <3>2. ASSUME NEW c \in Drives PROVE MaxCyl(c)' = MaxCyl(c) /\ reg1'[c].wrl = reg1[c].wrl
    BY <3>1, KindKept
  <3>3. UNCHANGED <<wc, ba, xfer>>
    BY <1>14 DEF vars, ctlr, disks, hist
  <3>4. ASSUME NEW c \in Drives PROVE AsAsked(c)'
    BY <3>1, <3>2, <3>3, AsAskedKept DEF Ordered, BusKept
  <3>5. UNCHANGED <<io, loc>>
    BY <1>14 DEF vars, ctlr, disks, hist
  <3> QED
    BY <3>1, <3>3, <3>4, <3>5 DEF Ordered, XferAsAsked, LocAsAsked, Cyls, Same, Regs
<1>15. CASE LoadClose
  <3>1. UNCHANGED <<dr, asked, inh, kept, page>>
    BY <1>15 DEF LoadClose, CmdUnch, ctlr, hist
  <3>2. ASSUME NEW c \in Drives PROVE MaxCyl(c)' = MaxCyl(c) /\ reg1'[c].wrl = reg1[c].wrl
    BY <3>1, KindKept
  <3>3. UNCHANGED <<wc, ba, xfer>>
    BY <1>15 DEF LoadClose, CmdUnch, ctlr
  <3>4. ASSUME NEW c \in Drives PROVE AsAsked(c)'
    BY <3>1, <3>2, <3>3, AsAskedKept DEF Ordered, BusKept
  <3>5. UNCHANGED <<io, loc>>
    BY <1>15 DEF LoadClose, CmdUnch
  <3> QED
    BY <3>1, <3>3, <3>4, <3>5 DEF Ordered, XferAsAsked, LocAsAsked, Cyls, Same, Regs
<1>16. CASE LoadEmpty
  <3>1. UNCHANGED <<dr, asked, inh, kept, page>>
    BY <1>16 DEF LoadEmpty, CmdUnch, ctlr, hist
  <3>2. ASSUME NEW c \in Drives PROVE MaxCyl(c)' = MaxCyl(c) /\ reg1'[c].wrl = reg1[c].wrl
    BY <3>1, KindKept
  <3>3. UNCHANGED <<wc, ba, xfer>>
    BY <1>16 DEF LoadEmpty, CmdUnch, ctlr
  <3>4. ASSUME NEW c \in Drives PROVE AsAsked(c)'
    BY <3>1, <3>2, <3>3, AsAskedKept DEF Ordered, BusKept
  <3>5. UNCHANGED <<io, loc>>
    BY <1>16 DEF LoadEmpty, CmdUnch
  <3> QED
    BY <3>1, <3>3, <3>4, <3>5 DEF Ordered, XferAsAsked, LocAsAsked, Cyls, Same, Regs
<1>17. CASE LoadType
  <3>1. UNCHANGED <<dr, asked, inh, kept, page>>
    BY <1>17 DEF LoadType, CmdUnch, ctlr, hist
  <3>2. ASSUME NEW c \in Drives PROVE MaxCyl(c)' = MaxCyl(c) /\ reg1'[c].wrl = reg1[c].wrl
    BY <3>1, KindKept
  <3>3. UNCHANGED <<wc, ba, xfer>>
    BY <1>17 DEF LoadType, CmdUnch, ctlr
  <3>4. ASSUME NEW c \in Drives PROVE AsAsked(c)'
    BY <3>1, <3>2, <3>3, AsAskedKept DEF Ordered, BusKept
  <3>5. UNCHANGED <<io, loc>>
    BY <1>17 DEF LoadType, CmdUnch
  <3> QED
    BY <3>1, <3>3, <3>4, <3>5 DEF Ordered, XferAsAsked, LocAsAsked, Cyls, Same, Regs
<1> QED
  BY <1>1, <1>2, <1>3, <1>4, <1>5, <1>6, <1>7, <1>8, <1>9, <1>10, <1>11, <1>12, <1>13, <1>14,
       <1>15, <1>16, <1>17, Steps, Zenon

-----------------------------------------------------------------------------
(* The end of what was asked. *)

\* The end stays that of what was asked.
LEMMA EndKept ==
  ASSUME OneDrive, EndShown, UNCHANGED <<did, asked, wc, xfer>>, BusKept,
         io' \in {"end2", "end3"} => io' = io /\ loc' = loc,
         \A c \in Drives : Transferring(c)' /\ ~ dr'[c].fin => Transferring(c) /\ ~ dr[c].fin
  PROVE  EndShown'
<1>1. ASSUME io' \in {"end2", "end3"}
      PROVE  /\ Ended(loc.wc, loc.ba, loc.at, loc)'
             /\ io' = "end3" => /\ ba' % Bank = loc'.ba % Bank /\ (kept' => ba' = loc'.ba)
                               /\ xfer'.at[1] = loc'.at[1]
  BY <1>1 DEF EndShown, Ended, BusKept
<1>2. ASSUME NEW c \in Drives, Transferring(c)', ~ dr'[c].fin, ~ xfer'.go
      PROVE  Ended(wc, ba, xfer.at, xfer)'
  BY <1>2 DEF EndShown, Ended, BusKept
<1> QED
  BY <1>1, <1>2 DEF EndShown

\* With no transfer there is no end to show.
LEMMA EndNone ==
  ASSUME OneDrive', rdy'
  PROVE  EndShown'
BY DEF OneDrive, Alone, EndShown

\* An order but for the address inhibit and the bank.
LEMMA LowIs ==
  ASSUME NEW o \in Orders
  PROVE  Low(o) = [fn |-> o.fn, d |-> o.d, at |-> o.at, wc |-> o.wc, ba |-> o.ba % Bank, inh |-> FALSE]
<1>1. PICK b : b = o.ba % Bank
  OBVIOUS
<1>2. Low(o) = [o EXCEPT !.ba = b, !.inh = FALSE]
  BY <1>1 DEF Low, Orders
<1> QED
  BY <1>1, <1>2 DEF Orders

\* The end of a move is the end of what was asked.
LEMMA MoveEnds ==
  ASSUME RhTypes, Told, OneDrive, Ordered, IoMove
  PROVE  Ended(loc.wc, loc.ba, loc.at, loc)'
<1>1. /\ asked.d \in Drives /\ loc.d = asked.d /\ loc.at = asked.at /\ loc.fn = asked.fn /\ Same(loc)
      /\ ~ BadAddress(asked.d) /\ dr[asked.d].at = asked.at /\ loc.cyls = Cyls(asked.d)
  <2>1. io = "move"
    BY DEF IoMove
  <2>2. /\ xfer.go /\ xfer.d \in Drives /\ Transferring(xfer.d) /\ ~ dr[xfer.d].fin
        /\ asked.d = xfer.d
    BY <2>1 DEF OneDrive, Alone
  <2>3. ~ BadAddress(xfer.d) /\ dr[xfer.d].at = asked.at
    BY <2>2 DEF Ordered, AsAsked
  <2> QED
    BY <2>1, <2>2, <2>3 DEF Ordered, LocAsAsked
<1>2. /\ loc.at \in Places /\ loc.at[1] < loc.cyls /\ loc.at[2] < Trks /\ loc.at[3] < Secs
      /\ loc.cyls \in Nat
  <2>1. /\ loc.at \in Places /\ loc.at[1] \in Nat /\ loc.at[2] \in Nat /\ loc.at[3] \in Nat
        /\ loc.cyls \in Nat
    BY DEF RhTypes, IoTypes, Places
  <2>2. MaxCyl(asked.d) = Cyls(asked.d) - 1
    BY <1>1, Sizes DEF Told, Tells, MaxCyl, Cyls
  <2> QED
    BY <1>1, <2>1, <2>2, Sizes DEF BadAddress
<1>3. UNCHANGED <<asked, kept>>
  BY DEF IoMove, IoUnch
<1>4. loc.wc = asked.wc /\ asked \in Orders /\ kept \in BOOLEAN
  BY <1>1 DEF Same, RhTypes, HistTypes
<1>5. Words \in 0 .. WMax /\ loc.wc \in 0 .. WMax - 1 /\ WMax \in Nat \ {0}
  BY MayMove, Sizes DEF RhTypes, IoTypes
<1>6. PICK k \in Nat, seen \in Nat, e \in BOOLEAN, n \in BOOLEAN, t \in BOOLEAN :
        /\ Moved(k, seen, e, n, t)
        /\ ~ (e \/ n \/ t) => k = Words /\ seen = Words
  <2>1. Words \in Nat /\ 0 \in Nat /\ TRUE \in BOOLEAN /\ FALSE \in BOOLEAN
    BY <1>5
  <2>2. \A k \in 0 .. Words - 1 : k \in Nat /\ k + 1 \in Nat
    BY <1>5
  <2>3. CASE MoveAll
    BY <2>1, <2>3, Zenon DEF MoveAll
  <2>4. CASE MoveSome
    BY <2>1, <2>2, <2>4, Zenon DEF MoveSome
  <2> QED
    BY <2>3, <2>4 DEF IoMove
<1>7. /\ loc'.at = Address(EndBlock(seen)) /\ loc'.wc = (loc.wc + k) % WMax
      /\ loc'.ba = IF loc.inh THEN loc.ba ELSE loc.ba + k
      /\ loc'.wce = e /\ loc'.nxm = n /\ loc'.fer = t
  <2>1. PICK at, w, b : /\ at = Address(EndBlock(seen)) /\ w = (loc.wc + k) % WMax
                        /\ b = IF loc.inh THEN loc.ba ELSE loc.ba + k
    OBVIOUS
  <2>2. loc' = [loc EXCEPT !.at = at, !.wc = w, !.ba = b, !.wce = e, !.nxm = n, !.fer = t]
    BY <1>6, <2>1 DEF Moved
  <2> QED
    BY <2>1, <2>2 DEF RhTypes, IoTypes
<1>8. /\ did'.o = Order(loc) /\ did'.cyls = loc.cyls /\ did'.k = k /\ did'.seen = seen
      /\ did'.ok <=> ~ (loc'.wce \/ loc'.nxm \/ loc'.fer)
  <2>1. PICK ok : ok = (~ (e \/ n \/ t))
    OBVIOUS
  <2>2. did' = [o |-> Order(loc), cyls |-> loc.cyls, k |-> k, seen |-> seen, ok |-> ok]
    BY <1>6, <2>1 DEF Moved
  <2> QED
    BY <1>7, <2>1, <2>2
<1>9. Order(loc) \in Orders
  BY DEF RhTypes, IoTypes, Order, Orders, Transfers
<1>10. Low(did'.o) = Low(asked')
  <2>1. /\ Order(loc).fn = asked.fn /\ Order(loc).d = asked.d /\ Order(loc).at = asked.at
        /\ Order(loc).wc = asked.wc /\ Order(loc).ba % Bank = asked.ba % Bank
    BY <1>1 DEF Order, Same
  <2> QED
    BY <1>3, <1>4, <1>8, <1>9, <2>1, LowIs
<1>11. kept' => did'.o = asked'
  <2>1. ASSUME kept PROVE Order(loc) = asked
    <3>1. /\ loc.fn = asked.fn /\ loc.d = asked.d /\ loc.at = asked.at
          /\ loc.wc = asked.wc /\ loc.ba = asked.ba /\ loc.inh = asked.inh
      BY <1>1, <2>1 DEF Same
    <3> QED
      BY <1>4, <3>1 DEF Order, Orders
  <2> QED
    BY <1>3, <1>8, <2>1
<1>12. loc'.ba = After(did'.o, did'.k)
  BY <1>7, <1>8 DEF After, Order
<1>13. loc'.at = Sectors(asked.at, seen)
  <2>1. Sectors(loc.at, seen) = Address(Block(loc.at) + ((seen + WPS - 1) \div WPS))
    BY <1>2, SectorsAre
  <2> QED
    BY <1>1, <1>7, <2>1 DEF EndBlock
<1>14. ASSUME did'.ok PROVE loc'.wc = 0 \/ loc'.at[1] >= did'.cyls
  <2>1. k = Words /\ seen = Words
    BY <1>6, <1>7, <1>8, <1>14
  <2>2. CASE Words = WMax - loc.wc
    <3>1. loc.wc + k = 1 * WMax + 0
      BY <1>5, <2>1, <2>2
    <3>2. (1 * WMax + 0) % WMax = 0
      BY <1>5, Quotient
    <3> QED
      BY <1>7, <3>1, <3>2
  <2>3. CASE Words # WMax - loc.wc
    <3>1. Sectors(loc.at, Words)[1] = loc.cyls
      BY <1>2, <2>3, MayMove
    <3> QED
      BY <1>1, <1>2, <1>8, <1>13, <2>1, <3>1
  <2> QED
    BY <2>2, <2>3
<1> QED
  BY <1>3, <1>4, <1>7, <1>8, <1>10, <1>11, <1>12, <1>13, <1>14 DEF Ended

\* And a step shows the end of it.
LEMMA EndShownStep ==
  ASSUME RhTypes, Told, OneDrive, OneDrive', Ordered, EndShown, "ILX" \notin Fns, [Next]_vars
  PROVE  EndShown'
<1>1. ASSUME NEW d \in Drives, Fpga(d) PROVE EndShown'
  <2>1. CASE DriveClear(d)
    <4>1. /\ \A c \in Drives : c # d => dr'[c] = dr[c]
          /\ UNCHANGED <<io, loc, wc>> /\ BusKept
      BY <1>1, FpgaLeaves
    <4>2. /\ ~ dr'[d].go
          /\ asked' = asked /\ xfer' = xfer /\ did' = did
      BY <2>1, Ending
    <4>3. \A c \in Drives : Transferring(c)' /\ ~ dr'[c].fin => Transferring(c) /\ ~ dr[c].fin
      BY <4>1, <4>2 DEF Transferring
    <4> QED
      BY <4>1, <4>2, <4>3, EndKept
  <2>2. CASE Illegal(d)
    <4>1. /\ \A c \in Drives : c # d => dr'[c] = dr[c]
          /\ UNCHANGED <<io, loc, wc>> /\ BusKept
      BY <1>1, FpgaLeaves
    <4>2. /\ dr'[d].fn = dr[d].fn /\ dr'[d].go = dr[d].go /\ dr'[d].fin = dr[d].fin
          /\ asked' = asked /\ xfer' = xfer /\ did' = did
      BY <2>2, IllegalLeaves
    <4>3. \A c \in Drives : Transferring(c)' /\ ~ dr'[c].fin => Transferring(c) /\ ~ dr[c].fin
      BY <4>1, <4>2 DEF Transferring
    <4> QED
      BY <4>1, <4>2, <4>3, EndKept
  <2>3. CASE SeekBad(d)
    <4>1. /\ \A c \in Drives : c # d => dr'[c] = dr[c]
          /\ UNCHANGED <<io, loc, wc>> /\ BusKept
      BY <1>1, FpgaLeaves
    <4>2. /\ ~ dr'[d].go
          /\ asked' = asked /\ xfer' = xfer /\ did' = did
      BY <2>3, Ending
    <4>3. \A c \in Drives : Transferring(c)' /\ ~ dr'[c].fin => Transferring(c) /\ ~ dr[c].fin
      BY <4>1, <4>2 DEF Transferring
    <4> QED
      BY <4>1, <4>2, <4>3, EndKept
  <2>4. CASE SeekBegin(d)
    <4>1. /\ \A c \in Drives : c # d => dr'[c] = dr[c]
          /\ UNCHANGED <<io, loc, wc>> /\ BusKept
      BY <1>1, FpgaLeaves
    <4>2. /\ dr'[d].fn = dr[d].fn /\ dr'[d].go = dr[d].go /\ dr'[d].fin = dr[d].fin
          /\ asked' = asked /\ xfer' = xfer /\ did' = did
      BY <2>4, SeekBegins
    <4>3. \A c \in Drives : Transferring(c)' /\ ~ dr'[c].fin => Transferring(c) /\ ~ dr[c].fin
      BY <4>1, <4>2 DEF Transferring
    <4> QED
      BY <4>1, <4>2, <4>3, EndKept
  <2>5. CASE Step(d)
    <4>1. /\ \A c \in Drives : c # d => dr'[c] = dr[c]
          /\ UNCHANGED <<io, loc, wc>> /\ BusKept
      BY <1>1, FpgaLeaves
    <4>2. /\ dr'[d].fn = dr[d].fn /\ dr'[d].go = dr[d].go /\ dr'[d].fin = dr[d].fin
          /\ asked' = asked /\ xfer' = xfer /\ did' = did
      BY <2>5, HeadsArrive
    <4>3. \A c \in Drives : Transferring(c)' /\ ~ dr'[c].fin => Transferring(c) /\ ~ dr[c].fin
      BY <4>1, <4>2 DEF Transferring
    <4> QED
      BY <4>1, <4>2, <4>3, EndKept
  <2>6. CASE SeekEnd(d)
    <4>1. /\ \A c \in Drives : c # d => dr'[c] = dr[c]
          /\ UNCHANGED <<io, loc, wc>> /\ BusKept
      BY <1>1, FpgaLeaves
    <4>2. /\ ~ dr'[d].go
          /\ asked' = asked /\ xfer' = xfer /\ did' = did
      BY <2>6, Ending
    <4>3. \A c \in Drives : Transferring(c)' /\ ~ dr'[c].fin => Transferring(c) /\ ~ dr[c].fin
      BY <4>1, <4>2 DEF Transferring
    <4> QED
      BY <4>1, <4>2, <4>3, EndKept
  <2>7. CASE RecalBegin(d)
    <4>1. /\ \A c \in Drives : c # d => dr'[c] = dr[c]
          /\ UNCHANGED <<io, loc, wc>> /\ BusKept
      BY <1>1, FpgaLeaves
    <4>2. /\ dr'[d].fn = dr[d].fn /\ dr[d].fn \notin Transfers
          /\ asked' = asked /\ xfer' = xfer /\ did' = did
      BY <2>7, RecalBegins DEF Transfers
    <4>3. \A c \in Drives : Transferring(c)' /\ ~ dr'[c].fin => Transferring(c) /\ ~ dr[c].fin
      BY <4>1, <4>2 DEF Transferring
    <4> QED
      BY <4>1, <4>2, <4>3, EndKept
  <2>8. CASE RecalEnd(d)
    <4>1. /\ \A c \in Drives : c # d => dr'[c] = dr[c]
          /\ UNCHANGED <<io, loc, wc>> /\ BusKept
      BY <1>1, FpgaLeaves
    <4>2. /\ ~ dr'[d].go
          /\ asked' = asked /\ xfer' = xfer /\ did' = did
      BY <2>8, Ending
    <4>3. \A c \in Drives : Transferring(c)' /\ ~ dr'[c].fin => Transferring(c) /\ ~ dr[c].fin
      BY <4>1, <4>2 DEF Transferring
    <4> QED
      BY <4>1, <4>2, <4>3, EndKept
  <2>9. CASE XferBad(d)
    BY <2>9, XferRefused, EndNone
  <2>10. CASE XferSeek(d)
    <4>1. /\ \A c \in Drives : c # d => dr'[c] = dr[c]
          /\ UNCHANGED <<io, loc, wc>> /\ BusKept
      BY <1>1, FpgaLeaves
    <4>2. /\ dr'[d].fn = dr[d].fn /\ dr'[d].go = dr[d].go /\ dr'[d].fin = dr[d].fin
          /\ asked' = asked /\ xfer' = xfer /\ did' = did
      BY <2>10, XferSeeks
    <4>3. \A c \in Drives : Transferring(c)' /\ ~ dr'[c].fin => Transferring(c) /\ ~ dr[c].fin
      BY <4>1, <4>2 DEF Transferring
    <4> QED
      BY <4>1, <4>2, <4>3, EndKept
  <2>11. CASE XferStart(d)
    <4>1. io' = io
      BY <1>1, FpgaLeaves
    <4>2. ~ xfer.go /\ xfer'.go
      BY <2>11, XferStarts, XferGiven
    <4> QED
      BY <4>1, <4>2 DEF OneDrive, EndShown
  <2>12. CASE XferPost(d)
    BY <2>12, XferPosts, EndNone
  <2> QED
    BY <1>1, <2>1, <2>2, <2>3, <2>4, <2>5, <2>6, <2>7, <2>8, <2>9, <2>10, <2>11, <2>12 DEF Fpga
<1>2. CASE Io
  <2>1. CASE IoLook
    <4>1. UNCHANGED <<dr, asked, did, wc, ba, xfer>> /\ BusKept
      BY <2>1 DEF IoLook, IoUnch, BusKept
    <4>2. io' \notin {"end2", "end3"}
      BY <2>1 DEF IoLook, IoUnch, disks
    <4> QED
      BY <4>1, <4>2, EndKept DEF Transferring
  <2>2. CASE IoStatus
    <4>1. UNCHANGED <<dr, asked, did, wc, ba, xfer>> /\ BusKept
      BY <2>2 DEF IoStatus, IoUnch, BusKept
    <4>2. io' \notin {"end2", "end3"}
      BY <2>2 DEF IoStatus, IoUnch, disks
    <4> QED
      BY <4>1, <4>2, EndKept DEF Transferring
  <2>3. CASE IoWrite1
    <4>1. UNCHANGED <<dr, asked, did, wc, ba, xfer>> /\ BusKept
      BY <2>3 DEF IoWrite1, IoUnch, BusKept
    <4>2. io' \notin {"end2", "end3"}
      BY <2>3 DEF IoWrite1, IoUnch, disks
    <4> QED
      BY <4>1, <4>2, EndKept DEF Transferring
  <2>4. CASE IoCleared
    <4>1. UNCHANGED <<dr, asked, did, wc, ba, xfer>> /\ BusKept
      BY <2>4 DEF IoCleared, IoUnch, BusKept
    <4>2. io' \notin {"end2", "end3"}
      BY <2>4 DEF IoCleared, IoUnch, disks
    <4> QED
      BY <4>1, <4>2, EndKept DEF Transferring
  <2>5. CASE IoSetup
    <4>1. UNCHANGED <<dr, asked, did, wc, ba, xfer>> /\ BusKept
      BY <2>5 DEF IoSetup, IoUnch, BusKept
    <4>2. io' \notin {"end2", "end3"}
      BY <2>5 DEF IoSetup, IoUnch, disks
    <4> QED
      BY <4>1, <4>2, EndKept DEF Transferring
  <2>6. CASE IoMove
    <4>1. Ended(loc.wc, loc.ba, loc.at, loc)' /\ io = "move" /\ io' = "end2" /\ xfer' = xfer
      BY <2>6, MoveEnds DEF IoMove
    <4>2. xfer.go
      BY <4>1 DEF OneDrive
    <4> QED
      BY <4>1, <4>2 DEF EndShown
  <2>7. CASE IoEnd2
    <4>1. UNCHANGED <<dr, asked, kept, did>>
      BY <2>7 DEF IoEnd2, IoUnch
    <4>2. xfer.go /\ ~ init /\ Ended(loc.wc, loc.ba, loc.at, loc)
      BY <2>7 DEF IoEnd2, OneDrive, Alone, EndShown
    <4>3. /\ io' = "end3" /\ loc' = loc /\ ba' = loc.ba
          /\ xfer'.go /\ xfer'.at[1] = loc.at[1]
      BY <2>7, <4>2 DEF IoEnd2, RhTypes, XferTypes, Places
    <4>4. Ended(loc.wc, loc.ba, loc.at, loc)'
      BY <4>1, <4>2, <4>3 DEF Ended
    <4> QED
      BY <4>3, <4>4 DEF EndShown
  <2>8. CASE IoEnd3
    <4>1. UNCHANGED <<dr, asked, kept, did>>
      BY <2>8 DEF IoEnd3, IoUnch
    <4>2. xfer.go /\ ~ init /\ Ended(loc.wc, loc.ba, loc.at, loc)
      BY <2>8 DEF IoEnd3, OneDrive, Alone, EndShown
    <4>3. ba % Bank = loc.ba % Bank /\ (kept => ba = loc.ba) /\ xfer.at[1] = loc.at[1]
      BY <2>8 DEF IoEnd3, EndShown
    <4>4. /\ io' = "wait" /\ ba' = ba /\ wc' = loc.wc
          /\ xfer'.at = <<xfer.at[1], loc.at[2], loc.at[3]>>
          /\ xfer'.wce = loc.wce /\ xfer'.nxm = loc.nxm /\ xfer'.fer = loc.fer
      <5>1. PICK at : at = <<xfer.at[1], loc.at[2], loc.at[3]>>
        OBVIOUS
      <5>2. xfer' = [xfer EXCEPT !.go = FALSE, !.at = at, !.wce = loc.wce, !.nxm = loc.nxm, !.fer = loc.fer]
        BY <2>8, <4>2, <5>1 DEF IoEnd3
      <5> QED
        BY <2>8, <4>2, <5>1, <5>2 DEF IoEnd3, RhTypes, XferTypes
    <4>5. xfer'.at = loc.at
      BY <4>3, <4>4 DEF RhTypes, IoTypes, Places
    <4>6. Ended(wc, ba, xfer.at, xfer)'
      BY <4>1, <4>2, <4>3, <4>4, <4>5 DEF Ended
    <4> QED
      BY <4>4, <4>6 DEF EndShown
  <2> QED
    BY <1>2, <2>1, <2>2, <2>3, <2>4, <2>5, <2>6, <2>7, <2>8 DEF Io
<1>3. ASSUME NEW d \in Drives, NEW f \in Fns \ Transfers, NEW at \in Places, GiveMotion(d, f, at)
     PROVE  EndShown'
  <3>1. Give(d, f, at) /\ DrTypes
    BY <1>3 DEF GiveMotion, RhTypes
  <3>2. /\ dr'[d].fn = f /\ f \notin Transfers
        /\ \A c \in Drives : c # d => dr'[c] = dr[c]
        /\ UNCHANGED <<xfer, io, loc, did>>
    BY <3>1, GivenLeaves
  <3>3. UNCHANGED <<wc, asked>> /\ BusKept
    BY <1>3, BusWritten DEF GiveMotion
  <3>4. \A c \in Drives : Transferring(c)' /\ ~ dr'[c].fin => Transferring(c) /\ ~ dr[c].fin
    BY <3>2 DEF Transferring
  <3> QED
    BY <3>2, <3>3, <3>4, EndKept
<1>4. ASSUME NEW d \in Drives, NEW f \in Fns \cap Transfers, NEW a \in Asks, GiveTransfer(d, f, a)
     PROVE  EndShown'
  <3>1. Give(d, f, a.at) /\ DrTypes /\ rdy
    BY <1>4 DEF GiveTransfer, RhTypes
  <3>2. /\ dr'[d].fin
        /\ \A c \in Drives : c # d => dr'[c] = dr[c]
        /\ UNCHANGED <<xfer, io>>
    BY <3>1, GivenLeaves
  <3>3. ~ xfer.go /\ \A c \in Drives : ~ Transferring(c)
    BY <3>1 DEF OneDrive, Alone
  <3>4. \A c \in Drives : ~ (Transferring(c)' /\ ~ dr'[c].fin)
    BY <3>2, <3>3 DEF Transferring
  <3>5. io' \notin {"end2", "end3"}
    BY <3>2, <3>3 DEF OneDrive
  <3> QED
    BY <3>4, <3>5 DEF EndShown
<1>5. ASSUME NEW d \in Drives, Refused(d) PROVE EndShown'
  <3>1. UNCHANGED <<dr, asked, did, wc, xfer, io, loc>>
    BY <1>5 DEF Refused
  <3>2. BusKept
    BY <1>5, BusWritten DEF Refused
  <3> QED
    BY <3>1, <3>2, EndKept DEF Transferring
<1>6. ASSUME NEW d \in Drives, CmdUnload(d) PROVE EndShown'
  <3>1. UNCHANGED <<dr, asked, did, wc, ba, xfer>> /\ BusKept
    BY <1>6 DEF CmdUnload, CmdUnch, ctlr, hist, disks, BusKept
  <3>2. UNCHANGED <<io, loc>>
    BY <1>6 DEF CmdUnload, CmdUnch, ctlr, hist, disks
  <3> QED
    BY <3>1, <3>2, EndKept DEF Transferring
<1>7. ASSUME NEW d \in Drives, NEW f \in Files, LoadBegins(d, f) PROVE EndShown'
  <3>1. UNCHANGED <<dr, asked, did, wc, ba, xfer>> /\ BusKept
    BY <1>7 DEF LoadBegins, CmdUnch, ctlr, hist, BusKept
  <3>2. UNCHANGED <<io, loc>>
    BY <1>7 DEF LoadBegins, CmdUnch
  <3> QED
    BY <3>1, <3>2, EndKept DEF Transferring
<1>8. CASE Clear
  <3>1. ClearAll
    BY <1>8 DEF Clear
  <3> QED
    BY <3>1, Clears, EndNone
<1>9. CASE InitOn
  <3>1. rdy'
    BY <1>9 DEF InitOn, OneDrive
  <3> QED
    BY <3>1, EndNone
<1>10. CASE InitOff
  <3>1. ClearAll
    BY <1>10 DEF InitOff
  <3> QED
    BY <3>1, Clears, EndNone
<1>11. CASE LoadOpen
  <3>1. UNCHANGED <<dr, asked, did, wc, ba, xfer>> /\ BusKept
    BY <1>11 DEF LoadOpen, CmdUnch, ctlr, hist, disks, BusKept
  <3>2. UNCHANGED <<io, loc>>
    BY <1>11 DEF LoadOpen, CmdUnch, ctlr, hist, disks
  <3> QED
    BY <3>1, <3>2, EndKept DEF Transferring
<1>12. CASE LoadFails
  <3>1. UNCHANGED <<dr, asked, did, wc, ba, xfer>> /\ BusKept
    BY <1>12 DEF LoadFails, CmdUnch, ctlr, hist, disks, BusKept
  <3>2. UNCHANGED <<io, loc>>
    BY <1>12 DEF LoadFails, CmdUnch, ctlr, hist, disks
  <3> QED
    BY <3>1, <3>2, EndKept DEF Transferring
<1>13. CASE LoadDone
  <3>1. UNCHANGED <<dr, asked, did, wc, ba, xfer>> /\ BusKept
    BY <1>13 DEF LoadDone, CmdUnch, ctlr, hist, disks, BusKept
  <3>2. UNCHANGED <<io, loc>>
    BY <1>13 DEF LoadDone, CmdUnch, ctlr, hist, disks
  <3> QED
    BY <3>1, <3>2, EndKept DEF Transferring
<1>14. CASE UNCHANGED vars
  <3>1. UNCHANGED <<dr, asked, did, wc, ba, xfer>> /\ BusKept
    BY <1>14 DEF vars, ctlr, disks, hist, BusKept
  <3>2. UNCHANGED <<io, loc>>
    BY <1>14 DEF vars, ctlr, disks, hist
  <3> QED
    BY <3>1, <3>2, EndKept DEF Transferring
<1>15. CASE LoadClose
  <3>1. UNCHANGED <<dr, asked, did, wc, ba, xfer>> /\ BusKept
    BY <1>15 DEF LoadClose, CmdUnch, ctlr, hist, BusKept
  <3>2. UNCHANGED <<io, loc>>
    BY <1>15 DEF LoadClose, CmdUnch
  <3> QED
    BY <3>1, <3>2, EndKept DEF Transferring
<1>16. CASE LoadEmpty
  <3>1. UNCHANGED <<dr, asked, did, wc, ba, xfer>> /\ BusKept
    BY <1>16 DEF LoadEmpty, CmdUnch, ctlr, hist, BusKept
  <3>2. UNCHANGED <<io, loc>>
    BY <1>16 DEF LoadEmpty, CmdUnch
  <3> QED
    BY <3>1, <3>2, EndKept DEF Transferring
<1>17. CASE LoadType
  <3>1. UNCHANGED <<dr, asked, did, wc, ba, xfer>> /\ BusKept
    BY <1>17 DEF LoadType, CmdUnch, ctlr, hist, BusKept
  <3>2. UNCHANGED <<io, loc>>
    BY <1>17 DEF LoadType, CmdUnch
  <3> QED
    BY <3>1, <3>2, EndKept DEF Transferring
<1> QED
  BY <1>1, <1>2, <1>3, <1>4, <1>5, <1>6, <1>7, <1>8, <1>9, <1>10, <1>11, <1>12, <1>13, <1>14,
       <1>15, <1>16, <1>17, Steps, Zenon

-----------------------------------------------------------------------------
(* The theorems. *)

\* It holds at first.
LEMMA RhInit ==
  ASSUME Init
  PROVE  RhInv
<1>1. <<0, 0, 0>> \in Places /\ 0 \in 0 .. WMax - 1 /\ 0 \in 0 .. Large
  BY Sizes DEF Places
<1>2. DrTypes
  BY <1>1 DEF Init, DrTypes, DriveRegs
<1>3. DiskTypes
  <2>1. /\ file \in [Drives -> Files \cup {None}]
        /\ page \in [Drives -> [big : BOOLEAN, ro : BOOLEAN]]
    BY StatusTyped DEF Init
  <2> QED
    BY <2>1 DEF Init, DiskTypes, Status, Shown
<1>4. RegTypes /\ XferTypes /\ CmdTypes
  BY <1>1 DEF Init, RegTypes, XferTypes, NoXfer, CmdTypes, Idle
<1>5. IoTypes
  BY <1>1 DEF Init, IoTypes, NoLoc
<1>6. HistTypes
  BY <1>1 DEF Init, HistTypes, Nothing, NotDone, Orders, Transfers
<1>7. RhTypes
  BY <1>2, <1>3, <1>4, <1>5, <1>6 DEF RhTypes
<1>8. Told
  BY DEF Init, Told, Tells, Status, Idle
<1>9. ~ init /\ rdy /\ ~ xfer.go /\ io = "wait" /\ \A d \in Drives : ~ dr[d].go /\ ~ dr[d].sip
  BY DEF Init, NoXfer
<1>10. OneDrive
  BY <1>9 DEF OneDrive, Alone, Transferring
<1>11. Ordered /\ EndShown
  BY <1>9 DEF Ordered, AsAsked, XferAsAsked, LocAsAsked, EndShown, Transferring
<1> QED
  BY <1>7, <1>8, <1>10, <1>11 DEF RhInv

\* And a step keeps it.
LEMMA RhStep ==
  ASSUME RhInv, [Next]_vars, ~ Intrude, "ILX" \notin Fns
  PROVE  RhInv'
<1> USE DEF RhInv
<1>1. RhTypes'
  BY DrTyped, RestTyped DEF RhTypes
<1>6. page' = page
  BY PageKept
<1>2. Told'
  BY <1>6, ToldStep
<1>3. OneDrive'
  BY <1>2, <1>6, OneDriveStep
<1>4. Ordered'
  BY <1>2, <1>3, <1>6, OrderedStep
<1>5. EndShown'
  BY <1>3, EndShownStep
<1> QED
  BY <1>1, <1>2, <1>3, <1>4, <1>5

\* The invariant of a controller whose daemon is left to do its transfers
\* (rh11.v, z11rh.cc).
THEOREM RhInvariance ==
  ASSUME ~ Intrude, "ILX" \notin Fns
  PROVE  Spec => []RhInv
<1>1. Init => RhInv
  BY RhInit
<1>2. RhInv /\ [Next]_vars => RhInv'
  BY RhStep
<1> QED
  BY <1>1, <1>2, PTL DEF Spec

\* For any drives, files and transfers: the i/o thread works on the transfer
\* the FPGA has in progress, of the drive and with the count it was given
\* ("there can only be one of these going at a time", z11rh.cc).
THEOREM OneTransferHolds ==
  ASSUME ~ Intrude, "ILX" \notin Fns
  PROVE  Spec => []OneTransfer
<1>1. ASSUME RhInv PROVE OneTransfer
  <2>1. RhTypeOK
    <3>1. \A d \in Drives : file[d] \in Files \cup {None} /\ dr[d].cc \in 0 .. Large
      BY <1>1 DEF RhInv, RhTypes, DrTypes, DriveRegs, DiskTypes
    <3> QED
      BY <1>1, <3>1 DEF RhInv, RhTypes, RegTypes, IoTypes, RhTypeOK
  <2>2. ASSUME io \in {"move", "end2"}
        PROVE  /\ xfer.go /\ xfer.d = loc.d /\ asked.d = loc.d /\ ~ rdy
               /\ wc = asked.wc /\ ~ dr[loc.d].dry
    <3>1. xfer.go /\ xfer.d \in Drives /\ Transferring(xfer.d) /\ loc.d = asked.d
      BY <1>1, <2>2 DEF RhInv, OneDrive, Ordered, LocAsAsked
    <3>2. asked.d = xfer.d /\ ~ rdy /\ ~ dr[xfer.d].dry
      BY <1>1, <3>1 DEF RhInv, OneDrive, Alone, Transferring, Transfers
    <3>3. wc = asked.wc
      BY <1>1, <3>1 DEF RhInv, Ordered, XferAsAsked
    <3> QED
      BY <3>1, <3>2, <3>3
  <2> QED
    BY <2>1, <2>2 DEF OneTransfer
<1>2. RhInv => OneTransfer
  BY <1>1
<1> QED
  BY <1>2, RhInvariance, PTL

\* For any pack, transfer and outcome, whatever is given to and loaded into the
\* other drives meanwhile: when the FPGA posts the end of a transfer the daemon
\* has done the one asked for, and the registers tell where it ended, sector by
\* sector along the pack, and whether it failed (dotransfer, rh11.v).
THEOREM EndsAsAskedHolds ==
  ASSUME ~ Intrude, "ILX" \notin Fns
  PROVE  Spec => EndsAsAsked
<1> DEFINE Posts(d) ==
       /\ asked.d = d /\ Low(did.o) = Low(asked)
       /\ wc = (asked.wc + did.k) % WMax
       /\ ba % Bank = After(did.o, did.k) % Bank
       /\ kept => did.o = asked /\ ba = After(asked, did.k)
       /\ dr'[d].at = Sectors(asked.at, did.seen)
       /\ did.ok <=> cserr' \cap {"wce", "nxm"} = {} /\ ~ xfer.fer
       /\ did.ok => wc = 0 \/ dr'[d].at[1] >= did.cyls
<1>1. ASSUME RhInv, NEW d \in Drives, XferPost(d)
      PROVE  Posts(d)
  <2>1. /\ Transferring(d) /\ ~ dr[d].fin /\ ~ xfer.go
        /\ dr'[d].at = xfer.at
    BY <1>1, XferPosts DEF RhInv, Transferring
  <2>2. Ended(wc, ba, xfer.at, xfer) /\ asked.d = d
    BY <1>1, <2>1 DEF RhInv, OneDrive, Alone, EndShown
  <2>3. cserr' \cap {"wce", "nxm"} = {} <=> ~ xfer.wce /\ ~ xfer.nxm
    <3>1. cserr' = (cserr \ {"wce", "nxm"}) \cup {e \in {"wce", "nxm"} : xfer[e]}
      BY <1>1 DEF XferPost
    <3>2. "wce" \in cserr' <=> xfer.wce
      BY <3>1
    <3>3. "nxm" \in cserr' <=> xfer.nxm
      BY <3>1
    <3> QED
      BY <3>2, <3>3
  <2> QED
    BY <2>1, <2>2, <2>3 DEF Ended
<1>2. RhInv => [\A d \in Drives : XferPost(d) => Posts(d)]_vars
  BY <1>1
<1>3. [][\A d \in Drives : XferPost(d) => Posts(d)]_vars <=> EndsAsAsked
  BY PTL DEF EndsAsAsked
<1> QED
  BY <1>2, <1>3, RhInvariance, PTL

=============================================================================
