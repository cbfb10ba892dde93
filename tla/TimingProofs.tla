---------------------------- MODULE TimingProofs ----------------------------
(***************************************************************************)
(* Proofs about TimingPackets, for counters of any width, any clocks and    *)
(* traces of any length.                                                    *)
(*                                                                         *)
(* The arithmetic: a time a is PerMtc * n + Ratio * c + f: n MTCs, c ticks   *)
(* of the CTC and f of the TSC.  Every step is about one of these parts, by  *)
(* the uniqueness of quotient and remainder (DivModUnique).  It says what a  *)
(* TMA's count is repaired to from the one after it (RepairedFromNext) and   *)
(* how far the time of an MTC is off (TimedWithinAPeriod).                  *)
(*                                                                         *)
(* The list: what is collected is in the order of the times, each TMA behind *)
(* its TSC (Collected).  Each round keeps that, but for the MTCs that the    *)
(* third and the fourth remove (Kept), and leaves something for the next:    *)
(* TMAs that are counted (Counted, Unrepaired), that are right up to the     *)
(* first complete block (RepairedTo), MTCs timed from the TMA of their block *)
(* (TimesOk, ShortOk), overflows that are marked (OvfOk).  Together this is  *)
(* the inductive invariant (Inv), from which the properties follow.         *)
(***************************************************************************)
EXTENDS TimingPackets, TLAPS, LoopLemmas

-----------------------------------------------------------------------------
(* Quotients and remainders *)

\* Multiplying keeps the order.
LEMMA Monotone ==
  ASSUME NEW b \in Nat, NEW x \in Int, NEW y \in Int, x <= y
  PROVE  b * x <= b * y
  BY SMT

\* Quotient and remainder make up the number.
LEMMA DivMod ==
  ASSUME NEW a \in Int, NEW b \in Nat \ {0}
  PROVE  /\ a \div b \in Int /\ a % b \in 0 .. b - 1
         /\ a = b * (a \div b) + (a % b)
  BY SMT

\* There is one quotient and one remainder.
LEMMA DivModUnique ==
  ASSUME NEW b \in Nat \ {0}, NEW q \in Int, NEW r \in 0 .. b - 1, NEW a \in Int, a = b * q + r
  PROVE  a \div b = q /\ a % b = r
<1> DEFINE d == a \div b
           m == a % b
<1>1. d \in Int /\ m \in 0 .. b - 1 /\ a = b * d + m
  BY DivMod
<1> HIDE DEF d, m
<1>2. ~ (q + 1 <= d)
  <2> SUFFICES ASSUME q + 1 <= d PROVE FALSE
    OBVIOUS
  <2>1. b * (q + 1) <= b * d
    BY <1>1, Monotone
  <2>2. b * (q + 1) = b * q + b
    OBVIOUS
  <2>3. b * q \in Int /\ b * d \in Int
    BY <1>1
  <2> QED
    BY <1>1, <2>1, <2>2, <2>3
<1>3. ~ (d + 1 <= q)
  <2> SUFFICES ASSUME d + 1 <= q PROVE FALSE
    OBVIOUS
  <2>1. b * (d + 1) <= b * q
    BY <1>1, Monotone
  <2>2. b * (d + 1) = b * d + b
    BY <1>1
  <2>3. b * q \in Int /\ b * d \in Int
    BY <1>1
  <2> QED
    BY <1>1, <2>1, <2>2, <2>3
<1>4. d = q
  BY <1>1, <1>2, <1>3
<1>5. b * d = b * q
  BY <1>4
<1>6. b * q \in Int
  OBVIOUS
<1>7. m = r
  BY <1>1, <1>5, <1>6
<1> QED
  BY <1>4, <1>7 DEF d, m

\* The constants, and the period of the MTCs, are positive.
LEMMA Units == /\ Ticks \in Nat \ {0} /\ Ratio \in Nat \ {0} /\ PerMtc \in Nat \ {0}
               /\ TmaRollover \in Nat \ {0} /\ Rollover \in Nat \ {0} /\ Margin \in Nat \ {0}
  BY TimingAssumption DEF PerMtc

\* Named, so that the provers look at the product only where it matters.
IsProduct(p, t, u) == p = t * u

\* The CTC of a TMA lacks the count's highest bit, and nothing else.
LEMMA CutCount ==
  ASSUME NEW x \in Nat, NEW p \in Nat, IsProduct(p, Ticks, TmaRollover)
  PROVE  /\ p # 0
         /\ (x % p) % Ticks = x % Ticks
         /\ (x % p) \div Ticks = (x \div Ticks) % TmaRollover
<1> DEFINE e == x \div Ticks
           c == x % Ticks
           g == e \div TmaRollover
           h == e % TmaRollover
<1>0. x \in Int /\ Ticks \in Nat \ {0} /\ TmaRollover \in Nat \ {0}
  BY Units
<1>1. e \in Int /\ c \in 0 .. Ticks - 1 /\ x = Ticks * e + c
  BY <1>0, DivMod
<1>2. g \in Int /\ h \in 0 .. TmaRollover - 1 /\ e = TmaRollover * g + h
  BY <1>0, <1>1, DivMod
<1> HIDE DEF e, c, g, h
<1>3. Ticks * TmaRollover \in Nat \ {0} /\ Ticks * h \in Nat
  BY <1>0, <1>2
<1>4. Ticks * h + c \in 0 .. Ticks * TmaRollover - 1
  <2>1. Ticks * (h + 1) <= Ticks * TmaRollover
    BY <1>0, <1>2, Monotone
  <2>2. Ticks * (h + 1) = Ticks * h + Ticks
    BY <1>0, <1>2
  <2> QED
    BY <1>0, <1>1, <1>3, <2>1, <2>2
<1>5. x = (Ticks * TmaRollover) * g + (Ticks * h + c)
  <2>1. Ticks * e = Ticks * (TmaRollover * g) + Ticks * h
    BY <1>0, <1>2
  <2>2. Ticks * (TmaRollover * g) = (Ticks * TmaRollover) * g
    BY <1>0, <1>2
  <2> QED
    BY <1>0, <1>1, <1>2, <1>3, <2>1, <2>2
<1>6. x % p = Ticks * h + c
  <2> DEFINE r == Ticks * h + c
  <2>1. p \in Nat \ {0} /\ r \in 0 .. p - 1
    BY <1>0, <1>3, <1>4 DEF IsProduct
  <2>2. x = p * g + r
    BY <1>0, <1>5 DEF IsProduct
  <2> HIDE DEF r
  <2>3. r \in Int
    BY <2>1
  <2>4. x % p = r
    BY <1>0, <1>2, <2>1, <2>2, DivModUnique
  <2> QED
    BY <2>4 DEF r
<1>7. (Ticks * h + c) \div Ticks = h /\ (Ticks * h + c) % Ticks = c
  <2> DEFINE r == Ticks * h + c
  <2>1. r \in Int /\ r = Ticks * h + c
    BY <1>0, <1>1, <1>3
  <2> HIDE DEF r
  <2>2. h \in Int /\ c \in 0 .. Ticks - 1
    BY <1>1, <1>2
  <2>3. r \div Ticks = h /\ r % Ticks = c
    BY <1>0, <2>1, <2>2, DivModUnique
  <2> QED
    BY <2>3 DEF r
<1> QED
  BY <1>0, <1>3, <1>6, <1>7 DEF c, h, e, IsProduct

\* The parts of a time
LEMMA Parts ==
  ASSUME NEW a \in Nat
  PROVE  LET n == a \div PerMtc
             c == Ctc(a) % Ticks
             f == a % Ratio
         IN  /\ n \in Nat /\ c \in 0 .. Ticks - 1 /\ f \in 0 .. Ratio - 1
             /\ Ctc(a) \in Nat /\ Ctc(a) \div Ticks = n
             /\ a = PerMtc * n + Ratio * c + f
<1> DEFINE d == Ctc(a)
           e == d \div Ticks
           c == d % Ticks
           f == a % Ratio
<1>1. d \in Int /\ f \in 0 .. Ratio - 1 /\ a = Ratio * d + f
  BY Units, DivMod DEF Ctc
<1>2. e \in Int /\ c \in 0 .. Ticks - 1 /\ d = Ticks * e + c
  BY <1>1, Units, DivMod
<1> HIDE DEF d, e, c, f
<1>3. Ratio * c \in Nat
  BY <1>2, Units
<1>4. Ratio * c + f \in 0 .. PerMtc - 1
  <2>1. Ratio * (c + 1) <= Ratio * Ticks
    BY <1>2, Units, Monotone
  <2>2. Ratio * (c + 1) = Ratio * c + Ratio /\ Ratio * Ticks = PerMtc
    BY <1>2, Units DEF PerMtc
  <2> QED
    BY <1>1, <1>3, <2>1, <2>2, Units
<1>5. a = PerMtc * e + (Ratio * c + f)
  <2>1. Ratio * d = Ratio * (Ticks * e) + Ratio * c
    BY <1>2, Units
  <2>2. Ratio * (Ticks * e) = PerMtc * e
    BY <1>2, Units DEF PerMtc
  <2> QED
    BY <1>1, <1>2, <1>3, <2>1, <2>2, Units
<1>6. a \div PerMtc = e
  <2> DEFINE r == Ratio * c + f
  <2>1. r \in 0 .. PerMtc - 1 /\ a = PerMtc * e + r
    BY <1>4, <1>5
  <2> HIDE DEF r
  <2> QED
    BY <1>2, <2>1, Units, DivModUnique
<1>7. e \in Nat /\ d \in Nat
  BY <1>6, Units DEF d, Ctc
<1>8. PerMtc * e \in Int
  BY <1>7, Units
<1>9. a = PerMtc * e + Ratio * c + f
  BY <1>1, <1>3, <1>5, <1>8
<1>10. a \div PerMtc = d \div Ticks
  BY <1>6 DEF e
<1> QED
  BY <1>1, <1>2, <1>6, <1>7, <1>9, <1>10 DEF d, e, c, f

-----------------------------------------------------------------------------
(* The time of an MTC *)

\* What the first round makes of a TMA sent at a (tsc_heuristics_first_round)
IsTmaOf(tma, a) ==
  /\ tma.mtc = MtcAt(a)
  /\ tma.tsc_in_next_mtc = a + (a % Ratio) + TicksToNext(Ctc(a) % (Ticks * TmaRollover)) * Ratio

\* Counts that are less than a rollover apart
LEMMA CountsApart ==
  ASSUME NEW n \in Nat, NEW k \in Nat, n < k, k <= n + Rollover
  PROVE  ((k % Rollover) - ((n % Rollover) + 1)) % Rollover = k - n - 1
<1> DEFINE u == k \div Rollover
           kr == k % Rollover
           v == n \div Rollover
           nr == n % Rollover
<1>1. u \in Int /\ kr \in 0 .. Rollover - 1 /\ k = Rollover * u + kr
  BY Units, DivMod
<1>2. v \in Int /\ nr \in 0 .. Rollover - 1 /\ n = Rollover * v + nr
  BY Units, DivMod
<1> HIDE DEF u, kr, v, nr
<1>3. Rollover * (v - u) = Rollover * v - Rollover * u /\ Rollover * v \in Int /\ Rollover * u \in Int
  BY <1>1, <1>2, Units
<1>4. kr - (nr + 1) = Rollover * (v - u) + (k - n - 1)
  BY <1>1, <1>2, <1>3, Units
<1>5. (kr - (nr + 1)) % Rollover = k - n - 1
  <2> DEFINE x == kr - (nr + 1)
             w == v - u
             r == k - n - 1
  <2>1. x \in Int /\ w \in Int /\ r \in 0 .. Rollover - 1 /\ x = Rollover * w + r
    BY <1>1, <1>2, <1>4, Units
  <2> HIDE DEF x, w, r
  <2>2. x % Rollover = r
    BY <2>1, Units, DivModUnique
  <2> QED
    BY <2>2 DEF x, r
<1> QED
  BY <1>5 DEF kr, nr

\* An MTC that comes less than a rollover after a TMA whose count is right gets a
\* time that is off by no more than an MTC period and a tick of the CTC, whatever
\* has been lost between the two (tsc_heuristics_third_round).
THEOREM TimedWithinAPeriod ==
  ASSUME NEW a \in Nat, NEW tma, IsTmaOf(tma, a),
         NEW k \in Nat, a \div PerMtc < k, k <= a \div PerMtc + Rollover
  PROVE  Distance(TimeAfter(tma, k % Rollover), PerMtc * k) <= PerMtc + Ratio
<1> DEFINE n == a \div PerMtc
           c == Ctc(a) % Ticks
           f == a % Ratio
           next == Ticks - ((c + 1) % Ticks)
<1>1. /\ n \in Nat /\ c \in 0 .. Ticks - 1 /\ f \in 0 .. Ratio - 1 /\ Ctc(a) \in Nat
      /\ a = PerMtc * n + Ratio * c + f
  BY Parts
<1>2. TicksToNext(Ctc(a) % (Ticks * TmaRollover)) = next
  <2> DEFINE tt == Ticks * TmaRollover
             d == Ctc(a)
             x == d % tt
  <2>1. d \in Nat
    BY <1>1
  <2>2. tt \in Nat \ {0} /\ IsProduct(tt, Ticks, TmaRollover)
    BY Units DEF IsProduct
  <2> HIDE DEF d, tt
  <2>3. x % Ticks = d % Ticks
    BY <2>1, <2>2, CutCount
  <2>4. x \in Nat
    BY <2>1, <2>2, DivMod
  <2>5. x % Ticks = c
    BY <2>3 DEF d
  <2> HIDE DEF x, c
  <2>6. (x + 1) % Ticks = (c + 1) % Ticks
    <3> DEFINE e == x \div Ticks
               g == (c + 1) \div Ticks
               r == (c + 1) % Ticks
               z == x + 1
               q == e + g
    <3>1. x = Ticks * e + c /\ e \in Int
      BY <2>4, <2>5, Units, DivMod
    <3>2. c + 1 = Ticks * g + r /\ g \in Int /\ r \in 0 .. Ticks - 1
      BY <1>1, Units, DivMod
    <3> HIDE DEF e, g, r
    <3>3. Ticks * (e + g) = Ticks * e + Ticks * g /\ Ticks * e \in Int /\ Ticks * g \in Int
      BY <3>1, <3>2, Units
    <3>4. z = Ticks * q + r /\ z \in Int /\ q \in Int
      BY <3>1, <3>2, <3>3, <2>4, <1>1
    <3> HIDE DEF z, q
    <3>5. z % Ticks = r
      BY <3>2, <3>4, Units, DivModUnique
    <3> QED
      BY <3>5 DEF z, r
  <2>7. ((Ctc(a) % (Ticks * TmaRollover)) + 1) % Ticks = (c + 1) % Ticks
    BY <2>6 DEF x, tt, d
  <2> QED
    BY <2>7 DEF TicksToNext
<1>3. TimeAfter(tma, k % Rollover) = a + f + next * Ratio + (k - n - 1) * PerMtc
  <2>1. ((k % Rollover) - ((n % Rollover) + 1)) % Rollover = k - n - 1
    BY <1>1, CountsApart
  <2>2. tma.mtc = n % Rollover /\ tma.tsc_in_next_mtc = a + f + next * Ratio
    BY <1>2 DEF IsTmaOf, MtcAt
  <2> QED
    BY <2>1, <2>2 DEF TimeAfter
<1>4. (k - n - 1) * PerMtc = PerMtc * k - PerMtc * n - PerMtc
  BY <1>1, Units
<1> DEFINE pn == PerMtc * n
           pk == PerMtc * k
           rc == Ratio * c
           rn == Ratio * next
           time == TimeAfter(tma, k % Rollover)
<1>5. /\ pn \in Int /\ pk \in Int /\ rc \in Nat /\ rn \in Int
      /\ next * Ratio = rn /\ a = pn + rc + f
  <2> HIDE DEF n, c, f
  <2>1. next \in Int
    <3>1. (c + 1) % Ticks \in Int
      BY <1>1, Units, DivMod
    <3> QED
      BY <3>1, Units
  <2> HIDE DEF next
  <2>2. PerMtc * n \in Int /\ PerMtc * k \in Int /\ Ratio * next \in Int
    BY <1>1, <2>1, Units
  <2>3. Ratio * c \in Nat
    BY <1>1, Units
  <2>4. next * Ratio = Ratio * next
    BY <2>1, Units
  <2> QED
    BY <1>1, <2>2, <2>3, <2>4
<1>6. time = a + f + rn + (pk - pn - PerMtc)
  BY <1>3, <1>4, <1>5
<1>7. Distance(time, pk) <= PerMtc + Ratio <=> Distance(TimeAfter(tma, k % Rollover), PerMtc * k) <= PerMtc + Ratio
  OBVIOUS
<1> HIDE DEF n, c, f, pn, pk, time
<1>8. CASE c + 1 < Ticks
  <2>1. (c + 1) % Ticks = c + 1
    BY <1>1, <1>8, Units
  <2>2. Ratio * (Ticks - (c + 1)) = Ratio * Ticks - Ratio * c - Ratio
    BY <1>1, Units
  <2>3. rn = PerMtc - rc - Ratio
    BY <1>1, <2>1, <2>2, Units DEF PerMtc
  <2> HIDE DEF rc, rn
  <2>4. time - pk = 2 * f - Ratio /\ time \in Int
    BY <1>1, <1>5, <1>6, <2>3, Units
  <2> QED
    BY <1>1, <1>5, <1>7, <2>4, Units DEF Distance
<1>9. CASE c + 1 = Ticks
  <2>1. (c + 1) % Ticks = 0
    BY <1>1, <1>9, Units
  <2>2. rn = PerMtc
    BY <1>1, <2>1, Units DEF PerMtc
  <2>3. Ratio * (c + 1) = Ratio * c + Ratio
    BY <1>1, Units
  <2>4. rc = PerMtc - Ratio
    BY <1>1, <1>9, <2>3, Units DEF PerMtc
  <2> HIDE DEF rc, rn
  <2>5. time - pk = PerMtc + 2 * f - Ratio /\ time \in Int
    BY <1>1, <1>5, <1>6, <2>2, <2>4, Units
  <2> QED
    BY <1>1, <1>5, <1>7, <2>5, Units DEF Distance
<1> QED
  BY <1>1, <1>8, <1>9, Units

-----------------------------------------------------------------------------
(* The count of a TMA *)

\* The MTCs calculated between two times are at most one too few.
LEMMA Elapsed ==
  ASSUME NEW a \in Nat, NEW b \in Nat, a <= b
  PROVE  (b - a) \div PerMtc \in {(b \div PerMtc) - (a \div PerMtc), (b \div PerMtc) - (a \div PerMtc) - 1}
<1> DEFINE A == a \div PerMtc
           ra == a % PerMtc
           B == b \div PerMtc
           rb == b % PerMtc
<1>1. A \in Int /\ ra \in 0 .. PerMtc - 1 /\ a = PerMtc * A + ra
  BY Units, DivMod
<1>2. B \in Int /\ rb \in 0 .. PerMtc - 1 /\ b = PerMtc * B + rb
  BY Units, DivMod
<1> DEFINE x == b - a
           d == B - A
<1>3. x \in Int /\ d \in Int
  BY <1>1, <1>2
<1>4. x \div PerMtc \in {d, d - 1} <=> (b - a) \div PerMtc \in {(b \div PerMtc) - (a \div PerMtc), (b \div PerMtc) - (a \div PerMtc) - 1}
  OBVIOUS
<1> HIDE DEF A, ra, B, rb
<1>5. PerMtc * d = PerMtc * B - PerMtc * A
  BY <1>1, <1>2, Units
<1>6. PerMtc * (d - 1) = PerMtc * d - PerMtc
  BY <1>3, Units
<1>7. PerMtc * A \in Int /\ PerMtc * B \in Int
  BY <1>1, <1>2, Units
<1>8. x = PerMtc * d + (rb - ra)
  BY <1>1, <1>2, <1>5, <1>7
<1> HIDE DEF x, d
<1>9. CASE rb >= ra
  <2> DEFINE r == rb - ra
  <2>1. r \in 0 .. PerMtc - 1 /\ x = PerMtc * d + r
    BY <1>1, <1>2, <1>8, <1>9, Units
  <2> HIDE DEF r
  <2>2. x \div PerMtc = d
    BY <1>3, <2>1, Units, DivModUnique
  <2> QED
    BY <1>4, <2>2
<1>10. CASE rb < ra
  <2> DEFINE r == PerMtc + rb - ra
             e == d - 1
  <2>1. PerMtc * d \in Int /\ e \in Int
    BY <1>3, Units
  <2>2. r \in 0 .. PerMtc - 1 /\ x = PerMtc * e + r
    BY <1>1, <1>2, <1>6, <1>8, <1>10, <2>1, Units
  <2> HIDE DEF r, e
  <2>3. x \div PerMtc = e
    BY <1>3, <2>1, <2>2, Units, DivModUnique
  <2> QED
    BY <1>4, <2>3 DEF e
<1> QED
  BY <1>1, <1>2, <1>9, <1>10

\* Counting back from a count that is taken modulo the rollover
LEMMA CountBack ==
  ASSUME NEW k \in Int, NEW d \in Int
  PROVE  ((k % Rollover) - d) % Rollover = (k - d) % Rollover
<1> DEFINE u == k \div Rollover
           kr == k % Rollover
           y == k - d
           w == y \div Rollover
           yr == y % Rollover
           x == kr - d
           v == w - u
<1>1. u \in Int /\ kr \in 0 .. Rollover - 1 /\ k = Rollover * u + kr
  BY Units, DivMod
<1>2. y \in Int
  OBVIOUS
<1> HIDE DEF kr, u
<1>3. w \in Int /\ yr \in 0 .. Rollover - 1 /\ y = Rollover * w + yr
  BY <1>2, Units, DivMod
<1> HIDE DEF w, yr
<1>4. Rollover * v = Rollover * w - Rollover * u
  BY <1>1, <1>3, Units
<1>5. Rollover * w \in Int /\ Rollover * u \in Int /\ v \in Int /\ x \in Int
  BY <1>1, <1>3, Units
<1>6. x = Rollover * v + yr
  BY <1>1, <1>3, <1>4, <1>5
<1> HIDE DEF y, x, v
<1>7. x % Rollover = yr
  BY <1>3, <1>5, <1>6, Units, DivModUnique
<1> QED
  BY <1>7 DEF x, yr, kr, y

\* The count one on
LEMMA CountOn ==
  ASSUME NEW k \in Int
  PROVE  (k + 1) % Rollover = IF (k % Rollover) + 1 < Rollover THEN (k % Rollover) + 1 ELSE 0
<1> DEFINE u == k \div Rollover
           kr == k % Rollover
           x == k + 1
           v == u + 1
           z == kr + 1
           none == 0
<1>1. u \in Int /\ kr \in 0 .. Rollover - 1 /\ k = Rollover * u + kr
  BY Units, DivMod
<1> HIDE DEF u, kr
<1>2. Rollover * v = Rollover * u + Rollover /\ Rollover * u \in Int /\ v \in Int /\ x \in Int
  BY <1>1, Units
<1> HIDE DEF v
<1>3. (Rollover * v) % Rollover = 0
  <2> DEFINE y == Rollover * v
  <2>1. none \in 0 .. Rollover - 1 /\ y = Rollover * v + none /\ y \in Int
    BY <1>2, Units
  <2> HIDE DEF y, none
  <2>2. y % Rollover = none
    BY ZenonT(30), <1>2, <2>1, Units, DivModUnique
  <2> QED
    BY <2>2 DEF y, none
<1>4. CASE kr + 1 < Rollover
  <2>1. z \in 0 .. Rollover - 1
    BY <1>1, <1>4, Units
  <2>2. x = Rollover * u + z
    BY <1>1, <1>2
  <2> HIDE DEF x, z
  <2>3. x % Rollover = z
    BY <1>1, <1>2, <2>1, <2>2, Units, DivModUnique
  <2> QED
    BY <1>4, <2>3 DEF x, z, kr
<1>5. CASE kr + 1 = Rollover
  <2>1. x = Rollover * v
    BY <1>1, <1>2, <1>5, Units
  <2> HIDE DEF x
  <2>2. x % Rollover = 0
    BY <1>3, <2>1
  <2> QED
    BY <1>5, <2>2, <1>1, Units DEF x, kr
<1> QED
  BY <1>1, <1>4, <1>5, Units

\* The bit that a TMA's count lacks
LEMMA HighestBit ==
  ASSUME NEW k \in Nat, IsProduct(Rollover, 2, TmaRollover)
  PROVE  k % Rollover \in {k % TmaRollover, (k % TmaRollover) + TmaRollover}
<1> DEFINE u == k \div Rollover
           kr == k % Rollover
           v == 2 * u
           w == 2 * u + 1
           r == kr - TmaRollover
<1>0. k \in Int
  OBVIOUS
<1>1. u \in Int /\ kr \in 0 .. Rollover - 1 /\ k = Rollover * u + kr
  BY <1>0, Units, DivMod
<1> HIDE DEF u, kr
<1>2. Rollover * u = TmaRollover * v /\ TmaRollover * w = TmaRollover * v + TmaRollover
  BY <1>1, Units DEF IsProduct
<1>3. TmaRollover * v \in Int /\ v \in Int /\ w \in Int /\ k \in Int
  BY <1>1, Units
<1> HIDE DEF v, w
<1>4. CASE kr < TmaRollover
  <2>1. kr \in 0 .. TmaRollover - 1 /\ k = TmaRollover * v + kr
    BY <1>1, <1>2, <1>4, Units
  <2>2. k % TmaRollover = kr
    BY ZenonT(30), <1>3, <2>1, Units, DivModUnique
  <2> QED
    BY <2>2 DEF kr
<1>5. CASE kr >= TmaRollover
  <2>1. r \in 0 .. TmaRollover - 1 /\ k = TmaRollover * w + r
    BY <1>1, <1>2, <1>3, <1>5, Units DEF IsProduct
  <2> HIDE DEF r
  <2>2. k % TmaRollover = r
    BY ZenonT(30), <1>3, <2>1, Units, DivModUnique
  <2>3. kr = r + TmaRollover
    BY <1>1, Units DEF r
  <2> QED
    BY <2>2, <2>3 DEF kr
<1> QED
  BY <1>1, <1>4, <1>5, Units

\* The count of a TMA before it is repaired (tsc_heuristics_first_round)
CutMtc(a) == ((Ctc(a) % (Ticks * TmaRollover)) \div Ticks) % Rollover

\* What is left of a TMA's CTC is the count without its highest bit.
LEMMA CutMtcIs ==
  ASSUME NEW a \in Nat, Rollover = 2 * TmaRollover
  PROVE  CutMtc(a) = (a \div PerMtc) % TmaRollover
<1> DEFINE tt == Ticks * TmaRollover
           d == Ctc(a)
           n == a \div PerMtc
           m == n % TmaRollover
<1>1. d \in Nat /\ d \div Ticks = n /\ n \in Nat
  BY Parts
<1>2. tt \in Nat /\ IsProduct(tt, Ticks, TmaRollover)
  BY Units DEF IsProduct
<1>3. CutMtc(a) = ((d % tt) \div Ticks) % Rollover
  BY DEF CutMtc
<1> HIDE DEF tt, d, n
<1>4. (d % tt) \div Ticks = (d \div Ticks) % TmaRollover
  BY <1>1, <1>2, CutCount
<1>5. m \in 0 .. TmaRollover - 1
  BY <1>1, Units, DivMod
<1>6. CutMtc(a) = m % Rollover
  BY <1>1, <1>3, <1>4
<1> HIDE DEF m
<1>7. m % Rollover = m
  BY <1>5, Units
<1> QED
  BY <1>6, <1>7 DEF m, n

\* A set of naturals below a bound that is not empty has a greatest element.
LEMMA GreatestElement ==
  ASSUME NEW T, NEW b \in Nat, T \subseteq 0 .. b, T # {}
  PROVE  \E x \in T : \A y \in T : y <= x
<1> DEFINE U == {k \in Nat : k <= b /\ b - k \in T}
<1>1. U # {} /\ U \subseteq Nat
  <2>1. PICK x \in T : TRUE
    OBVIOUS
  <2>2. b - x \in Nat /\ b - (b - x) = x /\ b - x <= b
    BY <2>1
  <2>3. b - x \in U
    BY <2>1, <2>2
  <2> QED
    BY <2>3
<1>2. PICK k \in U : \A l \in U : k <= l
  <2> HIDE DEF U
  <2> QED
    BY <1>1, LeastElement
<1>3. \A y \in T : b - y \in U
  OBVIOUS
<1>4. \A y \in T : y <= b - k
  BY <1>2, <1>3
<1> QED
  BY <1>2, <1>4

\* The nearest before is the greatest before.
LEMMA BeforeCases ==
  ASSUME NEW S, S \subseteq Nat, NEW n \in Nat
  PROVE  \/ Before(S, n) = 0 /\ \A x \in S : x < n => x = 0
         \/ Before(S, n) \in S /\ Before(S, n) < n /\ \A x \in S : x < n => x <= Before(S, n)
<1> DEFINE B == {m \in S : m < n} \cup {0}
<1>0. 0 \in B /\ \A y \in B : y \in 0 .. n
  <2>1. \A y \in S : y < n => y \in 0 .. n
    OBVIOUS
  <2>2. 0 \in 0 .. n
    OBVIOUS
  <2> QED
    BY <2>1, <2>2
<1>1. PICK x \in B : \A y \in B : y <= x
  <2>1. B \subseteq 0 .. n /\ B # {}
    BY <1>0
  <2> HIDE DEF B
  <2> QED
    BY <2>1, GreatestElement
<1>2. Before(S, n) = CHOOSE z \in B : \A y \in B : z >= y
  BY DEF Before, Max
<1>3. \A y \in B : y \in Nat
  BY <1>0
<1> HIDE DEF B
<1>4. Before(S, n) \in B /\ \A y \in B : Before(S, n) >= y
  <2>1. \A y \in B : x >= y
    BY <1>1, <1>3
  <2> QED
    BY <1>1, <1>2, <2>1
<1>5. Before(S, n) = x
  BY <1>1, <1>3, <1>4
<1> QED
  BY <1>1, <1>3, <1>5 DEF B

\* The nearest after is the least after.
LEMMA AfterCases ==
  ASSUME NEW S, S \subseteq Nat, NEW n \in Nat
  PROVE  \/ After(S, n) = 0 /\ \A x \in S : ~(x > n)
         \/ After(S, n) \in S /\ After(S, n) > n /\ \A x \in S : x > n => After(S, n) <= x
<1> DEFINE B == {m \in S : m > n}
<1>1. CASE B = {}
  BY <1>1 DEF After
<1>2. CASE B # {}
  <2>1. PICK x \in B : \A y \in B : x <= y
    <3>1. B \subseteq Nat
      OBVIOUS
    <3> HIDE DEF B
    <3> QED
      BY <1>2, <3>1, LeastElement
  <2>2. After(S, n) = CHOOSE z \in B : \A y \in B : z =< y
    BY <1>2 DEF After, Min
  <2>3. B \subseteq Nat
    OBVIOUS
  <2> HIDE DEF B
  <2>4. After(S, n) \in B /\ \A y \in B : After(S, n) <= y
    BY <2>1, <2>2
  <2> QED
    BY <2>3, <2>4 DEF B
<1> QED
  BY <1>1, <1>2

-----------------------------------------------------------------------------
(* Lists of packets *)

\* The packets of a list, with everything that the rounds write into them
Types == {"TSC", "TMA", "MTC", "OVF"}
Packets ==
  [type : Types, at : Nat, tsc : Int, mtc : 0 .. Rollover - 1, ctc : Nat, fast : Nat,
   mtc_count : Int, pass : 0 .. 3, tsc_in_next_mtc : Int,
   known_rollover_points : BOOLEAN, ovf_tsc_lost : BOOLEAN]

\* A packet is in the block that a TMA begins.
InBlock(s, n, m) ==
  /\ n \in Tmas(s) /\ m \in DOMAIN s /\ n < m
  /\ \A i \in DOMAIN s : n < i /\ i < m => ~Has(s, i, "TMA")
\* The next TMA
IsNext(s, n, m) == InBlock(s, n, m) /\ Has(s, m, "TMA")
\* The TMA that a packet belongs to, itself if it is one
TmaOf(s, f, n) == IF Has(s, n, "TMA") THEN f = n ELSE InBlock(s, f, n)

\* Packets are numbered from 1.
LEMMA ListIndices ==
  ASSUME NEW s \in Seq(Packets)
  PROVE  /\ DOMAIN s = 1 .. Len(s) /\ Len(s) \in Nat
         /\ Tmas(s) \subseteq Nat /\ Mtcs(s) \subseteq Nat /\ Counters(s) \subseteq Nat
         /\ \A n \in DOMAIN s : s[n] \in Packets /\ n \in Nat /\ n # 0
<1>1. DOMAIN s = 1 .. Len(s) /\ Len(s) \in Nat
  OBVIOUS
<1> QED
  BY <1>1 DEF Tmas, Mtcs, Counters

\* The first TMA of a packet is the one whose block it is in.
LEMMA FirstIs ==
  ASSUME NEW s \in Seq(Packets), NEW n \in DOMAIN s
  PROVE  \/ FirstTma(s, n) = 0 /\ \A f \in Tmas(s) : ~(f < n)
         \/ FirstTma(s, n) # 0 /\ InBlock(s, FirstTma(s, n), n)
<1>1. n \in Nat /\ Tmas(s) \subseteq Nat /\ \A f \in Tmas(s) : f # 0
  BY ListIndices DEF Tmas
<1> DEFINE b == Before(Tmas(s), n)
<1>2. \/ b = 0 /\ \A x \in Tmas(s) : x < n => x = 0
      \/ b \in Tmas(s) /\ b < n /\ \A x \in Tmas(s) : x < n => x <= b
  BY <1>1, BeforeCases
<1>3. FirstTma(s, n) = b
  BY DEF FirstTma
<1> HIDE DEF b
<1>4. CASE b = 0 /\ \A x \in Tmas(s) : x < n => x = 0
  BY <1>1, <1>3, <1>4
<1>5. CASE b \in Tmas(s) /\ b < n /\ \A x \in Tmas(s) : x < n => x <= b
  <2>1. \A i \in DOMAIN s : b < i /\ i < n => ~Has(s, i, "TMA")
    <3> SUFFICES ASSUME NEW i \in DOMAIN s, b < i, i < n, Has(s, i, "TMA") PROVE FALSE
      OBVIOUS
    <3>1. i \in Tmas(s)
      BY DEF Tmas
    <3>2. i <= b
      BY <1>5, <3>1
    <3> QED
      BY <1>1, <1>5, <3>1, <3>2
  <2> QED
    BY <1>1, <1>3, <1>5, <2>1 DEF InBlock
<1> QED
  BY <1>2, <1>4, <1>5

\* There is one first TMA.
LEMMA OneFirst ==
  ASSUME NEW s \in Seq(Packets), NEW n \in DOMAIN s, NEW f, InBlock(s, f, n)
  PROVE  FirstTma(s, n) = f
<1>1. f \in Tmas(s) /\ f < n /\ n \in Nat /\ Tmas(s) \subseteq Nat
  BY ListIndices DEF InBlock
<1>2. InBlock(s, FirstTma(s, n), n)
  BY <1>1, FirstIs
<1> DEFINE g == FirstTma(s, n)
<1>3. InBlock(s, g, n)
  BY <1>2
<1> HIDE DEF g
<1>4. g \in Tmas(s) /\ g < n
  BY <1>3 DEF InBlock
<1>5. ~(f < g) /\ ~(g < f)
  BY <1>1, <1>3, <1>4 DEF InBlock, Tmas
<1>6. f = g
  BY <1>1, <1>4, <1>5
<1> QED
  BY <1>6 DEF g

\* The second TMA of a packet is the nearest one after it.
LEMMA SecondIs ==
  ASSUME NEW s \in Seq(Packets), NEW n \in DOMAIN s
  PROVE  \/ SecondTma(s, n) = 0 /\ \A f \in Tmas(s) : ~(n < f)
         \/ /\ SecondTma(s, n) \in Tmas(s) /\ n < SecondTma(s, n)
            /\ SecondTma(s, n) \in DOMAIN s /\ Has(s, SecondTma(s, n), "TMA") /\ SecondTma(s, n) # 0
            /\ \A i \in DOMAIN s : n < i /\ i < SecondTma(s, n) => ~Has(s, i, "TMA")
<1>1. n \in Nat /\ Tmas(s) \subseteq Nat /\ \A f \in Tmas(s) : f # 0
  BY ListIndices DEF Tmas
<1> DEFINE b == After(Tmas(s), n)
<1>2. \/ b = 0 /\ \A x \in Tmas(s) : ~(x > n)
      \/ b \in Tmas(s) /\ b > n /\ \A x \in Tmas(s) : x > n => b <= x
  BY <1>1, AfterCases
<1>3. SecondTma(s, n) = b
  BY DEF SecondTma
<1> HIDE DEF b
<1>4. CASE b = 0 /\ \A x \in Tmas(s) : ~(x > n)
  BY <1>1, <1>3, <1>4
<1>5. CASE b \in Tmas(s) /\ b > n /\ \A x \in Tmas(s) : x > n => b <= x
  <2>1. \A i \in DOMAIN s : n < i /\ i < b => ~Has(s, i, "TMA")
    <3> SUFFICES ASSUME NEW i \in DOMAIN s, n < i, i < b, Has(s, i, "TMA") PROVE FALSE
      OBVIOUS
    <3>1. i \in Tmas(s)
      BY DEF Tmas
    <3>2. b <= i
      BY <1>1, <1>5, <3>1
    <3> QED
      BY <1>1, <1>5, <3>1, <3>2
  <2>2. b \in DOMAIN s /\ Has(s, b, "TMA") /\ b # 0
    BY <1>1, <1>5 DEF Tmas
  <2> QED
    BY <1>1, <1>3, <1>5, <2>1, <2>2
<1> QED
  BY <1>2, <1>4, <1>5

\* The second TMA of a TMA, and of a packet of its block, is the next one.
LEMMA SecondIsNext ==
  ASSUME NEW s \in Seq(Packets), NEW n \in DOMAIN s,
         NEW f \in DOMAIN s, TmaOf(s, f, n)
  PROVE  /\ SecondTma(s, n) = 0 => \A m \in DOMAIN s : ~IsNext(s, f, m)
         /\ SecondTma(s, n) # 0 => IsNext(s, f, SecondTma(s, n)) /\ n < SecondTma(s, n)
<1>1. n \in Nat /\ f \in Nat /\ DOMAIN s \subseteq Nat
  BY ListIndices
<1>0. (f = n /\ Has(s, n, "TMA")) \/ (InBlock(s, f, n) /\ ~Has(s, n, "TMA"))
  BY DEF TmaOf
<1> DEFINE b == SecondTma(s, n)
<1>2. \/ b = 0 /\ \A m \in Tmas(s) : ~(n < m)
      \/ /\ b \in Tmas(s) /\ n < b
         /\ b \in DOMAIN s /\ Has(s, b, "TMA") /\ b # 0
         /\ \A i \in DOMAIN s : n < i /\ i < b => ~Has(s, i, "TMA")
  BY SecondIs
<1> HIDE DEF b
<1>3. ASSUME b = 0, NEW m \in DOMAIN s, IsNext(s, f, m) PROVE FALSE
  <2>1. m \in Tmas(s) /\ f < m /\ \A i \in DOMAIN s : f < i /\ i < m => ~Has(s, i, "TMA")
    BY <1>3 DEF IsNext, InBlock, Tmas
  <2>2. ~(n < m)
    BY <1>2, <1>3, <2>1
  <2>3. n # m /\ f # n
    BY <1>0, <1>1, <1>3, <2>1, <2>2 DEF Tmas
  <2>4. InBlock(s, f, n) /\ m < n
    BY <1>0, <1>1, <2>2, <2>3
  <2> QED
    BY <2>1, <2>4 DEF InBlock, Tmas
<1>4. ASSUME b # 0 PROVE IsNext(s, f, b) /\ n < b
  <2>1. /\ b \in Tmas(s) /\ n < b
        /\ b \in DOMAIN s /\ Has(s, b, "TMA") /\ b \in Nat
        /\ \A i \in DOMAIN s : n < i /\ i < b => ~Has(s, i, "TMA")
    BY <1>1, <1>2, <1>4
  <2>2. CASE f = n /\ Has(s, n, "TMA")
    BY <2>1, <2>2 DEF IsNext, InBlock, Tmas
  <2>3. CASE InBlock(s, f, n) /\ ~Has(s, n, "TMA")
    <3>1. f \in Tmas(s) /\ f < n
      BY <2>3 DEF InBlock
    <3>2. \A i \in DOMAIN s : f < i /\ i < b => ~Has(s, i, "TMA")
      <4> SUFFICES ASSUME NEW i \in DOMAIN s, f < i, i < b PROVE ~Has(s, i, "TMA")
        OBVIOUS
      <4>1. i \in Nat
        BY <1>1
      <4>2. CASE i < n
        BY <2>3, <4>2 DEF InBlock
      <4>3. CASE n < i
        BY <2>1, <4>3
      <4>4. CASE i = n
        BY <2>3, <4>4
      <4> QED
        BY <1>1, <4>1, <4>2, <4>3, <4>4
    <3>3. f < b
      BY <1>1, <2>1, <3>1
    <3> QED
      BY <2>1, <3>1, <3>2, <3>3 DEF IsNext, InBlock
  <2> QED
    BY <1>0, <2>2, <2>3
<1> QED
  BY <1>3, <1>4 DEF b

\* There is one next TMA.
LEMMA OneNext ==
  ASSUME NEW s \in Seq(Packets), NEW n \in DOMAIN s, NEW m, IsNext(s, n, m)
  PROVE  SecondTma(s, n) = m /\ SecondTma(s, n) # 0
<1>1. n \in Nat /\ m \in DOMAIN s /\ m \in Nat /\ n < m /\ Has(s, n, "TMA") /\ Has(s, m, "TMA")
  BY ListIndices DEF IsNext, InBlock, Tmas
<1> DEFINE b == SecondTma(s, n)
<1>2. b # 0 /\ IsNext(s, n, b)
  <2>0. TmaOf(s, n, n)
    BY <1>1 DEF TmaOf
  <2>1. b = 0 => ~IsNext(s, n, m)
    BY <1>1, <2>0, SecondIsNext
  <2>2. b # 0 => IsNext(s, n, b)
    BY <1>1, <2>0, SecondIsNext
  <2> QED
    BY <2>1, <2>2
<1> HIDE DEF b
<1>3. b \in DOMAIN s /\ Has(s, b, "TMA") /\ n < b /\ b \in Nat
  BY <1>2, ListIndices DEF IsNext, InBlock
<1>4. ~(m < b) /\ ~(b < m)
  BY <1>1, <1>2, <1>3 DEF IsNext, InBlock
<1>5. b = m
  BY <1>1, <1>3, <1>4
<1> QED
  BY <1>2, <1>5 DEF b

-----------------------------------------------------------------------------
(* While the packets are sent *)

\* The MTCs counted before a packet was sent
Count(p) == p.at \div PerMtc

\* Packets are in the order of their times, and an MTC counts on from all before it.
Ordered(s) ==
  \A i, j \in DOMAIN s :
    i < j => /\ s[i].at <= s[j].at
             /\ Has(s, j, "MTC") => Count(s[i]) < Count(s[j])

\* MTCs are sent when their count begins.
MtcsRight(s) ==
  \A n \in Mtcs(s) : s[n].mtc = MtcAt(s[n].at) /\ s[n].at = PerMtc * Count(s[n])

\* The third round has not been.
Untimed(s) ==
  \A n \in DOMAIN s : /\ Has(s, n, "MTC") => s[n].pass = 0
                      /\ s[n].known_rollover_points = FALSE

\* Packets are as they were sent, each TMA right behind its TSC, and no MTC between
\* a TSC and its TMA.
Sent(s) ==
  /\ \A n \in DOMAIN s : s[n] = Item(s[n].type, s[n].at)
  /\ \A n \in Tmas(s) : n > 1 /\ Has(s, n - 1, "TSC") /\ s[n - 1].at = s[n].at
  /\ \A i, n \in DOMAIN s : i < n /\ Has(s, i, "TSC") /\ Has(s, n, "MTC") =>
       \E j \in Tmas(s) : i < j /\ j < n

\* A list of packets, at any round
IsList(s) == s \in Seq(Packets) /\ Ordered(s) /\ MtcsRight(s)

\* There is a TMA after every TSC, unless one is waited for.
TmasCame(s) == \A i \in DOMAIN s : Has(s, i, "TSC") => \E j \in Tmas(s) : i < j

\* The count of MTCs grows with the time.
LEMMA CountGrows ==
  ASSUME NEW a \in Nat, NEW b \in Nat, a <= b
  PROVE  a \div PerMtc \in Nat /\ b \div PerMtc \in Nat /\ a \div PerMtc <= b \div PerMtc
<1> DEFINE x == a \div PerMtc
           y == b \div PerMtc
           ra == a % PerMtc
           rb == b % PerMtc
<1>1. x \in Int /\ ra \in 0 .. PerMtc - 1 /\ a = PerMtc * x + ra
  BY Units, DivMod
<1>2. y \in Int /\ rb \in 0 .. PerMtc - 1 /\ b = PerMtc * y + rb
  BY Units, DivMod
<1>3. x \in Nat /\ y \in Nat
  BY Parts
<1> HIDE DEF x, y, ra, rb
<1>4. ~(y + 1 <= x)
  <2> SUFFICES ASSUME y + 1 <= x PROVE FALSE
    OBVIOUS
  <2>1. PerMtc * (y + 1) <= PerMtc * x
    BY <1>1, <1>2, Units, Monotone
  <2>2. PerMtc * (y + 1) = PerMtc * y + PerMtc /\ PerMtc * y \in Int /\ PerMtc * x \in Int
    BY <1>1, <1>2, Units
  <2> QED
    BY <1>1, <1>2, <2>1, <2>2, Units
<1>5. x <= y
  BY <1>3, <1>4
<1> QED
  BY <1>3, <1>5 DEF x, y

\* The count at a multiple of the period
LEMMA CountOfMultiple ==
  ASSUME NEW k \in Nat
  PROVE  k * PerMtc \in Nat /\ (k * PerMtc) \div PerMtc = k /\ k * PerMtc = PerMtc * k
<1> DEFINE a == k * PerMtc
           none == 0
<1>1. a \in Nat /\ a = PerMtc * k
  BY Units
<1>2. none \in 0 .. PerMtc - 1 /\ a = PerMtc * k + none
  BY <1>1, Units
<1> HIDE DEF a, none
<1>3. a \div PerMtc = k
  BY <1>1, <1>2, Units, DivModUnique
<1> QED
  BY <1>1, <1>3 DEF a

\* An MTC's count is less than a rollover.
LEMMA MtcAtIsCount ==
  ASSUME NEW a \in Nat
  PROVE  MtcAt(a) \in 0 .. Rollover - 1
<1>1. a \div PerMtc \in Nat
  BY Parts
<1> DEFINE k == a \div PerMtc
<1>2. k \in Int
  BY <1>1
<1> HIDE DEF k
<1>3. k % Rollover \in 0 .. Rollover - 1
  BY <1>2, Units, DivMod
<1> QED
  BY <1>3 DEF k, MtcAt

\* What the collected packet of a type has
IsItem(p, type, a) ==
  /\ p \in Packets /\ p.type = type /\ p.at = a
  /\ p.pass = 0 /\ p.known_rollover_points = FALSE
  /\ type = "MTC" => p.mtc = MtcAt(a)
  /\ type = "TSC" => p.tsc = a
  /\ type = "TMA" => p.ctc = Ctc(a) % (Ticks * TmaRollover) /\ p.fast = a % Ratio

\* A packet as it is collected
LEMMA ItemIsPacket ==
  ASSUME NEW type \in Types, NEW a \in Nat, NEW p, p = Item(type, a)
  PROVE  IsItem(p, type, a)
<1> DEFINE tsc == IF type = "TSC" THEN a ELSE 0
           mtc == IF type = "MTC" THEN MtcAt(a) ELSE 0
           ctc == IF type = "TMA" THEN Ctc(a) % (Ticks * TmaRollover) ELSE 0
           fast == IF type = "TMA" THEN a % Ratio ELSE 0
<1>1. tsc \in Int
  OBVIOUS
<1>2. mtc \in 0 .. Rollover - 1
  <2>1. 0 \in 0 .. Rollover - 1
    BY Units
  <2> QED
    BY <2>1, MtcAtIsCount
<1>3. fast \in Nat
  BY Parts
<1>4. ctc \in Nat
  <2> DEFINE d == Ctc(a)
             tt == Ticks * TmaRollover
  <2>1. d \in Int /\ tt \in Nat \ {0}
    BY Parts, Units
  <2> HIDE DEF d, tt
  <2>2. d % tt \in Nat
    BY <2>1, DivMod
  <2> QED
    BY <2>2 DEF d, tt
<1>5. Item(type, a) =
        [type |-> type, at |-> a, tsc |-> tsc, mtc |-> mtc, ctc |-> ctc, fast |-> fast,
         mtc_count |-> 0, pass |-> 0, tsc_in_next_mtc |-> 0,
         known_rollover_points |-> FALSE, ovf_tsc_lost |-> FALSE]
  BY DEF Item
<1>6. /\ type = "MTC" => mtc = MtcAt(a)
      /\ type = "TSC" => tsc = a
      /\ type = "TMA" => ctc = Ctc(a) % (Ticks * TmaRollover) /\ fast = a % Ratio
  OBVIOUS
<1> HIDE DEF tsc, mtc, ctc, fast
<1>7. Item(type, a) \in Packets
  BY <1>1, <1>2, <1>3, <1>4, <1>5 DEF Packets
<1> QED
  BY <1>5, <1>6, <1>7 DEF IsItem

\* What has been collected at a time
Collected(s, time, waits) ==
  /\ IsList(s) /\ Untimed(s) /\ Sent(s)
  /\ time \in Nat /\ \A n \in DOMAIN s : s[n].at <= time
  /\ ~waits => TmasCame(s)

\* t is s and then v.
Follows(t, s, v) ==
  /\ t \in Seq(Packets) /\ Len(t) = Len(s) + Len(v)
  /\ \A n \in DOMAIN s : n \in DOMAIN t /\ t[n] = s[n]
  /\ \A n \in DOMAIN v : Len(s) + n \in DOMAIN t /\ t[Len(s) + n] = v[n]
  /\ \A n \in DOMAIN t : ~(n \in DOMAIN s) => n > Len(s) /\ n - Len(s) \in DOMAIN v /\ t[n] = v[n - Len(s)]

\* What is appended follows.
LEMMA ConcatFollows ==
  ASSUME NEW s \in Seq(Packets), NEW v \in Seq(Packets), NEW t, t = s \o v
  PROVE  Follows(t, s, v)
<1>1. t \in Seq(Packets) /\ Len(t) = Len(s) + Len(v)
  OBVIOUS
<1>2. \A n \in DOMAIN s : n \in DOMAIN t /\ t[n] = s[n]
  OBVIOUS
<1>3. \A n \in DOMAIN v : Len(s) + n \in DOMAIN t /\ t[Len(s) + n] = v[n]
  OBVIOUS
<1>4. \A n \in DOMAIN t : ~(n \in DOMAIN s) => n > Len(s) /\ n - Len(s) \in DOMAIN v /\ t[n] = v[n - Len(s)]
  OBVIOUS
<1> QED
  BY <1>1, <1>2, <1>3, <1>4 DEF Follows

\* The packets that come after a time, in order
Later(v, from, to) ==
  /\ IsList(v) /\ Sent(v)
  /\ to \in Nat /\ \A n \in DOMAIN v : /\ from <= v[n].at /\ v[n].at <= to
                                       /\ Has(v, n, "MTC") => from \div PerMtc < Count(v[n])

\* What a list begins with and what follows are right, and so is the list.
LEMMA FollowsRight ==
  ASSUME NEW s, NEW v, NEW t, NEW from, NEW to, Follows(t, s, v),
         IsList(s), Sent(s), from \in Nat, \A n \in DOMAIN s : s[n].at <= from,
         Later(v, from, to)
  PROVE  /\ IsList(t)
         /\ \A n \in DOMAIN t : t[n] = Item(t[n].type, t[n].at)
         /\ \A n \in Tmas(t) : n > 1 /\ Has(t, n - 1, "TSC") /\ t[n - 1].at = t[n].at
<1>1. /\ s \in Seq(Packets) /\ v \in Seq(Packets) /\ t \in Seq(Packets)
      /\ Len(s) \in Nat /\ DOMAIN s = 1 .. Len(s) /\ DOMAIN v = 1 .. Len(v)
      /\ \A n \in DOMAIN t : n \in Nat /\ t[n].at \in Nat
      /\ \A n \in DOMAIN v : n \in Nat /\ v[n].at \in Nat
      /\ \A n \in DOMAIN s : n \in Nat /\ s[n].at \in Nat
  BY ListIndices DEF Follows, IsList, Later, Packets
<1>2. ASSUME NEW i \in DOMAIN t, NEW j \in DOMAIN t, i < j
      PROVE  /\ t[i].at <= t[j].at
             /\ Has(t, j, "MTC") => Count(t[i]) < Count(t[j])
  <2>1. CASE j \in DOMAIN s
    <3>1. i \in DOMAIN s
      BY <1>1, <1>2, <2>1
    <3>2. t[i] = s[i] /\ t[j] = s[j]
      BY <2>1, <3>1 DEF Follows
    <3> QED
      BY <1>2, <2>1, <3>1, <3>2 DEF IsList, Ordered, Has
  <2>2. CASE i \in DOMAIN s /\ ~(j \in DOMAIN s)
    <3>1. j - Len(s) \in DOMAIN v /\ t[j] = v[j - Len(s)] /\ t[i] = s[i]
      BY <2>2 DEF Follows
    <3>2. PICK k \in DOMAIN v : t[j] = v[k]
      BY <3>1
    <3>3. s[i].at <= from /\ from <= v[k].at
      BY <2>2 DEF Later
    <3>4. Has(t, j, "MTC") => from \div PerMtc < Count(v[k])
      BY <3>2 DEF Later, Has
    <3>5. s[i].at \in Nat /\ v[k].at \in Nat
      BY <1>1, <2>2
    <3>6. s[i].at \div PerMtc <= from \div PerMtc /\ s[i].at \div PerMtc \in Nat /\ from \div PerMtc \in Nat
      BY <3>3, <3>5, CountGrows
    <3>7. Count(v[k]) \in Nat
      BY <3>5, Parts DEF Count
    <3> QED
      BY <3>1, <3>2, <3>3, <3>4, <3>5, <3>6, <3>7 DEF Count
  <2>3. CASE ~(i \in DOMAIN s)
    <3>1. ~(j \in DOMAIN s)
      BY <1>1, <1>2, <2>3
    <3>2. /\ j - Len(s) \in DOMAIN v /\ t[j] = v[j - Len(s)]
          /\ i - Len(s) \in DOMAIN v /\ t[i] = v[i - Len(s)]
      BY <2>3, <3>1 DEF Follows
    <3>3. i - Len(s) < j - Len(s)
      BY <1>1, <1>2
    <3>4. PICK k \in DOMAIN v, l \in DOMAIN v : k < l /\ t[i] = v[k] /\ t[j] = v[l]
      BY <3>2, <3>3
    <3> QED
      BY <3>4 DEF Later, IsList, Ordered, Has
  <2> QED
    BY <2>1, <2>2, <2>3
<1>3. ASSUME NEW n \in DOMAIN t
      PROVE  \/ n \in DOMAIN s /\ t[n] = s[n]
             \/ n - Len(s) \in DOMAIN v /\ t[n] = v[n - Len(s)] /\ n > Len(s)
  BY <1>3 DEF Follows
<1>4. MtcsRight(t)
  <2> SUFFICES ASSUME NEW n \in Mtcs(t)
               PROVE  t[n].mtc = MtcAt(t[n].at) /\ t[n].at = PerMtc * Count(t[n])
    BY DEF MtcsRight
  <2>1. n \in DOMAIN t /\ t[n].type = "MTC"
    BY DEF Mtcs, Has
  <2>2. CASE n \in DOMAIN s /\ t[n] = s[n]
    BY <2>1, <2>2 DEF IsList, MtcsRight, Mtcs, Has
  <2>3. CASE n - Len(s) \in DOMAIN v /\ t[n] = v[n - Len(s)]
    <3>1. PICK k \in DOMAIN v : t[n] = v[k]
      BY <2>3
    <3> QED
      BY <2>1, <3>1 DEF Later, IsList, MtcsRight, Mtcs, Has
  <2> QED
    BY <1>3, <2>1, <2>2, <2>3
<1>5. \A n \in DOMAIN t : t[n] = Item(t[n].type, t[n].at)
  <2> SUFFICES ASSUME NEW n \in DOMAIN t PROVE t[n] = Item(t[n].type, t[n].at)
    OBVIOUS
  <2>1. CASE n \in DOMAIN s /\ t[n] = s[n]
    BY <2>1, Zenon DEF Sent
  <2>2. CASE n - Len(s) \in DOMAIN v /\ t[n] = v[n - Len(s)]
    <3>1. PICK k \in DOMAIN v : t[n] = v[k]
      BY <2>2
    <3>2. v[k] = Item(v[k].type, v[k].at)
      BY Zenon DEF Later, Sent
    <3> QED
      BY <3>1, <3>2, Zenon
  <2> QED
    BY <1>3, <2>1, <2>2
<1>6. \A n \in Tmas(t) : n > 1 /\ Has(t, n - 1, "TSC") /\ t[n - 1].at = t[n].at
  <2> SUFFICES ASSUME NEW n \in Tmas(t)
               PROVE  n > 1 /\ Has(t, n - 1, "TSC") /\ t[n - 1].at = t[n].at
    OBVIOUS
  <2>1. n \in DOMAIN t /\ t[n].type = "TMA" /\ n \in Nat
    BY <1>1 DEF Tmas, Has
  <2>2. CASE n \in DOMAIN s /\ t[n] = s[n]
    <3>1. n \in Tmas(s)
      BY <2>1, <2>2 DEF Tmas, Has
    <3>2. n > 1 /\ s[n - 1].type = "TSC" /\ s[n - 1].at = s[n].at
      BY <3>1 DEF Sent, Has
    <3>3. n - 1 \in DOMAIN s
      BY <1>1, <2>2, <3>2
    <3>4. t[n - 1] = s[n - 1]
      BY <3>3 DEF Follows
    <3> QED
      BY <2>2, <3>2, <3>4 DEF Has
  <2>3. CASE n - Len(s) \in DOMAIN v /\ t[n] = v[n - Len(s)] /\ n > Len(s)
    <3> DEFINE k == n - Len(s)
    <3>1. k \in DOMAIN v /\ k \in Nat /\ t[n] = v[k] /\ n = Len(s) + k /\ n - 1 = Len(s) + (k - 1)
      BY <1>1, <2>1, <2>3
    <3> HIDE DEF k
    <3>2. k \in Tmas(v)
      BY <2>1, <3>1 DEF Tmas, Has
    <3>3. k > 1 /\ v[k - 1].type = "TSC" /\ v[k - 1].at = v[k].at
      BY <3>2 DEF Later, Sent, Has
    <3>4. k - 1 \in DOMAIN v
      BY <1>1, <3>1, <3>3
    <3>5. t[Len(s) + (k - 1)] = v[k - 1]
      BY <3>4 DEF Follows
    <3>6. t[n - 1] = v[k - 1] /\ n > 1
      BY <1>1, <3>1, <3>3, <3>5
    <3> QED
      BY <3>1, <3>3, <3>6 DEF Has
  <2> QED
    BY <1>3, <2>1, <2>2, <2>3
<1>7. Ordered(t)
  BY <1>2 DEF Ordered
<1> QED
  BY <1>1, <1>4, <1>5, <1>6, <1>7 DEF IsList

\* The same of what is collected
LEMMA CollectedOn ==
  ASSUME NEW s, NEW v, NEW t, NEW from, NEW to, NEW waits, NEW waiting, Follows(t, s, v),
         Collected(s, from, waits), from <= to, Later(v, from, to),
         waits => Mtcs(v) = {},
         ~waiting => TmasCame(v) /\ (~waits \/ Tmas(v) # {})
  PROVE  Collected(t, to, waiting)
<1>1. /\ s \in Seq(Packets) /\ v \in Seq(Packets) /\ t \in Seq(Packets)
      /\ Len(s) \in Nat /\ DOMAIN s = 1 .. Len(s) /\ DOMAIN v = 1 .. Len(v)
      /\ \A n \in DOMAIN t : n \in Nat /\ t[n].at \in Nat /\ t[n].type \in Types
      /\ \A n \in DOMAIN v : n \in Nat /\ v[n].at \in Nat
      /\ \A n \in DOMAIN s : n \in Nat /\ s[n].at \in Nat
  BY ListIndices DEF Follows, IsList, Later, Packets, Collected
<1>2. ASSUME NEW n \in DOMAIN t
      PROVE  \/ n \in DOMAIN s /\ t[n] = s[n]
             \/ n - Len(s) \in DOMAIN v /\ t[n] = v[n - Len(s)] /\ n > Len(s)
  BY <1>2 DEF Follows
<1>3. /\ IsList(t)
      /\ \A n \in DOMAIN t : t[n] = Item(t[n].type, t[n].at)
      /\ \A n \in Tmas(t) : n > 1 /\ Has(t, n - 1, "TSC") /\ t[n - 1].at = t[n].at
  <2>1. IsList(s) /\ Sent(s) /\ from \in Nat /\ \A n \in DOMAIN s : s[n].at <= from
    BY DEF Collected
  <2> QED
    BY <2>1, FollowsRight
<1>4. \A n \in DOMAIN t : t[n].at <= to
  <2> SUFFICES ASSUME NEW n \in DOMAIN t PROVE t[n].at <= to
    OBVIOUS
  <2>0. from \in Nat /\ to \in Nat
    BY DEF Collected, Later
  <2>1. CASE n \in DOMAIN s /\ t[n] = s[n]
    <3>1. s[n].at <= from
      BY <2>1 DEF Collected
    <3> QED
      BY <1>1, <2>0, <2>1, <3>1
  <2>2. CASE n - Len(s) \in DOMAIN v /\ t[n] = v[n - Len(s)]
    BY <2>2 DEF Later
  <2> QED
    BY <1>2, <2>1, <2>2
<1>5. Untimed(t)
  <2> SUFFICES ASSUME NEW n \in DOMAIN t PROVE t[n].pass = 0 /\ t[n].known_rollover_points = FALSE
    BY DEF Untimed
  <2>1. t[n].type \in Types /\ t[n].at \in Nat
    BY <1>1
  <2>2. t[n] = Item(t[n].type, t[n].at)
    BY <1>3, Zenon
  <2> DEFINE ty == t[n].type
             a == t[n].at
  <2>3. ty \in Types /\ a \in Nat /\ t[n] = Item(ty, a)
    BY <2>1, <2>2, Zenon
  <2> HIDE DEF ty, a
  <2>4. IsItem(t[n], ty, a)
    BY <2>3, ItemIsPacket
  <2> QED
    BY <2>4 DEF IsItem
<1>6. ASSUME NEW j \in Tmas(s) PROVE j \in Tmas(t)
  BY DEF Tmas, Has, Follows
<1>7. ASSUME NEW j \in Tmas(v) PROVE Len(s) + j \in Tmas(t)
  BY DEF Tmas, Has, Follows
<1>8. \A i, n \in DOMAIN t : i < n /\ Has(t, i, "TSC") /\ Has(t, n, "MTC") =>
        \E j \in Tmas(t) : i < j /\ j < n
  <2> SUFFICES ASSUME NEW i \in DOMAIN t, NEW n \in DOMAIN t, i < n, Has(t, i, "TSC"), Has(t, n, "MTC")
               PROVE  \E j \in Tmas(t) : i < j /\ j < n
    OBVIOUS
  <2>1. CASE n \in DOMAIN s
    <3>1. i \in DOMAIN s
      BY <1>1, <2>1
    <3>2. t[i] = s[i] /\ t[n] = s[n]
      BY <2>1, <3>1 DEF Follows
    <3>3. \E j \in Tmas(s) : i < j /\ j < n
      BY <2>1, <3>1, <3>2 DEF Collected, Sent, Has
    <3> QED
      BY <1>6, <3>3
  <2>2. CASE i \in DOMAIN s /\ ~(n \in DOMAIN s)
    <3>1. n - Len(s) \in DOMAIN v /\ t[n] = v[n - Len(s)] /\ t[i] = s[i] /\ n > Len(s)
      BY <2>2 DEF Follows
    <3>2. n - Len(s) \in Mtcs(v)
      BY <3>1 DEF Mtcs, Has
    <3>3. TmasCame(s)
      BY <3>2 DEF Collected
    <3>4. PICK j \in Tmas(s) : i < j
      BY <2>2, <3>1, <3>3 DEF TmasCame, Has
    <3>5. j < n
      BY <1>1, <3>1 DEF Tmas
    <3> QED
      BY <1>6, <3>4, <3>5
  <2>3. CASE ~(i \in DOMAIN s)
    <3>1. ~(n \in DOMAIN s)
      BY <1>1, <2>3
    <3>2. /\ n - Len(s) \in DOMAIN v /\ t[n] = v[n - Len(s)]
          /\ i - Len(s) \in DOMAIN v /\ t[i] = v[i - Len(s)]
      BY <2>3, <3>1 DEF Follows
    <3> DEFINE k == i - Len(s)
               l == n - Len(s)
    <3>3. /\ k \in DOMAIN v /\ l \in DOMAIN v /\ k < l /\ k \in Nat /\ l \in Nat
          /\ t[n] = v[l] /\ t[i] = v[k] /\ i = Len(s) + k /\ n = Len(s) + l
      BY <1>1, <3>2
    <3> HIDE DEF k, l
    <3>4. PICK j \in Tmas(v) : k < j /\ j < l
      BY <3>3 DEF Later, Sent, Has
    <3>5. j \in Nat
      BY <1>1 DEF Tmas
    <3>6. i < Len(s) + j /\ Len(s) + j < n
      BY <1>1, <3>3, <3>4, <3>5
    <3> QED
      BY <1>7, <3>6
  <2> QED
    BY <2>1, <2>2, <2>3
<1>9. ~waiting => TmasCame(t)
  <2> SUFFICES ASSUME ~waiting, NEW i \in DOMAIN t, Has(t, i, "TSC") PROVE \E j \in Tmas(t) : i < j
    BY DEF TmasCame
  <2>1. TmasCame(v) /\ (~waits \/ Tmas(v) # {})
    OBVIOUS
  <2>2. CASE i \in DOMAIN s /\ ~waits
    <3>1. t[i] = s[i] /\ TmasCame(s)
      BY <2>2 DEF Follows, Collected
    <3>2. PICK j \in Tmas(s) : i < j
      BY <2>2, <3>1 DEF TmasCame, Has
    <3> QED
      BY <1>6, <3>2
  <2>3. CASE i \in DOMAIN s /\ Tmas(v) # {}
    <3>1. PICK j \in Tmas(v) : TRUE
      BY <2>3
    <3>2. i < Len(s) + j
      BY <1>1, <2>3, <3>1 DEF Tmas
    <3> QED
      BY <1>7, <3>2
  <2>4. CASE ~(i \in DOMAIN s)
    <3> DEFINE k == i - Len(s)
    <3>1. k \in DOMAIN v /\ t[i] = v[k] /\ i = Len(s) + k /\ k \in Nat
      <4>1. k \in DOMAIN v /\ t[i] = v[k]
        BY <2>4 DEF Follows
      <4> QED
        BY <1>1, <4>1
    <3> HIDE DEF k
    <3>2. PICK j \in Tmas(v) : k < j
      BY <2>1, <3>1 DEF TmasCame, Has
    <3>3. i < Len(s) + j
      BY <1>1, <3>1, <3>2 DEF Tmas
    <3> QED
      BY <1>7, <3>3
  <2> QED
    BY <2>1, <2>2, <2>3, <2>4
<1>10. to \in Nat
  BY DEF Later
<1>11. Sent(t)
  BY <1>3, <1>8 DEF Sent
<1> QED
  BY <1>3, <1>4, <1>5, <1>9, <1>10, <1>11 DEF Collected

\* What was collected stays so as time passes.
LEMMA CollectedLater ==
  ASSUME NEW s, NEW from, NEW to \in Nat, NEW waits, Collected(s, from, waits), from <= to
  PROVE  Collected(s, to, waits)
<1>1. \A n \in DOMAIN s : s[n].at \in Nat
  BY ListIndices DEF Collected, IsList, Packets
<1>2. \A n \in DOMAIN s : s[n].at <= to
  BY <1>1 DEF Collected
<1> QED
  BY <1>2 DEF Collected

\* The next MTC comes after now.
LEMMA NextMtcLater ==
  ASSUME NEW a \in Nat, NEW n \in Nat \ {0}, NEW b, b = ((a \div PerMtc) + n) * PerMtc
  PROVE  b \in Nat /\ a <= b /\ b \div PerMtc = (a \div PerMtc) + n
<1> DEFINE q == a \div PerMtc
           r == a % PerMtc
           k == q + n
<1>1. q \in Int /\ r \in 0 .. PerMtc - 1 /\ a = PerMtc * q + r
  BY Units, DivMod
<1>2. q \in Nat
  BY Parts
<1> HIDE DEF q, r
<1>3. k \in Nat /\ q + 1 <= k
  BY <1>2
<1> HIDE DEF k
<1>4. k * PerMtc \in Nat /\ (k * PerMtc) \div PerMtc = k /\ k * PerMtc = PerMtc * k
  BY <1>3, CountOfMultiple
<1>5. PerMtc * (q + 1) <= PerMtc * k
  BY <1>2, <1>3, Units, Monotone
<1>6. PerMtc * (q + 1) = PerMtc * q + PerMtc /\ PerMtc * q \in Nat
  BY <1>2, Units
<1>7. a <= k * PerMtc
  BY <1>1, <1>4, <1>5, <1>6, Units
<1> QED
  BY <1>4, <1>7 DEF k, q

\* The MTCs that are sent until something else is come after what was sent.
LEMMA MtcsLater ==
  ASSUME NEW a \in Nat, NEW n \in Nat \ {0},
         NEW v, v = [i \in 1 .. n |-> Item("MTC", ((a \div PerMtc) + i) * PerMtc)]
  PROVE  /\ Later(v, a, ((a \div PerMtc) + n) * PerMtc) /\ v \in Seq(Packets)
         /\ TmasCame(v) /\ v[n].at = ((a \div PerMtc) + n) * PerMtc
<1> DEFINE q == a \div PerMtc
           to == (q + n) * PerMtc
<1>1. q \in Nat /\ to \in Nat
  <2>1. q \in Nat
    BY Parts
  <2>2. to = ((a \div PerMtc) + n) * PerMtc
    OBVIOUS
  <2> HIDE DEF to
  <2> QED
    BY <2>1, <2>2, NextMtcLater
<1>2. ASSUME NEW i \in 1 .. n
      PROVE  /\ v[i] = Item("MTC", v[i].at) /\ v[i].at = (q + i) * PerMtc
             /\ v[i] \in Packets /\ v[i].type = "MTC" /\ Count(v[i]) = q + i
             /\ v[i].mtc = MtcAt(v[i].at) /\ v[i].at = PerMtc * (q + i)
             /\ a <= v[i].at /\ v[i].at <= to
  <2> DEFINE b == (q + i) * PerMtc
             p == v[i]
  <2>1. p = Item("MTC", b)
    OBVIOUS
  <2>2. b \in Nat /\ a <= b /\ b \div PerMtc = q + i
    <3>1. b = ((a \div PerMtc) + i) * PerMtc /\ i \in Nat \ {0}
      OBVIOUS
    <3> HIDE DEF b
    <3> QED
      BY <3>1, NextMtcLater
  <2>3. b = PerMtc * (q + i)
    BY <1>1, Units
  <2>4. b <= to
    <3>1. PerMtc * (q + i) <= PerMtc * (q + n)
      BY <1>1, Units, Monotone
    <3> QED
      BY <1>1, <3>1, Units
  <2> HIDE DEF b, p, to
  <2>5. IsItem(p, "MTC", b)
    BY <2>1, <2>2, ItemIsPacket DEF Types
  <2> HIDE DEF q
  <2>6. p.at = b
    BY <2>5 DEF IsItem
  <2>7. p = Item("MTC", p.at)
    BY <2>1, <2>6, Zenon
  <2>8. p \in Packets /\ p.type = "MTC" /\ Count(p) = q + i /\ p.mtc = MtcAt(p.at)
    BY <2>2, <2>5 DEF IsItem, Count
  <2> QED
    BY <2>2, <2>3, <2>4, <2>6, <2>7, <2>8 DEF p, b
<1>3. DOMAIN v = 1 .. n
  OBVIOUS
<1>4. v \in Seq(Packets)
  <2>1. v \in [1 .. n -> Packets]
    BY <1>2
  <2> QED
    BY <2>1
<1> HIDE DEF q, to
<1>5. Ordered(v)
  <2> SUFFICES ASSUME NEW i \in 1 .. n, NEW j \in 1 .. n, i < j
               PROVE  v[i].at <= v[j].at /\ Count(v[i]) < Count(v[j])
    BY <1>3 DEF Ordered
  <2>1. v[i].at = PerMtc * (q + i) /\ v[j].at = PerMtc * (q + j) /\ Count(v[i]) = q + i /\ Count(v[j]) = q + j
    BY <1>2
  <2>2. PerMtc * (q + i) <= PerMtc * (q + j)
    BY <1>1, Units, Monotone
  <2> QED
    BY <1>1, <2>1, <2>2
<1>6. MtcsRight(v)
  BY <1>2, <1>3 DEF MtcsRight, Mtcs
<1>7. Sent(v)
  <2>1. \A i \in DOMAIN v : v[i] = Item(v[i].type, v[i].at)
    <3> SUFFICES ASSUME NEW i \in 1 .. n PROVE v[i] = Item(v[i].type, v[i].at)
      BY <1>3
    <3>1. v[i] = Item("MTC", v[i].at) /\ v[i].type = "MTC"
      BY <1>2
    <3> QED
      BY <3>1, Zenon
  <2>2. \A i \in DOMAIN v : v[i].type = "MTC"
    BY <1>2, <1>3
  <2> QED
    BY <2>1, <2>2 DEF Sent, Tmas, Has
<1>8. TmasCame(v)
  BY <1>2, <1>3 DEF TmasCame, Has
<1>9. \A i \in DOMAIN v : /\ a <= v[i].at /\ v[i].at <= to
                          /\ Has(v, i, "MTC") => a \div PerMtc < Count(v[i])
  <2> SUFFICES ASSUME NEW i \in 1 .. n PROVE a <= v[i].at /\ v[i].at <= to /\ q < Count(v[i])
    BY <1>3 DEF q
  <2>1. a <= v[i].at /\ v[i].at <= to /\ Count(v[i]) = q + i
    BY <1>2
  <2> QED
    BY <1>1, <2>1
<1>10. Later(v, a, to)
  BY <1>1, <1>4, <1>5, <1>6, <1>7, <1>9 DEF Later, IsList
<1>11. v[n].at = to
  BY <1>2 DEF to
<1> QED
  BY <1>4, <1>8, <1>10, <1>11 DEF to, q

\* Packets that are sent at one time
LEMMA SentAtOnce ==
  ASSUME NEW from \in Nat, NEW to \in Nat, from <= to, NEW types,
         types \in {<<>>, <<"TSC">>, <<"TSC", "TMA">>, <<"OVF">>},
         NEW v, v = [i \in 1 .. Len(types) |-> Item(types[i], to)]
  PROVE  /\ Later(v, from, to) /\ v \in Seq(Packets) /\ Mtcs(v) = {}
         /\ types # <<"TSC">> => TmasCame(v)
         /\ types = <<"TSC", "TMA">> => Tmas(v) # {}
<1>1. types \in Seq(Types) /\ Len(types) \in 0 .. 2
  BY DEF Types
<1>2. DOMAIN v = 1 .. Len(types)
  OBVIOUS
<1>3. ASSUME NEW i \in DOMAIN v
      PROVE  /\ v[i] \in Packets /\ v[i].type = types[i] /\ v[i].at = to
             /\ v[i] = Item(v[i].type, v[i].at) /\ types[i] \in {"TSC", "TMA", "OVF"}
  <2> DEFINE p == v[i]
             ty == types[i]
  <2>1. p = Item(ty, to)
    BY <1>2
  <2>2. ty \in Types /\ ty \in {"TSC", "TMA", "OVF"}
    BY <1>2 DEF Types
  <2> HIDE DEF p, ty
  <2>3. IsItem(p, ty, to)
    BY <2>1, <2>2, ItemIsPacket
  <2>4. p.type = ty /\ p.at = to /\ p \in Packets
    BY <2>3 DEF IsItem
  <2>5. p = Item(p.type, p.at)
    BY <2>1, <2>4, Zenon
  <2> QED
    BY <2>2, <2>4, <2>5 DEF p, ty
<1>4. v \in Seq(Packets)
  <2>1. v \in [1 .. Len(types) -> Packets] /\ Len(types) \in Nat
    BY <1>1, <1>2, <1>3
  <2> QED
    BY <2>1
<1>5. \A i \in DOMAIN v : v[i].type # "MTC" /\ v[i].at = to
  BY <1>3
<1>6. Mtcs(v) = {}
  BY <1>5 DEF Mtcs, Has
<1>7. Ordered(v) /\ MtcsRight(v)
  BY <1>5, <1>6 DEF Ordered, MtcsRight, Has
<1>8. Sent(v)
  <2>1. \A i \in DOMAIN v : v[i] = Item(v[i].type, v[i].at)
    BY <1>3
  <2>2. \A i \in Tmas(v) : i > 1 /\ Has(v, i - 1, "TSC") /\ v[i - 1].at = v[i].at
    <3> SUFFICES ASSUME NEW i \in DOMAIN v, v[i].type = "TMA"
                 PROVE  i > 1 /\ v[i - 1].type = "TSC" /\ v[i - 1].at = v[i].at
      BY DEF Tmas, Has
    <3>1. types[i] = "TMA" /\ i \in 1 .. Len(types)
      BY <1>2, <1>3
    <3>2. types = <<"TSC", "TMA">> /\ i = 2
      BY <3>1
    <3>3. 1 \in DOMAIN v /\ 2 \in DOMAIN v
      BY <1>2, <3>2
    <3>4. v[1].type = "TSC" /\ v[1].at = v[2].at
      BY <1>3, <3>2, <3>3
    <3> QED
      BY <3>2, <3>4
  <2>3. \A i, n \in DOMAIN v : i < n /\ Has(v, i, "TSC") /\ Has(v, n, "MTC") =>
          \E j \in Tmas(v) : i < j /\ j < n
    BY <1>5 DEF Has
  <2> QED
    BY <2>1, <2>2, <2>3 DEF Sent
<1>9. Later(v, from, to)
  BY <1>4, <1>5, <1>7, <1>8 DEF Later, IsList, Has
<1>10. types = <<"TSC", "TMA">> => Tmas(v) # {}
  <2> SUFFICES ASSUME types = <<"TSC", "TMA">> PROVE Tmas(v) # {}
    OBVIOUS
  <2>1. 2 \in DOMAIN v /\ v[2].type = "TMA"
    BY <1>2, <1>3
  <2> QED
    BY <2>1 DEF Tmas, Has
<1>11. types # <<"TSC">> => TmasCame(v)
  <2> SUFFICES ASSUME types # <<"TSC">>, NEW i \in DOMAIN v, v[i].type = "TSC" PROVE \E j \in Tmas(v) : i < j
    BY DEF TmasCame, Has
  <2>1. types[i] = "TSC" /\ i \in 1 .. Len(types)
    BY <1>2, <1>3
  <2>2. types = <<"TSC", "TMA">> /\ i = 1
    BY <2>1
  <2>3. 2 \in DOMAIN v /\ v[2].type = "TMA"
    BY <1>2, <1>3, <2>2
  <2>4. 2 \in Tmas(v)
    BY <2>3 DEF Tmas, Has
  <2> QED
    BY <2>2, <2>4
<1> QED
  BY <1>4, <1>6, <1>9, <1>10, <1>11

\* Until the first round the list is what was collected.
CollectInv ==
  /\ phase \in {"record", "done"} \cup RoundPhases
  /\ phase \in {"record", "first"} => Collected(tscs, now, wait_for_tma)

\* Nothing has been collected.
LEMMA CollectInit == Init => CollectInv
<1> SUFFICES ASSUME Init PROVE Collected(tscs, now, wait_for_tma)
  BY DEF Init, CollectInv
<1>1. tscs = <<>> /\ DOMAIN tscs = {} /\ tscs \in Seq(Packets)
  BY DEF Init
<1>2. now \in Nat
  <2>1. PICK p \in Phases : now = p
    BY DEF Init
  <2>2. PerMtc - 1 \in Int /\ \A x \in Phases : x \in 0 .. PerMtc - 1
    BY Units, TimingAssumption DEF PerMtc
  <2> QED
    BY <2>1, <2>2
<1> QED
  BY <1>1, <1>2 DEF Collected, IsList, Untimed, Sent, TmasCame, Ordered, MtcsRight, Mtcs, Tmas

\* MTCs are collected in order, unless they are skipped.
LEMMA CollectMtcs == CollectInv /\ MtcsPass => CollectInv'
<1> SUFFICES ASSUME CollectInv, MtcsPass PROVE CollectInv'
  OBVIOUS
<1>1. phase = "record" /\ phase' = phase /\ wait_for_tma' = wait_for_tma /\ Collected(tscs, now, wait_for_tma)
  BY DEF MtcsPass, Event, CollectInv
<1> SUFFICES Collected(tscs', now', wait_for_tma')
  BY <1>1 DEF CollectInv
<1>2. PICK n \in Leaps :
        LET mtcs == [i \in 1 .. n |-> Item("MTC", ((now \div PerMtc) + i) * PerMtc)]
        IN  /\ now' = mtcs[n].at
            /\ tscs' = IF overflow \/ wait_for_tma \/ in_psb THEN tscs ELSE tscs \o mtcs
  BY DEF MtcsPass
<1> DEFINE v == [i \in 1 .. n |-> Item("MTC", ((now \div PerMtc) + i) * PerMtc)]
           to == ((now \div PerMtc) + n) * PerMtc
<1>3. n \in Nat \ {0} /\ now \in Nat
  BY <1>1, TimingAssumption DEF Collected
<1>4. /\ Later(v, now, to) /\ v \in Seq(Packets) /\ TmasCame(v) /\ v[n].at = to
  BY <1>3, MtcsLater
<1>5. now' = to /\ tscs' = IF overflow \/ wait_for_tma \/ in_psb THEN tscs ELSE tscs \o v
  BY <1>2, <1>4
<1>6. to \in Nat /\ now <= to
  <2>1. to = ((now \div PerMtc) + n) * PerMtc
    OBVIOUS
  <2> HIDE DEF to
  <2> QED
    BY <1>3, <2>1, NextMtcLater
<1> HIDE DEF v, to
<1>7. CASE overflow \/ wait_for_tma \/ in_psb
  BY <1>1, <1>5, <1>6, <1>7, CollectedLater
<1>8. CASE ~(overflow \/ wait_for_tma \/ in_psb)
  <2>1. tscs' = tscs \o v /\ tscs \in Seq(Packets)
    BY <1>1, <1>5, <1>8 DEF Collected, IsList
  <2>2. Follows(tscs', tscs, v)
    BY <1>4, <2>1, ConcatFollows
  <2>3. Collected(tscs', to, wait_for_tma)
    BY <1>1, <1>4, <1>6, <1>8, <2>2, CollectedOn
  <2> QED
    BY <1>1, <1>5, <2>3
<1> QED
  BY <1>7, <1>8

\* A time is collected, with its TMA or with an overflow that takes it.
LEMMA CollectTime == CollectInv /\ TimeSent => CollectInv'
<1> SUFFICES ASSUME CollectInv, TimeSent PROVE CollectInv'
  OBVIOUS
<1>1. phase = "record" /\ phase' = phase /\ Collected(tscs, now, wait_for_tma)
  BY DEF TimeSent, Event, CollectInv
<1> SUFFICES Collected(tscs', now', wait_for_tma')
  BY <1>1 DEF CollectInv
<1>2. now' \in Nat /\ now <= now' /\ now \in Nat
  <2>1. PICK p \in Phases : p >= now % PerMtc /\ now' = now - (now % PerMtc) + p
    BY DEF TimeSent
  <2>2. PerMtc - 1 \in Int /\ \A x \in Phases : x \in 0 .. PerMtc - 1
    BY Units, TimingAssumption DEF PerMtc
  <2>3. now \in Nat
    BY <1>1 DEF Collected
  <2>4. now % PerMtc \in Nat
    BY <2>3, Units, DivMod
  <2> QED
    BY <2>1, <2>2, <2>3, <2>4
<1>3. PICK psb \in BOOLEAN, all \in BOOLEAN, times \in {<<>>, <<"TSC">>, <<"TSC", "TMA">>} :
        /\ tscs' = tscs \o [i \in 1 .. Len(times) |-> Item(times[i], now')]
        /\ wait_for_tma' = IF times = <<>> THEN wait_for_tma ELSE times = <<"TSC">>
  BY DEF TimeSent
<1> DEFINE v == [i \in 1 .. Len(times) |-> Item(times[i], now')]
<1>4. /\ Later(v, now, now') /\ v \in Seq(Packets) /\ Mtcs(v) = {}
      /\ times # <<"TSC">> => TmasCame(v)
      /\ times = <<"TSC", "TMA">> => Tmas(v) # {}
  <2>1. times \in {<<>>, <<"TSC">>, <<"TSC", "TMA">>, <<"OVF">>}
    OBVIOUS
  <2> QED
    BY <1>2, <2>1, SentAtOnce
<1>5. tscs' = tscs \o v /\ tscs \in Seq(Packets)
  BY <1>1, <1>3 DEF Collected, IsList
<1> HIDE DEF v
<1>6. Follows(tscs', tscs, v)
  BY <1>4, <1>5, ConcatFollows
<1>7. ~wait_for_tma' => TmasCame(v) /\ (~wait_for_tma \/ Tmas(v) # {})
  <2>1. CASE times = <<>>
    <3>1. times # <<"TSC">> /\ wait_for_tma' = wait_for_tma
      BY <1>3, <2>1
    <3> QED
      BY <1>4, <3>1
  <2>2. CASE times = <<"TSC">>
    <3>1. times # <<>>
      BY <2>2
    <3>2. wait_for_tma'
      BY <1>3, <2>2, <3>1, Zenon
    <3> QED
      BY <3>2
  <2>3. CASE times = <<"TSC", "TMA">>
    <3>1. times # <<"TSC">>
      BY <2>3
    <3> QED
      BY <1>4, <2>3, <3>1
  <2> QED
    BY <2>1, <2>2, <2>3
<1> QED
  BY <1>1, <1>2, <1>4, <1>6, <1>7, CollectedOn

\* The end of an overflow is collected.
LEMMA CollectOverflow == CollectInv /\ OverflowEnds => CollectInv'
<1> SUFFICES ASSUME CollectInv, OverflowEnds PROVE CollectInv'
  OBVIOUS
<1>1. /\ phase = "record" /\ phase' = phase /\ Collected(tscs, now, wait_for_tma)
      /\ tscs' = Append(tscs, Item("OVF", now)) /\ now' = now /\ wait_for_tma' = wait_for_tma
  BY DEF OverflowEnds, Event, CollectInv
<1> SUFFICES Collected(tscs', now, wait_for_tma)
  BY <1>1 DEF CollectInv
<1> DEFINE types == <<"OVF">>
           v == [i \in 1 .. Len(types) |-> Item(types[i], now)]
<1>2. now \in Nat /\ now <= now /\ tscs \in Seq(Packets)
  BY <1>1 DEF Collected, IsList
<1>3. v = <<Item("OVF", now)>>
  OBVIOUS
<1>4. types \in {<<>>, <<"TSC">>, <<"TSC", "TMA">>, <<"OVF">>} /\ types # <<"TSC">>
  OBVIOUS
<1> HIDE DEF types
<1>5. Later(v, now, now) /\ v \in Seq(Packets) /\ Mtcs(v) = {} /\ TmasCame(v)
  BY <1>2, <1>4, SentAtOnce
<1> HIDE DEF v
<1>6. tscs' = tscs \o v
  BY <1>1, <1>2, <1>3
<1>7. Follows(tscs', tscs, v)
  BY <1>2, <1>5, <1>6, ConcatFollows
<1> QED
  BY <1>1, <1>2, <1>5, <1>7, CollectedOn

\* The list is what was collected until the first round begins.
LEMMA CollectNext == CollectInv /\ [Next]_vars => CollectInv'
<1> SUFFICES ASSUME CollectInv, [Next]_vars PROVE CollectInv'
  OBVIOUS
<1>1. CASE MtcsPass
  BY <1>1, CollectMtcs
<1>2. CASE TimeSent
  BY <1>2, CollectTime
<1>3. CASE OverflowEnds
  BY <1>3, CollectOverflow
<1>4. CASE Stop
  BY <1>4 DEF Stop, CollectInv, RoundPhases
<1>5. CASE First \/ Second \/ Third \/ Fourth \/ Fifth
  BY <1>5 DEF First, Second, Third, Fourth, Fifth, Round, CollectInv, RoundPhases
<1>6. CASE UNCHANGED vars
  BY <1>6 DEF vars, CollectInv
<1> QED
  BY <1>1, <1>2, <1>3, <1>4, <1>5, <1>6 DEF Next, Done, Endless

-----------------------------------------------------------------------------
(* The first round *)

\* A TMA lacks one bit of the count (the widths of sat-ipt-tsc-heuristics.cpp).
LEMMA Widths == Rollover = 2 * TmaRollover /\ Half = TmaRollover /\ 2 <= Margin /\ Margin + 2 < TmaRollover
<1>1. Rollover = 2 * TmaRollover /\ 2 <= Margin /\ Margin + 2 < TmaRollover
  BY TimingAssumption
<1>2. TmaRollover \in Nat
  BY Units
<1> QED
  BY <1>1, <1>2 DEF Half

\* A list that differs in what the rounds find out only.
Retimed(u, s) ==
  /\ u \in Seq(Packets) /\ DOMAIN u = DOMAIN s
  /\ \A n \in DOMAIN s : /\ u[n].type = s[n].type /\ u[n].at = s[n].at
                         /\ s[n].type = "MTC" => u[n].mtc = s[n].mtc

\* Blocks are the same when packets keep their types and times.
LEMMA RetimedSame ==
  ASSUME NEW s, NEW u, Retimed(u, s)
  PROVE  /\ Tmas(u) = Tmas(s) /\ Mtcs(u) = Mtcs(s) /\ Counters(u) = Counters(s)
         /\ \A n \in DOMAIN s, type \in Types : Has(u, n, type) <=> Has(s, n, type)
         /\ \A n \in DOMAIN s : FirstTma(u, n) = FirstTma(s, n) /\ SecondTma(u, n) = SecondTma(s, n)
         /\ \A n \in DOMAIN s : Count(u[n]) = Count(s[n])
         /\ \A n \in DOMAIN s, m \in DOMAIN s : (InBlock(u, n, m) <=> InBlock(s, n, m)) /\ (IsNext(u, n, m) <=> IsNext(s, n, m))
<1>1. Tmas(u) = Tmas(s) /\ Mtcs(u) = Mtcs(s)
  BY DEF Retimed, Tmas, Mtcs, Has
<1>2. Counters(u) = Counters(s)
  BY <1>1 DEF Counters
<1>3. \A n \in DOMAIN s, type \in Types : Has(u, n, type) <=> Has(s, n, type)
  BY DEF Retimed, Has
<1>4. \A n \in DOMAIN s : FirstTma(u, n) = FirstTma(s, n) /\ SecondTma(u, n) = SecondTma(s, n)
  BY <1>1 DEF FirstTma, SecondTma
<1>5. \A n \in DOMAIN s : Count(u[n]) = Count(s[n])
  BY DEF Retimed, Count
<1>6. \A n \in DOMAIN s, m \in DOMAIN s : InBlock(u, n, m) <=> InBlock(s, n, m)
  BY <1>1 DEF InBlock, Retimed, Has
<1>7. \A n \in DOMAIN s, m \in DOMAIN s : IsNext(u, n, m) <=> IsNext(s, n, m)
  BY <1>6 DEF IsNext, Retimed, Has
<1> QED
  BY <1>1, <1>2, <1>3, <1>4, <1>5, <1>6, <1>7

\* A list of which the packets keep types and times is a list as it was sent.
LEMMA RetimedIsList ==
  ASSUME NEW s, NEW u, Retimed(u, s), IsList(s)
  PROVE  IsList(u)
<1>1. Ordered(u)
  BY DEF Retimed, IsList, Ordered, Has, Count
<1>2. MtcsRight(u)
  BY DEF Retimed, IsList, MtcsRight, Mtcs, Has, Count
<1> QED
  BY <1>1, <1>2 DEF Retimed, IsList

\* The time that tsc_in_next_mtc has for a TMA sent at a time
NextMtcFrom(a) == a + (a % Ratio) + TicksToNext(Ctc(a) % (Ticks * TmaRollover)) * Ratio

\* What the first round writes into a TMA
IsCounted(p, a) ==
  /\ p \in Packets /\ p.type = "TMA" /\ p.at = a /\ p.tsc = a /\ p.mtc = CutMtc(a)
  /\ p.tsc_in_next_mtc = NextMtcFrom(a) /\ p.pass = 0 /\ p.known_rollover_points = FALSE

\* A TMA's count before it is repaired has the highest bit not set.
LEMMA CutMtcType ==
  ASSUME NEW a \in Nat
  PROVE  CutMtc(a) \in 0 .. TmaRollover - 1 /\ CutMtc(a) \in 0 .. Rollover - 1
<1>1. CutMtc(a) = (a \div PerMtc) % TmaRollover
  BY Widths, CutMtcIs
<1> DEFINE k == a \div PerMtc
<1>2. k \in Int
  BY Parts
<1> HIDE DEF k
<1>3. k % TmaRollover \in 0 .. TmaRollover - 1
  BY <1>2, Units, DivMod
<1>4. (k % TmaRollover) \in 0 .. Rollover - 1
  BY <1>3, Units, Widths
<1> QED
  BY <1>1, <1>3, <1>4 DEF k

\* The first MTC after a TMA comes later than the TMA.
LEMMA NextMtcFromType ==
  ASSUME NEW a \in Nat
  PROVE  NextMtcFrom(a) \in Nat /\ NextMtcFrom(a) > a
<1> DEFINE tt == Ticks * TmaRollover
           d == Ctc(a)
           x == d % tt
           y == x + 1
           z == y % Ticks
           ticks == Ticks - z
           f == a % Ratio
<1>1. d \in Nat /\ f \in Nat
  BY Parts
<1>2. tt \in Nat \ {0}
  BY Units
<1>3. NextMtcFrom(a) = a + f + TicksToNext(x) * Ratio
  BY DEF NextMtcFrom
<1> HIDE DEF tt, d, f
<1>4. x \in Nat
  BY <1>1, <1>2, DivMod
<1>5. TicksToNext(x) = ticks
  BY DEF TicksToNext
<1> HIDE DEF x
<1>6. y \in Int
  BY <1>4
<1> HIDE DEF y
<1>7. z \in 0 .. Ticks - 1
  BY <1>6, Units, DivMod
<1> HIDE DEF z
<1>8. ticks \in Nat \ {0}
  BY <1>7, Units
<1> HIDE DEF ticks
<1>9. ticks * Ratio \in Nat /\ ticks * Ratio > 0
  <2>1. ticks * Ratio = Ratio * ticks /\ Ratio * 1 <= Ratio * ticks
    BY <1>8, Units, Monotone
  <2> QED
    BY <1>8, <2>1, Units
<1> QED
  BY <1>1, <1>3, <1>5, <1>9

\* What is counted in a TMA, from its CTC and the TSC before it
LEMMA CountedTma ==
  ASSUME NEW s, IsList(s), Sent(s), NEW n \in Tmas(s)
  PROVE  IsCounted(WithCount(s, n), s[n].at)
<1>1. n \in DOMAIN s /\ s[n].type = "TMA" /\ n > 1 /\ s[n - 1].type = "TSC" /\ s[n - 1].at = s[n].at
  BY DEF Sent, Tmas, Has
<1>2. s \in Seq(Packets) /\ n \in Nat /\ s[n] \in Packets /\ s[n].at \in Nat
  BY <1>1, ListIndices DEF IsList, Packets
<1>3. n - 1 \in DOMAIN s
  BY <1>1, <1>2
<1> DEFINE a == s[n].at
           tscs_ == {m \in DOMAIN s : Has(s, m, "TSC")}
           b == Before(tscs_, n)
<1>4. b = n - 1
  <2>1. tscs_ \subseteq Nat /\ n - 1 \in tscs_
    BY <1>1, <1>2, <1>3, ListIndices DEF Has
  <2>2. \/ b = 0 /\ \A x \in tscs_ : x < n => x = 0
        \/ b \in tscs_ /\ b < n /\ \A x \in tscs_ : x < n => x <= b
    <3> HIDE DEF tscs_
    <3> QED
      BY <1>2, <2>1, BeforeCases
  <2> HIDE DEF b, tscs_
  <2>3. n - 1 < n /\ n - 1 # 0 /\ n - 1 \in Nat
    BY <1>1, <1>2
  <2>4. b \in tscs_ /\ b < n /\ n - 1 <= b
    BY <2>1, <2>2, <2>3
  <2>5. b \in Nat
    BY <2>1, <2>4
  <2> QED
    BY <1>2, <2>3, <2>4, <2>5
<1>5. IsItem(s[n], "TMA", a) /\ IsItem(s[n - 1], "TSC", a)
  <2>1. s[n] = Item(s[n].type, s[n].at) /\ s[n - 1] = Item(s[n - 1].type, s[n - 1].at)
    BY <1>1, <1>3, Zenon DEF Sent
  <2>2. s[n] = Item("TMA", a) /\ s[n - 1] = Item("TSC", a)
    BY <1>1, <2>1, Zenon
  <2>3. "TMA" \in Types /\ "TSC" \in Types /\ a \in Nat
    BY <1>2 DEF Types
  <2> HIDE DEF a
  <2> QED
    BY <2>2, <2>3, ItemIsPacket
<1> DEFINE ctc == s[n].ctc
           mtc == (ctc \div Ticks) % Rollover
           next == a + s[n].fast + TicksToNext(ctc) * Ratio
<1>6. s[b].tsc = a
  BY <1>4, <1>5 DEF IsItem
<1>7. WithCount(s, n) = [s[n] EXCEPT !.tsc = a, !.mtc = mtc, !.tsc_in_next_mtc = next]
  BY <1>6 DEF WithCount
<1>8. mtc = CutMtc(a) /\ next = NextMtcFrom(a)
  BY <1>5 DEF IsItem, CutMtc, NextMtcFrom
<1>9. mtc \in 0 .. Rollover - 1 /\ next \in Int /\ a \in Int
  <2>1. a \in Nat
    BY <1>2
  <2> HIDE DEF mtc, next, a
  <2>2. CutMtc(a) \in 0 .. Rollover - 1
    BY <2>1, CutMtcType
  <2>3. NextMtcFrom(a) \in Nat
    BY <2>1, NextMtcFromType
  <2> QED
    BY <1>8, <2>1, <2>2, <2>3
<1>10. s[n].pass = 0 /\ s[n].known_rollover_points = FALSE
  BY <1>5 DEF IsItem
<1> HIDE DEF mtc, next
<1>11. /\ WithCount(s, n) \in Packets
       /\ WithCount(s, n).type = s[n].type /\ WithCount(s, n).at = s[n].at
       /\ WithCount(s, n).tsc = a /\ WithCount(s, n).mtc = mtc /\ WithCount(s, n).tsc_in_next_mtc = next
       /\ WithCount(s, n).pass = s[n].pass /\ WithCount(s, n).known_rollover_points = s[n].known_rollover_points
  BY <1>2, <1>7, <1>9 DEF Packets
<1> QED
  BY <1>1, <1>8, <1>10, <1>11 DEF IsCounted

\* The count after a TMA's says which bit the TMA's lacks, when less than that
\* has been lost.
LEMMA CountFollows ==
  ASSUME NEW n \in Nat, NEW k \in Nat, n < k, k - n <= TmaRollover,
         k % Rollover = 1 + (n % TmaRollover)
  PROVE  k = n + 1 /\ n % Rollover = n % TmaRollover
<1> DEFINE g == n \div TmaRollover
           m == n % TmaRollover
           u == k \div Rollover
           v == 2 * u
<1>1. g \in Int /\ m \in 0 .. TmaRollover - 1 /\ n = TmaRollover * g + m
  BY Units, DivMod
<1>2. u \in Int /\ k = Rollover * u + (k % Rollover)
  BY Units, DivMod
<1>3. k % Rollover = 1 + m
  OBVIOUS
<1> HIDE DEF g, m, u
<1>4. v \in Int /\ Rollover * u = TmaRollover * v
  BY <1>2, Units, Widths
<1>5. k = TmaRollover * v + 1 + m
  BY <1>1, <1>2, <1>3, <1>4, Units
<1> HIDE DEF v
<1>6. ~(v + 1 <= g)
  <2> SUFFICES ASSUME v + 1 <= g PROVE FALSE
    OBVIOUS
  <2>1. TmaRollover * (v + 1) <= TmaRollover * g
    BY <1>1, <1>4, Units, Monotone
  <2>2. TmaRollover * (v + 1) = TmaRollover * v + TmaRollover
    BY <1>4, Units
  <2>3. TmaRollover * v \in Int /\ TmaRollover * g \in Int /\ TmaRollover > 1
    BY <1>1, <1>4, Units, Widths
  <2> QED
    BY <1>1, <1>5, <2>1, <2>2, <2>3, Units
<1>7. ~(g + 1 <= v)
  <2> SUFFICES ASSUME g + 1 <= v PROVE FALSE
    OBVIOUS
  <2>1. TmaRollover * (g + 1) <= TmaRollover * v
    BY <1>1, <1>4, Units, Monotone
  <2>2. TmaRollover * (g + 1) = TmaRollover * g + TmaRollover
    BY <1>1, Units
  <2>3. TmaRollover * v \in Int /\ TmaRollover * g \in Int
    BY <1>1, <1>4, Units
  <2> QED
    BY <1>1, <1>5, <2>1, <2>2, <2>3, Units
<1>8. v = g
  BY <1>1, <1>4, <1>6, <1>7
<1>9. k = n + 1
  <2>1. TmaRollover * g \in Int
    BY <1>1, Units
  <2> QED
    BY <1>1, <1>5, <1>8, <2>1
<1>10. n = Rollover * u + m
  <2>1. TmaRollover * v = TmaRollover * g
    BY <1>8
  <2> QED
    BY <1>1, <1>4, <2>1
<1>11. m \in 0 .. Rollover - 1
  BY <1>1, Units, Widths
<1>12. n % Rollover = m
  <2>1. u \in Int /\ n \in Int
    BY <1>2
  <2> QED
    BY <2>1, <1>10, <1>11, Units, DivModUnique
<1> QED
  BY <1>9, <1>12 DEF m

\* What counting to the next TMA does to one, and what it means when nothing
\* seems to be missing of its block
IsBlocked(p, t, n) ==
  /\ p \in Packets /\ p.type = t[n].type /\ p.at = t[n].at /\ p.tsc = t[n].tsc /\ p.mtc = t[n].mtc
  /\ p.tsc_in_next_mtc = t[n].tsc_in_next_mtc /\ p.known_rollover_points = t[n].known_rollover_points
  /\ SecondTma(t, n) = 0 => p.pass = t[n].pass
  /\ SecondTma(t, n) # 0 =>
       /\ p.pass \in {0, 1}
       /\ p.mtc_count = (t[SecondTma(t, n)].tsc - t[n].tsc) \div PerMtc
       /\ p.pass = 1 => /\ \E m \in Mtcs(t) : n < m /\ m < SecondTma(t, n)
                        /\ n + 1 \in Mtcs(t) /\ n + 1 < SecondTma(t, n) => t[n + 1].mtc = 1 + t[n].mtc

\* What is found out of a TMA's block
LEMMA BlockedTma ==
  ASSUME NEW t \in Seq(Packets), NEW n \in Tmas(t)
  PROVE  IsBlocked(WithBlock(t, n), t, n)
<1>1. n \in DOMAIN t /\ t[n].type = "TMA"
  BY DEF Tmas, Has
<1>2. n \in Nat /\ t[n] \in Packets
  BY <1>1, ListIndices
<1>3. CASE SecondTma(t, n) = 0
  BY <1>2, <1>3 DEF IsBlocked, WithBlock
<1>4. CASE SecondTma(t, n) # 0
  <2> DEFINE second == SecondTma(t, n)
             mtcs == {m \in Mtcs(t) : n < m /\ m < second}
             count == (t[second].tsc - t[n].tsc) \div PerMtc
             counted == [t EXCEPT ![n].mtc_count = count]
             pass == IF IsComplete(counted, n, mtcs, second) THEN 1 ELSE 0
             p == [counted[n] EXCEPT !.pass = pass]
  <2>1. WithBlock(t, n) = p
    BY <1>4 DEF WithBlock
  <2>2. second \in DOMAIN t
    BY <1>1, <1>4, SecondIs
  <2>3. count \in Int
    <3>1. t[second].tsc \in Int /\ t[n].tsc \in Int
      BY <1>1, <2>2, ListIndices DEF Packets
    <3> DEFINE d == t[second].tsc - t[n].tsc
    <3>2. d \in Int
      BY <3>1
    <3> HIDE DEF d
    <3>3. d \div PerMtc \in Int
      BY <3>2, Units, DivMod
    <3> QED
      BY <3>3 DEF d
  <2>4. counted[n] = [t[n] EXCEPT !.mtc_count = count]
    BY <1>1
  <2>5. \A i \in DOMAIN t : i # n => counted[i] = t[i]
    BY <1>1
  <2> HIDE DEF count, counted, second
  <2>6. /\ p \in Packets /\ p.type = t[n].type /\ p.at = t[n].at /\ p.tsc = t[n].tsc /\ p.mtc = t[n].mtc
        /\ p.tsc_in_next_mtc = t[n].tsc_in_next_mtc /\ p.known_rollover_points = t[n].known_rollover_points
        /\ p.pass \in {0, 1} /\ p.mtc_count = count
        /\ p.pass = 1 => IsComplete(counted, n, mtcs, second)
        /\ counted[n].mtc = t[n].mtc
    <3>1. pass \in {0, 1} /\ (pass = 1 => IsComplete(counted, n, mtcs, second))
      OBVIOUS
    <3> DEFINE q == counted[n]
    <3> HIDE DEF pass
    <3>2. /\ q \in Packets /\ q.type = t[n].type /\ q.at = t[n].at /\ q.tsc = t[n].tsc /\ q.mtc = t[n].mtc
          /\ q.tsc_in_next_mtc = t[n].tsc_in_next_mtc /\ q.known_rollover_points = t[n].known_rollover_points
          /\ q.mtc_count = count
      BY <1>2, <2>3, <2>4 DEF Packets
    <3> HIDE DEF q
    <3>3. /\ p \in Packets /\ p.type = q.type /\ p.at = q.at /\ p.tsc = q.tsc /\ p.mtc = q.mtc
          /\ p.tsc_in_next_mtc = q.tsc_in_next_mtc /\ p.known_rollover_points = q.known_rollover_points
          /\ p.pass = pass /\ p.mtc_count = q.mtc_count
      <4>1. p = [q EXCEPT !.pass = pass] /\ pass \in 0 .. 3
        BY <3>1 DEF q
      <4> QED
        BY <3>2, <4>1 DEF Packets
    <3> HIDE DEF p
    <3>4. counted[n].mtc = t[n].mtc
      BY <3>2 DEF q
    <3> QED
      BY <3>1, <3>2, <3>3, <3>4
  <2>7. ASSUME p.pass = 1
        PROVE  /\ \E m \in Mtcs(t) : n < m /\ m < second
               /\ n + 1 \in Mtcs(t) /\ n + 1 < second => t[n + 1].mtc = 1 + t[n].mtc
    <3>1. mtcs # {} /\ NoGaps(counted, n, mtcs, second)
      BY <2>6, <2>7 DEF IsComplete
    <3>2. ASSUME n + 1 \in Mtcs(t), n + 1 < second PROVE t[n + 1].mtc = 1 + t[n].mtc
      <4>1. n + 1 \in mtcs /\ mtcs \subseteq Nat /\ \A x \in mtcs : n < x
        BY <1>2, <3>2, ListIndices
      <4>2. counted[n + 1].mtc = 1 + (IF Before(mtcs, n + 1) = 0 THEN counted[n].mtc ELSE counted[Before(mtcs, n + 1)].mtc)
        BY <3>1, <4>1 DEF NoGaps
      <4>3. Before(mtcs, n + 1) = 0
        <5> DEFINE k == n + 1
                   b == Before(mtcs, k)
        <5>1. k \in Nat /\ \A x \in mtcs : ~(x < k)
          BY <1>2, <4>1
        <5> HIDE DEF mtcs, k
        <5>2. \/ b = 0 /\ \A x \in mtcs : x < k => x = 0
              \/ b \in mtcs /\ b < k /\ \A x \in mtcs : x < k => x <= b
          BY <4>1, <5>1, BeforeCases
        <5>3. b = 0
          BY <5>1, <5>2
        <5> QED
          BY <5>3 DEF k
      <4>4. counted[n + 1] = t[n + 1]
        BY <1>2, <2>5, <3>2 DEF Mtcs
      <4> QED
        BY <2>6, <4>2, <4>3, <4>4
    <3> QED
      BY <3>1, <3>2
  <2> HIDE DEF p, mtcs
  <2> QED
    BY <1>4, <2>1, <2>6, <2>7 DEF IsBlocked, second, count
<1> QED
  BY <1>3, <1>4

\* The TMAs once their block is counted
IsTma(s, n) ==
  /\ s[n].tsc = s[n].at /\ s[n].tsc_in_next_mtc = NextMtcFrom(s[n].at)
  /\ s[n].mtc \in {CutMtc(s[n].at), OrHighest(CutMtc(s[n].at))}
  /\ s[n].pass = 1 => \E m \in DOMAIN s : IsNext(s, n, m)
  /\ \A m \in DOMAIN s : IsNext(s, n, m) => s[n].mtc_count = (s[m].at - s[n].at) \div PerMtc

\* The first round has been.
Counted(s) == IsList(s) /\ \A n \in Tmas(s) : IsTma(s, n)

\* The count of a packet is what the CPU had when it was sent.
IsTrue(s, n) == s[n].mtc = MtcAt(s[n].at)

\* What Complete says of a TMA and the next one
LooksComplete(s, n, m) ==
  /\ IsNext(s, n, m) /\ s[n].pass = 1 /\ ~Has(s, n + 1, "OVF")
  /\ Count(s[m]) - Count(s[n]) < Half

\* The complete blocks are, and the packet after their TMA is the next MTC.
Unrepaired(s) ==
  /\ \A n \in Tmas(s) : s[n].mtc = CutMtc(s[n].at) /\ s[n].pass \in {0, 1}
  /\ \A n, m \in DOMAIN s : LooksComplete(s, n, m) =>
       IsTrue(s, n) /\ Has(s, n + 1, "MTC") /\ Count(s[n + 1]) = Count(s[n]) + 1

\* The first round: TMAs have their times and counts without the highest bit, and
\* the count of one whose block is complete is right as it is.
LEMMA FirstRoundRight ==
  ASSUME NEW s, IsList(s), Untimed(s), Sent(s), NEW u, u = FirstRound(s)
  PROVE  Counted(u) /\ Unrepaired(u) /\ Untimed(u)
<1> DEFINE t == [n \in DOMAIN s |-> IF Has(s, n, "TMA") THEN WithCount(s, n) ELSE s[n]]
<1>1. u = [n \in DOMAIN t |-> IF Has(t, n, "TMA") THEN WithBlock(t, n) ELSE t[n]] /\ DOMAIN t = DOMAIN s
  BY DEF FirstRound
<1>2. s \in Seq(Packets) /\ DOMAIN s = 1 .. Len(s) /\ Len(s) \in Nat
  BY ListIndices DEF IsList
<1>3. ASSUME NEW n \in DOMAIN s, s[n].type = "TMA"
      PROVE  IsCounted(t[n], s[n].at)
  <2>1. n \in Tmas(s)
    BY <1>3 DEF Tmas, Has
  <2>2. t[n] = WithCount(s, n)
    BY <1>3 DEF Has
  <2>3. IsCounted(WithCount(s, n), s[n].at)
    BY <2>1, CountedTma
  <2> QED
    BY <2>2, <2>3
<1>4. \A n \in DOMAIN s : s[n].type # "TMA" => t[n] = s[n]
  BY DEF Has
<1> HIDE DEF t
<1>5. ASSUME NEW n \in DOMAIN s
      PROVE  t[n] \in Packets /\ t[n].type = s[n].type /\ t[n].at = s[n].at
  <2>1. CASE s[n].type = "TMA"
    BY <1>3, <2>1 DEF IsCounted
  <2>2. CASE s[n].type # "TMA"
    <3>1. t[n] = s[n] /\ s[n] \in Packets
      BY <1>2, <1>4, <2>2, ListIndices
    <3> QED
      BY <3>1
  <2> QED
    BY <2>1, <2>2
<1>6. Retimed(t, s)
  <2>1. t \in [1 .. Len(s) -> Packets]
    <3>1. t = [n \in DOMAIN t |-> t[n]]
      BY DEF t
    <3> QED
      BY <1>1, <1>2, <1>5, <3>1
  <2>2. t \in Seq(Packets)
    BY <1>2, <2>1
  <2> QED
    BY <1>1, <1>4, <1>5, <2>2 DEF Retimed
<1>7. IsList(t) /\ t \in Seq(Packets)
  BY <1>6, RetimedIsList DEF Retimed
<1>8. ASSUME NEW n \in DOMAIN s, s[n].type = "TMA"
      PROVE  IsBlocked(u[n], t, n)
  <2>1. n \in Tmas(t) /\ Has(t, n, "TMA")
    BY <1>1, <1>5, <1>8 DEF Tmas, Has
  <2>2. u[n] = WithBlock(t, n)
    BY <1>1, <2>1
  <2>3. IsBlocked(WithBlock(t, n), t, n)
    BY <1>7, <2>1, BlockedTma
  <2> QED
    BY <2>2, <2>3
<1>9. \A n \in DOMAIN s : s[n].type # "TMA" => u[n] = s[n]
  BY <1>1, <1>4, <1>5 DEF Has
<1>10. ASSUME NEW n \in DOMAIN s
       PROVE  u[n] \in Packets /\ u[n].type = s[n].type /\ u[n].at = s[n].at
  <2>1. CASE s[n].type = "TMA"
    BY <1>5, <1>8, <2>1 DEF IsBlocked
  <2>2. CASE s[n].type # "TMA"
    <3>1. u[n] = s[n] /\ s[n] \in Packets
      BY <1>2, <1>9, <2>2, ListIndices
    <3> QED
      BY <3>1
  <2> QED
    BY <2>1, <2>2
<1>11. Retimed(u, s)
  <2>1. u \in [1 .. Len(s) -> Packets]
    <3>1. DOMAIN u = DOMAIN s /\ u = [n \in DOMAIN u |-> u[n]]
      BY <1>1
    <3> QED
      BY <1>2, <1>10, <3>1
  <2>2. u \in Seq(Packets)
    BY <1>2, <2>1
  <2> QED
    BY <1>1, <1>9, <1>10, <2>2 DEF Retimed
<1>12. IsList(u) /\ u \in Seq(Packets) /\ DOMAIN u = DOMAIN s /\ DOMAIN t = DOMAIN s
  BY <1>1, <1>11, RetimedIsList DEF Retimed
\* A TMA after both parts
<1>13. ASSUME NEW n \in Tmas(u)
       PROVE  /\ n \in DOMAIN s /\ s[n].type = "TMA" /\ n \in Nat
              /\ u[n].at = s[n].at /\ u[n].tsc = s[n].at /\ u[n].mtc = CutMtc(s[n].at) /\ t[n].mtc = u[n].mtc
              /\ u[n].tsc_in_next_mtc = NextMtcFrom(s[n].at) /\ u[n].known_rollover_points = FALSE
              /\ u[n].pass \in {0, 1}
              /\ SecondTma(t, n) = 0 => u[n].pass = 0
              /\ SecondTma(t, n) # 0 =>
                   u[n].mtc_count = (t[SecondTma(t, n)].tsc - t[n].tsc) \div PerMtc
              /\ u[n].pass = 1 => /\ \E m \in Mtcs(t) : n < m /\ m < SecondTma(t, n)
                                  /\ n + 1 \in Mtcs(t) /\ n + 1 < SecondTma(t, n) => t[n + 1].mtc = 1 + t[n].mtc
  <2>1. n \in DOMAIN s /\ s[n].type = "TMA" /\ n \in Nat
    BY <1>2, <1>10, <1>12 DEF Tmas, Has
  <2>2. IsCounted(t[n], s[n].at) /\ IsBlocked(u[n], t, n)
    BY <1>3, <1>8, <2>1
  <2> DEFINE m == SecondTma(t, n)
  <2>3. IsBlocked(u[n], t, n) <=>
          LET p == u[n] IN
          /\ p \in Packets /\ p.type = t[n].type /\ p.at = t[n].at /\ p.tsc = t[n].tsc /\ p.mtc = t[n].mtc
          /\ p.tsc_in_next_mtc = t[n].tsc_in_next_mtc /\ p.known_rollover_points = t[n].known_rollover_points
          /\ m = 0 => p.pass = t[n].pass
          /\ m # 0 =>
               /\ p.pass \in {0, 1}
               /\ p.mtc_count = (t[m].tsc - t[n].tsc) \div PerMtc
               /\ p.pass = 1 => /\ \E x \in Mtcs(t) : n < x /\ x < m
                                /\ n + 1 \in Mtcs(t) /\ n + 1 < m => t[n + 1].mtc = 1 + t[n].mtc
    BY DEF IsBlocked
  <2> HIDE DEF m
  <2>4. /\ u[n].at = s[n].at /\ u[n].tsc = s[n].at /\ u[n].mtc = CutMtc(s[n].at) /\ t[n].mtc = u[n].mtc
        /\ u[n].tsc_in_next_mtc = NextMtcFrom(s[n].at) /\ u[n].known_rollover_points = FALSE
        /\ u[n].pass \in {0, 1} /\ (m = 0 => u[n].pass = 0)
    BY <2>2, <2>3 DEF IsCounted
  <2> QED
    BY <2>1, <2>2, <2>3, <2>4 DEF m
<1>14. ASSUME NEW n \in Tmas(u), NEW m \in DOMAIN u, IsNext(u, n, m)
       PROVE  SecondTma(t, n) = m /\ m # 0 /\ m \in Nat /\ t[m].tsc = u[m].at /\ t[n].tsc = u[n].at /\ n \in DOMAIN u
  <2>1. n \in DOMAIN s /\ m \in DOMAIN s /\ m # 0 /\ m \in Nat /\ n \in DOMAIN u
    <3>1. n \in DOMAIN s
      BY <1>13
    <3> QED
      BY <1>2, <1>12, <3>1
  <2>2. IsNext(s, n, m) /\ SecondTma(t, n) = SecondTma(s, n)
    BY <1>6, <1>11, <1>14, <2>1, RetimedSame
  <2>3. SecondTma(s, n) = m
    BY <1>2, <2>1, <2>2, OneNext
  <2>4. s[m].type = "TMA" /\ s[n].type = "TMA"
    BY <1>13, <2>2 DEF IsNext, Has
  <2>5. t[m].tsc = s[m].at /\ t[n].tsc = s[n].at
    BY <1>3, <2>1, <2>4 DEF IsCounted
  <2> QED
    BY <1>10, <2>1, <2>2, <2>3, <2>5
<1>15. ASSUME NEW n \in Tmas(u), SecondTma(t, n) # 0
       PROVE  SecondTma(t, n) \in DOMAIN u /\ IsNext(u, n, SecondTma(t, n))
  <2>1. n \in DOMAIN s /\ s[n].type = "TMA" /\ SecondTma(t, n) = SecondTma(s, n)
    BY <1>6, <1>13, RetimedSame
  <2> DEFINE m == SecondTma(s, n)
  <2>2. m # 0
    BY <1>15, <2>1
  <2>3. TmaOf(s, n, n)
    BY <2>1 DEF TmaOf, Has
  <2>4. IsNext(s, n, m)
    BY <1>2, <2>1, <2>2, <2>3, SecondIsNext
  <2> HIDE DEF m
  <2>5. m \in DOMAIN s
    BY <2>4 DEF IsNext, InBlock
  <2>6. IsNext(u, n, m)
    BY <1>11, <2>1, <2>4, <2>5, RetimedSame
  <2> QED
    BY <1>12, <2>1, <2>5, <2>6 DEF m
<1>16. ASSUME NEW n \in Tmas(u) PROVE IsTma(u, n)
  <2>1. \A m \in DOMAIN u : IsNext(u, n, m) => u[n].mtc_count = (u[m].at - u[n].at) \div PerMtc
    <3> SUFFICES ASSUME NEW m \in DOMAIN u, IsNext(u, n, m)
                 PROVE  u[n].mtc_count = (u[m].at - u[n].at) \div PerMtc
      OBVIOUS
    <3>1. SecondTma(t, n) = m /\ m # 0 /\ t[m].tsc = u[m].at /\ t[n].tsc = u[n].at
      BY <1>14
    <3>2. u[n].mtc_count = (t[SecondTma(t, n)].tsc - t[n].tsc) \div PerMtc
      BY <1>13, <3>1
    <3> QED
      BY <3>1, <3>2
  <2>2. u[n].pass = 1 => \E m \in DOMAIN u : IsNext(u, n, m)
    <3>1. u[n].pass = 1 => SecondTma(t, n) # 0
      <4> SUFFICES ASSUME u[n].pass = 1, SecondTma(t, n) = 0 PROVE FALSE
        OBVIOUS
      <4>1. u[n].pass = 0
        BY <1>13
      <4> QED
        BY <4>1
    <3> QED
      BY <1>15, <3>1
  <2>3. u[n].tsc = u[n].at /\ u[n].tsc_in_next_mtc = NextMtcFrom(u[n].at) /\ u[n].mtc = CutMtc(u[n].at)
    BY <1>13
  <2> QED
    BY <2>1, <2>2, <2>3 DEF IsTma
<1>17. ASSUME NEW n \in DOMAIN u, NEW m \in DOMAIN u, LooksComplete(u, n, m)
       PROVE  IsTrue(u, n) /\ Has(u, n + 1, "MTC") /\ Count(u[n + 1]) = Count(u[n]) + 1
  <2>1. n \in Tmas(u) /\ n \in Nat /\ m \in Nat /\ n < m /\ u[n].pass = 1 /\ u[n + 1].type # "OVF" /\ IsNext(u, n, m)
    BY <1>12, <1>17, ListIndices DEF LooksComplete, IsNext, InBlock, Has
  <2>2. SecondTma(t, n) = m
    BY <1>14, <2>1
  <2>3. PICK x \in Mtcs(t) : n < x /\ x < m
    BY <1>13, <2>1, <2>2
  <2>4. x \in DOMAIN s /\ x \in Nat /\ s[x].type = "MTC"
    BY <1>2, <1>5, <1>12, <2>3 DEF Mtcs, Has
  <2>5. n + 1 \in DOMAIN s /\ n + 1 < m /\ n < n + 1 /\ n + 1 \in DOMAIN u
    BY <1>2, <1>12, <2>1, <2>3, <2>4
  <2>6. s[n + 1].type \in {"TSC", "MTC"}
    <3>1. s[n + 1].type = u[n + 1].type /\ s[n + 1] \in Packets
      BY <1>2, <1>10, <2>5, ListIndices
    <3>2. u[n + 1].type # "TMA"
      BY <1>12, <2>1, <2>5 DEF IsNext, InBlock, Has
    <3>3. s[n + 1].type \in Types
      BY <3>1 DEF Packets
    <3> QED
      BY <2>1, <3>1, <3>2, <3>3 DEF Types
  <2>7. s[n + 1].type # "TSC"
    <3> SUFFICES ASSUME s[n + 1].type = "TSC" PROVE FALSE
      OBVIOUS
    <3>1. n + 1 # x
      BY <2>4
    <3>2. n + 1 < x
      BY <2>1, <2>3, <2>4, <3>1
    <3>3. PICK j \in Tmas(s) : n + 1 < j /\ j < x
      BY <2>4, <2>5, <3>2 DEF Sent, Has
    <3>4. j \in DOMAIN u /\ Has(u, j, "TMA") /\ j \in Nat
      BY <1>2, <1>10, <1>12 DEF Tmas, Has
    <3>5. n < j /\ j < m
      BY <2>1, <2>3, <2>4, <3>3, <3>4
    <3> QED
      BY <2>1, <3>4, <3>5 DEF IsNext, InBlock
  <2>8. s[n + 1].type = "MTC"
    BY <2>6, <2>7
  <2>9. n + 1 \in Mtcs(t) /\ u[n + 1] = s[n + 1] /\ t[n + 1] = s[n + 1]
    BY <1>4, <1>5, <1>9, <1>12, <2>5, <2>8 DEF Mtcs, Has
  <2>10. u[n + 1].mtc = 1 + u[n].mtc
    BY ZenonT(30), <1>13, <2>1, <2>2, <2>5, <2>9
  <2> DEFINE k == n + 1
             A == Count(u[n])
             B == Count(u[k])
             C == Count(u[m])
  <2>11. /\ k \in DOMAIN u /\ n < k /\ k < m /\ Has(u, k, "MTC") /\ k \in Mtcs(u)
         /\ u[k].mtc = 1 + u[n].mtc
    BY <2>1, <2>5, <2>8, <2>9, <2>10 DEF Has, Mtcs
  <2> HIDE DEF k
  <2>12. A < B /\ u[k].at <= u[m].at
    BY <1>12, <1>17, <2>11 DEF IsList, Ordered
  <2>13. u[n].at \in Nat /\ u[k].at \in Nat /\ u[m].at \in Nat
    BY <1>12, <1>17, <2>11, ListIndices DEF Packets
  <2>14. A \in Nat /\ B \in Nat /\ C \in Nat /\ B <= C
    <3>1. u[k].at \div PerMtc <= u[m].at \div PerMtc
      BY <2>12, <2>13, CountGrows
    <3> QED
      BY <2>13, <3>1, Parts DEF Count
  <2>15. C - A < TmaRollover
    BY <1>17, Widths DEF LooksComplete
  <2>16. u[k].mtc = B % Rollover
    BY <1>12, <2>11 DEF IsList, MtcsRight, MtcAt, Count
  <2>17. u[n].mtc = A % TmaRollover
    <3>1. u[n].mtc = CutMtc(u[n].at)
      BY <1>13, <2>1
    <3>2. CutMtc(u[n].at) = (u[n].at \div PerMtc) % TmaRollover
      BY <2>13, Widths, CutMtcIs
    <3> QED
      BY <3>1, <3>2 DEF Count
  <2>18. A % Rollover = MtcAt(u[n].at)
    BY DEF Count, MtcAt
  <2> HIDE DEF A, B, C
  <2>19. B - A <= TmaRollover
    BY <2>14, <2>15, Units
  <2>20. B % Rollover = 1 + (A % TmaRollover)
    BY <2>11, <2>16, <2>17
  <2>21. B = A + 1 /\ A % Rollover = A % TmaRollover
    BY <2>12, <2>14, <2>19, <2>20, CountFollows
  <2> QED
    BY <2>11, <2>17, <2>18, <2>21 DEF IsTrue, A, B, k
<1>18. Unrepaired(u)
  <2>1. \A n \in Tmas(u) : u[n].mtc = CutMtc(u[n].at) /\ u[n].pass \in {0, 1}
    BY <1>13
  <2> QED
    BY <1>17, <2>1 DEF Unrepaired
<1>19. Untimed(u)
  <2> SUFFICES ASSUME NEW n \in DOMAIN u
               PROVE  (u[n].type = "MTC" => u[n].pass = 0) /\ u[n].known_rollover_points = FALSE
    BY DEF Untimed, Has
  <2>1. CASE s[n].type = "TMA"
    <3>1. n \in Tmas(u) /\ u[n].type # "MTC"
      BY <1>10, <1>12, <2>1 DEF Tmas, Has
    <3> QED
      BY <1>13, <3>1
  <2>2. CASE s[n].type # "TMA"
    BY <1>9, <1>12, <2>2 DEF Untimed, Has
  <2> QED
    BY <2>1, <2>2
<1> QED
  BY <1>12, <1>16, <1>18, <1>19 DEF Counted

-----------------------------------------------------------------------------
(* The second round *)

\* A TMA's count is repaired to the right one when the calculated one is off by
\* no more than the margin.
LEMMA RepairedNear ==
  ASSUME NEW a \in Nat, NEW e \in {0, 1, 2}
  PROVE  Repaired(CutMtc(a), ((a \div PerMtc) + e) % Rollover) = MtcAt(a)
<1> DEFINE A == a \div PerMtc
           m == A % TmaRollover
           k == A % Rollover
           calculated == (A + e) % Rollover
<1>1. A \in Nat /\ MtcAt(a) = k /\ CutMtc(a) = m
  BY Parts, Widths, CutMtcIs DEF MtcAt
<1> HIDE DEF A
<1>2. k \in {m, m + TmaRollover} /\ m \in 0 .. TmaRollover - 1 /\ k \in 0 .. Rollover - 1
  <2>1. IsProduct(Rollover, 2, TmaRollover) /\ A \in Int
    BY <1>1, Widths DEF IsProduct
  <2>2. k \in {m, m + TmaRollover}
    BY <1>1, <2>1, HighestBit
  <2>3. m \in 0 .. TmaRollover - 1
    BY <2>1, DivMod, Units
  <2>4. k \in 0 .. Rollover - 1
    BY <2>1, DivMod, Units
  <2> QED
    BY <2>2, <2>3, <2>4
<1>3. calculated = IF k + e < Rollover THEN k + e ELSE k + e - Rollover
  <2>1. (A + 1) % Rollover = IF k + 1 < Rollover THEN k + 1 ELSE 0
    BY <1>1, CountOn
  <2>2. CASE e = 0
    <3>1. A + 0 = A
      BY <1>1
    <3>2. calculated = k
      BY <2>2, <3>1
    <3> HIDE DEF calculated, k, m
    <3> QED
      BY <1>2, <2>2, <3>2, Units
  <2>3. CASE e = 1
    <3>1. calculated = IF k + 1 < Rollover THEN k + 1 ELSE 0
      BY <2>1, <2>3
    <3> HIDE DEF calculated, k, m
    <3> QED
      BY <1>2, <2>3, <3>1, Units
  <2>4. CASE e = 2
    <3> DEFINE B == A + 1
               kb == B % Rollover
    <3>1. B \in Int /\ B + 1 = A + 2
      BY <1>1
    <3>2. kb = IF k + 1 < Rollover THEN k + 1 ELSE 0
      BY <2>1
    <3> HIDE DEF B
    <3>3. (B + 1) % Rollover = IF kb + 1 < Rollover THEN kb + 1 ELSE 0
      BY <3>1, CountOn
    <3>4. calculated = IF kb + 1 < Rollover THEN kb + 1 ELSE 0
      BY <2>4, <3>1, <3>3
    <3> HIDE DEF calculated, k, m, kb
    <3> QED
      BY <1>2, <2>4, <3>2, <3>4, Units, Widths
  <2> QED
    BY <2>2, <2>3, <2>4
<1>4. Repaired(m, calculated) = k
  <2> HIDE DEF calculated, k, m
  <2> QED
    BY <1>2, <1>3, Widths, Units DEF Repaired, Distance, OrHighest
<1> QED
  BY <1>1, <1>4 DEF calculated, A

\* However many MTCs and rollovers are lost between two TMAs, the first is
\* repaired to the right count when the second has it, or when what is taken for
\* it is the count of the next MTC (tsc_heuristics_second_round, backwards).
THEOREM RepairedFromNext ==
  ASSUME NEW a \in Nat, NEW b \in Nat, a <= b, NEW e \in {0, 1}, NEW k,
         k = ((b \div PerMtc) + e) % Rollover
  PROVE  Repaired(CutMtc(a), (k - ((b - a) \div PerMtc)) % Rollover) = MtcAt(a)
<1> DEFINE A == a \div PerMtc
           B == b \div PerMtc
           d == (b - a) \div PerMtc
           f == B + e - d - A
<1>1. A \in Nat /\ B \in Nat /\ d \in {B - A, B - A - 1}
  BY Parts, Elapsed
<1>2. k = (B + e) % Rollover
  OBVIOUS
<1> HIDE DEF A, B, d
<1>3. f \in {0, 1, 2}
  BY <1>1
<1>4. (k - d) % Rollover = (A + f) % Rollover
  <2>1. B + e \in Int /\ d \in Int /\ (B + e) - d = A + f
    BY <1>1
  <2> DEFINE x == B + e
  <2> HIDE DEF f, x
  <2>2. ((x % Rollover) - d) % Rollover = (x - d) % Rollover
    BY <2>1, CountBack DEF x
  <2> QED
    BY <1>2, <2>1, <2>2 DEF x
<1> HIDE DEF f
<1>5. Repaired(CutMtc(a), (A + f) % Rollover) = MtcAt(a)
  BY <1>3, RepairedNear DEF A
<1> QED
  BY <1>4, <1>5 DEF d

\* Setting the highest bit twice is setting it once, and it stays a count.
LEMMA OrHighestType ==
  ASSUME NEW mtc \in 0 .. Rollover - 1
  PROVE  /\ OrHighest(mtc) \in 0 .. Rollover - 1
         /\ OrHighest(OrHighest(mtc)) = OrHighest(mtc)
         /\ \A calculated : Repaired(mtc, calculated) \in {mtc, OrHighest(mtc)}
<1>1. OrHighest(mtc) \in 0 .. Rollover - 1 /\ OrHighest(OrHighest(mtc)) = OrHighest(mtc)
  BY Units, Widths DEF OrHighest
<1> QED
  BY <1>1 DEF Repaired

\* What the way back does
BackCount(s, complete, following, mtc, n) ==
  IF n = complete THEN following
  ELSE IF Has(s, n, "TMA")
       THEN Repaired(s[n].mtc, (mtc[n + 1] - s[n].mtc_count) % Rollover)
       ELSE mtc[n + 1]

\* u is the list after the way back, and mtc the counts on it.
IsBackward(u, s, complete, following, mtc) ==
  /\ \A n \in 1 .. complete : mtc[n] = BackCount(s, complete, following, mtc, n) /\ mtc[n] \in 0 .. Rollover - 1
  /\ u = [n \in DOMAIN s |->
            IF n < complete /\ Has(s, n, "TMA") THEN [s[n] EXCEPT !.mtc = mtc[n], !.pass = 2]
            ELSE s[n]]

\* The loop back has a count for every packet.
LEMMA BackwardIs ==
  ASSUME NEW s \in Seq(Packets), NEW complete \in DOMAIN s, NEW following \in 0 .. Rollover - 1
  PROVE  \E mtc : IsBackward(RepairedBackward(s, complete, following), s, complete, following, mtc)
<1> DEFINE T == 0 .. Rollover - 1
           N == complete - 1
           turn == [i \in 1 .. N |-> [v \in T |->
                      IF Has(s, complete - i, "TMA")
                      THEN Repaired(s[complete - i].mtc, (v - s[complete - i].mtc_count) % Rollover)
                      ELSE v]]
           Gets(f) == f = [n \in 1 .. complete |->
                             IF n = complete THEN following
                             ELSE IF Has(s, n, "TMA")
                             THEN Repaired(s[n].mtc, (f[n + 1] - s[n].mtc_count) % Rollover)
                             ELSE f[n + 1]]
           mtc == CHOOSE f : Gets(f)
<1>1. complete \in Nat \ {0} /\ N \in Nat /\ \A n \in 1 .. complete : n \in DOMAIN s /\ s[n] \in Packets
  BY ListIndices
<1>2. RepairedBackward(s, complete, following) =
        [n \in DOMAIN s |->
           IF n < complete /\ Has(s, n, "TMA") THEN [s[n] EXCEPT !.mtc = mtc[n], !.pass = 2]
           ELSE s[n]]
  BY DEF RepairedBackward
<1>3. \E f : Gets(f) /\ f \in [1 .. complete -> T]
  <2>1. turn \in [1 .. N -> [T -> T]]
    <3>1. ASSUME NEW i \in 1 .. N, NEW v \in T
          PROVE  (IF Has(s, complete - i, "TMA")
                  THEN Repaired(s[complete - i].mtc, (v - s[complete - i].mtc_count) % Rollover)
                  ELSE v) \in T
      <4>1. s[complete - i] \in Packets
        BY <1>1
      <4>2. s[complete - i].mtc \in 0 .. Rollover - 1
        BY <4>1 DEF Packets
      <4> DEFINE m == s[complete - i].mtc
      <4>3. m \in 0 .. Rollover - 1
        BY <4>2
      <4> HIDE DEF m
      <4>4. \A c : Repaired(m, c) \in 0 .. Rollover - 1
        BY <4>3, OrHighestType
      <4> QED
        BY <4>4 DEF m
    <3> HIDE DEF T
    <3> QED
      BY <3>1
  <2>2. following \in T
    OBVIOUS
  <2> HIDE DEF T, turn, N
  <2>3. PICK g \in [0 .. N -> T] : Rounds(g, N, following, turn)
    BY <1>1, <2>1, <2>2, LoopExists
  <2> DEFINE f == [n \in 1 .. complete |-> g[complete - n]]
  <2>4. \A n \in 1 .. complete : complete - n \in 0 .. N
    BY <1>1 DEF N
  <2>5. f \in [1 .. complete -> T]
    BY <2>3, <2>4
  <2>6. \A n \in 1 .. complete : n # complete => complete - n \in 1 .. N /\ (complete - n) - 1 = complete - (n + 1) /\ n + 1 \in 1 .. complete
    BY <1>1 DEF N
  <2>7. ASSUME NEW n \in 1 .. complete
        PROVE  f[n] = IF n = complete THEN following
                      ELSE IF Has(s, n, "TMA")
                      THEN Repaired(s[n].mtc, (f[n + 1] - s[n].mtc_count) % Rollover)
                      ELSE f[n + 1]
    <3>1. CASE n = complete
      <4>1. complete - n = 0
        BY <1>1, <3>1
      <4> QED
        BY <2>3, <3>1, <4>1 DEF Rounds
    <3>2. CASE n # complete
      <4> DEFINE i == complete - n
      <4>1. i \in 1 .. N /\ i - 1 = complete - (n + 1) /\ n + 1 \in 1 .. complete /\ complete - i = n /\ i - 1 \in 0 .. N
        BY <1>1, <2>4, <2>6, <3>2
      <4>2. f[n] = g[i] /\ f[n + 1] = g[i - 1]
        BY <4>1
      <4> HIDE DEF i, f
      <4>3. g[i] = turn[i][g[i - 1]] /\ g[i - 1] \in T
        BY <2>3, <4>1 DEF Rounds
      <4>4. g[i] = IF Has(s, n, "TMA") THEN Repaired(s[n].mtc, (g[i - 1] - s[n].mtc_count) % Rollover)
                   ELSE g[i - 1]
        BY <4>1, <4>3 DEF turn
      <4> QED
        BY <3>2, <4>2, <4>4
    <3> QED
      BY <3>1, <3>2
  <2>8. Gets(f)
    <3>1. f = [n \in 1 .. complete |-> f[n]]
      OBVIOUS
    <3> HIDE DEF f
    <3> QED
      BY <2>7, <3>1, Zenon
  <2> QED
    BY <2>5, <2>8
<1>4. Gets(mtc)
  BY <1>3
<1> HIDE DEF mtc
<1>5. \A n \in 1 .. complete : mtc[n] = BackCount(s, complete, following, mtc, n)
  BY <1>4, Zenon DEF BackCount
<1>6. \A n \in 1 .. complete : mtc[n] \in T
  <2> DEFINE S == {j \in Nat : j < complete => mtc[complete - j] \in T}
  <2>1. 0 \in S
    <3>1. mtc[complete] = following
      BY <1>1, <1>5 DEF BackCount
    <3>2. complete - 0 = complete
      BY <1>1
    <3> QED
      BY <3>1, <3>2
  <2>2. \A j \in Nat : j \in S => j + 1 \in S
    <3> SUFFICES ASSUME NEW j \in Nat, j \in S, j + 1 < complete PROVE mtc[complete - (j + 1)] \in T
      OBVIOUS
    <3> DEFINE n == complete - (j + 1)
    <3>1. n \in 1 .. complete /\ n # complete /\ n + 1 = complete - j
      BY <1>1
    <3>2. mtc[n + 1] \in T
      BY <1>1, <3>1
    <3> HIDE DEF n
    <3>3. mtc[n] = BackCount(s, complete, following, mtc, n) /\ s[n] \in Packets
      BY <1>1, <1>5, <3>1
    <3>4. CASE Has(s, n, "TMA")
      <4> DEFINE m == s[n].mtc
      <4>1. m \in 0 .. Rollover - 1
        BY <3>3 DEF Packets
      <4>2. mtc[n] = Repaired(m, (mtc[n + 1] - s[n].mtc_count) % Rollover)
        BY <3>1, <3>3, <3>4 DEF BackCount
      <4> HIDE DEF m
      <4>3. \A c : Repaired(m, c) \in 0 .. Rollover - 1
        BY <4>1, OrHighestType
      <4> QED
        BY <4>2, <4>3 DEF n
    <3>5. CASE ~Has(s, n, "TMA")
      BY <3>1, <3>2, <3>3, <3>5 DEF BackCount, n
    <3> QED
      BY <3>4, <3>5
  <2> HIDE DEF S
  <2>3. Nat \subseteq S
    BY <2>1, <2>2, SetInduction
  <2> SUFFICES ASSUME NEW n \in 1 .. complete PROVE mtc[n] \in T
    OBVIOUS
  <2> DEFINE j == complete - n
  <2>4. j \in Nat /\ j < complete /\ complete - j = n
    BY <1>1
  <2>5. j \in S
    BY <2>3, <2>4
  <2> QED
    BY <2>4, <2>5 DEF S
<1>7. IsBackward(RepairedBackward(s, complete, following), s, complete, following, mtc)
  <2>1. \A n \in 1 .. complete : mtc[n] = BackCount(s, complete, following, mtc, n) /\ mtc[n] \in 0 .. Rollover - 1
    BY <1>5, <1>6
  <2> QED
    BY <1>2, <2>1 DEF IsBackward
<1> QED
  BY <1>7

\* Nothing but the counts of TMAs is repaired.
Repairs(u, s) ==
  /\ Retimed(u, s)
  /\ \A n \in DOMAIN s : s[n].type # "TMA" => u[n] = s[n]
  /\ \A n \in Tmas(s) :
       /\ u[n].tsc = s[n].tsc /\ u[n].tsc_in_next_mtc = s[n].tsc_in_next_mtc
       /\ u[n].mtc_count = s[n].mtc_count /\ u[n].known_rollover_points = s[n].known_rollover_points
       /\ u[n].mtc \in {s[n].mtc, OrHighest(s[n].mtc)}
       /\ u[n].pass = 1 => s[n].pass = 1

\* What is repaired stays counted, and nothing gets a time.
LEMMA RepairsKeep ==
  ASSUME NEW s, NEW u, Repairs(u, s), Counted(s), Untimed(s)
  PROVE  Counted(u) /\ Untimed(u)
<1>1. IsList(u) /\ Retimed(u, s) /\ DOMAIN u = DOMAIN s /\ Tmas(u) = Tmas(s)
  BY RetimedIsList, RetimedSame DEF Repairs, Counted, Retimed
<1>2. ASSUME NEW n \in Tmas(u) PROVE IsTma(u, n)
  <2>1. n \in Tmas(s) /\ n \in DOMAIN s /\ IsTma(s, n) /\ u[n].at = s[n].at
    BY <1>1 DEF Counted, Tmas, Retimed
  <2>2. \A m \in DOMAIN s : (IsNext(u, n, m) <=> IsNext(s, n, m)) /\ u[m].at = s[m].at
    BY <1>1, <2>1, RetimedSame DEF Retimed
  <2>3. u[n].mtc \in {CutMtc(u[n].at), OrHighest(CutMtc(u[n].at))}
    <3>1. s[n].mtc \in {CutMtc(s[n].at), OrHighest(CutMtc(s[n].at))}
      BY <2>1 DEF IsTma
    <3> DEFINE c == CutMtc(s[n].at)
    <3>2. c \in 0 .. Rollover - 1
      <4>1. s[n].at \in Nat
        BY <2>1, ListIndices DEF Counted, IsList, Packets
      <4> QED
        BY <4>1, CutMtcType
    <3>3. s[n].mtc \in {c, OrHighest(c)} /\ u[n].mtc \in {s[n].mtc, OrHighest(s[n].mtc)}
      BY <2>1, <3>1 DEF Repairs
    <3> HIDE DEF c
    <3>4. OrHighest(OrHighest(c)) = OrHighest(c)
      BY <3>2, OrHighestType
    <3>5. u[n].mtc \in {c, OrHighest(c)}
      BY <3>3, <3>4
    <3> QED
      BY <2>1, <3>5 DEF c
  <2>4. u[n].pass = 1 => \E m \in DOMAIN u : IsNext(u, n, m)
    BY <1>1, <2>1, <2>2 DEF IsTma, Repairs
  <2>5. \A m \in DOMAIN u : IsNext(u, n, m) => u[n].mtc_count = (u[m].at - u[n].at) \div PerMtc
    BY <1>1, <2>1, <2>2 DEF IsTma, Repairs
  <2>6. u[n].tsc = u[n].at /\ u[n].tsc_in_next_mtc = NextMtcFrom(u[n].at)
    BY <2>1 DEF IsTma, Repairs
  <2> QED
    BY <2>3, <2>4, <2>5, <2>6 DEF IsTma
<1>3. Untimed(u)
  <2> SUFFICES ASSUME NEW n \in DOMAIN u
               PROVE  (u[n].type = "MTC" => u[n].pass = 0) /\ u[n].known_rollover_points = FALSE
    BY DEF Untimed, Has
  <2>1. n \in DOMAIN s /\ u[n].type = s[n].type
    BY <1>1 DEF Retimed
  <2>2. CASE s[n].type = "TMA"
    <3>1. n \in Tmas(s)
      BY <2>1, <2>2 DEF Tmas, Has
    <3>2. u[n].known_rollover_points = s[n].known_rollover_points
      BY <3>1 DEF Repairs
    <3> QED
      BY <2>1, <2>2, <3>2 DEF Untimed
  <2>3. CASE s[n].type # "TMA"
    BY <2>1, <2>3 DEF Repairs, Untimed, Has
  <2> QED
    BY <2>2, <2>3
<1> QED
  BY <1>1, <1>2, <1>3 DEF Counted

\* A TMA with another count
IsRecounted(p, q, mtc) ==
  /\ p \in Packets /\ p.type = q.type /\ p.at = q.at /\ p.tsc = q.tsc
  /\ p.tsc_in_next_mtc = q.tsc_in_next_mtc /\ p.mtc_count = q.mtc_count
  /\ p.known_rollover_points = q.known_rollover_points
  /\ p.mtc = mtc /\ p.pass = 2

\* The other fields of a TMA stay.
LEMMA Recounted ==
  ASSUME NEW q \in Packets, NEW mtc \in 0 .. Rollover - 1, NEW p, p = [q EXCEPT !.mtc = mtc, !.pass = 2]
  PROVE  IsRecounted(p, q, mtc)
<1>1. /\ p.type = q.type /\ p.at = q.at /\ p.tsc = q.tsc
      /\ p.tsc_in_next_mtc = q.tsc_in_next_mtc /\ p.mtc_count = q.mtc_count
      /\ p.known_rollover_points = q.known_rollover_points
      /\ p.mtc = mtc /\ p.pass = 2
  BY DEF Packets
<1>2. p \in Packets
  <2> DEFINE r == [q EXCEPT !.mtc = mtc]
  <2>1. r \in Packets
    BY DEF Packets
  <2>2. p = [r EXCEPT !.pass = 2]
    BY DEF Packets
  <2> HIDE DEF r
  <2> QED
    BY <2>1, <2>2 DEF Packets
<1> QED
  BY <1>1, <1>2 DEF IsRecounted

\* u is made by an expression over its domain.
IsFunction(u) == u = [n \in DOMAIN u |-> u[n]]

\* A function of the numbers from 1 is a list.
LEMMA IsPacketList ==
  ASSUME NEW u, NEW k \in Nat, IsFunction(u), DOMAIN u = 1 .. k, \A n \in 1 .. k : u[n] \in Packets
  PROVE  u \in Seq(Packets)
<1>1. u \in [1 .. k -> Packets]
  BY DEF IsFunction
<1> QED
  BY <1>1

\* A list of which some TMAs are repaired
Rewritten(u, s, R, mtc) ==
  /\ DOMAIN u = DOMAIN s /\ IsFunction(u) /\ R \subseteq Tmas(s)
  /\ \A n \in R : /\ mtc[n] \in 0 .. Rollover - 1 /\ mtc[n] \in {s[n].mtc, OrHighest(s[n].mtc)}
                   /\ u[n] = [s[n] EXCEPT !.mtc = mtc[n], !.pass = 2]
  /\ \A n \in DOMAIN s : ~(n \in R) => u[n] = s[n]

\* Rewriting counts of TMAs is repairing them.
LEMMA SomeRepaired ==
  ASSUME NEW s \in Seq(Packets), NEW u, NEW R, NEW mtc, Rewritten(u, s, R, mtc)
  PROVE  /\ Repairs(u, s) /\ u \in Seq(Packets)
         /\ \A n \in R : u[n].mtc = mtc[n] /\ u[n].pass = 2 /\ u[n].at = s[n].at
<1>1. DOMAIN s = 1 .. Len(s) /\ Len(s) \in Nat /\ (\A n \in DOMAIN s : s[n] \in Packets) /\ DOMAIN u = DOMAIN s
  BY ListIndices DEF Rewritten
<1>2. ASSUME NEW n \in R
      PROVE  /\ u[n] \in Packets /\ u[n].type = s[n].type /\ u[n].at = s[n].at /\ u[n].tsc = s[n].tsc
             /\ u[n].tsc_in_next_mtc = s[n].tsc_in_next_mtc /\ u[n].mtc_count = s[n].mtc_count
             /\ u[n].known_rollover_points = s[n].known_rollover_points
             /\ u[n].mtc = mtc[n] /\ u[n].pass = 2 /\ u[n].mtc \in {s[n].mtc, OrHighest(s[n].mtc)}
             /\ s[n].type = "TMA" /\ n \in DOMAIN s
  <2>1. n \in DOMAIN s /\ s[n].type = "TMA" /\ s[n] \in Packets
    BY <1>1 DEF Tmas, Has, Rewritten
  <2> DEFINE q == s[n]
             p == u[n]
             m == mtc[n]
  <2>2. q \in Packets /\ m \in 0 .. Rollover - 1 /\ p = [q EXCEPT !.mtc = m, !.pass = 2]
        /\ m \in {q.mtc, OrHighest(q.mtc)}
    BY <2>1 DEF Rewritten
  <2> HIDE DEF q, p, m
  <2>3. IsRecounted(p, q, m)
    BY <2>2, Recounted
  <2>4. p.mtc \in {q.mtc, OrHighest(q.mtc)}
    BY <2>2, <2>3 DEF IsRecounted
  <2> QED
    BY <2>1, <2>3, <2>4 DEF p, q, m, IsRecounted
<1>3. ASSUME NEW n \in DOMAIN s, ~(n \in R) PROVE u[n] = s[n]
  BY <1>3 DEF Rewritten
<1>4. u \in Seq(Packets)
  <2>1. \A n \in DOMAIN u : u[n] \in Packets
    BY <1>1, <1>2, <1>3
  <2>2. IsFunction(u)
    BY DEF Rewritten
  <2> QED
    BY <1>1, <2>1, <2>2, IsPacketList
<1>5. ASSUME NEW n \in DOMAIN s
      PROVE  /\ u[n].type = s[n].type /\ u[n].at = s[n].at
             /\ s[n].type = "MTC" => u[n].mtc = s[n].mtc
             /\ s[n].type # "TMA" => u[n] = s[n]
  BY <1>2, <1>3
<1>6. Retimed(u, s)
  BY <1>1, <1>4, <1>5 DEF Retimed
<1>7. ASSUME NEW n \in Tmas(s)
      PROVE  /\ u[n].tsc = s[n].tsc /\ u[n].tsc_in_next_mtc = s[n].tsc_in_next_mtc
             /\ u[n].mtc_count = s[n].mtc_count /\ u[n].known_rollover_points = s[n].known_rollover_points
             /\ u[n].mtc \in {s[n].mtc, OrHighest(s[n].mtc)}
             /\ u[n].pass = 1 => s[n].pass = 1
  <2>1. CASE n \in R
    <3>1. u[n].pass # 1
      BY <1>2, <2>1
    <3> QED
      BY <1>2, <2>1, <3>1
  <2>2. CASE ~(n \in R)
    <3>1. u[n] = s[n]
      BY <1>3, <2>2 DEF Tmas
    <3> QED
      BY <3>1
  <2> QED
    BY <2>1, <2>2
<1>8. Repairs(u, s)
  BY <1>5, <1>6, <1>7 DEF Repairs
<1> QED
  BY <1>2, <1>4, <1>8

\* The way back rewrites TMAs before the complete block only.
LEMMA BackwardRewrites ==
  ASSUME NEW s \in Seq(Packets), NEW complete \in DOMAIN s, NEW following, NEW u, NEW mtc,
         IsBackward(u, s, complete, following, mtc)
  PROVE  Rewritten(u, s, {n \in Tmas(s) : n < complete}, mtc)
<1> DEFINE R == {n \in Tmas(s) : n < complete}
<1>1. complete \in Nat /\ \A n \in DOMAIN s : n \in Nat /\ n # 0 /\ s[n] \in Packets
  BY ListIndices
<1>2. DOMAIN u = DOMAIN s /\ IsFunction(u)
  BY DEF IsBackward, IsFunction
<1>3. ASSUME NEW n \in R
      PROVE  /\ mtc[n] \in 0 .. Rollover - 1 /\ mtc[n] \in {s[n].mtc, OrHighest(s[n].mtc)}
             /\ u[n] = [s[n] EXCEPT !.mtc = mtc[n], !.pass = 2]
  <2>1. n \in DOMAIN s /\ Has(s, n, "TMA") /\ n < complete
    BY DEF Tmas
  <2>2. n \in 1 .. complete /\ n # complete
    BY <1>1, <2>1
  <2>3. mtc[n] = BackCount(s, complete, following, mtc, n) /\ mtc[n] \in 0 .. Rollover - 1
    BY <2>2 DEF IsBackward
  <2>4. mtc[n] = Repaired(s[n].mtc, (mtc[n + 1] - s[n].mtc_count) % Rollover)
    BY <2>1, <2>2, <2>3 DEF BackCount
  <2>5. mtc[n] \in {s[n].mtc, OrHighest(s[n].mtc)}
    <3> DEFINE m == s[n].mtc
    <3>1. m \in 0 .. Rollover - 1
      BY <1>1, <2>1 DEF Packets
    <3> HIDE DEF m
    <3>2. \A c : Repaired(m, c) \in {m, OrHighest(m)}
      BY <3>1, OrHighestType
    <3> QED
      BY <2>4, <3>2 DEF m
  <2>6. u[n] = [s[n] EXCEPT !.mtc = mtc[n], !.pass = 2]
    BY <2>1 DEF IsBackward
  <2> QED
    BY <2>3, <2>5, <2>6
<1>4. ASSUME NEW n \in DOMAIN s, ~(n \in R) PROVE u[n] = s[n]
  BY <1>4 DEF IsBackward, Tmas
<1>5. R \subseteq Tmas(s)
  OBVIOUS
<1> HIDE DEF R
<1>6. Rewritten(u, s, R, mtc)
  BY <1>2, <1>3, <1>4, <1>5 DEF Rewritten
<1> QED
  BY <1>6 DEF R

\* From the complete block's TMA back, the count of each TMA is the right one.
IsCountAfter(mtc, s, n) == mtc = (Count(s[n]) + 1) % Rollover
\* So are those of all TMAs before the complete block.
AreTrue(mtc, s, complete) == \A n \in Tmas(s) : n < complete => mtc[n] = MtcAt(s[n].at)

\* And the counts that it writes are right, from the complete block on back.
LEMMA BackwardTrue ==
  ASSUME NEW s, Counted(s), NEW complete \in Tmas(s),
         \A n \in Tmas(s) : s[n].mtc = CutMtc(s[n].at),
         NEW following, IsCountAfter(following, s, complete),
         NEW u, NEW mtc, IsBackward(u, s, complete, following, mtc)
  PROVE  AreTrue(mtc, s, complete)
<1>1. /\ s \in Seq(Packets) /\ complete \in DOMAIN s /\ complete \in Nat \ {0}
      /\ \A n \in DOMAIN s : n \in Nat /\ n # 0 /\ s[n] \in Packets /\ s[n].at \in Nat
      /\ DOMAIN s = 1 .. Len(s) /\ Len(s) \in Nat
  BY ListIndices DEF Counted, IsList, Tmas, Packets
\* The packet at n or the next TMA after it
<1> DEFINE IsFrom(n, m) == /\ m \in Tmas(s) /\ n <= m /\ m <= complete
                          /\ \A i \in Tmas(s) : ~(n <= i /\ i < m)
           P(n) == \E m \in Tmas(s) : IsFrom(n, m) /\ \E e \in {0, 1} :
                     (m < complete => e = 0) /\ mtc[n] = (Count(s[m]) + e) % Rollover
           S == {j \in Nat : j < complete => P(complete - j)}
<1>2. 0 \in S
  <2>1. mtc[complete] = (Count(s[complete]) + 1) % Rollover
    <3>1. complete \in 1 .. complete
      BY <1>1
    <3>2. mtc[complete] = BackCount(s, complete, following, mtc, complete)
      BY <3>1 DEF IsBackward
    <3> QED
      BY <3>2 DEF BackCount, IsCountAfter
  <2>2. IsFrom(complete, complete) /\ complete - 0 = complete /\ ~(complete < complete)
    BY <1>1 DEF Tmas
  <2>3. P(complete)
    BY <2>1, <2>2
  <2> QED
    BY <2>2, <2>3
<1>3. \A j \in Nat : j \in S => j + 1 \in S
  <2> SUFFICES ASSUME NEW j \in Nat, j \in S, j + 1 < complete PROVE P(complete - (j + 1))
    OBVIOUS
  <2> DEFINE n == complete - (j + 1)
  <2>1. n \in 1 .. complete /\ n # complete /\ n + 1 = complete - j /\ n < complete /\ j < complete /\ n \in DOMAIN s /\ n \in Nat
    BY <1>1
  <2>2. P(n + 1)
    BY <2>1
  <2> HIDE DEF n
  <2>3. PICK m \in Tmas(s) : IsFrom(n + 1, m) /\ \E e \in {0, 1} :
                     (m < complete => e = 0) /\ mtc[n + 1] = (Count(s[m]) + e) % Rollover
    BY <2>2
  <2>4. PICK e \in {0, 1} : (m < complete => e = 0) /\ mtc[n + 1] = (Count(s[m]) + e) % Rollover
    BY <2>3
  <2>5. m \in DOMAIN s /\ m \in Nat /\ n < m /\ Has(s, m, "TMA")
    BY <1>1, <2>1, <2>3 DEF Tmas
  <2>6. mtc[n] = BackCount(s, complete, following, mtc, n)
    BY <2>1 DEF IsBackward
  <2>7. CASE Has(s, n, "TMA")
    <3>1. n \in Tmas(s)
      BY <2>1, <2>7 DEF Tmas
    <3>2. IsNext(s, n, m)
      <4>1. ASSUME NEW i \in DOMAIN s, n < i, i < m PROVE ~Has(s, i, "TMA")
        <5>1. i \in Nat /\ n + 1 <= i
          BY <1>1, <2>1, <4>1
        <5> QED
          BY <2>3, <4>1, <5>1 DEF Tmas
      <4> QED
        BY <2>5, <3>1, <4>1 DEF IsNext, InBlock
    <3>3. s[n].mtc_count = (s[m].at - s[n].at) \div PerMtc /\ s[n].mtc = CutMtc(s[n].at)
      BY <2>5, <3>1, <3>2 DEF Counted, IsTma
    <3>4. mtc[n] = Repaired(CutMtc(s[n].at), (mtc[n + 1] - s[n].mtc_count) % Rollover)
      BY <2>1, <2>6, <2>7, <3>3 DEF BackCount
    <3>5. s[n].at <= s[m].at
      BY <2>1, <2>5 DEF Counted, IsList, Ordered
    <3> DEFINE a == s[n].at
               b == s[m].at
               k == mtc[n + 1]
    <3>6. a \in Nat /\ b \in Nat /\ a <= b /\ k = ((b \div PerMtc) + e) % Rollover
      BY <1>1, <2>1, <2>4, <2>5, <3>5 DEF Count
    <3>7. mtc[n] = Repaired(CutMtc(a), (k - ((b - a) \div PerMtc)) % Rollover)
      BY <3>3, <3>4
    <3> HIDE DEF a, b, k
    <3>8. mtc[n] = MtcAt(a)
      BY <3>6, <3>7, RepairedFromNext
    <3>9. mtc[n] = (Count(s[n]) + 0) % Rollover
      <4>1. Count(s[n]) \in Nat
        BY <1>1, <2>1, Parts DEF Count
      <4>2. Count(s[n]) + 0 = Count(s[n])
        BY <4>1
      <4> QED
        BY <3>8, <4>2 DEF a, MtcAt, Count
    <3>10. IsFrom(n, n)
      BY <1>1, <2>1, <3>1 DEF Tmas
    <3> QED
      BY <3>1, <3>9, <3>10 DEF n
  <2>8. CASE ~Has(s, n, "TMA")
    <3>1. mtc[n] = mtc[n + 1]
      BY <2>1, <2>6, <2>8 DEF BackCount
    <3>2. \A i \in Tmas(s) : ~(n <= i /\ i < m)
      <4> SUFFICES ASSUME NEW i \in Tmas(s), n <= i, i < m PROVE FALSE
        OBVIOUS
      <4>1. i # n /\ i \in Nat
        BY <1>1, <2>8 DEF Tmas
      <4>2. n + 1 <= i
        BY <2>1, <4>1
      <4> QED
        BY <2>3, <4>2
    <3>3. IsFrom(n, m)
      BY <2>1, <2>3, <2>5, <3>2
    <3>4. P(n)
      BY <2>3, <3>1, <3>3
    <3> QED
      BY <3>4 DEF n
  <2> QED
    BY <2>7, <2>8
<1> HIDE DEF S
<1>4. Nat \subseteq S
  BY <1>2, <1>3, SetInduction
<1> SUFFICES ASSUME NEW n \in Tmas(s), n < complete PROVE mtc[n] = MtcAt(s[n].at)
  BY DEF AreTrue
<1>5. n \in DOMAIN s /\ n \in Nat /\ n # 0 /\ s[n].at \in Nat
  BY <1>1 DEF Tmas
<1>6. P(n)
  <2> DEFINE j == complete - n
  <2>1. j \in Nat /\ j < complete /\ complete - j = n
    BY <1>1, <1>5
  <2>2. j \in S
    BY <1>4, <2>1
  <2> HIDE DEF P
  <2> QED
    BY <2>1, <2>2 DEF S
<1>7. PICK m \in Tmas(s), e \in {0, 1} : IsFrom(n, m) /\ (m < complete => e = 0) /\ mtc[n] = (Count(s[m]) + e) % Rollover
  BY <1>6
<1>8. m = n
  <2>1. m \in Nat
    BY <1>1 DEF Tmas
  <2>2. ~(n < m)
    BY <1>5, <1>7
  <2> QED
    BY <1>5, <1>7, <2>1, <2>2
<1>9. mtc[n] = (Count(s[n]) + 0) % Rollover
  BY <1>7, <1>8
<1>10. Count(s[n]) + 0 = Count(s[n])
  BY <1>5, Parts DEF Count
<1> QED
  BY <1>9, <1>10 DEF MtcAt, Count

\* The way forward rewrites TMAs that have not been looked at only.
LEMMA ForwardRewrites ==
  ASSUME NEW s \in Seq(Packets), NEW complete \in Nat, complete + 1 \in DOMAIN s
  PROVE  \E mtc : Rewritten(RepairedForward(s, complete), s,
                            {n \in Tmas(s) : n > complete + 1 /\ s[n].pass = 0}, mtc)
<1> DEFINE T == [mtc : 0 .. Rollover - 1, mtc_count : Int]
           first == complete + 1
           N == Len(s) - first
           start == [mtc |-> s[first].mtc, mtc_count |-> s[first].mtc_count]
           After1(n, v) == IF ~Has(s, n, "TMA") THEN v
                           ELSE [mtc |-> IF s[n].pass # 0 THEN s[n].mtc
                                         ELSE Repaired(s[n].mtc, (v.mtc + v.mtc_count) % Rollover),
                                 mtc_count |-> s[n].mtc_count]
           Gets(f) == f = [n \in complete + 1 .. Len(s) |->
                             IF n = complete + 1 THEN [mtc |-> s[n].mtc, mtc_count |-> s[n].mtc_count]
                             ELSE IF ~Has(s, n, "TMA") THEN f[n - 1]
                             ELSE [mtc |-> IF s[n].pass # 0 THEN s[n].mtc
                                           ELSE Repaired(s[n].mtc, (f[n - 1].mtc + f[n - 1].mtc_count) % Rollover),
                                   mtc_count |-> s[n].mtc_count]]
           last == CHOOSE f : Gets(f)
           R == {n \in Tmas(s) : n > complete + 1 /\ s[n].pass = 0}
           u == RepairedForward(s, complete)
<1>1. /\ DOMAIN s = 1 .. Len(s) /\ Len(s) \in Nat /\ first \in Nat /\ first \in DOMAIN s /\ N \in Nat
      /\ \A n \in DOMAIN s : n \in Nat /\ s[n] \in Packets
  BY ListIndices
<1>2. u = [n \in DOMAIN s |->
             IF n > complete + 1 /\ Has(s, n, "TMA") /\ s[n].pass = 0
             THEN [s[n] EXCEPT !.mtc = last[n].mtc, !.pass = 2] ELSE s[n]]
  BY DEF RepairedForward
<1>3. ASSUME NEW n \in DOMAIN s, NEW v \in T PROVE After1(n, v) \in T
  <2>1. s[n].mtc \in 0 .. Rollover - 1 /\ s[n].mtc_count \in Int
    BY <1>1 DEF Packets
  <2> DEFINE m == s[n].mtc
             c == (v.mtc + v.mtc_count) % Rollover
  <2>2. m \in 0 .. Rollover - 1
    BY <2>1
  <2> HIDE DEF m
  <2>3. Repaired(m, c) \in 0 .. Rollover - 1
    <3> HIDE DEF c
    <3>1. \A d : Repaired(m, d) \in 0 .. Rollover - 1
      BY <2>2, OrHighestType
    <3> QED
      BY <3>1
  <2>4. Repaired(s[n].mtc, c) \in 0 .. Rollover - 1
    BY <2>3 DEF m
  <2> HIDE DEF c
  <2>5. After1(n, v) = IF ~Has(s, n, "TMA") THEN v
                       ELSE [mtc |-> IF s[n].pass # 0 THEN s[n].mtc ELSE Repaired(s[n].mtc, c),
                             mtc_count |-> s[n].mtc_count]
    BY DEF c
  <2> HIDE DEF After1
  <2> QED
    BY <2>1, <2>4, <2>5
<1>4. start \in T
  BY <1>1 DEF Packets
<1>5. \E f : Gets(f)
  <2> DEFINE turn == [i \in 1 .. N |-> [v \in T |-> After1(first + i, v)]]
  <2>1. turn \in [1 .. N -> [T -> T]]
    <3>1. \A i \in 1 .. N : first + i \in DOMAIN s
      BY <1>1
    <3> HIDE DEF T, After1, N, first
    <3> QED
      BY <1>3, <3>1
  <2> HIDE DEF T, turn, start, After1
  <2>2. PICK g \in [0 .. N -> T] : Rounds(g, N, start, turn)
    BY <1>1, <1>4, <2>1, LoopExists
  <2> DEFINE f == [n \in first .. Len(s) |-> g[n - first]]
  <2>3. ASSUME NEW n \in first .. Len(s)
        PROVE  f[n] = IF n = first THEN start ELSE After1(n, f[n - 1])
    <3>1. CASE n = first
      <4>1. n - first = 0
        BY <1>1, <3>1
      <4> QED
        BY <2>2, <3>1, <4>1 DEF Rounds
    <3>2. CASE n # first
      <4> DEFINE i == n - first
      <4>1. i \in 1 .. N /\ i - 1 = (n - 1) - first /\ n - 1 \in first .. Len(s) /\ first + i = n /\ i - 1 \in 0 .. N
        BY <1>1, <3>2
      <4>2. f[n] = g[i] /\ f[n - 1] = g[i - 1]
        BY <4>1
      <4> HIDE DEF i, f
      <4>3. g[i] = turn[i][g[i - 1]] /\ g[i - 1] \in T
        BY <2>2, <4>1 DEF Rounds
      <4>4. g[i] = After1(n, g[i - 1])
        BY <4>1, <4>3 DEF turn
      <4> QED
        BY <3>2, <4>2, <4>4
    <3> QED
      BY <3>1, <3>2
  <2>4. f = [n \in first .. Len(s) |-> f[n]]
    OBVIOUS
  <2> HIDE DEF f
  <2>5. f = [n \in first .. Len(s) |-> IF n = first THEN start ELSE After1(n, f[n - 1])]
    BY <2>3, <2>4, Zenon
  <2>6. \A n \in first .. Len(s) :
          (IF n = first THEN start ELSE After1(n, f[n - 1])) =
          (IF n = complete + 1 THEN [mtc |-> s[n].mtc, mtc_count |-> s[n].mtc_count]
                             ELSE IF ~Has(s, n, "TMA") THEN f[n - 1]
                             ELSE [mtc |-> IF s[n].pass # 0 THEN s[n].mtc
                                           ELSE Repaired(s[n].mtc, (f[n - 1].mtc + f[n - 1].mtc_count) % Rollover),
                                   mtc_count |-> s[n].mtc_count])
    BY Zenon DEF start, After1, first
  <2>7. Gets(f)
    BY <2>5, <2>6, Zenon DEF first
  <2> QED
    BY <2>7
<1>6. Gets(last)
  BY <1>5
<1> HIDE DEF last
<1>7. ASSUME NEW n \in R
      PROVE  /\ last[n].mtc \in 0 .. Rollover - 1 /\ last[n].mtc \in {s[n].mtc, OrHighest(s[n].mtc)}
             /\ u[n] = [s[n] EXCEPT !.mtc = last[n].mtc, !.pass = 2]
  <2>1. n \in DOMAIN s /\ Has(s, n, "TMA") /\ n > complete + 1 /\ s[n].pass = 0 /\ n \in Nat
    BY <1>1 DEF Tmas
  <2>2. n \in complete + 1 .. Len(s) /\ n # complete + 1
    BY <1>1, <2>1
  <2>3. last[n] = [mtc |-> IF s[n].pass # 0 THEN s[n].mtc
                           ELSE Repaired(s[n].mtc, (last[n - 1].mtc + last[n - 1].mtc_count) % Rollover),
                   mtc_count |-> s[n].mtc_count]
    BY <1>6, <2>1, <2>2, Zenon
  <2>4. last[n].mtc = Repaired(s[n].mtc, (last[n - 1].mtc + last[n - 1].mtc_count) % Rollover)
    BY <2>1, <2>3
  <2>5. last[n].mtc \in 0 .. Rollover - 1 /\ last[n].mtc \in {s[n].mtc, OrHighest(s[n].mtc)}
    <3> DEFINE m == s[n].mtc
    <3>1. m \in 0 .. Rollover - 1
      BY <1>1, <2>1 DEF Packets
    <3> HIDE DEF m
    <3>2. \A c : Repaired(m, c) \in {m, OrHighest(m)} /\ Repaired(m, c) \in 0 .. Rollover - 1
      BY <3>1, OrHighestType
    <3> QED
      BY <2>4, <3>2 DEF m
  <2>6. u[n] = [s[n] EXCEPT !.mtc = last[n].mtc, !.pass = 2]
    BY <1>2, <2>1
  <2> QED
    BY <2>5, <2>6
<1>8. ASSUME NEW n \in DOMAIN s, ~(n \in R) PROVE u[n] = s[n]
  BY <1>2, <1>8 DEF Tmas
<1>9. R \subseteq Tmas(s) /\ DOMAIN u = DOMAIN s /\ IsFunction(u)
  BY <1>2 DEF IsFunction
<1> DEFINE mtc == [n \in R |-> last[n].mtc]
<1>10. \A n \in R : mtc[n] = last[n].mtc
  OBVIOUS
<1> HIDE DEF u, R, mtc
<1>11. Rewritten(u, s, R, mtc)
  <2>1. \A n \in R : /\ mtc[n] \in 0 .. Rollover - 1 /\ mtc[n] \in {s[n].mtc, OrHighest(s[n].mtc)}
                     /\ u[n] = [s[n] EXCEPT !.mtc = mtc[n], !.pass = 2]
    <3> SUFFICES ASSUME NEW n \in R
                 PROVE  /\ mtc[n] \in 0 .. Rollover - 1 /\ mtc[n] \in {s[n].mtc, OrHighest(s[n].mtc)}
                        /\ u[n] = [s[n] EXCEPT !.mtc = mtc[n], !.pass = 2]
      OBVIOUS
    <3>1. mtc[n] = last[n].mtc
      BY <1>10
    <3> QED
      BY <1>7, <3>1, Zenon
  <2>2. \A n \in DOMAIN s : ~(n \in R) => u[n] = s[n]
    BY <1>8
  <2> QED
    BY <1>9, <2>1, <2>2, Zenon DEF Rewritten
<1> QED
  BY <1>11 DEF u, R

\* Up to the first block that is known to be complete the counts are right.
RepairedTo(s) ==
  \A n, m \in DOMAIN s :
    LooksComplete(s, n, m) /\ (\A l \in Tmas(s) : l < n => s[l].pass # 1) =>
      \A l \in Tmas(s) : l <= n => IsTrue(s, l)

\* There is no complete block.
NoPass(s) == \A n \in Tmas(s) : s[n].pass # 1

\* Nothing is promised without a complete block.
LEMMA NoneRepaired ==
  ASSUME NEW s, NoPass(s)
  PROVE  RepairedTo(s)
<1> SUFFICES ASSUME NEW n \in DOMAIN s, NEW m \in DOMAIN s, LooksComplete(s, n, m) PROVE FALSE
  BY DEF RepairedTo
<1> QED
  BY DEF NoPass, LooksComplete, IsNext, InBlock

\* A repaired TMA is not one whose block is complete.
LEMMA RepairsNoPass ==
  ASSUME NEW s, NEW u, Repairs(u, s), NoPass(s)
  PROVE  NoPass(u)
<1>1. Tmas(u) = Tmas(s)
  BY RetimedSame DEF Repairs
<1> QED
  BY <1>1 DEF NoPass, Repairs

\* Back from the end of the list, for no block is complete
LEMMA BackwardFromEnd ==
  ASSUME NEW s, Counted(s), Untimed(s), NoPass(s), Len(s) # 0,
         NEW following \in 0 .. Rollover - 1,
         NEW t, t = RepairedBackward(s, Len(s), following)
  PROVE  /\ Counted(t) /\ Untimed(t) /\ NoPass(t) /\ t[Len(s)] = s[Len(s)] /\ DOMAIN t = DOMAIN s
         /\ Tmas(t) = Tmas(s)
<1>1. s \in Seq(Packets) /\ Len(s) \in DOMAIN s
  BY ListIndices DEF Counted, IsList
<1> DEFINE last == Len(s)
<1>2. PICK mtc : IsBackward(t, s, last, following, mtc)
  <2>1. last \in DOMAIN s
    BY <1>1
  <2> HIDE DEF last
  <2>2. \E mtc : IsBackward(RepairedBackward(s, last, following), s, last, following, mtc)
    BY <1>1, <2>1, BackwardIs
  <2> QED
    BY <2>2 DEF last
<1> DEFINE R == {n \in Tmas(s) : n < last}
<1>3. Rewritten(t, s, R, mtc)
  <2>1. last \in DOMAIN s
    BY <1>1
  <2> HIDE DEF last
  <2> QED
    BY <1>1, <1>2, <2>1, BackwardRewrites
<1>4. ~(last \in R)
  BY <1>1, ListIndices
<1> HIDE DEF R
<1>5. Repairs(t, s)
  BY <1>1, <1>3, SomeRepaired
<1>6. t[last] = s[last] /\ DOMAIN t = DOMAIN s
  BY <1>1, <1>3, <1>4 DEF Rewritten
<1>7. Tmas(t) = Tmas(s)
  BY <1>5, RetimedSame DEF Repairs
<1> QED
  BY <1>5, <1>6, <1>7, RepairsKeep, RepairsNoPass

\* The least of some naturals is one of them.
LEMMA LeastOf ==
  ASSUME NEW S, S \subseteq Nat, S # {}
  PROVE  Min(S) \in S /\ \A y \in S : Min(S) <= y
<1>1. \E x \in S : \A y \in S : x <= y
  BY LeastElement
<1>2. Min(S) = CHOOSE x \in S : \A y \in S : x =< y
  BY DEF Min
<1> QED
  BY <1>1, <1>2

\* With a complete block
LEMMA SecondWithComplete ==
  ASSUME NEW s, Counted(s), Unrepaired(s), Untimed(s),
         NEW n \in Tmas(s), s[n].pass = 1, \A l \in Tmas(s) : s[l].pass # 0 => n <= l,
         NEW u, u = RepairedForward(RepairedBackward(s, n, s[n + 1].mtc), n)
  PROVE  Counted(u) /\ Untimed(u) /\ RepairedTo(u)
<1>1. /\ s \in Seq(Packets) /\ n \in DOMAIN s /\ n \in Nat
      /\ DOMAIN s = 1 .. Len(s) /\ Len(s) \in Nat
      /\ \A i \in DOMAIN s : i \in Nat /\ s[i] \in Packets
  BY ListIndices DEF Counted, IsList, Tmas
<1>2. n + 1 \in DOMAIN s
  <2>1. PICK m \in DOMAIN s : IsNext(s, n, m)
    BY DEF Counted, IsTma
  <2>2. n < m /\ m \in Nat
    BY <1>1, <2>1 DEF IsNext, InBlock
  <2> QED
    BY <1>1, <2>2
<1> DEFINE following == s[n + 1].mtc
           t == RepairedBackward(s, n, following)
<1>3. following \in 0 .. Rollover - 1
  BY <1>1, <1>2 DEF Packets
<1>4. u = RepairedForward(t, n)
  OBVIOUS
<1> HIDE DEF following
<1>5. PICK mtc : IsBackward(t, s, n, following, mtc)
  BY <1>1, <1>3, BackwardIs
<1> HIDE DEF t
<1> DEFINE R == {i \in Tmas(s) : i < n}
<1>6. Rewritten(t, s, R, mtc)
  BY <1>1, <1>5, BackwardRewrites
<1>7. Repairs(t, s) /\ t \in Seq(Packets) /\ \A i \in R : t[i].mtc = mtc[i] /\ t[i].pass = 2 /\ t[i].at = s[i].at
  <2> HIDE DEF R
  <2> QED
    BY <1>1, <1>6, SomeRepaired
<1>8. Counted(t) /\ Untimed(t)
  BY <1>7, RepairsKeep
<1>9. Tmas(t) = Tmas(s) /\ DOMAIN t = DOMAIN s
  BY <1>7, RetimedSame DEF Repairs, Retimed
<1> DEFINE F == {i \in Tmas(t) : i > n + 1 /\ t[i].pass = 0}
<1>10. PICK forth : Rewritten(u, t, F, forth)
  BY <1>1, <1>2, <1>4, <1>7, <1>9, ForwardRewrites
<1>11. Repairs(u, t) /\ u \in Seq(Packets)
  <2> HIDE DEF F
  <2> QED
    BY <1>7, <1>10, SomeRepaired
<1>12. Counted(u) /\ Untimed(u)
  BY <1>8, <1>11, RepairsKeep
<1>13. Tmas(u) = Tmas(s) /\ DOMAIN u = DOMAIN s
  BY <1>9, <1>11, RetimedSame DEF Repairs, Retimed
<1>14. ASSUME NEW i \in DOMAIN s, i <= n PROVE u[i] = t[i]
  <2>1. ~(i \in F)
    BY <1>1, <1>14
  <2> QED
    BY <1>9, <1>10, <2>1 DEF Rewritten
<1>15. ASSUME NEW i \in DOMAIN s, n <= i PROVE t[i] = s[i]
  <2>1. ~(i \in R)
    BY <1>1, <1>15
  <2> QED
    BY <1>6, <2>1 DEF Rewritten
<1>16. Retimed(u, s)
  <2>1. Retimed(u, t) /\ Retimed(t, s)
    BY <1>7, <1>11 DEF Repairs
  <2> QED
    BY <2>1 DEF Retimed
<1>17. RepairedTo(u)
  <2> SUFFICES ASSUME NEW x \in DOMAIN u, NEW m \in DOMAIN u, LooksComplete(u, x, m),
                      \A l \in Tmas(u) : l < x => u[l].pass # 1,
                      NEW l \in Tmas(u), l <= x
               PROVE  IsTrue(u, l)
    BY DEF RepairedTo
  <2>1. IsNext(u, x, m) /\ u[x].pass = 1 /\ x \in Tmas(u)
    BY DEF LooksComplete, IsNext, InBlock
  <2>2. s[x].pass = 1
    <3>1. t[x].pass = 1
      BY <1>9, <1>11, <1>13, <2>1 DEF Repairs
    <3> QED
      BY <1>7, <1>13, <2>1, <3>1 DEF Repairs
  <2>3. n <= x
    BY <1>13, <2>1, <2>2
  <2>4. u[n] = s[n]
    BY <1>1, <1>14, <1>15
  <2>5. x = n
    <3>1. ~(n < x)
      BY <1>13, <2>4
    <3>2. x \in Nat
      BY <1>1, <1>13
    <3> QED
      BY <1>1, <2>3, <3>1, <3>2
  <2>6. LooksComplete(s, n, m)
    <3>1. IsNext(s, n, m) /\ Count(u[m]) = Count(s[m]) /\ Count(u[n]) = Count(s[n])
      BY <1>1, <1>13, <1>16, <2>1, <2>5, RetimedSame
    <3>2. ~Has(s, n + 1, "OVF")
      <4>1. u[n + 1].type = s[n + 1].type
        BY <1>2, <1>16 DEF Retimed
      <4> QED
        BY <2>5, <4>1 DEF LooksComplete, Has
    <3> QED
      BY <2>5, <3>1, <3>2 DEF LooksComplete
  <2>7. IsTrue(s, n) /\ Has(s, n + 1, "MTC") /\ Count(s[n + 1]) = Count(s[n]) + 1
    BY <1>1, <1>13, <2>6 DEF Unrepaired
  <2>8. IsCountAfter(following, s, n)
    <3>1. n + 1 \in Mtcs(s)
      BY <1>2, <2>7 DEF Mtcs
    <3>2. s[n + 1].mtc = MtcAt(s[n + 1].at)
      BY <3>1 DEF Counted, IsList, MtcsRight
    <3> QED
      BY <2>7, <3>2 DEF following, MtcAt, Count, IsCountAfter
  <2>9. \A i \in Tmas(s) : i < n => mtc[i] = MtcAt(s[i].at)
    <3>1. \A i \in Tmas(s) : s[i].mtc = CutMtc(s[i].at)
      BY DEF Unrepaired
    <3>2. AreTrue(mtc, s, n)
      BY <1>5, <2>8, <3>1, BackwardTrue
    <3> QED
      BY <3>2 DEF AreTrue
  <2>10. l \in Tmas(s) /\ l \in DOMAIN s /\ l \in Nat /\ l <= n
    BY <1>1, <1>13, <2>5 DEF Tmas
  <2>11. CASE l = n
    BY <2>4, <2>7, <2>11 DEF IsTrue
  <2>12. CASE l < n
    <3>1. l \in R /\ u[l] = t[l]
      BY <1>14, <2>10, <2>12
    <3>2. t[l].mtc = mtc[l] /\ t[l].at = s[l].at
      BY <1>7, <3>1
    <3> QED
      BY <2>9, <2>10, <2>12, <3>1, <3>2 DEF IsTrue
  <2> QED
    BY <1>1, <2>10, <2>11, <2>12
<1> QED
  BY <1>12, <1>17

\* Back from the end, and the last packet
LEMMA WithoutCompleteRight ==
  ASSUME NEW s, Counted(s), Untimed(s), NoPass(s), s # <<>>, NEW u \in WithoutComplete(s)
  PROVE  Counted(u) /\ Untimed(u) /\ RepairedTo(u)
<1>1. /\ s \in Seq(Packets) /\ Len(s) \in Nat /\ DOMAIN s = 1 .. Len(s) /\ Len(s) # 0
      /\ \A i \in DOMAIN s : s[i] \in Packets
  BY ListIndices DEF Counted, IsList
<1> DEFINE last == Len(s)
           back == IF Cardinality(Tmas(s)) > 1
                   THEN {RepairedBackward(s, last, mtc) : mtc \in 0 .. Rollover - 1} ELSE {s}
           WithLast(t, mtc) == [t EXCEPT ![last].mtc = mtc, ![last].pass = 2]
<1>3. ASSUME NEW t \in back
      PROVE  Counted(t) /\ Untimed(t) /\ NoPass(t) /\ t[last] = s[last] /\ DOMAIN t = DOMAIN s /\ Tmas(t) = Tmas(s)
  <2>1. CASE t = s
    BY <2>1
  <2>2. CASE t # s
    <3>1. PICK mtc \in 0 .. Rollover - 1 : t = RepairedBackward(s, Len(s), mtc)
      BY <2>2
    <3> QED
      BY <1>1, <3>1, BackwardFromEnd
  <2> QED
    BY <2>1, <2>2
<1>4. CASE ~Has(s, last, "TMA")
  <2>1. u \in back
    BY <1>4 DEF WithoutComplete
  <2> QED
    BY <1>3, <2>1, NoneRepaired
<1>5. CASE Has(s, last, "TMA")
  <2>0. WithoutComplete(s) = {WithLast(t, s[last].mtc) : t \in back}
                             \cup {WithLast(t, OrHighest(s[last].mtc)) : t \in back}
    BY <1>5 DEF WithoutComplete
  <2>1. PICK t \in back, mtc \in {s[last].mtc, OrHighest(s[last].mtc)} : u = WithLast(t, mtc)
    <3> HIDE DEF back, WithLast
    <3> QED
      BY <2>0
  <2>2. Counted(t) /\ Untimed(t) /\ NoPass(t) /\ t[last] = s[last] /\ DOMAIN t = DOMAIN s /\ Tmas(t) = Tmas(s)
    BY <1>3
  <2> HIDE DEF back
  <2>3. last \in DOMAIN s /\ last \in Tmas(t) /\ t \in Seq(Packets)
    BY <1>1, <1>5, <2>2 DEF Tmas, Counted, IsList
  <2>4. u[last] = [t[last] EXCEPT !.mtc = mtc, !.pass = 2] /\ DOMAIN u = DOMAIN t /\ IsFunction(u)
        /\ \A i \in DOMAIN t : i # last => u[i] = t[i]
    BY <2>1, <2>2, <2>3 DEF IsFunction
  <2>5. mtc \in 0 .. Rollover - 1 /\ mtc \in {t[last].mtc, OrHighest(t[last].mtc)}
    <3> DEFINE m == s[last].mtc
    <3>1. m \in 0 .. Rollover - 1
      BY <1>1, <2>3 DEF Packets
    <3> HIDE DEF m
    <3>2. OrHighest(m) \in 0 .. Rollover - 1
      BY <3>1, OrHighestType
    <3> QED
      BY <2>1, <2>2, <3>1, <3>2 DEF m
  <2> DEFINE R == {last}
             counts == [i \in R |-> mtc]
  <2>6. Rewritten(u, t, R, counts)
    BY <2>3, <2>4, <2>5 DEF Rewritten
  <2>7. Repairs(u, t)
    <3> HIDE DEF R, counts
    <3> QED
      BY <2>3, <2>6, SomeRepaired
  <2> QED
    BY <2>2, <2>7, RepairsKeep, RepairsNoPass, NoneRepaired
<1> QED
  BY <1>4, <1>5

\* The second round, whatever it reads at the end of the list
LEMMA SecondRoundRight ==
  ASSUME NEW s, Counted(s), Unrepaired(s), Untimed(s), NEW u \in SecondRound(s)
  PROVE  Counted(u) /\ Untimed(u) /\ RepairedTo(u)
<1>1. Tmas(s) \subseteq Nat
  BY ListIndices DEF Counted, IsList
<1> DEFINE complete == {n \in Tmas(s) : s[n].pass # 0}
           n == Min(complete)
<1>2. CASE complete # {}
  <2>1. u = RepairedForward(RepairedBackward(s, n, s[n + 1].mtc), n)
    BY <1>2 DEF SecondRound
  <2>2. complete \subseteq Nat
    BY <1>1
  <2>3. n \in complete /\ \A y \in complete : n <= y
    <3> HIDE DEF complete
    <3> QED
      BY <1>2, <2>2, LeastOf
  <2> HIDE DEF n
  <2>4. n \in Tmas(s) /\ s[n].pass = 1
    BY <2>3 DEF Unrepaired
  <2>5. \A l \in Tmas(s) : s[l].pass # 0 => n <= l
    BY <2>3
  <2> HIDE DEF complete
  <2> QED
    BY <2>1, <2>4, <2>5, SecondWithComplete
<1>3. CASE complete = {}
  <2>1. s # <<>> /\ u \in WithoutComplete(s)
    BY <1>3 DEF SecondRound
  <2>2. NoPass(s)
    BY <1>3 DEF NoPass
  <2> QED
    BY <2>1, <2>2, WithoutCompleteRight
<1> QED
  BY <1>2, <1>3

-----------------------------------------------------------------------------
(* What is removed *)

\* t is what is left of the first k packets of s: packet i of it is packet old[i] of s.
KeptUpto(t, s, k, old) ==
  /\ t \in Seq(Packets)
  /\ \A i \in DOMAIN t : old[i] \in 1 .. k /\ t[i] = s[old[i]] /\ ~TooLate(s, old[i])
  /\ \A i, j \in DOMAIN t : i < j => old[i] < old[j]
  /\ \A n \in 1 .. k : ~TooLate(s, n) => \E i \in DOMAIN t : old[i] = n

\* One packet more
LEMMA KeepsOne ==
  ASSUME NEW s, NEW k \in Nat, NEW t, NEW old, KeptUpto(t, s, k, old),
         s[k + 1] \in Packets, ~TooLate(s, k + 1), NEW u, u = Append(t, s[k + 1])
  PROVE  \E to : KeptUpto(u, s, k + 1, to)
<1> DEFINE N == Len(t)
           p == s[k + 1]
           to == [i \in 1 .. N + 1 |-> IF i = N + 1 THEN k + 1 ELSE old[i]]
<1>1. t \in Seq(Packets) /\ p \in Packets /\ N \in Nat /\ DOMAIN t = 1 .. N
  BY DEF KeptUpto
<1>2. u \in Seq(Packets) /\ DOMAIN u = 1 .. N + 1 /\ u[N + 1] = p /\ \A i \in 1 .. N : u[i] = t[i]
  <2> HIDE DEF p
  <2>1. u = Append(t, p)
    BY DEF p
  <2> QED
    BY <1>1, <2>1
<1>3. to[N + 1] = k + 1 /\ \A i \in 1 .. N : to[i] = old[i] /\ old[i] \in 1 .. k
  BY <1>1 DEF KeptUpto
<1>4. \A i \in 1 .. N + 1 : i = N + 1 \/ i \in 1 .. N
  BY <1>1
<1> HIDE DEF to, N, p
<1>5. ASSUME NEW i \in DOMAIN u PROVE to[i] \in 1 .. k + 1 /\ u[i] = s[to[i]] /\ ~TooLate(s, to[i])
  <2>1. CASE i = N + 1
    BY <1>2, <1>3, <2>1 DEF p
  <2>2. CASE i \in 1 .. N
    <3>1. old[i] \in 1 .. k /\ t[i] = s[old[i]] /\ ~TooLate(s, old[i]) /\ to[i] = old[i] /\ u[i] = t[i]
      BY <1>1, <1>2, <1>3, <2>2 DEF KeptUpto
    <3> QED
      BY <3>1
  <2> QED
    BY <1>2, <1>4, <2>1, <2>2
<1>6. ASSUME NEW i \in DOMAIN u, NEW j \in DOMAIN u, i < j PROVE to[i] < to[j]
  <2>1. i \in 1 .. N /\ N + 1 \in Nat
    BY <1>1, <1>2, <1>6
  <2>2. CASE j = N + 1
    BY <1>3, <2>1, <2>2
  <2>3. CASE j \in 1 .. N
    <3>1. old[i] < old[j]
      BY <1>1, <1>6, <2>1, <2>3 DEF KeptUpto
    <3> QED
      BY <1>3, <2>1, <2>3, <3>1
  <2> QED
    BY <1>2, <1>4, <2>2, <2>3
<1>7. ASSUME NEW n \in 1 .. k + 1, ~TooLate(s, n) PROVE \E i \in DOMAIN u : to[i] = n
  <2>1. CASE n = k + 1
    <3>1. N + 1 \in DOMAIN u
      BY <1>1, <1>2
    <3> QED
      BY <1>3, <2>1, <3>1
  <2>2. CASE n # k + 1
    <3>1. n \in 1 .. k
      BY <2>2
    <3>2. PICK i \in DOMAIN t : old[i] = n
      BY <1>7, <3>1 DEF KeptUpto
    <3>3. i \in DOMAIN u /\ to[i] = n
      BY <1>1, <1>2, <1>3, <3>2
    <3> QED
      BY <3>3
  <2> QED
    BY <2>1, <2>2
<1>8. KeptUpto(u, s, k + 1, to)
  BY <1>2, <1>5, <1>6, <1>7 DEF KeptUpto
<1> QED
  BY <1>8

\* A packet that is too late
LEMMA KeepsNone ==
  ASSUME NEW s, NEW k \in Nat, NEW t, NEW old, KeptUpto(t, s, k, old), TooLate(s, k + 1)
  PROVE  KeptUpto(t, s, k + 1, old)
<1>1. \A n \in 1 .. k + 1 : n \in 1 .. k \/ n = k + 1
  OBVIOUS
<1>2. \A n \in 1 .. k : n \in 1 .. k + 1
  OBVIOUS
<1>3. \A i \in DOMAIN t : old[i] \in 1 .. k + 1 /\ t[i] = s[old[i]] /\ ~TooLate(s, old[i])
  BY <1>2 DEF KeptUpto
<1>4. \A n \in 1 .. k + 1 : ~TooLate(s, n) => \E i \in DOMAIN t : old[i] = n
  BY <1>1 DEF KeptUpto
<1> QED
  BY <1>3, <1>4 DEF KeptUpto

\* RemoveTooLate keeps the packets that are not too late, and their order.
LEMMA RemovesTooLate ==
  ASSUME NEW s \in Seq(Packets)
  PROVE  \E old : KeptUpto(RemoveTooLate(s), s, Len(s), old)
<1> DEFINE N == Len(s)
           T == Seq(Packets)
           With(n, v) == IF TooLate(s, n) THEN v ELSE Append(v, s[n])
           Gets(f) == f = [n \in 0 .. Len(s) |->
                             IF n = 0 THEN <<>>
                             ELSE IF TooLate(s, n) THEN f[n - 1] ELSE Append(f[n - 1], s[n])]
           kept == CHOOSE f : Gets(f)
<1>1. DOMAIN s = 1 .. N /\ N \in Nat /\ (\A n \in DOMAIN s : s[n] \in Packets) /\ s \o <<>> = s
  BY ListIndices
<1>2. RemoveTooLate(s) = kept[N]
  BY <1>1 DEF RemoveTooLate
<1>3. ASSUME NEW n \in 1 .. N, NEW v \in T PROVE With(n, v) \in T
  <2>1. s[n] \in Packets
    BY <1>1
  <2> DEFINE p == s[n]
  <2>2. Append(v, p) \in T
    <3> HIDE DEF p
    <3>1. p \in Packets
      BY <2>1 DEF p
    <3> QED
      BY <3>1
  <2> QED
    BY <2>2
<1>4. \E f : Gets(f)
  <2> DEFINE turn == [i \in 1 .. N |-> [v \in T |-> With(i, v)]]
             start == <<>>
  <2>1. turn \in [1 .. N -> [T -> T]] /\ start \in T
    <3>1. start \in T
      OBVIOUS
    <3> HIDE DEF T, With, N, start
    <3> QED
      BY <1>3, <3>1
  <2> HIDE DEF T, turn, start, With
  <2>2. PICK g \in [0 .. N -> T] : Rounds(g, N, start, turn)
    BY <1>1, <2>1, LoopExists
  <2>3. ASSUME NEW n \in 0 .. N
        PROVE  g[n] = IF n = 0 THEN start ELSE With(n, g[n - 1])
    <3>1. CASE n = 0
      BY <2>2, <3>1 DEF Rounds
    <3>2. CASE n # 0
      <4>1. n \in 1 .. N /\ n - 1 \in 0 .. N
        BY <1>1, <3>2
      <4>2. g[n] = turn[n][g[n - 1]] /\ g[n - 1] \in T
        BY <2>2, <4>1 DEF Rounds
      <4>3. g[n] = With(n, g[n - 1])
        BY <4>1, <4>2 DEF turn
      <4> QED
        BY <3>2, <4>3
    <3> QED
      BY <3>1, <3>2
  <2>4. g = [n \in 0 .. N |-> g[n]]
    OBVIOUS
  <2>5. g = [n \in 0 .. N |-> IF n = 0 THEN start ELSE With(n, g[n - 1])]
    BY <2>3, <2>4, Zenon
  <2>6. \A n \in 0 .. N :
          (IF n = 0 THEN start ELSE With(n, g[n - 1])) =
          (IF n = 0 THEN <<>> ELSE IF TooLate(s, n) THEN g[n - 1] ELSE Append(g[n - 1], s[n]))
    BY Zenon DEF start, With
  <2>7. Gets(g)
    BY <2>5, <2>6, Zenon
  <2> QED
    BY <2>7
<1>5. Gets(kept)
  BY <1>4
<1> HIDE DEF kept
<1>6. kept[0] = <<>>
  <2>1. 0 \in 0 .. Len(s)
    BY <1>1
  <2> QED
    BY <1>5, <2>1, Zenon
<1>7. ASSUME NEW n \in 0 .. Len(s), n # 0
      PROVE  kept[n] = IF TooLate(s, n) THEN kept[n - 1] ELSE Append(kept[n - 1], s[n])
  BY <1>5, <1>7, Zenon
<1> DEFINE S == {n \in Nat : n <= N => \E old : KeptUpto(kept[n], s, n, old)}
<1>8. 0 \in S
  <2>1. KeptUpto(<<>>, s, 0, <<>>)
    BY DEF KeptUpto
  <2> QED
    BY <1>6, <2>1
<1>9. ASSUME NEW n \in Nat, n \in S PROVE n + 1 \in S
  <2> SUFFICES ASSUME n + 1 <= N PROVE \E old : KeptUpto(kept[n + 1], s, n + 1, old)
    OBVIOUS
  <2>1. n <= N /\ n + 1 \in 0 .. Len(s) /\ n + 1 # 0 /\ (n + 1) - 1 = n /\ n + 1 \in DOMAIN s
    BY <1>1
  <2>2. PICK old : KeptUpto(kept[n], s, n, old)
    BY <1>9, <2>1
  <2>3. kept[n + 1] = IF TooLate(s, n + 1) THEN kept[n] ELSE Append(kept[n], s[n + 1])
    BY <1>7, <2>1
  <2>4. CASE TooLate(s, n + 1)
    BY <2>2, <2>3, <2>4, KeepsNone
  <2>5. CASE ~TooLate(s, n + 1)
    <3>1. kept[n + 1] = Append(kept[n], s[n + 1]) /\ s[n + 1] \in Packets
      BY <1>1, <2>1, <2>3, <2>5
    <3> QED
      BY <2>2, <2>5, <3>1, KeepsOne
  <2> QED
    BY <2>4, <2>5
<1> HIDE DEF S
<1>10. N \in S
  BY <1>1, <1>8, <1>9, SetInduction
<1> QED
  BY <1>1, <1>2, <1>10 DEF S

\* t is s without some MTCs; packet i of it is packet old[i] of s.
Kept(t, s, old) ==
  /\ t \in Seq(Packets)
  /\ \A i \in DOMAIN t : old[i] \in DOMAIN s /\ t[i] = s[old[i]]
  /\ \A i, j \in DOMAIN t : i < j => old[i] < old[j]
  /\ \A n \in DOMAIN s : ~Has(s, n, "MTC") => \E i \in DOMAIN t : old[i] = n

\* Only MTCs are removed.
LEMMA RemovedKeeps ==
  ASSUME NEW s \in Seq(Packets), NEW t, t = RemoveTooLate(s)
  PROVE  \E old : Kept(t, s, old) /\ \A i \in DOMAIN t : ~TooLate(s, old[i])
<1>1. PICK old : KeptUpto(t, s, Len(s), old)
  BY RemovesTooLate
<1>2. DOMAIN s = 1 .. Len(s)
  BY ListIndices
<1>3. \A n \in DOMAIN s : ~Has(s, n, "MTC") => ~TooLate(s, n)
  BY DEF TooLate
<1>4. Kept(t, s, old)
  BY <1>1, <1>2, <1>3 DEF Kept, KeptUpto
<1> QED
  BY <1>1, <1>4 DEF KeptUpto

\* Later in the one is later in the other.
LEMMA KeptOrder ==
  ASSUME NEW s \in Seq(Packets), NEW t, NEW old, Kept(t, s, old), NEW i \in DOMAIN t, NEW j \in DOMAIN t
  PROVE  /\ i < j <=> old[i] < old[j]
         /\ old[i] = old[j] => i = j
<1>1. i \in Nat /\ j \in Nat /\ old[i] \in Nat /\ old[j] \in Nat
  BY ListIndices DEF Kept
<1>2. (i < j => old[i] < old[j]) /\ (j < i => old[j] < old[i])
  BY DEF Kept
<1> QED
  BY <1>1, <1>2

\* A TMA is kept.
LEMMA KeptTma ==
  ASSUME NEW s, NEW t, NEW old, Kept(t, s, old)
  PROVE  /\ \A i \in DOMAIN t, type \in Types : Has(t, i, type) <=> Has(s, old[i], type)
         /\ \A i \in Tmas(t) : i \in DOMAIN t /\ old[i] \in Tmas(s) /\ t[i] = s[old[i]]
         /\ \A i \in Mtcs(t) : i \in DOMAIN t /\ old[i] \in Mtcs(s) /\ t[i] = s[old[i]]
         /\ \A n \in Tmas(s) : \E i \in Tmas(t) : old[i] = n
<1>1. \A i \in DOMAIN t : old[i] \in DOMAIN s /\ t[i] = s[old[i]]
  BY DEF Kept
<1>2. \A i \in DOMAIN t, type \in Types : Has(t, i, type) <=> Has(s, old[i], type)
  BY <1>1 DEF Has
<1>3. \A i \in Tmas(t) : i \in DOMAIN t /\ old[i] \in Tmas(s) /\ t[i] = s[old[i]]
  BY <1>1 DEF Has, Tmas
<1>4. \A i \in Mtcs(t) : i \in DOMAIN t /\ old[i] \in Mtcs(s) /\ t[i] = s[old[i]]
  BY <1>1 DEF Has, Mtcs
<1>5. ASSUME NEW n \in Tmas(s) PROVE \E i \in Tmas(t) : old[i] = n
  <2>1. n \in DOMAIN s /\ s[n].type = "TMA"
    BY DEF Tmas, Has
  <2>2. ~Has(s, n, "MTC")
    BY <2>1 DEF Has
  <2>3. PICK i \in DOMAIN t : old[i] = n
    BY <2>1, <2>2 DEF Kept
  <2>4. i \in Tmas(t)
    BY <1>1, <2>1, <2>3 DEF Tmas, Has
  <2> QED
    BY <2>3, <2>4
<1> QED
  BY <1>2, <1>3, <1>4, <1>5

\* The blocks are the same.
LEMMA KeptBlocks ==
  ASSUME NEW s \in Seq(Packets), NEW t, NEW old, Kept(t, s, old), NEW i \in DOMAIN t, NEW j \in DOMAIN t
  PROVE  /\ InBlock(t, i, j) <=> InBlock(s, old[i], old[j])
         /\ IsNext(t, i, j) <=> IsNext(s, old[i], old[j])
<1>1. old[i] \in DOMAIN s /\ old[j] \in DOMAIN s /\ (Has(t, i, "TMA") <=> Has(s, old[i], "TMA"))
      /\ (Has(t, j, "TMA") <=> Has(s, old[j], "TMA"))
  BY DEF Kept, Has
<1>2. i \in Tmas(t) <=> old[i] \in Tmas(s)
  BY <1>1 DEF Tmas
<1>3. i < j <=> old[i] < old[j]
  BY KeptOrder
<1>4. ASSUME InBlock(t, i, j) PROVE InBlock(s, old[i], old[j])
  <2>1. ASSUME NEW n \in DOMAIN s, old[i] < n, n < old[j], Has(s, n, "TMA") PROVE FALSE
    <3>1. n \in Tmas(s)
      BY <2>1 DEF Tmas
    <3>2. PICK l \in Tmas(t) : old[l] = n
      BY <3>1, KeptTma
    <3>3. l \in DOMAIN t /\ Has(t, l, "TMA")
      BY DEF Tmas
    <3>4. i < l /\ l < j
      BY <2>1, <3>2, <3>3, KeptOrder
    <3> QED
      BY <1>4, <3>3, <3>4 DEF InBlock
  <2> QED
    BY <1>1, <1>2, <1>3, <1>4, <2>1 DEF InBlock
<1>5. ASSUME InBlock(s, old[i], old[j]) PROVE InBlock(t, i, j)
  <2>1. ASSUME NEW l \in DOMAIN t, i < l, l < j, Has(t, l, "TMA") PROVE FALSE
    <3>1. old[l] \in DOMAIN s /\ Has(s, old[l], "TMA")
      BY <2>1 DEF Kept, Has
    <3>2. old[i] < old[l] /\ old[l] < old[j]
      BY <2>1, KeptOrder
    <3> QED
      BY <1>5, <3>1, <3>2 DEF InBlock
  <2> QED
    BY <1>2, <1>3, <1>5, <2>1 DEF InBlock
<1>6. InBlock(t, i, j) <=> InBlock(s, old[i], old[j])
  BY <1>4, <1>5
<1> QED
  BY <1>1, <1>6 DEF IsNext

\* What is left is a list as it was sent.
LEMMA KeptIsList ==
  ASSUME NEW s, NEW t, NEW old, Kept(t, s, old), IsList(s)
  PROVE  IsList(t)
<1>1. \A i \in DOMAIN t : old[i] \in DOMAIN s /\ t[i] = s[old[i]]
  BY DEF Kept
<1>2. Ordered(t)
  <2> SUFFICES ASSUME NEW i \in DOMAIN t, NEW j \in DOMAIN t, i < j
               PROVE  /\ t[i].at <= t[j].at
                      /\ Has(t, j, "MTC") => Count(t[i]) < Count(t[j])
    BY DEF Ordered
  <2>1. old[i] < old[j] /\ old[i] \in DOMAIN s /\ old[j] \in DOMAIN s
    BY DEF Kept
  <2>2. /\ s[old[i]].at <= s[old[j]].at
        /\ Has(s, old[j], "MTC") => Count(s[old[i]]) < Count(s[old[j]])
    BY <2>1 DEF IsList, Ordered
  <2> QED
    BY <1>1, <2>2 DEF Has
<1>3. MtcsRight(t)
  BY <1>1 DEF IsList, MtcsRight, Mtcs, Has
<1> QED
  BY <1>2, <1>3 DEF IsList, Kept

\* And its TMAs stay counted.
LEMMA KeptCounted ==
  ASSUME NEW s, NEW t, NEW old, Kept(t, s, old), Counted(s)
  PROVE  Counted(t)
<1>1. IsList(t) /\ IsList(s) /\ s \in Seq(Packets)
  BY KeptIsList DEF Counted, IsList
<1>2. ASSUME NEW i \in Tmas(t) PROVE IsTma(t, i)
  <2>1. i \in DOMAIN t /\ old[i] \in Tmas(s) /\ t[i] = s[old[i]] /\ IsTma(s, old[i])
    BY KeptTma DEF Counted
  <2>2. ASSUME t[i].pass = 1 PROVE \E j \in DOMAIN t : IsNext(t, i, j)
    <3>1. PICK m \in DOMAIN s : IsNext(s, old[i], m)
      BY <2>1, <2>2 DEF IsTma
    <3>2. m \in Tmas(s)
      BY <3>1 DEF IsNext, Tmas
    <3>3. PICK j \in Tmas(t) : old[j] = m
      BY <3>2, KeptTma
    <3>4. j \in DOMAIN t
      BY DEF Tmas
    <3>5. IsNext(t, i, j)
      BY <1>1, <2>1, <3>1, <3>3, <3>4, KeptBlocks
    <3> QED
      BY <3>4, <3>5
  <2>3. ASSUME NEW j \in DOMAIN t, IsNext(t, i, j) PROVE t[i].mtc_count = (t[j].at - t[i].at) \div PerMtc
    <3>1. IsNext(s, old[i], old[j]) /\ old[j] \in DOMAIN s /\ t[j] = s[old[j]]
      BY <1>1, <2>1, <2>3, KeptBlocks DEF Kept
    <3>2. s[old[i]].mtc_count = (s[old[j]].at - s[old[i]].at) \div PerMtc
      BY <2>1, <3>1 DEF IsTma
    <3> QED
      BY <2>1, <3>1, <3>2
  <2>4. /\ t[i].tsc = t[i].at /\ t[i].tsc_in_next_mtc = NextMtcFrom(t[i].at)
        /\ t[i].mtc \in {CutMtc(t[i].at), OrHighest(CutMtc(t[i].at))}
    BY <2>1 DEF IsTma
  <2> QED
    BY <2>2, <2>3, <2>4 DEF IsTma
<1> QED
  BY <1>1, <1>2 DEF Counted

\* And their counts stay right.
LEMMA KeptRepaired ==
  ASSUME NEW s, NEW t, NEW old, Kept(t, s, old), Counted(s), RepairedTo(s)
  PROVE  RepairedTo(t)
<1>1. s \in Seq(Packets) /\ DOMAIN t = 1 .. Len(t) /\ Len(t) \in Nat
      /\ \A i \in DOMAIN t : old[i] \in DOMAIN s /\ t[i] = s[old[i]] /\ old[i] \in Nat /\ i \in Nat
  BY ListIndices DEF Counted, IsList, Kept
<1> SUFFICES ASSUME NEW n \in DOMAIN t, NEW m \in DOMAIN t, LooksComplete(t, n, m),
                    \A l \in Tmas(t) : l < n => t[l].pass # 1,
                    NEW l \in Tmas(t), l <= n
             PROVE  IsTrue(t, l)
  BY DEF RepairedTo
<1>2. ~Has(s, old[n] + 1, "OVF")
  <2> SUFFICES ASSUME s[old[n] + 1].type = "OVF" PROVE FALSE
    BY DEF Has
  <2>1. n < m /\ n + 1 \in DOMAIN t
    <3>1. n < m
      BY DEF LooksComplete, IsNext, InBlock
    <3> QED
      BY <1>1, <3>1
  <2>2. old[n] < old[n + 1]
    BY SMTT(30), <1>1, <2>1, KeptOrder
  <2>3. old[n] + 1 \in DOMAIN s
    <3>1. DOMAIN s = 1 .. Len(s) /\ Len(s) \in Nat
      BY <1>1
    <3>2. old[n + 1] \in 1 .. Len(s) /\ old[n] \in 1 .. Len(s)
      BY <1>1, <2>1, <3>1
    <3> QED
      BY <2>2, <3>1, <3>2
  <2>4. ~Has(s, old[n] + 1, "MTC")
    BY DEF Has
  <2>5. PICK j \in DOMAIN t : old[j] = old[n] + 1
    BY <2>3, <2>4 DEF Kept
  <2>6. n < j
    <3>1. old[n] < old[j]
      BY <1>1, <2>5
    <3> QED
      BY <1>1, <3>1, KeptOrder
  <2>7. ~(n + 1 < j)
    <3>1. ~(old[n + 1] < old[j])
      BY <1>1, <2>1, <2>2, <2>5
    <3> QED
      BY <1>1, <2>1, <3>1, KeptOrder
  <2>8. j = n + 1
    BY <1>1, <2>6, <2>7
  <2> QED
    BY <1>1, <2>5, <2>8 DEF LooksComplete, Has
<1>3. LooksComplete(s, old[n], old[m])
  <2>1. IsNext(s, old[n], old[m])
    BY <1>1, KeptBlocks DEF LooksComplete
  <2> QED
    BY <1>1, <1>2, <2>1 DEF LooksComplete, Count
<1>4. ASSUME NEW k \in Tmas(s), k < old[n] PROVE s[k].pass # 1
  <2>1. PICK i \in Tmas(t) : old[i] = k
    BY KeptTma
  <2>2. i \in DOMAIN t
    BY DEF Tmas
  <2>3. i < n
    BY <1>1, <1>4, <2>1, <2>2, KeptOrder
  <2> QED
    BY <1>1, <2>1, <2>2, <2>3
<1>5. l \in DOMAIN t /\ old[l] \in Tmas(s)
  BY KeptTma
<1>6. old[l] <= old[n]
  <2>1. ~(n < l)
    BY <1>1, <1>5
  <2>2. ~(old[n] < old[l])
    BY <1>1, <1>5, <2>1, KeptOrder
  <2> QED
    BY <1>1, <1>5, <2>2
<1>7. IsTrue(s, old[l])
  BY <1>1, <1>3, <1>4, <1>5, <1>6 DEF RepairedTo
<1> QED
  BY <1>1, <1>5, <1>7 DEF IsTrue

-----------------------------------------------------------------------------
(* The times *)

\* Packet n has its time from a TMA; in the third round it is less than a
\* rollover from it.
IsTimed(s, f, n) ==
  /\ InBlock(s, f, n) /\ s[n].tsc = TimeAfter(s[f], s[n].mtc)
  /\ s[n].pass = 1 => Count(s[n]) <= Count(s[f]) + Rollover
\* MTCs that have a time have it from the TMA of their block.
TimesOk(s) == \A n \in Mtcs(s) : s[n].pass # 0 => \E f \in DOMAIN s : IsTimed(s, f, n)

\* An MTC between TMAs whose count says that nothing rolls over
InShort(s, f, n, m) ==
  /\ InBlock(s, f, n) /\ Has(s, n, "MTC") /\ IsNext(s, f, m) /\ n < m
  /\ s[f].pass # 0 /\ s[f].mtc_count < Full
\* They are timed,
ShortTimed(s) == \A f, n, m \in DOMAIN s : InShort(s, f, n, m) => s[n].pass = 1
\* and those later than the TMA after them have been removed.
ShortOk(s) == \A f, n, m \in DOMAIN s : InShort(s, f, n, m) => s[n].pass = 1 /\ s[n].tsc <= s[m].tsc

\* Known rollovers are found in long blocks only.
KnownOk(s) == \A f \in Tmas(s) : s[f].known_rollover_points => ~(s[f].mtc_count < Full)

\* Nothing of the TMAs is changed but what is known of them.
SameTma(p, q) ==
  /\ p.tsc = q.tsc /\ p.tsc_in_next_mtc = q.tsc_in_next_mtc /\ p.mtc = q.mtc
  /\ p.mtc_count = q.mtc_count /\ p.pass = q.pass
TmasStay(u, s) == Retimed(u, s) /\ \A n \in Tmas(s) : SameTma(u[n], s[n])

\* TMAs of which only more is known stay counted.
LEMMA TmasStayCounted ==
  ASSUME NEW s, NEW u, TmasStay(u, s), Counted(s)
  PROVE  Counted(u)
<1>1. IsList(u) /\ Retimed(u, s) /\ DOMAIN u = DOMAIN s /\ Tmas(u) = Tmas(s)
  BY RetimedIsList, RetimedSame DEF TmasStay, Counted, Retimed
<1>2. ASSUME NEW n \in Tmas(u) PROVE IsTma(u, n)
  <2>1. n \in Tmas(s) /\ n \in DOMAIN s /\ IsTma(s, n) /\ u[n].at = s[n].at /\ SameTma(u[n], s[n])
    BY <1>1 DEF Counted, Tmas, Retimed, TmasStay
  <2>2. \A m \in DOMAIN s : (IsNext(u, n, m) <=> IsNext(s, n, m)) /\ u[m].at = s[m].at
    BY <1>1, <2>1, RetimedSame DEF Retimed
  <2>4. u[n].pass = 1 => \E m \in DOMAIN u : IsNext(u, n, m)
    BY <1>1, <2>1, <2>2 DEF IsTma, SameTma
  <2>5. \A m \in DOMAIN u : IsNext(u, n, m) => u[n].mtc_count = (u[m].at - u[n].at) \div PerMtc
    BY <1>1, <2>1, <2>2 DEF IsTma, SameTma
  <2>6. /\ u[n].tsc = u[n].at /\ u[n].tsc_in_next_mtc = NextMtcFrom(u[n].at)
        /\ u[n].mtc \in {CutMtc(u[n].at), OrHighest(CutMtc(u[n].at))}
    BY <2>1 DEF IsTma, SameTma
  <2> QED
    BY <2>4, <2>5, <2>6 DEF IsTma
<1> QED
  BY <1>1, <1>2 DEF Counted

\* And their counts stay right.
LEMMA TmasStayRepaired ==
  ASSUME NEW s, NEW u, TmasStay(u, s), IsList(s), RepairedTo(s)
  PROVE  RepairedTo(u)
<1>1. Retimed(u, s) /\ DOMAIN u = DOMAIN s /\ Tmas(u) = Tmas(s)
      /\ DOMAIN s = 1 .. Len(s) /\ Len(s) \in Nat
  BY RetimedSame, ListIndices DEF TmasStay, Retimed, IsList
<1>2. \A n \in Tmas(s) : u[n].pass = s[n].pass /\ u[n].mtc = s[n].mtc /\ u[n].at = s[n].at
  BY DEF TmasStay, SameTma, Retimed, Tmas
<1> SUFFICES ASSUME NEW n \in DOMAIN s, NEW m \in DOMAIN s, LooksComplete(u, n, m),
                    \A l \in Tmas(s) : l < n => u[l].pass # 1,
                    NEW l \in Tmas(s), l <= n
             PROVE  IsTrue(u, l)
  BY <1>1 DEF RepairedTo
<1>3. IsNext(s, n, m) /\ n \in Tmas(s) /\ Count(u[n]) = Count(s[n]) /\ Count(u[m]) = Count(s[m]) /\ n < m
  BY <1>1, RetimedSame DEF LooksComplete, IsNext, InBlock
<1>4. ~Has(s, n + 1, "OVF")
  <2>1. n + 1 \in DOMAIN s
    BY <1>1, <1>3
  <2> QED
    BY <1>1, <2>1 DEF LooksComplete, Has, Retimed
<1>5. LooksComplete(s, n, m)
  BY <1>2, <1>3, <1>4 DEF LooksComplete
<1>6. IsTrue(s, l)
  BY <1>2, <1>5 DEF RepairedTo
<1> QED
  BY <1>2, <1>6 DEF IsTrue

\* Times of which nothing changes
LEMMA TimesStay ==
  ASSUME NEW s, NEW u, TmasStay(u, s), \A n \in Mtcs(s) : u[n].pass = s[n].pass /\ u[n].tsc = s[n].tsc
  PROVE  /\ TimesOk(s) => TimesOk(u)
         /\ ShortTimed(s) => ShortTimed(u)
         /\ ShortOk(s) => ShortOk(u)
<1>1. Retimed(u, s) /\ DOMAIN u = DOMAIN s /\ Tmas(u) = Tmas(s) /\ Mtcs(u) = Mtcs(s)
  BY RetimedSame DEF TmasStay, Retimed
<1>2. ASSUME TimesOk(s) PROVE TimesOk(u)
  <2> SUFFICES ASSUME NEW n \in Mtcs(s), s[n].pass # 0 PROVE \E f \in DOMAIN s : IsTimed(u, f, n)
    BY <1>1 DEF TimesOk
  <2>1. PICK f \in DOMAIN s : IsTimed(s, f, n)
    BY <1>2 DEF TimesOk
  <2>2. f \in Tmas(s) /\ n \in DOMAIN s /\ s[n].type = "MTC"
    BY <2>1 DEF IsTimed, InBlock, Mtcs, Has
  <2>3. InBlock(u, f, n) /\ Count(u[n]) = Count(s[n]) /\ Count(u[f]) = Count(s[f])
    BY <1>1, <2>1, <2>2, RetimedSame DEF IsTimed
  <2>4. u[n].tsc = s[n].tsc /\ u[n].mtc = s[n].mtc /\ u[n].pass = s[n].pass
    BY <2>2 DEF TmasStay, Retimed
  <2>5. u[f].mtc = s[f].mtc /\ u[f].tsc_in_next_mtc = s[f].tsc_in_next_mtc
    BY <2>2 DEF TmasStay, SameTma
  <2>6. u[n].tsc = TimeAfter(u[f], u[n].mtc)
    BY <2>1, <2>4, <2>5 DEF IsTimed, TimeAfter
  <2> QED
    BY <2>1, <2>3, <2>4, <2>6 DEF IsTimed
<1>3. ASSUME NEW f \in DOMAIN s, NEW n \in DOMAIN s, NEW m \in DOMAIN s, InShort(u, f, n, m)
      PROVE  /\ InShort(s, f, n, m) /\ u[n].pass = s[n].pass /\ u[n].tsc = s[n].tsc /\ u[m].tsc = s[m].tsc
  <2>1. InBlock(s, f, n) /\ IsNext(s, f, m) /\ Has(s, n, "MTC")
    BY <1>1, <1>3, RetimedSame DEF InShort, Types
  <2>2. f \in Tmas(s) /\ n \in Mtcs(s) /\ m \in Tmas(s)
    BY <2>1 DEF InBlock, Mtcs, IsNext, Tmas
  <2>3. u[f].pass = s[f].pass /\ u[f].mtc_count = s[f].mtc_count /\ u[m].tsc = s[m].tsc
    BY <2>2 DEF TmasStay, SameTma
  <2> QED
    BY <1>3, <2>1, <2>2, <2>3 DEF InShort
<1>4. ShortTimed(s) => ShortTimed(u)
  BY <1>1, <1>3 DEF ShortTimed
<1>5. ShortOk(s) => ShortOk(u)
  BY <1>1, <1>3 DEF ShortOk
<1> QED
  BY <1>2, <1>4, <1>5

\* What is left when the MTCs that are too late are removed
LEMMA RemovedTimes ==
  ASSUME NEW s \in Seq(Packets), TimesOk(s), ShortTimed(s), KnownOk(s), NEW t, t = RemoveTooLate(s)
  PROVE  /\ TimesOk(t) /\ ShortOk(t) /\ KnownOk(t)
         /\ Counted(s) => Counted(t)
         /\ Counted(s) /\ RepairedTo(s) => RepairedTo(t)
<1>1. PICK old : Kept(t, s, old) /\ \A i \in DOMAIN t : ~TooLate(s, old[i])
  BY RemovedKeeps
<1>2. \A i \in DOMAIN t : old[i] \in DOMAIN s /\ t[i] = s[old[i]]
  BY <1>1 DEF Kept
<1>3. TimesOk(t)
  <2> SUFFICES ASSUME NEW i \in Mtcs(t), t[i].pass # 0 PROVE \E j \in DOMAIN t : IsTimed(t, j, i)
    BY DEF TimesOk
  <2>1. i \in DOMAIN t /\ old[i] \in Mtcs(s) /\ t[i] = s[old[i]]
    BY <1>1, KeptTma
  <2>2. PICK f \in DOMAIN s : IsTimed(s, f, old[i])
    BY <2>1 DEF TimesOk
  <2>3. f \in Tmas(s)
    BY <2>2 DEF IsTimed, InBlock
  <2>4. PICK j \in Tmas(t) : old[j] = f
    BY <1>1, <2>3, KeptTma
  <2>5. j \in DOMAIN t /\ t[j] = s[f]
    BY <1>2, <2>4 DEF Tmas
  <2>6. InBlock(t, j, i)
    BY <1>1, <2>1, <2>2, <2>4, <2>5, KeptBlocks DEF IsTimed
  <2>7. IsTimed(t, j, i)
    BY <2>1, <2>2, <2>5, <2>6 DEF IsTimed
  <2> QED
    BY <2>5, <2>7
<1>4. ShortOk(t)
  <2> SUFFICES ASSUME NEW f \in DOMAIN t, NEW n \in DOMAIN t, NEW m \in DOMAIN t, InShort(t, f, n, m)
               PROVE  t[n].pass = 1 /\ t[n].tsc <= t[m].tsc
    BY DEF ShortOk
  <2>1. /\ old[f] \in DOMAIN s /\ old[n] \in DOMAIN s /\ old[m] \in DOMAIN s
        /\ t[f] = s[old[f]] /\ t[n] = s[old[n]] /\ t[m] = s[old[m]]
    BY <1>2
  <2>2. InBlock(s, old[f], old[n]) /\ IsNext(s, old[f], old[m]) /\ Has(s, old[n], "MTC") /\ old[n] < old[m]
    <3>1. InBlock(s, old[f], old[n]) /\ IsNext(s, old[f], old[m])
      BY <1>1, KeptBlocks DEF InShort
    <3>2. old[n] < old[m]
      BY <1>1, KeptOrder DEF InShort
    <3> QED
      BY <2>1, <3>1, <3>2 DEF InShort, Has
  <2>3. InShort(s, old[f], old[n], old[m])
    BY <2>1, <2>2 DEF InShort
  <2>4. s[old[n]].pass = 1
    BY <2>1, <2>3 DEF ShortTimed
  <2>5. SecondTma(s, old[n]) = old[m] /\ SecondTma(s, old[n]) # 0
    <3>1. TmaOf(s, old[f], old[n])
      BY <2>2 DEF TmaOf, Has
    <3> DEFINE b == SecondTma(s, old[n])
    <3>2. (b = 0 => ~IsNext(s, old[f], old[m])) /\ (b # 0 => IsNext(s, old[f], b))
      BY <2>1, <3>1, SecondIsNext
    <3> HIDE DEF b
    <3>3. b # 0 /\ IsNext(s, old[f], b)
      BY <2>2, <3>2
    <3>4. SecondTma(s, old[f]) = b /\ SecondTma(s, old[f]) = old[m]
      BY <2>1, <2>2, <3>3, OneNext
    <3> QED
      BY <3>3, <3>4 DEF b
  <2>6. ~(s[old[n]].tsc > s[old[m]].tsc)
    BY <1>1, <2>2, <2>4, <2>5 DEF TooLate
  <2>7. s[old[n]].tsc \in Int /\ s[old[m]].tsc \in Int
    BY <2>1, ListIndices DEF Packets
  <2> QED
    BY <2>1, <2>4, <2>6, <2>7
<1>5. KnownOk(t)
  BY <1>1, KeptTma DEF KnownOk
<1> QED
  BY <1>1, <1>3, <1>4, <1>5, KeptCounted, KeptRepaired

\* An MTC that gets a time
IsRetimed(p, q, tsc, pass) ==
  /\ p \in Packets /\ p.type = q.type /\ p.at = q.at /\ p.mtc = q.mtc
  /\ p.tsc = tsc /\ p.pass = pass

\* The other fields of an MTC stay.
LEMMA PacketRetimed ==
  ASSUME NEW q \in Packets, NEW tsc \in Int, NEW pass \in 0 .. 3, NEW p, p = [q EXCEPT !.tsc = tsc, !.pass = pass]
  PROVE  IsRetimed(p, q, tsc, pass)
<1>1. p.type = q.type /\ p.at = q.at /\ p.mtc = q.mtc /\ p.tsc = tsc /\ p.pass = pass
  BY DEF Packets
<1>2. p \in Packets
  <2> DEFINE r == [q EXCEPT !.tsc = tsc]
  <2>1. r \in Packets
    BY DEF Packets
  <2>2. p = [r EXCEPT !.pass = pass]
    BY DEF Packets
  <2> HIDE DEF r
  <2> QED
    BY <2>1, <2>2 DEF Packets
<1> QED
  BY <1>1, <1>2 DEF IsRetimed

\* A time after a TMA is a number.
LEMMA TimeAfterType ==
  ASSUME NEW f \in Packets, NEW mtc \in 0 .. Rollover - 1
  PROVE  TimeAfter(f, mtc) \in Int
<1>1. f.tsc_in_next_mtc \in Int /\ f.mtc \in Int /\ mtc \in Int
  BY Units DEF Packets
<1> DEFINE d == mtc - (f.mtc + 1)
<1>2. d \in Int
  BY <1>1
<1> HIDE DEF d
<1>3. d % Rollover \in Int
  BY <1>2, Units, DivMod
<1> DEFINE e == d % Rollover
<1>4. e \in Int
  BY <1>3
<1> HIDE DEF e
<1>5. e * PerMtc \in Int
  BY <1>4, Units
<1> QED
  BY <1>1, <1>5 DEF TimeAfter, d, e

\* A list of which some MTCs get the times after their TMAs
TimedList(u, s, R, pass) ==
  /\ DOMAIN u = DOMAIN s /\ IsFunction(u) /\ R \subseteq Mtcs(s)
  /\ \A n \in R : /\ FirstTma(s, n) # 0 /\ pass[n] \in 1 .. 3
                  /\ u[n] = [s[n] EXCEPT !.tsc = TimeAfter(s[FirstTma(s, n)], s[n].mtc), !.pass = pass[n]]
  /\ \A n \in DOMAIN s : ~(n \in R) => u[n] = s[n]

\* Giving MTCs the times after their TMAs changes nothing of TMAs.
LEMMA SomeTimed ==
  ASSUME NEW s \in Seq(Packets), NEW u, NEW R, NEW pass, TimedList(u, s, R, pass)
  PROVE  /\ TmasStay(u, s) /\ u \in Seq(Packets)
         /\ \A n \in Tmas(s) : u[n] = s[n]
         /\ \A n \in R : /\ u[n].pass = pass[n] /\ u[n].mtc = s[n].mtc
                         /\ InBlock(s, FirstTma(s, n), n) /\ FirstTma(s, n) \in Tmas(s)
                         /\ u[n].tsc = TimeAfter(s[FirstTma(s, n)], s[n].mtc)
<1>1. /\ DOMAIN s = 1 .. Len(s) /\ Len(s) \in Nat /\ (\A n \in DOMAIN s : s[n] \in Packets) /\ DOMAIN u = DOMAIN s
  BY ListIndices DEF TimedList
<1>2. ASSUME NEW n \in R
      PROVE  /\ n \in DOMAIN s /\ s[n].type = "MTC" /\ u[n] \in Packets
             /\ u[n].type = s[n].type /\ u[n].at = s[n].at /\ u[n].mtc = s[n].mtc
             /\ InBlock(s, FirstTma(s, n), n) /\ FirstTma(s, n) \in Tmas(s)
             /\ u[n].tsc = TimeAfter(s[FirstTma(s, n)], s[n].mtc)
             /\ u[n].pass = pass[n]
  <2>1. n \in DOMAIN s /\ s[n].type = "MTC" /\ s[n] \in Packets
    BY <1>1 DEF TimedList, Mtcs, Has
  <2> DEFINE f == FirstTma(s, n)
  <2>2. InBlock(s, f, n)
    BY <2>1, FirstIs DEF TimedList
  <2> HIDE DEF f
  <2>3. f \in Tmas(s) /\ f \in DOMAIN s
    BY <2>2 DEF InBlock, Tmas
  <2> DEFINE q == s[n]
             tsc == TimeAfter(s[f], s[n].mtc)
             g == s[f]
             mtc == s[n].mtc
             k == pass[n]
  <2>4. tsc \in Int
    <3>1. g \in Packets /\ mtc \in 0 .. Rollover - 1
      BY <1>1, <2>1, <2>3 DEF Packets
    <3> HIDE DEF g, mtc
    <3>2. TimeAfter(g, mtc) \in Int
      BY <3>1, TimeAfterType
    <3> QED
      BY <3>2 DEF g, mtc
  <2>5. u[n] = [q EXCEPT !.tsc = tsc, !.pass = k]
    BY DEF TimedList, f
  <2>6. k \in 0 .. 3
    <3>1. k \in 1 .. 3
      BY DEF TimedList
    <3> HIDE DEF k
    <3> QED
      BY <3>1
  <2>7. q \in Packets
    BY <2>1
  <2> DEFINE p == u[n]
  <2>8. p = [q EXCEPT !.tsc = tsc, !.pass = k]
    BY <2>5
  <2> HIDE DEF q, tsc, p, g, mtc, k
  <2>9. IsRetimed(p, q, tsc, k)
    BY <2>4, <2>6, <2>7, <2>8, PacketRetimed
  <2> QED
    BY <2>1, <2>2, <2>3, <2>9 DEF IsRetimed, p, q, tsc, f, k
<1>3. ASSUME NEW n \in DOMAIN s, ~(n \in R) PROVE u[n] = s[n]
  BY <1>3 DEF TimedList
<1>4. \A n \in Tmas(s) : u[n] = s[n]
  <2> SUFFICES ASSUME NEW n \in Tmas(s) PROVE u[n] = s[n]
    OBVIOUS
  <2>1. n \in DOMAIN s /\ s[n].type = "TMA"
    BY DEF Tmas, Has
  <2>2. ~(n \in R)
    BY <1>2, <2>1
  <2> QED
    BY <1>3, <2>1, <2>2
<1>5. u \in Seq(Packets)
  <2>1. \A n \in DOMAIN u : u[n] \in Packets
    BY <1>1, <1>2, <1>3
  <2>2. IsFunction(u)
    BY DEF TimedList
  <2> QED
    BY <1>1, <2>1, <2>2, IsPacketList
<1>6. ASSUME NEW n \in DOMAIN s PROVE u[n].type = s[n].type /\ u[n].at = s[n].at /\ u[n].mtc = s[n].mtc
  BY <1>2, <1>3
<1>7. Retimed(u, s)
  BY <1>1, <1>5, <1>6 DEF Retimed
<1>8. TmasStay(u, s)
  BY <1>4, <1>7 DEF TmasStay, SameTma
<1> QED
  BY <1>2, <1>4, <1>5, <1>8

\* In a block whose count says that nothing rolls over nothing does.
LEMMA ShortCounts ==
  ASSUME NEW a \in Nat, NEW b \in Nat, a <= b, NEW c, c = (b - a) \div PerMtc, c < Full
  PROVE  b \div PerMtc < (a \div PerMtc) + Rollover
<1> DEFINE i == a \div PerMtc
           j == b \div PerMtc
<1>1. i \in Nat /\ j \in Nat
  BY Parts
<1>2. c \in {j - i, j - i - 1}
  BY Elapsed
<1> HIDE DEF i, j
<1>3. Rollover \in Nat
  BY Units
<1>4. j < i + Rollover
  BY <1>1, <1>2, <1>3 DEF Full
<1> QED
  BY <1>4 DEF i, j

\* The packets of such a block are less than a rollover from its TMA.
LEMMA CountUpToNext ==
  ASSUME NEW s, Counted(s), NEW f \in DOMAIN s, NEW n \in DOMAIN s, NEW m \in DOMAIN s,
         InBlock(s, f, n), IsNext(s, f, m), n < m, s[f].mtc_count < Full
  PROVE  Count(s[n]) < Count(s[f]) + Rollover
<1>1. f \in Tmas(s) /\ f < m /\ s[f].at \in Nat /\ s[n].at \in Nat /\ s[m].at \in Nat
  BY ListIndices DEF InBlock, IsNext, Counted, IsList, Packets
<1>2. s[f].mtc_count = (s[m].at - s[f].at) \div PerMtc /\ s[f].at <= s[m].at /\ s[n].at <= s[m].at
  BY <1>1 DEF Counted, IsTma, IsList, Ordered
<1> DEFINE a == s[f].at
           b == s[m].at
           c == s[f].mtc_count
           d == s[n].at
<1>3. a \in Nat /\ b \in Nat /\ d \in Nat /\ a <= b /\ d <= b /\ c = (b - a) \div PerMtc /\ c < Full
  BY <1>1, <1>2
<1> HIDE DEF a, b, c, d
<1>4. b \div PerMtc < (a \div PerMtc) + Rollover
  BY <1>3, ShortCounts
<1>5. d \div PerMtc <= b \div PerMtc /\ d \div PerMtc \in Nat /\ b \div PerMtc \in Nat /\ a \div PerMtc \in Nat
  BY <1>3, CountGrows
<1>6. d \div PerMtc < (a \div PerMtc) + Rollover
  <2> DEFINE x == d \div PerMtc
             y == b \div PerMtc
             z == a \div PerMtc
  <2>1. x \in Nat /\ y \in Nat /\ z \in Nat /\ x <= y /\ y < z + Rollover
    BY <1>4, <1>5
  <2> HIDE DEF x, y, z
  <2>2. x < z + Rollover
    BY <2>1, Units
  <2> QED
    BY <2>2 DEF x, z
<1> QED
  BY <1>6 DEF Count, a, d

\* What the third round times
LEMMA ShortBlocksTimed ==
  ASSUME NEW s, Counted(s), Untimed(s), NEW u, u = TimeShortBlocks(s)
  PROVE  /\ TmasStay(u, s) /\ TimesOk(u) /\ ShortTimed(u)
         /\ \A n \in Tmas(u) : u[n].known_rollover_points = FALSE
<1> DEFINE R == {n \in Mtcs(s) : IsShort(s, n)}
           pass == [n \in R |-> 1]
<1>1. s \in Seq(Packets) /\ \A n \in DOMAIN s : n \in Nat /\ s[n] \in Packets
  BY ListIndices DEF Counted, IsList
<1>2. u = [n \in DOMAIN s |->
             IF Has(s, n, "MTC") /\ IsShort(s, n)
             THEN [s[n] EXCEPT !.tsc = TimeAfter(s[FirstTma(s, n)], s[n].mtc), !.pass = 1]
             ELSE s[n]]
  BY DEF TimeShortBlocks
<1>3. TimedList(u, s, R, pass)
  <2>1. DOMAIN u = DOMAIN s /\ IsFunction(u) /\ R \subseteq Mtcs(s)
    BY <1>2 DEF IsFunction
  <2>2. ASSUME NEW n \in R
        PROVE  /\ FirstTma(s, n) # 0 /\ pass[n] \in 1 .. 3
               /\ u[n] = [s[n] EXCEPT !.tsc = TimeAfter(s[FirstTma(s, n)], s[n].mtc), !.pass = pass[n]]
    <3>1. n \in DOMAIN s /\ Has(s, n, "MTC") /\ IsShort(s, n) /\ pass[n] = 1
      BY DEF Mtcs
    <3>2. u[n] = [s[n] EXCEPT !.tsc = TimeAfter(s[FirstTma(s, n)], s[n].mtc), !.pass = 1]
      BY <1>2, <3>1, Zenon
    <3>3. FirstTma(s, n) # 0 /\ 1 \in 1 .. 3
      BY <3>1 DEF IsShort
    <3> QED
      BY <3>1, <3>2, <3>3, Zenon
  <2>3. ASSUME NEW n \in DOMAIN s, ~(n \in R) PROVE u[n] = s[n]
    <3>1. ~(Has(s, n, "MTC") /\ IsShort(s, n))
      BY <2>3 DEF Mtcs
    <3> QED
      BY <1>2, <3>1, Zenon
  <2> HIDE DEF R, pass
  <2> QED
    BY <2>1, <2>2, <2>3 DEF TimedList
<1>4. /\ TmasStay(u, s) /\ u \in Seq(Packets)
      /\ \A n \in Tmas(s) : u[n] = s[n]
      /\ \A n \in R : /\ u[n].pass = pass[n] /\ u[n].mtc = s[n].mtc
                      /\ InBlock(s, FirstTma(s, n), n) /\ FirstTma(s, n) \in Tmas(s)
                      /\ u[n].tsc = TimeAfter(s[FirstTma(s, n)], s[n].mtc)
  <2> HIDE DEF R, pass
  <2> QED
    BY <1>1, <1>3, SomeTimed
<1>5. Retimed(u, s) /\ DOMAIN u = DOMAIN s /\ Tmas(u) = Tmas(s) /\ Mtcs(u) = Mtcs(s)
  BY <1>4, RetimedSame DEF TmasStay, Retimed
<1>6. TimesOk(u)
  <2> SUFFICES ASSUME NEW n \in Mtcs(s), u[n].pass # 0 PROVE \E f \in DOMAIN u : IsTimed(u, f, n)
    BY <1>5 DEF TimesOk
  <2>0. n \in DOMAIN s /\ Has(s, n, "MTC")
    BY DEF Mtcs
  <2>1. n \in R
    <3> SUFFICES ASSUME ~(n \in R) PROVE FALSE
      OBVIOUS
    <3>1. u[n] = s[n]
      BY <1>3, <2>0 DEF TimedList
    <3> QED
      BY <2>0, <3>1 DEF Untimed
  <2> DEFINE f == FirstTma(s, n)
             m == SecondTma(s, n)
  <2>2. InBlock(s, f, n) /\ f \in Tmas(s) /\ f \in DOMAIN s /\ u[n].tsc = TimeAfter(s[f], s[n].mtc) /\ u[n].mtc = s[n].mtc
    BY <1>4, <2>1 DEF Tmas
  <2>3. m # 0 /\ s[f].mtc_count < Full
    BY <2>1 DEF IsShort
  <2>4. IsNext(s, f, m) /\ n < m /\ m \in DOMAIN s
    <3>1. TmaOf(s, f, n)
      BY <2>0, <2>2 DEF TmaOf, Has
    <3>2. m # 0 => IsNext(s, f, m) /\ n < m
      <4> HIDE DEF f
      <4> QED
        BY <1>1, <2>0, <2>2, <3>1, SecondIsNext
    <3> QED
      BY <2>3, <3>2 DEF IsNext, InBlock
  <2> HIDE DEF f, m
  <2>5. Count(s[n]) < Count(s[f]) + Rollover
    BY <2>0, <2>2, <2>3, <2>4, CountUpToNext
  <2>6. InBlock(u, f, n) /\ Count(u[n]) = Count(s[n]) /\ Count(u[f]) = Count(s[f])
    BY <1>5, <2>0, <2>2, RetimedSame
  <2>7. Count(s[n]) <= Count(s[f]) + Rollover
    <3>1. Count(s[n]) \in Nat /\ Count(s[f]) \in Nat
      <4>1. s[n].at \in Nat /\ s[f].at \in Nat
        BY <1>1, <2>0, <2>2 DEF Packets
      <4> QED
        BY <4>1, Parts DEF Count
    <3> QED
      BY <2>5, <3>1, Units
  <2>8. IsTimed(u, f, n)
    BY <1>4, <2>2, <2>6, <2>7 DEF IsTimed
  <2> QED
    BY <1>5, <2>2, <2>8
<1>7. ShortTimed(u)
  <2> SUFFICES ASSUME NEW f \in DOMAIN s, NEW n \in DOMAIN s, NEW m \in DOMAIN s, InShort(u, f, n, m)
               PROVE  u[n].pass = 1
    BY <1>5 DEF ShortTimed
  <2>1. InBlock(s, f, n) /\ IsNext(s, f, m) /\ Has(s, n, "MTC")
    BY <1>5, RetimedSame DEF InShort, Types
  <2>2. FirstTma(s, n) = f /\ f \in Tmas(s) /\ f # 0
    BY <1>1, <2>1, OneFirst, ListIndices DEF InBlock
  <2>3. SecondTma(s, n) # 0
    <3>1. TmaOf(s, f, n)
      BY <2>1 DEF TmaOf, Has
    <3> QED
      BY <1>1, <2>1, <3>1, SecondIsNext
  <2>4. s[f].pass # 0 /\ s[f].mtc_count < Full
    BY <1>4, <2>2 DEF InShort
  <2>5. n \in R
    BY <2>1, <2>2, <2>3, <2>4 DEF IsShort, Mtcs
  <2> QED
    BY <1>4, <2>5
<1>8. \A n \in Tmas(u) : u[n].known_rollover_points = FALSE
  BY <1>4, <1>5 DEF Untimed, Tmas
<1> QED
  BY <1>4, <1>6, <1>7, <1>8

\* The other fields of a TMA stay.
LEMMA KnownPacket ==
  ASSUME NEW q \in Packets, NEW known \in BOOLEAN, NEW p, p = [q EXCEPT !.known_rollover_points = known]
  PROVE  /\ p \in Packets /\ p.type = q.type /\ p.at = q.at /\ SameTma(p, q)
  BY DEF Packets, SameTma

\* Rollovers are known in long blocks only.
LEMMA RolloversFound ==
  ASSUME NEW s \in Seq(Packets), \A n \in Tmas(s) : s[n].known_rollover_points = FALSE,
         NEW guessed, NEW u, u = FindRollovers(s, guessed)
  PROVE  /\ TmasStay(u, s) /\ KnownOk(u) /\ u \in Seq(Packets)
         /\ \A n \in DOMAIN s : s[n].type # "TMA" => u[n] = s[n]
<1> DEFINE Found(n) == IF n \in Unsure(s) THEN n \in guessed
                       ELSE s[n].mtc_count \div Full = Stepbacks(s, n)
           Long(n) == Has(s, n, "TMA") /\ SecondTma(s, n) # 0 /\ s[n].mtc_count >= Full
<1>1. DOMAIN s = 1 .. Len(s) /\ Len(s) \in Nat /\ \A n \in DOMAIN s : n \in Nat /\ s[n] \in Packets
  BY ListIndices
<1>2. u = [n \in DOMAIN s |-> IF Long(n) THEN [s[n] EXCEPT !.known_rollover_points = Found(n)] ELSE s[n]]
  BY DEF FindRollovers
<1>3. \A n \in DOMAIN s : Found(n) \in BOOLEAN
  <2> SUFFICES ASSUME NEW n \in DOMAIN s PROVE Found(n) \in BOOLEAN
    OBVIOUS
  <2> DEFINE i == (n \in guessed)
             e == (s[n].mtc_count \div Full = Stepbacks(s, n))
  <2>1. i \in BOOLEAN /\ e \in BOOLEAN
    BY SMT
  <2>2. CASE n \in Unsure(s)
    <3>1. Found(n) = i
      BY <2>2
    <3> QED
      BY <2>1, <3>1, Zenon
  <2>3. CASE ~(n \in Unsure(s))
    <3>1. Found(n) = e
      BY <2>3
    <3> QED
      BY <2>1, <3>1, Zenon
  <2> QED
    BY <2>2, <2>3
<1>4. \A n \in DOMAIN s : Long(n) => s[n].type = "TMA" /\ ~(s[n].mtc_count < Full)
  <2> SUFFICES ASSUME NEW n \in DOMAIN s, Long(n) PROVE s[n].type = "TMA" /\ ~(s[n].mtc_count < Full)
    OBVIOUS
  <2>1. s[n].mtc_count \in Int /\ Full \in Int /\ s[n].mtc_count >= Full
    BY <1>1, Units DEF Packets, Full
  <2> QED
    BY <2>1 DEF Has
<1> HIDE DEF Found, Long
<1>5. ASSUME NEW n \in DOMAIN s, ~Long(n) PROVE u[n] = s[n]
  BY <1>2, <1>5
<1>6. ASSUME NEW n \in DOMAIN s, Long(n)
      PROVE  u[n] \in Packets /\ u[n].type = s[n].type /\ u[n].at = s[n].at /\ SameTma(u[n], s[n])
  <2> DEFINE q == s[n]
             k == Found(n)
             p == u[n]
  <2>1. q \in Packets /\ k \in BOOLEAN /\ p = [q EXCEPT !.known_rollover_points = k]
    BY <1>1, <1>2, <1>3, <1>6
  <2> HIDE DEF p, q, k
  <2>2. p \in Packets /\ p.type = q.type /\ p.at = q.at /\ SameTma(p, q)
    BY <2>1, KnownPacket
  <2> QED
    BY <2>2 DEF p, q
<1>7. DOMAIN u = DOMAIN s /\ IsFunction(u)
  BY <1>2 DEF IsFunction
<1>8. u \in Seq(Packets)
  <2>1. \A n \in 1 .. Len(s) : u[n] \in Packets
    BY <1>1, <1>5, <1>6
  <2> QED
    BY <1>1, <1>7, <2>1, IsPacketList
<1>9. \A n \in DOMAIN s : u[n].type = s[n].type /\ u[n].at = s[n].at
  BY <1>5, <1>6
<1>10. \A n \in DOMAIN s : s[n].type # "TMA" => u[n] = s[n]
  BY <1>4, <1>5
<1>11. \A n \in Tmas(s) : SameTma(u[n], s[n])
  <2> SUFFICES ASSUME NEW n \in Tmas(s) PROVE SameTma(u[n], s[n])
    OBVIOUS
  <2>1. n \in DOMAIN s
    BY DEF Tmas
  <2> QED
    BY <1>5, <1>6, <2>1 DEF SameTma
<1>12. Retimed(u, s)
  BY <1>7, <1>8, <1>9, <1>10 DEF Retimed
<1>13. TmasStay(u, s)
  BY <1>11, <1>12 DEF TmasStay
<1>14. KnownOk(u)
  <2> SUFFICES ASSUME NEW n \in Tmas(s), u[n].known_rollover_points PROVE ~(u[n].mtc_count < Full)
    BY <1>12, RetimedSame DEF KnownOk
  <2>1. n \in DOMAIN s
    BY DEF Tmas
  <2>2. Long(n)
    BY <1>5, <2>1
  <2> QED
    BY <1>4, <1>6, <2>1, <2>2 DEF SameTma
<1> QED
  BY <1>8, <1>10, <1>13, <1>14

\* The third round
LEMMA ThirdRoundRight ==
  ASSUME NEW s, Counted(s), Untimed(s), RepairedTo(s), NEW t \in ThirdRound(s)
  PROVE  Counted(t) /\ RepairedTo(t) /\ TimesOk(t) /\ ShortOk(t) /\ KnownOk(t)
<1> DEFINE u == TimeShortBlocks(s)
<1>1. PICK guessed : t = RemoveTooLate(FindRollovers(u, guessed))
  BY DEF ThirdRound
<1> DEFINE v == FindRollovers(u, guessed)
<1>2. /\ TmasStay(u, s) /\ TimesOk(u) /\ ShortTimed(u)
      /\ \A n \in Tmas(u) : u[n].known_rollover_points = FALSE
  BY ShortBlocksTimed
<1> HIDE DEF u
<1>3. u \in Seq(Packets) /\ Counted(u) /\ RepairedTo(u) /\ IsList(u)
  BY <1>2, TmasStayCounted, TmasStayRepaired DEF TmasStay, Retimed, Counted
<1>4. /\ TmasStay(v, u) /\ KnownOk(v) /\ v \in Seq(Packets)
      /\ \A n \in DOMAIN u : u[n].type # "TMA" => v[n] = u[n]
  BY <1>2, <1>3, RolloversFound
<1> HIDE DEF v
<1>5. Counted(v) /\ RepairedTo(v)
  BY <1>3, <1>4, TmasStayCounted, TmasStayRepaired
<1>6. TimesOk(v) /\ ShortTimed(v)
  <2>1. \A n \in Mtcs(u) : v[n].pass = u[n].pass /\ v[n].tsc = u[n].tsc
    BY <1>4 DEF Mtcs, Has
  <2> QED
    BY <1>2, <1>4, <2>1, TimesStay
<1>7. t = RemoveTooLate(v)
  BY <1>1 DEF v
<1> QED
  BY <1>4, <1>5, <1>6, <1>7, RemovedTimes

\* What the fourth round times
LEMMA LongBlocksTimed ==
  ASSUME NEW s, IsList(s), TimesOk(s), ShortOk(s), KnownOk(s),
         NEW u, NEW R, NEW pass, TimedList(u, s, R, pass),
         R = {n \in Mtcs(s) : FirstTma(s, n) # 0
                              /\ (s[FirstTma(s, n)].known_rollover_points \/ s[n].pass = 0)},
         \A n \in R : pass[n] \in {2, 3}
  PROVE  /\ TmasStay(u, s) /\ u \in Seq(Packets)
         /\ TimesOk(u) /\ ShortTimed(u) /\ KnownOk(u)
<1>1. s \in Seq(Packets) /\ \A n \in DOMAIN s : n \in Nat /\ s[n] \in Packets
  BY ListIndices DEF IsList
<1>4. /\ TmasStay(u, s) /\ u \in Seq(Packets)
      /\ \A n \in Tmas(s) : u[n] = s[n]
      /\ \A n \in R : /\ u[n].pass = pass[n] /\ u[n].mtc = s[n].mtc
                      /\ InBlock(s, FirstTma(s, n), n) /\ FirstTma(s, n) \in Tmas(s)
                      /\ u[n].tsc = TimeAfter(s[FirstTma(s, n)], s[n].mtc)
  BY <1>1, SomeTimed
<1>5. Retimed(u, s) /\ DOMAIN u = DOMAIN s /\ Tmas(u) = Tmas(s) /\ Mtcs(u) = Mtcs(s)
  BY <1>4, RetimedSame DEF TmasStay, Retimed
<1>6. TimesOk(u)
  <2> SUFFICES ASSUME NEW n \in Mtcs(s), u[n].pass # 0 PROVE \E f \in DOMAIN u : IsTimed(u, f, n)
    BY <1>5 DEF TimesOk
  <2>0. n \in DOMAIN s
    BY DEF Mtcs
  <2>1. CASE n \in R
    <3> DEFINE f == FirstTma(s, n)
    <3>1. InBlock(s, f, n) /\ f \in Tmas(s) /\ f \in DOMAIN s /\ u[n].tsc = TimeAfter(s[f], s[n].mtc) /\ u[n].mtc = s[n].mtc
          /\ u[n].pass = pass[n]
      BY <1>4, <2>1 DEF Tmas
    <3> HIDE DEF f
    <3>2. InBlock(u, f, n) /\ u[f] = s[f]
      BY <1>4, <1>5, <2>0, <3>1, RetimedSame
    <3>3. u[n].pass # 1
      BY <2>1, <3>1
    <3>4. IsTimed(u, f, n)
      BY <3>1, <3>2, <3>3 DEF IsTimed
    <3> QED
      BY <1>5, <3>1, <3>4
  <2>2. CASE ~(n \in R)
    <3>1. u[n] = s[n]
      BY <2>0, <2>2 DEF TimedList
    <3>2. PICK f \in DOMAIN s : IsTimed(s, f, n)
      BY <3>1 DEF TimesOk
    <3>3. f \in Tmas(s) /\ InBlock(s, f, n)
      BY <3>2 DEF IsTimed, InBlock
    <3>4. InBlock(u, f, n) /\ u[f] = s[f]
      BY <1>4, <1>5, <2>0, <3>3, RetimedSame
    <3>5. IsTimed(u, f, n)
      BY <3>1, <3>2, <3>4 DEF IsTimed
    <3> QED
      BY <1>5, <3>5
  <2> QED
    BY <2>1, <2>2
<1>7. ShortTimed(u)
  <2> SUFFICES ASSUME NEW f \in DOMAIN s, NEW n \in DOMAIN s, NEW m \in DOMAIN s, InShort(u, f, n, m)
               PROVE  u[n].pass = 1
    BY <1>5 DEF ShortTimed
  <2>1. InBlock(s, f, n) /\ IsNext(s, f, m) /\ Has(s, n, "MTC") /\ n < m
    BY <1>5, RetimedSame DEF InShort, Types
  <2>2. FirstTma(s, n) = f /\ f \in Tmas(s)
    BY <1>1, <2>1, OneFirst DEF InBlock
  <2>3. s[f].pass # 0 /\ s[f].mtc_count < Full
    BY <1>4, <2>2 DEF InShort
  <2>4. s[n].pass = 1
    BY <2>1, <2>3 DEF ShortOk, InShort
  <2>5. ~s[f].known_rollover_points
    BY <2>2, <2>3 DEF KnownOk
  <2>6. ~(n \in R)
    BY <2>2, <2>4, <2>5
  <2> QED
    BY <2>4, <2>6 DEF TimedList
<1>8. KnownOk(u)
  BY <1>4, <1>5 DEF KnownOk
<1> QED
  BY <1>4, <1>6, <1>7, <1>8

\* The fourth round
LEMMA FourthRoundRight ==
  ASSUME NEW s, Counted(s), RepairedTo(s), TimesOk(s), ShortOk(s), KnownOk(s),
         NEW t, t = FourthRound(s)
  PROVE  Counted(t) /\ RepairedTo(t) /\ TimesOk(t) /\ ShortOk(t) /\ KnownOk(t)
<1> DEFINE known(n) == s[FirstTma(s, n)].known_rollover_points
           u == [n \in DOMAIN s |->
                  IF Has(s, n, "MTC") /\ FirstTma(s, n) # 0 /\ (known(n) \/ s[n].pass = 0)
                  THEN [s[n] EXCEPT !.tsc = TimeAfter(s[FirstTma(s, n)], s[n].mtc),
                                    !.pass = IF known(n) THEN 2 ELSE 3]
                  ELSE s[n]]
           R == {n \in Mtcs(s) : FirstTma(s, n) # 0
                              /\ (s[FirstTma(s, n)].known_rollover_points \/ s[n].pass = 0)}
           pass == [n \in R |-> IF known(n) THEN 2 ELSE 3]
<1>1. t = RemoveTooLate(u)
  BY DEF FourthRound
<1>2. TimedList(u, s, R, pass) /\ \A n \in R : pass[n] \in {2, 3}
  <2>1. DOMAIN u = DOMAIN s /\ IsFunction(u) /\ R \subseteq Mtcs(s)
    BY DEF IsFunction
  <2>2. ASSUME NEW n \in R
        PROVE  /\ FirstTma(s, n) # 0 /\ pass[n] \in 1 .. 3 /\ pass[n] \in {2, 3}
               /\ u[n] = [s[n] EXCEPT !.tsc = TimeAfter(s[FirstTma(s, n)], s[n].mtc), !.pass = pass[n]]
    <3>1. /\ n \in DOMAIN s /\ Has(s, n, "MTC") /\ FirstTma(s, n) # 0
          /\ known(n) \/ s[n].pass = 0
      BY DEF Mtcs
    <3>2. pass[n] = IF known(n) THEN 2 ELSE 3
      OBVIOUS
    <3>3. u[n] = [s[n] EXCEPT !.tsc = TimeAfter(s[FirstTma(s, n)], s[n].mtc),
                              !.pass = IF known(n) THEN 2 ELSE 3]
      BY <3>1, Zenon
    <3>4. pass[n] \in 1 .. 3 /\ pass[n] \in {2, 3}
      <4> HIDE DEF pass, known
      <4> QED
        BY <3>2
    <3> HIDE DEF u, pass
    <3> QED
      BY <3>1, <3>2, <3>3, <3>4, Zenon
  <2>3. ASSUME NEW n \in DOMAIN s, ~(n \in R) PROVE u[n] = s[n]
    <3>1. ~(Has(s, n, "MTC") /\ FirstTma(s, n) # 0 /\ (known(n) \/ s[n].pass = 0))
      BY <2>3 DEF Mtcs
    <3> QED
      BY <3>1, Zenon
  <2> HIDE DEF R, pass, u
  <2> QED
    BY <2>1, <2>2, <2>3 DEF TimedList
<1> HIDE DEF u, pass
<1>3. IsList(s)
  BY DEF Counted
<1>4. /\ TmasStay(u, s) /\ u \in Seq(Packets)
      /\ TimesOk(u) /\ ShortTimed(u) /\ KnownOk(u)
  <2>1. R = {n \in Mtcs(s) : FirstTma(s, n) # 0
                              /\ (s[FirstTma(s, n)].known_rollover_points \/ s[n].pass = 0)}
    OBVIOUS
  <2> HIDE DEF R
  <2> QED
    BY <1>2, <1>3, <2>1, LongBlocksTimed
<1>5. Counted(u) /\ RepairedTo(u)
  BY <1>3, <1>4, TmasStayCounted, TmasStayRepaired
<1> QED
  BY <1>1, <1>4, <1>5, RemovedTimes

-----------------------------------------------------------------------------
(* The overflows *)

\* An overflow that is not marked has counters around it that are the same or
\* follow each other.
AreNearest(s, i, n, j) ==
  /\ i \in Counters(s) /\ j \in Counters(s) /\ i < n /\ n < j
  /\ \A l \in Counters(s) : ~(i < l /\ l < n) /\ ~(n < l /\ l < j)
OvfOk(s) ==
  \A n, i, j \in DOMAIN s :
    Has(s, n, "OVF") /\ ~s[n].ovf_tsc_lost /\ AreNearest(s, i, n, j) => NoneMissing((s[j].mtc - s[i].mtc) % Rollover)

\* The counters around a packet are those that the fifth round looks at.
LEMMA NearestCounters ==
  ASSUME NEW s \in Seq(Packets), NEW i \in DOMAIN s, NEW n \in DOMAIN s, NEW j \in DOMAIN s,
         AreNearest(s, i, n, j)
  PROVE  Before(Counters(s), n) = i /\ After(Counters(s), n) = j /\ i # 0 /\ j # 0
<1> DEFINE C == Counters(s)
           b == Before(C, n)
           a == After(C, n)
<1>1. C \subseteq Nat /\ n \in Nat /\ i \in Nat /\ j \in Nat /\ i # 0 /\ j # 0
  BY ListIndices
<1>2. i \in C /\ j \in C /\ i < n /\ n < j /\ \A l \in C : ~(i < l /\ l < n) /\ ~(n < l /\ l < j)
  BY DEF AreNearest
<1>3. \/ b = 0 /\ \A x \in C : x < n => x = 0
      \/ b \in C /\ b < n /\ \A x \in C : x < n => x <= b
  <2> HIDE DEF C
  <2> QED
    BY <1>1, BeforeCases
<1>4. \/ a = 0 /\ \A x \in C : ~(x > n)
      \/ a \in C /\ a > n /\ \A x \in C : x > n => a <= x
  <2> HIDE DEF C
  <2> QED
    BY <1>1, AfterCases
<1> HIDE DEF a, b, C
<1>5. b = i
  <2>1. b \in C /\ b < n /\ i <= b
    BY <1>1, <1>2, <1>3
  <2> QED
    BY <1>1, <1>2, <2>1
<1>6. a = j
  <2>1. j > n
    BY <1>1, <1>2
  <2>2. a \in C /\ a > n /\ a <= j
    BY <1>2, <1>4, <2>1
  <2> QED
    BY <1>1, <1>2, <2>2
<1> QED
  BY <1>1, <1>5, <1>6 DEF a, b, C

\* The other fields of an overflow stay.
LEMMA OvfPacket ==
  ASSUME NEW q \in Packets, NEW lost \in BOOLEAN, NEW p, p = [q EXCEPT !.ovf_tsc_lost = lost]
  PROVE  p \in Packets /\ p.type = q.type /\ p.at = q.at /\ p.ovf_tsc_lost = lost
  BY DEF Packets

\* The fifth round marks every overflow around which more than one MTC is missing.
LEMMA FifthRoundRight ==
  ASSUME NEW s, Counted(s), RepairedTo(s), TimesOk(s), ShortOk(s),
         NEW u, u = FifthRound(s)
  PROVE  Counted(u) /\ RepairedTo(u) /\ TimesOk(u) /\ ShortOk(u) /\ OvfOk(u)
<1> DEFINE C == Counters(s)
           before(n) == IF Before(C, n) = 0 THEN 0 ELSE s[Before(C, n)].mtc
           difference(n) == (s[After(C, n)].mtc - before(n)) % Rollover
           Lost(n) == n = 1 \/ (After(C, n) # 0 /\ ~NoneMissing(difference(n)))
<1>1. /\ s \in Seq(Packets) /\ DOMAIN s = 1 .. Len(s) /\ Len(s) \in Nat
      /\ \A n \in DOMAIN s : n \in Nat /\ s[n] \in Packets
  BY ListIndices DEF Counted, IsList
<1>2. u = [n \in DOMAIN s |-> IF Has(s, n, "OVF") THEN [s[n] EXCEPT !.ovf_tsc_lost = Lost(n)] ELSE s[n]]
  BY DEF FifthRound
<1>3. \A n \in DOMAIN s : Lost(n) \in BOOLEAN
  OBVIOUS
<1> HIDE DEF Lost
<1>4. ASSUME NEW n \in DOMAIN s, ~Has(s, n, "OVF") PROVE u[n] = s[n]
  BY <1>2, <1>4
<1>5. ASSUME NEW n \in DOMAIN s, Has(s, n, "OVF")
      PROVE  u[n] \in Packets /\ u[n].type = s[n].type /\ u[n].at = s[n].at /\ u[n].ovf_tsc_lost = Lost(n)
  <2> DEFINE q == s[n]
             k == Lost(n)
             p == u[n]
  <2>1. q \in Packets /\ k \in BOOLEAN /\ p = [q EXCEPT !.ovf_tsc_lost = k]
    BY <1>1, <1>2, <1>3, <1>5
  <2> HIDE DEF p, q, k
  <2>2. p \in Packets /\ p.type = q.type /\ p.at = q.at /\ p.ovf_tsc_lost = k
    BY <2>1, OvfPacket
  <2> QED
    BY <2>2 DEF p, q, k
<1>6. DOMAIN u = DOMAIN s /\ IsFunction(u)
  BY <1>2 DEF IsFunction
<1>7. u \in Seq(Packets)
  <2>1. \A n \in 1 .. Len(s) : u[n] \in Packets
    BY <1>1, <1>4, <1>5
  <2> QED
    BY <1>1, <1>6, <2>1, IsPacketList
<1>8. \A n \in DOMAIN s : u[n].type = s[n].type /\ u[n].at = s[n].at
  BY <1>4, <1>5
<1>9. \A n \in DOMAIN s : s[n].type # "OVF" => u[n] = s[n]
  BY <1>4 DEF Has
<1>10. Retimed(u, s)
  BY <1>6, <1>7, <1>8, <1>9 DEF Retimed
<1>11. TmasStay(u, s)
  <2>1. \A n \in Tmas(s) : u[n] = s[n]
    BY <1>9 DEF Tmas, Has
  <2> QED
    BY <1>10, <2>1 DEF TmasStay, SameTma
<1>12. TimesOk(u) /\ ShortOk(u)
  <2>1. \A n \in Mtcs(s) : u[n] = s[n]
    BY <1>9 DEF Mtcs, Has
  <2> QED
    BY <1>11, <2>1, TimesStay
<1>13. OvfOk(u)
  <2> SUFFICES ASSUME NEW n \in DOMAIN s, NEW i \in DOMAIN s, NEW j \in DOMAIN s,
                      Has(u, n, "OVF"), ~u[n].ovf_tsc_lost, AreNearest(u, i, n, j)
               PROVE  NoneMissing((u[j].mtc - u[i].mtc) % Rollover)
    BY <1>6 DEF OvfOk
  <2>1. AreNearest(s, i, n, j) /\ Counters(u) = C
    BY <1>10, RetimedSame DEF AreNearest
  <2>2. Before(C, n) = i /\ After(C, n) = j /\ i # 0 /\ j # 0
    BY <1>1, <2>1, NearestCounters
  <2>3. u[i] = s[i] /\ u[j] = s[j]
    <3>1. i \in C /\ j \in C
      BY <2>1 DEF AreNearest
    <3> QED
      BY <1>9, <3>1 DEF Counters, Tmas, Mtcs, Has
  <2>4. ~Lost(n)
    BY <1>5, <1>8 DEF Has
  <2>5. NoneMissing(difference(n))
    BY <2>2, <2>4 DEF Lost
  <2>6. difference(n) = (s[j].mtc - s[i].mtc) % Rollover
    BY <2>2
  <2> QED
    BY <2>3, <2>5, <2>6
<1> QED
  BY <1>11, <1>12, <1>13, TmasStayCounted, TmasStayRepaired DEF Counted

-----------------------------------------------------------------------------
(* The invariant *)

\* The types of the flags
Flags == overflow \in BOOLEAN /\ wait_for_tma \in BOOLEAN /\ in_psb \in BOOLEAN

\* What each round leaves for the ones after it
RoundInv ==
  /\ phase \in {"second", "third", "fourth", "fifth", "done"} => Counted(tscs)
  /\ phase = "second" => Unrepaired(tscs)
  /\ phase \in {"second", "third"} => Untimed(tscs)
  /\ phase \in {"third", "fourth", "fifth", "done"} => RepairedTo(tscs)
  /\ phase \in {"fourth", "fifth", "done"} => TimesOk(tscs) /\ ShortOk(tscs)
  /\ phase \in {"fourth", "fifth"} => KnownOk(tscs)
  /\ phase = "done" => OvfOk(tscs)

\* The inductive invariant
Inv == CollectInv /\ Flags /\ RoundInv

\* Before anything is recorded
LEMMA InvInit == Init => Inv
<1> SUFFICES ASSUME Init PROVE Inv
  OBVIOUS
<1>1. CollectInv
  BY CollectInit
<1>2. phase = "record" /\ Flags
  BY DEF Init, Flags
<1> QED
  BY <1>1, <1>2 DEF Inv, RoundInv

\* The flags of the collecting parser are flags.
LEMMA FlagsNext == Flags /\ [Next]_vars => Flags'
<1> SUFFICES ASSUME Flags, [Next]_vars PROVE Flags'
  OBVIOUS
<1>1. CASE MtcsPass
  BY <1>1 DEF MtcsPass, Flags
<1>2. CASE TimeSent
  <2>1. PICK psb \in BOOLEAN, all \in BOOLEAN, times \in {<<>>, <<"TSC">>, <<"TSC", "TMA">>} :
          /\ wait_for_tma' = IF times = <<>> THEN wait_for_tma ELSE times = <<"TSC">>
          /\ in_psb' = IF psb THEN ~all ELSE in_psb
          /\ overflow' = ~all
    BY <1>2 DEF TimeSent
  <2>2. (times = <<"TSC">>) \in BOOLEAN
    OBVIOUS
  <2>3. wait_for_tma' \in BOOLEAN
    BY <2>1, <2>2 DEF Flags
  <2>4. overflow' \in BOOLEAN /\ in_psb' \in BOOLEAN
    BY <2>1 DEF Flags
  <2> QED
    BY <2>3, <2>4 DEF Flags
<1>3. CASE OverflowEnds
  BY <1>3 DEF OverflowEnds, Flags
<1>4. CASE Stop
  BY <1>4 DEF Stop, Flags
<1>5. CASE First \/ Second \/ Third \/ Fourth \/ Fifth
  BY <1>5 DEF First, Second, Third, Fourth, Fifth, Round, Flags
<1>6. CASE UNCHANGED vars
  BY <1>6 DEF vars, Flags
<1> QED
  BY <1>1, <1>2, <1>3, <1>4, <1>5, <1>6 DEF Next, Done, Endless

\* Each round finds what the one before has left.
LEMMA RoundNext == CollectInv /\ RoundInv /\ [Next]_vars => RoundInv'
<1> SUFFICES ASSUME CollectInv, RoundInv, [Next]_vars PROVE RoundInv'
  OBVIOUS
<1>1. CASE MtcsPass \/ TimeSent \/ OverflowEnds
  <2>1. phase' = "record"
    BY <1>1 DEF MtcsPass, TimeSent, OverflowEnds, Event
  <2> QED
    BY <2>1 DEF RoundInv
<1>2. CASE Stop
  BY <1>2 DEF Stop, RoundInv
<1>3. CASE First
  <2>1. phase = "first" /\ phase' = "second" /\ tscs' = FirstRound(tscs)
    BY <1>3 DEF First, Round
  <2>2. IsList(tscs) /\ Untimed(tscs) /\ Sent(tscs)
    BY <2>1 DEF CollectInv, Collected
  <2>3. Counted(tscs') /\ Unrepaired(tscs') /\ Untimed(tscs')
    BY <2>1, <2>2, FirstRoundRight
  <2> QED
    BY <2>1, <2>3 DEF RoundInv
<1>4. CASE Second
  <2>1. phase = "second" /\ phase' = "third" /\ tscs' \in SecondRound(tscs)
    BY <1>4 DEF Second, Round
  <2>2. Counted(tscs) /\ Unrepaired(tscs) /\ Untimed(tscs)
    BY <2>1 DEF RoundInv
  <2>3. Counted(tscs') /\ Untimed(tscs') /\ RepairedTo(tscs')
    BY <2>1, <2>2, SecondRoundRight
  <2> QED
    BY <2>1, <2>3 DEF RoundInv
<1>5. CASE Third
  <2>1. phase = "third" /\ phase' = "fourth" /\ tscs' \in ThirdRound(tscs)
    BY <1>5 DEF Third, Round
  <2>2. Counted(tscs) /\ Untimed(tscs) /\ RepairedTo(tscs)
    BY <2>1 DEF RoundInv
  <2>3. Counted(tscs') /\ RepairedTo(tscs') /\ TimesOk(tscs') /\ ShortOk(tscs') /\ KnownOk(tscs')
    BY <2>1, <2>2, ThirdRoundRight
  <2> QED
    BY <2>1, <2>3 DEF RoundInv
<1>6. CASE Fourth
  <2>1. phase = "fourth" /\ phase' = "fifth" /\ tscs' = FourthRound(tscs)
    BY <1>6 DEF Fourth, Round
  <2>2. Counted(tscs) /\ RepairedTo(tscs) /\ TimesOk(tscs) /\ ShortOk(tscs) /\ KnownOk(tscs)
    BY <2>1 DEF RoundInv
  <2>3. Counted(tscs') /\ RepairedTo(tscs') /\ TimesOk(tscs') /\ ShortOk(tscs') /\ KnownOk(tscs')
    BY <2>1, <2>2, FourthRoundRight
  <2> QED
    BY <2>1, <2>3 DEF RoundInv
<1>7. CASE Fifth
  <2>1. phase = "fifth" /\ phase' = "done" /\ tscs' = FifthRound(tscs)
    BY <1>7 DEF Fifth, Round
  <2>2. Counted(tscs) /\ RepairedTo(tscs) /\ TimesOk(tscs) /\ ShortOk(tscs)
    BY <2>1 DEF RoundInv
  <2>3. Counted(tscs') /\ RepairedTo(tscs') /\ TimesOk(tscs') /\ ShortOk(tscs') /\ OvfOk(tscs')
    BY <2>1, <2>2, FifthRoundRight
  <2> QED
    BY <2>1, <2>3 DEF RoundInv
<1>8. CASE UNCHANGED vars
  <2>1. phase' = phase /\ tscs' = tscs
    BY <1>8 DEF vars
  <2> QED
    BY <2>1 DEF RoundInv
<1> QED
  BY <1>1, <1>2, <1>3, <1>4, <1>5, <1>6, <1>7, <1>8 DEF Next, Done, Endless

\* The inductive invariant: what was collected, and what the rounds have made of it
THEOREM TimingInvariance == Spec => []Inv
<1>1. Init => Inv
  BY InvInit
<1>2. Inv /\ [Next]_vars => Inv'
  BY CollectNext, FlagsNext, RoundNext DEF Inv
<1> QED
  BY <1>1, <1>2, PTL DEF Spec

\* A state of which the list has been counted and repaired
LEMMA InvCounted ==
  ASSUME Inv, phase \in RoundPhases \ {"first", "second"} \/ phase = "done"
  PROVE  Counted(tscs) /\ RepairedTo(tscs)
  BY DEF Inv, RoundInv, RoundPhases

-----------------------------------------------------------------------------
(* The properties *)

\* Up to the first complete block the counts of the TMAs are right, for counters of
\* any width, over any number of lost MTCs (tsc_heuristics_second_round).
THEOREM CountsRepaired == Spec => []RepairedToComplete
<1>1. Inv => RepairedToComplete
  <2> SUFFICES ASSUME Inv, phase \in RoundPhases \ {"first", "second"},
                      NEW n \in Complete, \A m \in Tmas(tscs) : m < n => tscs[m].pass # 1,
                      NEW m \in Tmas(tscs), m <= n
               PROVE  IsRight(m)
    BY DEF RepairedToComplete
  <2>1. Counted(tscs) /\ RepairedTo(tscs)
    BY InvCounted
  <2>2. /\ n \in Tmas(tscs) /\ n \in DOMAIN tscs /\ tscs[n].pass = 1 /\ ~Has(tscs, n + 1, "OVF")
        /\ TrueCount(n, SecondTma(tscs, n)) < Half
    BY DEF Complete, Tmas
  <2>3. PICK l \in DOMAIN tscs : IsNext(tscs, n, l)
    BY <2>1, <2>2 DEF Counted, IsTma
  <2>4. SecondTma(tscs, n) = l
    BY <2>1, <2>2, <2>3, OneNext DEF Counted, IsList
  <2>5. LooksComplete(tscs, n, l)
    BY <2>2, <2>3, <2>4 DEF LooksComplete, TrueCount, Count
  <2>6. IsTrue(tscs, m)
    BY <2>1, <2>2, <2>5 DEF RepairedTo
  <2> QED
    BY <2>6 DEF IsTrue, IsRight
<1> QED
  BY <1>1, TimingInvariance, PTL

\* A time is from the TMA whose block the MTC is in.
LEMMA TimedFrom ==
  ASSUME NEW s, Counted(s), TimesOk(s), NEW n \in Mtcs(s), s[n].pass # 0
  PROVE  /\ FirstTma(s, n) \in Tmas(s) /\ IsTimed(s, FirstTma(s, n), n)
         /\ n \in DOMAIN s /\ n \in Nat /\ FirstTma(s, n) \in DOMAIN s
         /\ FirstTma(s, n) \in Nat /\ FirstTma(s, n) < n
<1>1. s \in Seq(Packets) /\ n \in DOMAIN s
  BY DEF Counted, IsList, Mtcs
<1>2. PICK f \in DOMAIN s : IsTimed(s, f, n)
  BY DEF TimesOk
<1>3. FirstTma(s, n) = f /\ f \in Tmas(s) /\ f < n
  BY <1>1, <1>2, OneFirst DEF IsTimed, InBlock
<1> QED
  BY <1>1, <1>2, <1>3, ListIndices

\* An MTC that was timed in the third round after a TMA whose count is right is off
\* by no more than an MTC period and a tick (tsc_heuristics_third_round).
THEOREM TimesRight == Spec => []TimedRight
<1>1. Inv => TimedRight
  <2> SUFFICES ASSUME Inv, phase = "done", NEW n \in Mtcs(tscs), tscs[n].pass = 1,
                      IsRight(FirstTma(tscs, n))
               PROVE  Distance(tscs[n].tsc, tscs[n].at) <= PerMtc + Ratio
    BY DEF TimedRight
  <2>1. Counted(tscs) /\ TimesOk(tscs)
    BY DEF Inv, RoundInv
  <2> DEFINE f == FirstTma(tscs, n)
  <2>2. f \in Tmas(tscs) /\ IsTimed(tscs, f, n) /\ n \in DOMAIN tscs /\ f \in DOMAIN tscs /\ f < n
    BY <2>1, TimedFrom
  <2>3. IsRight(f)
    OBVIOUS
  <2> HIDE DEF f
  <2> DEFINE a == tscs[f].at
             tma == tscs[f]
             k == Count(tscs[n])
  <2>4. a \in Nat /\ k \in Nat
    <3>1. tscs[f].at \in Nat /\ tscs[n].at \in Nat
      BY <2>1, <2>2, ListIndices DEF Counted, IsList, Packets
    <3> QED
      BY <3>1, Parts DEF Count
  <2>5. IsTmaOf(tma, a)
    BY <2>1, <2>2, <2>3 DEF IsTmaOf, IsRight, Counted, IsTma, NextMtcFrom
  <2>6. a \div PerMtc < k
    <3>1. Has(tscs, n, "MTC")
      BY DEF Mtcs
    <3>2. Count(tscs[f]) < Count(tscs[n])
      BY <2>1, <2>2, <3>1 DEF Counted, IsList, Ordered
    <3> QED
      BY <3>2 DEF Count
  <2>7. k <= a \div PerMtc + Rollover
    BY <2>2 DEF IsTimed, Count
  <2>8. tscs[n].mtc = k % Rollover /\ tscs[n].at = PerMtc * k
    <3>1. tscs[n].mtc = MtcAt(tscs[n].at) /\ tscs[n].at = PerMtc * Count(tscs[n])
      BY <2>1 DEF Counted, IsList, MtcsRight
    <3> QED
      BY <3>1 DEF MtcAt, Count
  <2>9. tscs[n].tsc = TimeAfter(tma, k % Rollover)
    BY <2>2, <2>8 DEF IsTimed
  <2> HIDE DEF a, tma, k
  <2>10. Distance(TimeAfter(tma, k % Rollover), PerMtc * k) <= PerMtc + Ratio
    BY <2>4, <2>5, <2>6, <2>7, TimedWithinAPeriod
  <2> QED
    BY <2>8, <2>9, <2>10
<1> QED
  BY <1>1, TimingInvariance, PTL

\* An MTC in the block of a TMA comes before the next one.
LEMMA BeforeNext ==
  ASSUME NEW s \in Seq(Packets), NEW f \in DOMAIN s, NEW n \in DOMAIN s, NEW m \in DOMAIN s,
         InBlock(s, f, n), n \in Mtcs(s), IsNext(s, f, m)
  PROVE  n < m
<1>1. n \in Nat /\ m \in Nat
  BY ListIndices
<1>2. Has(s, n, "MTC") /\ Has(s, m, "TMA") /\ f < m
  BY DEF IsNext, InBlock, Mtcs
<1>3. ~(m < n) /\ m # n
  BY <1>2 DEF InBlock, Has
<1> QED
  BY <1>1, <1>3

\* The time less than a rollover after a TMA whose count is right
LEMMA TimeAfterIs ==
  ASSUME NEW p, NEW i \in Nat, NEW k \in Nat, p.mtc = i % Rollover, p.tsc_in_next_mtc \in Nat,
         i < k, k <= i + Rollover
  PROVE  TimeAfter(p, k % Rollover) = p.tsc_in_next_mtc + (k - i - 1) * PerMtc
  BY CountsApart DEF TimeAfter

\* No time is before the first MTC after the TMA.
LEMMA TimeAfterBegin ==
  ASSUME NEW p \in Packets, NEW mtc \in 0 .. Rollover - 1
  PROVE  p.tsc_in_next_mtc <= TimeAfter(p, mtc)
<1> DEFINE d == mtc - (p.mtc + 1)
           r == d % Rollover
<1>1. d \in Int /\ p.tsc_in_next_mtc \in Int
  BY Units DEF Packets
<1> HIDE DEF d
<1>2. r \in Nat
  BY <1>1, Units, DivMod
<1> HIDE DEF r
<1>3. r * PerMtc \in Nat
  BY <1>2, Units
<1>4. TimeAfter(p, mtc) = p.tsc_in_next_mtc + r * PerMtc
  BY DEF TimeAfter, r, d
<1> QED
  BY <1>1, <1>3, <1>4

\* The time after a TMA whose count is right grows with the count.
LEMMA TimesGrow ==
  ASSUME NEW p, NEW i \in Nat, NEW k \in Nat, NEW l \in Nat, p.mtc = i % Rollover, p.tsc_in_next_mtc \in Nat,
         i < k, k < l, l <= i + Rollover
  PROVE  TimeAfter(p, k % Rollover) < TimeAfter(p, l % Rollover)
<1> DEFINE t == p.tsc_in_next_mtc
           x == k - i - 1
           y == l - i - 1
<1>0. Rollover \in Nat /\ k <= i + Rollover
  BY Units
<1>1. TimeAfter(p, k % Rollover) = t + x * PerMtc
  BY <1>0, TimeAfterIs
<1>2. TimeAfter(p, l % Rollover) = t + y * PerMtc
  <2>1. i < l
    OBVIOUS
  <2> QED
    BY <2>1, TimeAfterIs
<1>3. t \in Nat /\ x \in Int /\ y \in Int /\ x + 1 <= y
  OBVIOUS
<1> HIDE DEF t, x, y
<1>4. PerMtc * (x + 1) <= PerMtc * y
  BY <1>3, Units, Monotone
<1>5. PerMtc * (x + 1) = x * PerMtc + PerMtc /\ PerMtc * y = y * PerMtc /\ x * PerMtc \in Int /\ y * PerMtc \in Int
  BY <1>3, Units
<1>6. t + x * PerMtc < t + y * PerMtc
  <2> DEFINE xx == x * PerMtc
             yy == y * PerMtc
  <2>1. xx \in Int /\ yy \in Int /\ xx + PerMtc <= yy
    BY <1>4, <1>5
  <2> HIDE DEF xx, yy
  <2>2. t + xx < t + yy
    BY <1>3, <2>1, Units
  <2> QED
    BY <2>2 DEF xx, yy
<1> QED
  BY <1>1, <1>2, <1>6

\* Nothing rolls over after a TMA.
NoRollover(s, f) ==
  /\ s[f].mtc = MtcAt(s[f].at) /\ s[f].pass # 0 /\ s[f].mtc_count < Full
  /\ Count(s[Len(s)]) - Count(s[f]) < Full \/ SecondTma(s, f) # 0

\* In one block
LEMMA SameBlock ==
  ASSUME NEW s, Counted(s), NEW f \in Tmas(s), NEW n \in Mtcs(s), NEW m \in Mtcs(s), n < m,
         IsTimed(s, f, n), IsTimed(s, f, m), NoRollover(s, f)
  PROVE  s[n].tsc < s[m].tsc
<1>1. /\ s \in Seq(Packets) /\ DOMAIN s = 1 .. Len(s) /\ Len(s) \in Nat
      /\ f \in DOMAIN s /\ n \in DOMAIN s /\ m \in DOMAIN s
      /\ \A i \in DOMAIN s : i \in Nat /\ s[i] \in Packets /\ s[i].at \in Nat /\ Count(s[i]) \in Nat
  <2>1. s \in Seq(Packets) /\ f \in DOMAIN s /\ n \in DOMAIN s /\ m \in DOMAIN s
    BY DEF Counted, IsList, Tmas, Mtcs
  <2>2. \A i \in DOMAIN s : i \in Nat /\ s[i] \in Packets /\ s[i].at \in Nat
    BY <2>1, ListIndices DEF Packets
  <2>3. \A i \in DOMAIN s : Count(s[i]) \in Nat
    BY <2>2, Parts DEF Count
  <2> QED
    BY <2>1, <2>2, <2>3
<1>2. Count(s[m]) <= Count(s[f]) + Rollover
  <2>1. CASE SecondTma(s, f) # 0
    <3> DEFINE b == SecondTma(s, f)
    <3>1. IsNext(s, f, b)
      <4>1. TmaOf(s, f, f)
        BY DEF TmaOf, Tmas
      <4> QED
        BY <1>1, <2>1, <4>1, SecondIsNext
    <3> HIDE DEF b
    <3>2. b \in DOMAIN s
      BY <3>1 DEF IsNext, InBlock
    <3>3. InBlock(s, f, m)
      BY DEF IsTimed
    <3>4. m < b
      BY <1>1, <3>1, <3>2, <3>3, BeforeNext
    <3>5. Count(s[m]) < Count(s[f]) + Rollover
      BY <1>1, <3>1, <3>2, <3>3, <3>4, CountUpToNext DEF NoRollover
    <3> QED
      BY <1>1, <3>5, Units
  <2>2. CASE SecondTma(s, f) = 0
    <3> DEFINE z == Len(s)
    <3>1. z \in DOMAIN s /\ m <= z
      BY <1>1
    <3> HIDE DEF z
    <3>2. s[m].at <= s[z].at
      <4>1. CASE m = z
        BY <1>1, <4>1
      <4>2. CASE m < z
        BY <1>1, <3>1, <4>2 DEF Counted, IsList, Ordered
      <4> QED
        BY <1>1, <3>1, <4>1, <4>2
    <3>3. Count(s[m]) <= Count(s[z])
      BY <1>1, <3>1, <3>2, CountGrows DEF Count
    <3>4. Count(s[z]) - Count(s[f]) < Full
      BY <2>2 DEF NoRollover, z
    <3> DEFINE x == Count(s[m])
               y == Count(s[z])
               w == Count(s[f])
    <3>5. x \in Nat /\ y \in Nat /\ w \in Nat /\ x <= y /\ y - w < Full
      BY <1>1, <3>1, <3>3, <3>4
    <3> HIDE DEF x, y, w
    <3>6. x <= w + Rollover
      BY <3>5, Units DEF Full
    <3> QED
      BY <3>6 DEF x, w
  <2> QED
    BY <2>1, <2>2
<1>3. Count(s[f]) < Count(s[n]) /\ Count(s[n]) < Count(s[m])
  <2>1. f < n /\ Has(s, n, "MTC") /\ Has(s, m, "MTC")
    BY DEF IsTimed, InBlock, Mtcs
  <2> QED
    BY <1>1, <2>1 DEF Counted, IsList, Ordered
<1>4. s[n].mtc = Count(s[n]) % Rollover /\ s[m].mtc = Count(s[m]) % Rollover /\ s[f].mtc = Count(s[f]) % Rollover
  BY <1>1 DEF Counted, IsList, MtcsRight, MtcAt, Count, NoRollover
<1>5. s[f].tsc_in_next_mtc \in Nat
  BY ZenonT(30), <1>1, NextMtcFromType DEF Counted, IsTma
<1> DEFINE p == s[f]
           i == Count(s[f])
           k == Count(s[n])
           l == Count(s[m])
<1>6. i \in Nat /\ k \in Nat /\ l \in Nat /\ p.mtc = i % Rollover /\ p.tsc_in_next_mtc \in Nat
      /\ i < k /\ k < l /\ l <= i + Rollover
  BY <1>1, <1>2, <1>3, <1>4, <1>5
<1>7. s[n].tsc = TimeAfter(p, k % Rollover) /\ s[m].tsc = TimeAfter(p, l % Rollover)
  BY <1>4 DEF IsTimed
<1> HIDE DEF p, i, k, l
<1>8. TimeAfter(p, k % Rollover) < TimeAfter(p, l % Rollover)
  BY <1>6, TimesGrow
<1> QED
  BY <1>7, <1>8

\* In different blocks
LEMMA OtherBlock ==
  ASSUME NEW s, Counted(s), ShortOk(s), NEW f \in Tmas(s), NEW g \in Tmas(s), f # g,
         NEW n \in Mtcs(s), NEW m \in Mtcs(s), n < m,
         IsTimed(s, f, n), IsTimed(s, g, m), NoRollover(s, f)
  PROVE  s[n].tsc < s[m].tsc
<1>1. /\ s \in Seq(Packets)
      /\ f \in DOMAIN s /\ n \in DOMAIN s /\ m \in DOMAIN s /\ g \in DOMAIN s
      /\ \A i \in DOMAIN s : i \in Nat /\ s[i] \in Packets /\ s[i].at \in Nat
  <2>1. s \in Seq(Packets) /\ f \in DOMAIN s /\ n \in DOMAIN s /\ m \in DOMAIN s /\ g \in DOMAIN s
    BY DEF Counted, IsList, Tmas, Mtcs
  <2> QED
    BY <2>1, ListIndices DEF Packets
<1>2. /\ InBlock(s, f, n) /\ InBlock(s, g, m) /\ f < n /\ g < m
      /\ Has(s, f, "TMA") /\ Has(s, g, "TMA") /\ Has(s, n, "MTC")
  BY DEF IsTimed, InBlock, Mtcs, Tmas
<1>3. f < g
  <2>1. ~(g < f /\ f < m)
    BY <1>1, <1>2 DEF InBlock
  <2> QED
    BY <1>1, <1>2, <2>1
<1> DEFINE b == SecondTma(s, f)
<1>4. IsNext(s, f, b) /\ b \in DOMAIN s
  <2>1. b # 0
    BY <1>1, <1>3, SecondIs
  <2>2. TmaOf(s, f, f)
    BY <1>2 DEF TmaOf
  <2>3. IsNext(s, f, b)
    BY <1>1, <2>1, <2>2, SecondIsNext
  <2> QED
    BY <2>3 DEF IsNext, InBlock
<1> HIDE DEF b
<1>5. n < b
  BY <1>1, <1>2, <1>4, BeforeNext
<1>6. b <= g
  <2>1. ~(g < b)
    BY <1>1, <1>2, <1>3, <1>4 DEF IsNext, InBlock
  <2> QED
    BY <1>1, <1>4, <2>1
<1>7. s[n].tsc <= s[b].tsc
  BY <1>1, <1>2, <1>4, <1>5 DEF ShortOk, InShort, NoRollover
<1>8. s[b].tsc = s[b].at
  <2>1. b \in Tmas(s)
    BY <1>4 DEF IsNext, Tmas
  <2> QED
    BY <2>1 DEF Counted, IsTma
<1>9. s[b].at <= s[g].at
  <2>1. CASE b = g
    BY <1>1, <2>1
  <2>2. CASE b < g
    BY <1>1, <1>4, <2>2 DEF Counted, IsList, Ordered
  <2> QED
    BY <1>1, <1>4, <1>6, <2>1, <2>2
<1>10. s[g].at < s[g].tsc_in_next_mtc
  <2>1. s[g].tsc_in_next_mtc = NextMtcFrom(s[g].at)
    BY DEF Counted, IsTma
  <2>2. NextMtcFrom(s[g].at) > s[g].at /\ NextMtcFrom(s[g].at) \in Nat
    BY <1>1, NextMtcFromType
  <2> QED
    BY <1>1, <2>1, <2>2
<1>11. s[g].tsc_in_next_mtc <= s[m].tsc
  <2> DEFINE p == s[g]
             c == s[m].mtc
  <2>1. p \in Packets /\ c \in 0 .. Rollover - 1
    BY <1>1 DEF Packets
  <2>2. s[m].tsc = TimeAfter(p, c)
    BY DEF IsTimed
  <2> HIDE DEF p, c
  <2>3. p.tsc_in_next_mtc <= TimeAfter(p, c)
    BY <2>1, TimeAfterBegin
  <2> QED
    BY <2>2, <2>3 DEF p
<1>12. s[n].tsc \in Int /\ s[m].tsc \in Int /\ s[b].at \in Int /\ s[g].at \in Int /\ s[g].tsc_in_next_mtc \in Int
  <2>1. s[n] \in Packets /\ s[m] \in Packets /\ s[g] \in Packets /\ s[b].at \in Nat /\ s[g].at \in Nat
    BY <1>1, <1>4
  <2>2. s[n].tsc \in Int /\ s[m].tsc \in Int /\ s[g].tsc_in_next_mtc \in Int
    BY <2>1 DEF Packets
  <2> QED
    BY <2>1, <2>2
<1> QED
  BY <1>7, <1>8, <1>9, <1>10, <1>11, <1>12

\* is_sane holds of the result when all counts are right and nothing rolls over: the
\* times that are left go up within a block and from block to block.
THEOREM TimesAreSane == Spec => []Sane
<1>1. Inv => Sane
  <2> SUFFICES ASSUME Inv, phase = "done",
                      \A n \in Tmas(tscs) : /\ IsRight(n) /\ tscs[n].pass # 0
                                           /\ tscs[n].mtc_count < Full
                                           /\ (TrueCount(n, Len(tscs)) < Full
                                               \/ SecondTma(tscs, n) # 0),
                      NEW n \in Mtcs(tscs), NEW m \in Mtcs(tscs),
                      n < m, tscs[n].pass # 0, tscs[m].pass # 0
               PROVE  tscs[n].tsc < tscs[m].tsc
    BY DEF Sane
  <2>1. Counted(tscs) /\ TimesOk(tscs) /\ ShortOk(tscs)
    BY DEF Inv, RoundInv
  <2>2. \A i \in Tmas(tscs) : NoRollover(tscs, i)
    BY DEF NoRollover, IsRight, TrueCount, Count
  <2> DEFINE f == FirstTma(tscs, n)
             g == FirstTma(tscs, m)
  <2>3. f \in Tmas(tscs) /\ IsTimed(tscs, f, n)
    BY <2>1, TimedFrom
  <2>4. g \in Tmas(tscs) /\ IsTimed(tscs, g, m)
    BY <2>1, TimedFrom
  <2> HIDE DEF f, g
  <2>5. CASE f = g
    BY <2>1, <2>2, <2>3, <2>4, <2>5, SameBlock
  <2>6. CASE f # g
    BY <2>1, <2>2, <2>3, <2>4, <2>6, OtherBlock
  <2> QED
    BY <2>5, <2>6
<1> QED
  BY <1>1, TimingInvariance, PTL

\* A count of which the highest bit may be wrong
IsNearly(mtc, k) == mtc \in {k % Half, (k % Half) + Half}

\* Two counts whose highest bits may be wrong tell whether less than half a rollover
\* between them is one MTC at most.
LEMMA CountersAgree ==
  ASSUME NEW x, NEW y, NEW k \in Nat, NEW l \in Nat, IsNearly(x, k), IsNearly(y, l),
         k <= l, l - k < Half, NoneMissing((y - x) % Rollover)
  PROVE  l - k <= 1
<1> DEFINE kr == k % Half
           kq == k \div Half
           lr == l % Half
           lq == l \div Half
<1>1. Half \in Nat \ {0} /\ 2 <= Half /\ Rollover = 2 * Half /\ Rollover \in Nat \ {0}
  BY Widths, Units
<1>2. kq \in Int /\ kr \in 0 .. Half - 1 /\ k = Half * kq + kr
  <2> DEFINE h == Half
  <2>1. h \in Nat \ {0} /\ k \in Int
    BY <1>1
  <2> HIDE DEF h
  <2>2. k \div h \in Int /\ k % h \in 0 .. h - 1 /\ k = h * (k \div h) + (k % h)
    BY <2>1, DivMod
  <2> QED
    BY <2>2 DEF h
<1>3. lq \in Int /\ lr \in 0 .. Half - 1 /\ l = Half * lq + lr
  <2> DEFINE h == Half
  <2>1. h \in Nat \ {0} /\ l \in Int
    BY <1>1
  <2> HIDE DEF h
  <2>2. l \div h \in Int /\ l % h \in 0 .. h - 1 /\ l = h * (l \div h) + (l % h)
    BY <2>1, DivMod
  <2> QED
    BY <2>2 DEF h
<1>4. PICK a \in {0, 1} : x = kr + Half * a
  BY <1>1, <1>2 DEF IsNearly
<1>5. PICK b \in {0, 1} : y = lr + Half * b
  BY <1>1, <1>3 DEF IsNearly
<1> HIDE DEF kr, kq, lr, lq
<1>6. x \in Int /\ y \in Int
  BY <1>1, <1>2, <1>3, <1>4, <1>5
<1> DEFINE d == y - x
           q == d \div Rollover
           r == d % Rollover
<1>7. d \in Int
  BY <1>6
<1>8. q \in Int /\ r \in 0 .. Rollover - 1 /\ d = Rollover * q + r
  <2> HIDE DEF d
  <2> QED
    BY <1>1, <1>7, DivMod
<1>9. r <= 1
  BY DEF NoneMissing
<1> DEFINE w == 2 * q + a - b + lq - kq
<1>10. w \in Int
  BY <1>2, <1>3, <1>8
<1>11. l - k = Half * w + r
  <2>1. Half * w = Half * (2 * q) + Half * a - Half * b + Half * lq - Half * kq
    <3> HIDE DEF q
    <3> QED
      BY <1>1, <1>2, <1>3, <1>8
  <2>2. Half * (2 * q) = Rollover * q
    <3> HIDE DEF q
    <3> QED
      BY <1>1, <1>8
  <2>3. y - x = Rollover * q + r
    BY <1>8
  <2> DEFINE rq == Rollover * q
             ha == Half * a
             hb == Half * b
             hl == Half * lq
             hk == Half * kq
             hw == Half * w
  <2>4. rq \in Int /\ ha \in Int /\ hb \in Int /\ hl \in Int /\ hk \in Int /\ r \in Int /\ kr \in Int /\ lr \in Int
    <3> HIDE DEF q
    <3> QED
      BY <1>1, <1>2, <1>3, <1>8
  <2>5. hw = rq + ha - hb + hl - hk
    BY <2>1, <2>2
  <2>6. x = kr + ha /\ y = lr + hb /\ y - x = rq + r /\ k = hk + kr /\ l = hl + lr
    BY <1>2, <1>3, <1>4, <1>5, <2>3
  <2> HIDE DEF w, q, r, rq, ha, hb, hl, hk, hw
  <2>7. l - k = hw + r
    BY <2>4, <2>5, <2>6
  <2> QED
    BY <2>7 DEF hw
<1> HIDE DEF w, r
<1> DEFINE e == l - k
<1>12. e \in 0 .. Half - 1 /\ e = Half * w + r /\ r \in 0 .. Half - 1 /\ e \in Int
  BY <1>1, <1>8, <1>9, <1>11
<1>13. e = Half * 0 + e
  BY <1>1
<1> HIDE DEF e
<1>14. e % Half = r
  BY <1>1, <1>10, <1>12, DivModUnique
<1>15. e % Half = e
  BY <1>1, <1>12, <1>13, DivModUnique
<1>16. e <= 1
  BY <1>9, <1>14, <1>15
<1> QED
  BY <1>16 DEF e

\* The counts of MTCs are right, those of TMAs but for the highest bit.
LEMMA CounterIsNearly ==
  ASSUME NEW s, Counted(s), NEW n \in Counters(s)
  PROVE  n \in DOMAIN s /\ s[n].at \in Nat /\ Count(s[n]) \in Nat /\ IsNearly(s[n].mtc, Count(s[n]))
<1>1. n \in DOMAIN s /\ s[n].at \in Nat /\ s \in Seq(Packets)
  BY ListIndices DEF Counters, Tmas, Mtcs, Counted, IsList, Packets
<1> DEFINE a == s[n].at
           k == a \div PerMtc
<1>2. a \in Nat /\ k \in Nat
  BY <1>1, Parts
<1>3. Half = TmaRollover /\ Rollover = 2 * Half /\ Half \in Nat \ {0}
  BY Widths, Units
<1>4. Count(s[n]) = k
  BY DEF Count
<1>5. CASE n \in Mtcs(s)
  <2>1. s[n].mtc = k % Rollover
    BY <1>5 DEF Counted, IsList, MtcsRight, MtcAt
  <2> HIDE DEF k
  <2>2. k % Rollover \in {k % TmaRollover, (k % TmaRollover) + TmaRollover}
    BY <1>2, <1>3, HighestBit DEF IsProduct
  <2>3. IsNearly(s[n].mtc, k)
    BY <1>3, <2>1, <2>2 DEF IsNearly
  <2> QED
    BY <1>1, <1>2, <1>4, <2>3
<1>6. CASE n \in Tmas(s)
  <2>1. s[n].mtc \in {CutMtc(a), OrHighest(CutMtc(a))}
    BY <1>6 DEF Counted, IsTma
  <2>2. CutMtc(a) = k % TmaRollover
    <3> HIDE DEF a
    <3> QED
      BY <1>2, <1>3, CutMtcIs
  <2>3. CutMtc(a) \in 0 .. TmaRollover - 1
    <3> HIDE DEF a
    <3> QED
      BY <1>2, CutMtcType
  <2> DEFINE c == CutMtc(a)
  <2>4. c \in 0 .. TmaRollover - 1 /\ c = k % Half
    BY <1>3, <2>2, <2>3
  <2> HIDE DEF c
  <2>5. OrHighest(c) = c + Half
    BY <1>3, <2>4 DEF OrHighest
  <2>6. s[n].mtc \in {c, OrHighest(c)}
    BY <2>1 DEF c
  <2>7. IsNearly(s[n].mtc, k)
    BY <2>4, <2>5, <2>6 DEF IsNearly
  <2> QED
    BY <1>1, <1>2, <1>4, <2>7
<1> QED
  BY <1>5, <1>6 DEF Counters

\* An overflow that is not marked has lost no MTC, as long as there is less than half a
\* rollover between the counters around it (tsc_heuristics_fifth_round).
THEOREM UnmarkedIsWhole == Spec => []UnmarkedLostNothing
<1>1. Inv => UnmarkedLostNothing
  <2> SUFFICES ASSUME Inv, phase = "done", NEW n \in DOMAIN tscs,
                      NEW i, i = Before(Counters(tscs), n), NEW j, j = After(Counters(tscs), n),
                      tscs[n].type = "OVF", ~tscs[n].ovf_tsc_lost,
                      i # 0, j # 0, TrueCount(i, j) < Half
               PROVE  TrueCount(i, j) <= 1
    BY DEF UnmarkedLostNothing
  <2>1. Counted(tscs) /\ OvfOk(tscs)
    BY DEF Inv, RoundInv
  <2> DEFINE s == tscs
  <2>2. n \in Nat /\ Counters(s) \subseteq Nat
    BY <2>1, ListIndices DEF Counted, IsList
  <2>3. i \in Counters(s) /\ i < n /\ \A l \in Counters(s) : l < n => l <= i
    BY <2>2, BeforeCases
  <2>4. j \in Counters(s) /\ n < j /\ \A l \in Counters(s) : l > n => j <= l
    <3>1. j \in Counters(s) /\ j > n /\ \A l \in Counters(s) : l > n => j <= l
      BY <2>2, AfterCases
    <3> QED
      BY <2>2, <3>1
  <2>5. AreNearest(s, i, n, j)
    BY <2>2, <2>3, <2>4 DEF AreNearest
  <2>6. /\ i \in DOMAIN s /\ s[i].at \in Nat /\ Count(s[i]) \in Nat /\ IsNearly(s[i].mtc, Count(s[i]))
        /\ j \in DOMAIN s /\ s[j].at \in Nat /\ Count(s[j]) \in Nat /\ IsNearly(s[j].mtc, Count(s[j]))
    BY <2>1, <2>3, <2>4, CounterIsNearly
  <2>7. NoneMissing((s[j].mtc - s[i].mtc) % Rollover)
    BY <2>1, <2>5, <2>6 DEF OvfOk, Has
  <2>8. Count(s[i]) <= Count(s[j])
    <3>1. i < j
      BY <2>2, <2>3, <2>4
    <3>2. s[i].at <= s[j].at
      BY <2>1, <2>6, <3>1 DEF Counted, IsList, Ordered
    <3> QED
      BY <2>6, <3>2, CountGrows DEF Count
  <2>9. TrueCount(i, j) = Count(s[j]) - Count(s[i])
    BY DEF TrueCount, Count
  <2> DEFINE k == Count(s[i])
             l == Count(s[j])
             x == s[i].mtc
             y == s[j].mtc
  <2>10. /\ k \in Nat /\ l \in Nat /\ IsNearly(x, k) /\ IsNearly(y, l)
         /\ k <= l /\ l - k < Half /\ NoneMissing((y - x) % Rollover)
    BY <2>6, <2>7, <2>8, <2>9
  <2> HIDE DEF k, l, x, y
  <2>11. l - k <= 1
    BY <2>10, CountersAgree
  <2> QED
    BY <2>9, <2>11 DEF k, l
<1> QED
  BY <1>1, TimingInvariance, PTL

\* The packets stay in the order of their times, with fields of their types.
THEOREM TypeCorrect == Spec => []TypeOK
<1>1. Inv => TypeOK
  <2> SUFFICES ASSUME Inv PROVE TypeOK
    OBVIOUS
  <2>1. phase \in {"record", "done"} \cup RoundPhases /\ IsList(tscs)
    BY DEF Inv, CollectInv, RoundInv, RoundPhases, Collected, Counted
  <2>2. tscs \in Seq(Packets) /\ Ordered(tscs)
    BY <2>1 DEF IsList
  <2>3. ASSUME NEW n \in DOMAIN tscs
        PROVE  /\ tscs[n].type \in {"TSC", "TMA", "MTC", "OVF"}
               /\ tscs[n].mtc \in 0 .. Rollover - 1 /\ tscs[n].pass \in 0 .. 3
               /\ n > 1 => tscs[n - 1].at <= tscs[n].at
    <3>1. tscs[n] \in Packets /\ DOMAIN tscs = 1 .. Len(tscs) /\ Len(tscs) \in Nat
      BY <2>2, ListIndices
    <3>2. n > 1 => tscs[n - 1].at <= tscs[n].at
      <4> SUFFICES ASSUME n > 1 PROVE tscs[n - 1].at <= tscs[n].at
        OBVIOUS
      <4>1. n - 1 \in DOMAIN tscs /\ n - 1 < n
        BY <3>1
      <4> QED
        BY <2>2, <4>1 DEF Ordered
    <3> QED
      BY <3>1, <3>2 DEF Packets, Types
  <2>4. {overflow, wait_for_tma, in_psb} \subseteq BOOLEAN
    BY DEF Inv, Flags
  <2> QED
    BY <2>1, <2>3, <2>4 DEF TypeOK
<1> QED
  BY <1>1, TimingInvariance, PTL
=============================================================================
