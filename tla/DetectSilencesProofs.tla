------------------------ MODULE DetectSilencesProofs ------------------------
(***************************************************************************)
(* Proofs about SilenceScan and DetectSilences: for any recording, in any  *)
(* frames, any sample rate and any list of options.                        *)
(***************************************************************************)
EXTENDS DetectSilences, FiniteSetTheorems, SequenceTheorems, WellFoundedInduction, TLAPS

-----------------------------------------------------------------------------
(***************************************************************************)
(* Induction, over a set of numbers.                                       *)
(***************************************************************************)
\* A set of numbers that is not empty has a least member.
LEMMA LeastMember ==
  ASSUME NEW S \in SUBSET Nat, S # {}
  PROVE  \E m \in S : \A k \in S : m <= k
<1> DEFINE T == {0 .. k : k \in S}
<1>1. IsWellFoundedOn(StrictSubsetOrdering(Nat), FiniteSubsetsOf(Nat))
  BY FS_StrictSubsetOrderingWellFounded
<1>2. T \subseteq FiniteSubsetsOf(Nat) /\ T # {}
  <2>1. ASSUME NEW k \in S PROVE 0 .. k \in FiniteSubsetsOf(Nat)
    BY FS_Interval DEF FiniteSubsetsOf
  <2> QED
    BY <2>1
<1> HIDE DEF T
<1>3. PICK x \in T : \A y \in T : ~ (<<y, x>> \in StrictSubsetOrdering(Nat))
  BY <1>1, <1>2, WFMin
<1> USE DEF T
<1>4. PICK m \in S : x = 0 .. m
  OBVIOUS
<1>5. ASSUME NEW k \in S, k < m PROVE FALSE
  <2>1. 0 .. k \subseteq 0 .. m /\ 0 .. k # 0 .. m
    <3>1. k \in Nat /\ m \in Nat
      OBVIOUS
    <3>2. m \in 0 .. m /\ m \notin 0 .. k
      BY <1>5, <3>1
    <3> QED
      BY <1>5, <3>1, <3>2
  <2>2. <<0 .. k, x>> \in StrictSubsetOrdering(Nat)
    BY <2>1, <1>4 DEF StrictSubsetOrdering
  <2> QED
    BY <2>2, <1>3
<1> QED
  BY <1>5

\* A set that has 0, and n + 1 with every n, has every number.
LEMMA SetInduction ==
  ASSUME NEW S, 0 \in S, \A n \in Nat : n \in S => n + 1 \in S
  PROVE  Nat \subseteq S
<1> SUFFICES ASSUME Nat \ S # {} PROVE FALSE
  OBVIOUS
<1>1. PICK m \in Nat \ S : \A k \in Nat \ S : m <= k
  BY LeastMember
<1>2. m - 1 \in Nat /\ m - 1 \in S
  BY <1>1
<1> QED
  BY <1>2

-----------------------------------------------------------------------------
(***************************************************************************)
(* The samples of a recording, its frames forgotten.                       *)
(***************************************************************************)
\* The samples up to frame f, as UpTo computes them from those before.
Extended(s, g, f) == IF f = 0 THEN <<>> ELSE g[f - 1] \o s[f]

\* The recursion of UpTo defines a function.
LEMMA ExtendedExists ==
  ASSUME NEW s, NEW n \in Nat
  PROVE  \E g : g = [f \in 0 .. n |-> Extended(s, g, f)]
<1> DEFINE S == {m \in Nat : \E g : g = [f \in 0 .. m |-> Extended(s, g, f)]}
<1>1. 0 \in S
  <2> DEFINE g == [f \in 0 .. 0 |-> <<>>]
  <2>1. g = [f \in 0 .. 0 |-> Extended(s, g, f)]
    BY DEF Extended
  <2> QED
    BY <2>1
<1>2. ASSUME NEW m \in Nat, m \in S PROVE m + 1 \in S
  <2>1. PICK g : g = [f \in 0 .. m |-> Extended(s, g, f)]
    BY <1>2
  <2> DEFINE h == [f \in 0 .. m + 1 |-> IF f <= m THEN g[f] ELSE Extended(s, g, f)]
  <2>2. \A f \in 0 .. m : h[f] = g[f]
    OBVIOUS
  <2>3. \A f \in 0 .. m + 1 : Extended(s, h, f) = Extended(s, g, f)
    BY <2>2 DEF Extended
  <2>4. \A f \in 0 .. m + 1 : h[f] = Extended(s, h, f)
    <3> SUFFICES ASSUME NEW f \in 0 .. m + 1 PROVE h[f] = Extended(s, g, f)
      BY <2>3
    <3>1. CASE f <= m
      BY <2>1, <3>1
    <3>2. CASE f = m + 1
      BY <3>2
    <3> QED
      BY <3>1, <3>2
  <2> HIDE DEF h
  <2>5. h = [f \in 0 .. m + 1 |-> Extended(s, h, f)]
    <3>1. h = [f \in 0 .. m + 1 |-> h[f]]
      BY DEF h
    <3> QED
      BY <3>1, <2>4
  <2> QED
    BY <2>5
<1> HIDE DEF S
<1>3. Nat \subseteq S
  BY <1>1, <1>2, SetInduction
<1> QED
  BY <1>3 DEF S

\* The samples up to a frame are those up to the one before, and its own.
LEMMA UpToIs ==
  ASSUME NEW S, NEW s \in Seq(S)
  PROVE  /\ UpTo(s)[0] = <<>>
         /\ \A f \in 1 .. Len(s) : UpTo(s)[f] = UpTo(s)[f - 1] \o s[f]
<1> DEFINE g == CHOOSE u : u = [f \in 0 .. Len(s) |-> Extended(s, u, f)]
<1>1. UpTo(s) = g
  BY DEF UpTo, Extended
<1>2. Len(s) \in Nat
  BY LenProperties
<1>3. g = [f \in 0 .. Len(s) |-> Extended(s, g, f)]
  BY <1>2, ExtendedExists
<1> HIDE DEF g
<1>4. \A f \in 0 .. Len(s) : g[f] = Extended(s, g, f)
  BY <1>3
<1>5. g[0] = <<>>
  <2>1. 0 \in 0 .. Len(s) /\ Extended(s, g, 0) = <<>>
    BY <1>2 DEF Extended
  <2> QED
    BY <1>4, <2>1
<1>6. ASSUME NEW f \in 1 .. Len(s) PROVE g[f] = g[f - 1] \o s[f]
  <2>1. f \in 0 .. Len(s) /\ f # 0
    BY <1>2
  <2>2. Extended(s, g, f) = g[f - 1] \o s[f]
    BY <2>1, Zenon DEF Extended
  <2> QED
    BY <1>4, <2>1, <2>2
<1> QED
  BY <1>1, <1>5, <1>6

\* What two sequences make.
LEMMA Concatenated ==
  ASSUME NEW S, NEW s \in Seq(S), NEW t \in Seq(S)
  PROVE  /\ s \o t \in Seq(S) /\ Len(s \o t) = Len(s) + Len(t)
         /\ Len(s) \in Nat /\ Len(t) \in Nat
         /\ \A k \in 1 .. Len(s) : (s \o t)[k] = s[k]
         /\ \A k \in 1 .. Len(t) : (s \o t)[Len(s) + k] = t[k]
<1>1. Len(s) \in Nat /\ Len(t) \in Nat
  BY LenProperties
<1>2. s \o t \in Seq(S) /\ Len(s \o t) = Len(s) + Len(t)
      /\ \A k \in 1 .. Len(s) + Len(t) : (s \o t)[k] = IF k <= Len(s) THEN s[k]
                                                       ELSE t[k - Len(s)]
  BY ConcatProperties
<1> QED
  BY <1>1, <1>2

\* They are a sequence of samples.
LEMMA UpToTypes ==
  ASSUME NEW S, NEW s \in Seq(Seq(S))
  PROVE  \A f \in 0 .. Len(s) : UpTo(s)[f] \in Seq(S)
<1> DEFINE T == {f \in Nat : f <= Len(s) => UpTo(s)[f] \in Seq(S)}
<1>1. /\ UpTo(s)[0] = <<>>
      /\ \A f \in 1 .. Len(s) : UpTo(s)[f] = UpTo(s)[f - 1] \o s[f] /\ s[f] \in Seq(S)
  BY UpToIs, ElementOfSeq
<1>2. Len(s) \in Nat
  BY LenProperties
<1>3. 0 \in T
  <2>1. <<>> \in Seq(S)
    OBVIOUS
  <2> QED
    BY <1>1, <2>1
<1>4. ASSUME NEW f \in Nat, f \in T PROVE f + 1 \in T
  <2> SUFFICES ASSUME f + 1 <= Len(s) PROVE UpTo(s)[f + 1] \in Seq(S)
    OBVIOUS
  <2>1. f + 1 \in 1 .. Len(s) /\ (f + 1) - 1 = f /\ f <= Len(s)
    BY <1>2
  <2>2. UpTo(s)[f] \in Seq(S) /\ s[f + 1] \in Seq(S)
    BY <1>1, <1>4, <2>1
  <2>3. UpTo(s)[f + 1] = UpTo(s)[f] \o s[f + 1]
    BY <1>1, <2>1
  <2> QED
    BY <2>2, <2>3, Concatenated
<1> HIDE DEF T
<1>5. Nat \subseteq T
  BY <1>3, <1>4, SetInduction
<1> QED
  BY <1>2, <1>5 DEF T

\* The samples of the first frames are the first samples.
LEMMA UpToPrefix ==
  ASSUME NEW S, NEW s \in Seq(Seq(S)), NEW f \in 0 .. Len(s)
  PROVE  /\ Len(UpTo(s)[f]) \in Nat /\ Len(Flat(s)) \in Nat
         /\ Len(UpTo(s)[f]) <= Len(Flat(s))
         /\ \A k \in 1 .. Len(UpTo(s)[f]) : Flat(s)[k] = UpTo(s)[f][k]
<1> DEFINE u == UpTo(s)
           P(g) == /\ Len(u[f]) <= Len(u[g])
                   /\ \A k \in 1 .. Len(u[f]) : u[g][k] = u[f][k]
           T == {d \in Nat : f + d <= Len(s) => P(f + d)}
<1>1. \A g \in 1 .. Len(s) : u[g] = u[g - 1] \o s[g] /\ s[g] \in Seq(S)
  BY UpToIs, ElementOfSeq
<1>2. Len(s) \in Nat /\ f \in Nat /\ f <= Len(s)
  BY LenProperties
<1>3. \A g \in 0 .. Len(s) : u[g] \in Seq(S) /\ Len(u[g]) \in Nat
  BY UpToTypes, LenProperties
<1> HIDE DEF u
<1>4. 0 \in T
  BY <1>2, <1>3
<1>5. ASSUME NEW d \in Nat, d \in T PROVE d + 1 \in T
  <2> SUFFICES ASSUME f + (d + 1) <= Len(s) PROVE P(f + (d + 1))
    OBVIOUS
  <2> DEFINE g == f + d
             h == f + (d + 1)
  <2>1. h \in 1 .. Len(s) /\ h - 1 = g /\ g <= Len(s) /\ g \in 0 .. Len(s)
    BY <1>2
  <2>2. P(g)
    BY <1>5, <2>1
  <2>3. u[h] = u[g] \o s[h] /\ u[g] \in Seq(S) /\ s[h] \in Seq(S)
    BY <1>1, <1>3, <2>1
  <2> HIDE DEF g, h
  <2>4. /\ Len(u[h]) = Len(u[g]) + Len(s[h]) /\ Len(s[h]) \in Nat
        /\ \A k \in 1 .. Len(u[g]) : u[h][k] = u[g][k]
    <3> DEFINE a == u[g]
               b == s[h]
    <3>1. a \in Seq(S) /\ b \in Seq(S) /\ u[h] = a \o b
      BY <2>3
    <3> HIDE DEF a, b
    <3>2. /\ Len(a \o b) = Len(a) + Len(b) /\ Len(b) \in Nat
          /\ \A k \in 1 .. Len(a) : (a \o b)[k] = a[k]
      BY <3>1, Concatenated
    <3>3. /\ Len(u[h]) = Len(a) + Len(b) /\ Len(b) \in Nat
          /\ \A k \in 1 .. Len(a) : u[h][k] = a[k]
      BY <3>1, <3>2
    <3> QED
      BY <3>3 DEF a, b
  <2>5. Len(u[f]) \in Nat /\ Len(u[g]) \in Nat
    BY <1>2, <1>3, <2>1
  <2>6. Len(u[f]) <= Len(u[g]) /\ \A k \in 1 .. Len(u[f]) : u[g][k] = u[f][k]
    BY <2>2
  <2>7. ASSUME NEW k \in 1 .. Len(u[f]) PROVE u[h][k] = u[f][k]
    <3>1. k \in 1 .. Len(u[g])
      BY <2>5, <2>6
    <3> QED
      BY <2>4, <2>6, <3>1
  <2>8. Len(u[f]) <= Len(u[h])
    <3> DEFINE l == Len(u[f])
               m == Len(u[g])
               n == Len(s[h])
    <3>1. l \in Nat /\ m \in Nat /\ n \in Nat /\ l <= m /\ Len(u[h]) = m + n
      BY <2>4, <2>5, <2>6
    <3> HIDE DEF l, m, n
    <3> QED
      BY <3>1 DEF l
  <2>9. P(h)
    BY <2>7, <2>8
  <2> QED
    BY <2>9 DEF h
<1> HIDE DEF T
<1>6. Nat \subseteq T
  BY <1>4, <1>5, SetInduction
<1>7. Len(s) - f \in Nat /\ f + (Len(s) - f) = Len(s)
  BY <1>2
<1>8. P(f + (Len(s) - f))
  <2>1. Len(s) - f \in T /\ f + (Len(s) - f) <= Len(s)
    BY <1>2, <1>6, <1>7
  <2> HIDE DEF P
  <2> QED
    BY <2>1 DEF T
<1>9. P(Len(s))
  BY <1>7, <1>8
<1> QED
  BY <1>2, <1>3, <1>9 DEF Flat, u

\* Where a sample of a frame is among all samples.
LEMMA FlatAt ==
  ASSUME NEW S, NEW s \in Seq(Seq(S)), NEW f \in 1 .. Len(s)
  PROVE  /\ Len(UpTo(s)[f]) = Len(UpTo(s)[f - 1]) + Len(s[f])
         /\ Len(UpTo(s)[f - 1]) \in Nat /\ Len(s[f]) \in Nat
         /\ Len(UpTo(s)[f]) <= Len(Flat(s)) /\ Len(Flat(s)) \in Nat
         /\ \A j \in 1 .. Len(s[f]) : Flat(s)[Len(UpTo(s)[f - 1]) + j] = s[f][j]
<1> DEFINE u == UpTo(s)[f - 1]
           v == UpTo(s)[f]
<1>1. v = u \o s[f] /\ s[f] \in Seq(S)
  BY UpToIs, ElementOfSeq
<1>2. f - 1 \in 0 .. Len(s) /\ f \in 0 .. Len(s)
  BY LenProperties
<1>3. u \in Seq(S) /\ v \in Seq(S)
  BY <1>2, UpToTypes
<1>4. Len(v) <= Len(Flat(s)) /\ Len(Flat(s)) \in Nat /\ Len(v) \in Nat
      /\ \A k \in 1 .. Len(v) : Flat(s)[k] = v[k]
  BY <1>2, UpToPrefix
<1> HIDE DEF u, v
<1>5. /\ Len(v) = Len(u) + Len(s[f]) /\ Len(u) \in Nat /\ Len(s[f]) \in Nat
      /\ \A j \in 1 .. Len(s[f]) : v[Len(u) + j] = s[f][j]
  BY <1>1, <1>3, Concatenated
<1>6. \A j \in 1 .. Len(s[f]) : Len(u) + j \in 1 .. Len(v)
  BY <1>5
<1> QED
  BY <1>4, <1>5, <1>6 DEF u, v

-----------------------------------------------------------------------------
(***************************************************************************)
(* The clock.                                                              *)
(***************************************************************************)
\* x is the time of n samples, but for e roundings of half a tick.
Near(x, n, e) == /\ 2 * (x * Rate - n * Base) <= e * Rate
                 /\ 2 * (n * Base - x * Rate) <= e * Rate

\* A quotient, and what is left.
LEMMA Quotient ==
  ASSUME NEW a \in Int, NEW d \in Nat \ {0}
  PROVE  a \div d \in Int /\ d * (a \div d) <= a /\ a < d * (a \div d) + d
<1>1. PICK q \in Int : q = a \div d
  OBVIOUS
<1>2. PICK r \in Int : r = a % d
  OBVIOUS
<1>3. a = d * (a \div d) + (a % d) /\ (a % d) \in 0 .. d - 1
  OBVIOUS
<1>4. a = d * q + r /\ 0 <= r /\ r < d
  BY <1>1, <1>2, <1>3
<1> QED
  BY <1>1, <1>4

\* av_rescale_q is off by half a tick at most.
LEMMA RescaleNear ==
  ASSUME NEW k \in Nat
  PROVE  Rescale(k) \in Nat /\ Near(Rescale(k), k, 1)
<1> DEFINE b == k * Base
           q == Rescale(k)
           d == 2 * Rate
<1>1. Rate \in Nat /\ Rate > 0 /\ Base \in Nat /\ b \in Nat /\ d \in Nat \ {0}
  BY ScanAssumption
<1>2. 2 * k * Base = 2 * b
  BY ScanAssumption
<1>3. q = (2 * b + Rate) \div d
  BY <1>2 DEF Rescale
<1> HIDE DEF b, q
<1>4. q \in Int /\ d * q <= 2 * b + Rate /\ 2 * b + Rate < d * q + d
  <2> DEFINE a == 2 * b + Rate
  <2>1. a \in Int /\ d \in Nat \ {0} /\ q = a \div d
    BY <1>1, <1>3
  <2>2. a = 2 * b + Rate
    OBVIOUS
  <2> HIDE DEF a, d
  <2>3. q \in Int /\ d * q <= a /\ a < d * q + d
    BY <2>1, Quotient
  <2> QED
    BY <2>2, <2>3
<1>5. PICK p \in Int : p = q * Rate
  BY <1>1, <1>4
<1>6. d * q = 2 * p
  BY <1>1, <1>4, <1>5
<1>7. 2 * (p - b) <= Rate /\ 2 * (b - p) <= Rate
  BY <1>1, <1>4, <1>5, <1>6
<1>8. q \in Nat
  <2>1. CASE q < 0
    <3>1. d * q <= -1 * d
      BY <1>1, <1>4, <2>1
    <3> QED
      BY <1>1, <1>4, <3>1
  <2> QED
    BY <1>4, <2>1
<1>9. 2 * (q * Rate - k * Base) <= 1 * Rate /\ 2 * (k * Base - q * Rate) <= 1 * Rate
  BY <1>1, <1>5, <1>7 DEF b
<1> QED
  BY <1>8, <1>9 DEF Near, q

\* It does not go back, and every sample moves it where a sample lasts a tick.
LEMMA RescaleRises ==
  ASSUME NEW j \in Nat, NEW k \in Nat, j < k
  PROVE  Rescale(j) <= Rescale(k) /\ (Rate <= Base => Rescale(j) < Rescale(k))
<1> DEFINE x == j * Base
           y == k * Base
           d == 2 * Rate
           q == Rescale(j)
           r == Rescale(k)
<1>1. Rate \in Nat /\ Rate > 0 /\ Base \in Nat /\ x \in Nat /\ y \in Nat /\ d \in Nat \ {0}
  BY ScanAssumption
<1>2. x + Base <= y
  <2>1. j + 1 <= k /\ Base >= 0
    BY ScanAssumption
  <2>2. (j + 1) * Base <= k * Base
    BY <2>1, ScanAssumption
  <2>3. (j + 1) * Base = x + Base
    BY ScanAssumption
  <2> QED
    BY <2>2, <2>3
<1>3. 2 * j * Base = 2 * x /\ 2 * k * Base = 2 * y
  BY ScanAssumption
<1>4. q = (2 * x + Rate) \div d /\ r = (2 * y + Rate) \div d
  BY <1>3 DEF Rescale
<1> HIDE DEF x, y, q, r
<1>5. q \in Int /\ d * q <= 2 * x + Rate /\ 2 * x + Rate < d * q + d
  <2> DEFINE a == 2 * x + Rate
  <2>1. a \in Int /\ d \in Nat \ {0} /\ q = a \div d
    BY <1>1, <1>4
  <2>2. a = 2 * x + Rate
    OBVIOUS
  <2> HIDE DEF a, d
  <2>3. q \in Int /\ d * q <= a /\ a < d * q + d
    BY <2>1, Quotient
  <2> QED
    BY <2>2, <2>3
<1>6. r \in Int /\ d * r <= 2 * y + Rate /\ 2 * y + Rate < d * r + d
  <2> DEFINE a == 2 * y + Rate
  <2>1. a \in Int /\ d \in Nat \ {0} /\ r = a \div d
    BY <1>1, <1>4
  <2>2. a = 2 * y + Rate
    OBVIOUS
  <2> HIDE DEF a, d
  <2>3. r \in Int /\ d * r <= a /\ a < d * r + d
    BY <2>1, Quotient
  <2> QED
    BY <2>2, <2>3
<1>7. q <= r
  <2>1. CASE r + 1 <= q
    <3>1. d * (r + 1) <= d * q
      BY <1>1, <1>5, <1>6, <2>1
    <3>2. d * (r + 1) = d * r + d
      BY <1>1, <1>6
    <3> QED
      BY <1>1, <1>2, <1>5, <1>6, <3>1, <3>2
  <2> QED
    BY <1>5, <1>6, <2>1
<1>8. ASSUME Rate <= Base PROVE q < r
  <2>1. CASE r <= q
    <3>1. d * r <= d * q
      BY <1>1, <1>5, <1>6, <2>1
    <3>2. d = 2 * Rate
      OBVIOUS
    <3> HIDE DEF d
    <3> QED
      BY <1>1, <1>2, <1>5, <1>6, <1>8, <3>1, <3>2
  <2> QED
    BY <1>5, <1>6, <2>1
<1> QED
  BY <1>7, <1>8 DEF q, r

\* Times add up, and so do their errors.
LEMMA NearSum ==
  ASSUME NEW x \in Int, NEW n \in Int, NEW e \in Int, NEW y \in Int, NEW m \in Int,
         NEW c \in Int, Near(x, n, e), Near(y, m, c)
  PROVE  Near(x + y, n + m, e + c)
<1>1. Rate \in Int /\ Base \in Int
  BY ScanAssumption
<1>2. /\ (x + y) * Rate = x * Rate + y * Rate /\ (n + m) * Base = n * Base + m * Base
      /\ (e + c) * Rate = e * Rate + c * Rate
  BY <1>1
<1> QED
  BY <1>1, <1>2 DEF Near

\* A place that is exact to few roundings is exact to more.
LEMMA NearMore ==
  ASSUME NEW x \in Int, NEW n \in Int, NEW e \in Int, NEW c \in Int, Near(x, n, e), e <= c
  PROVE  Near(x, n, c)
<1>1. Rate \in Nat /\ Base \in Int
  BY ScanAssumption
<1>2. e * Rate <= c * Rate
  BY <1>1
<1> QED
  BY <1>1, <1>2 DEF Near

\* What is clearly long enough is measured as long enough.
LEMMA NearFar ==
  ASSUME NEW x \in Int, NEW n \in Int, NEW e \in Int, NEW y \in Int, NEW m \in Int,
         NEW c \in Int, Near(x, n, e), Near(y, m, e),
         m * Base - n * Base >= c * Rate + Rate * e
  PROVE  y - x >= c
<1>1. Rate \in Nat /\ Rate > 0 /\ Base \in Int
  BY ScanAssumption
<1>2. PICK p \in Int, q \in Int, a \in Int, b \in Int, f \in Int, g \in Int :
        /\ p = x * Rate /\ q = y * Rate /\ a = n * Base /\ b = m * Base /\ f = e * Rate
        /\ g = c * Rate
  BY <1>1
<1>3. Rate * e = f
  BY <1>1, <1>2
<1>4. /\ 2 * (p - a) <= f /\ 2 * (a - p) <= f
      /\ 2 * (q - b) <= f /\ 2 * (b - q) <= f
      /\ b - a >= g + f
  BY <1>2, <1>3 DEF Near
<1>5. q - p >= g
  BY <1>4
<1>6. CASE y - x < c
  <2>1. y - x <= c - 1 /\ y - x \in Int
    BY <1>6
  <2>2. (y - x) * Rate <= (c - 1) * Rate
    BY <1>1, <2>1
  <2>3. (y - x) * Rate = q - p /\ (c - 1) * Rate = g - Rate
    BY <1>1, <1>2
  <2> QED
    BY <1>1, <1>2, <1>5, <2>2, <2>3
<1> QED
  BY <1>6

-----------------------------------------------------------------------------
(***************************************************************************)
(* The invariant of a scan: how many samples it has seen, what its clock   *)
(* says then, which silence is pending, and what has been found.           *)
(***************************************************************************)
Spans == [start : Nat, end : Nat]

ScanTypes ==
  /\ recording \in Seq(Seq(BOOLEAN)) /\ requested \in Int
  /\ phase \in {"idle", "between", "inside", "done"}
  /\ frame \in Nat \ {0} /\ i \in Nat \ {0}
  /\ frameStart \in Nat /\ nextSample \in Nat
  /\ pending \in [on : BOOLEAN, start : Nat, reported : BOOLEAN]
  /\ intervals \in Seq(Spans)

Scanning == phase \in {"between", "inside"}

Before(f) == Len(UpTo(recording)[f - 1])
Seen  == Before(frame) + (IF phase = "inside" THEN i - 1 ELSE 0)
Clock == IF phase = "inside" THEN Now ELSE nextSample

Silent(k) == Samples[k]

\* A frame is timed from the rounded durations of those before it.
ClockInv ==
  /\ Scanning => frame <= Len(recording) + 1
  /\ phase = "between" => Near(nextSample, Before(frame), frame - 1)
  /\ phase = "inside" =>
       /\ frame <= Len(recording) /\ i <= Len(recording[frame]) + 1
       /\ Near(frameStart, Before(frame), frame - 1)
       /\ nextSample = frameStart + Rescale(Len(recording[frame]))

\* The pending silence goes back to a sample that is not silent.
BeganAt(from) ==
  /\ \A k \in from .. Seen : Silent(k)
  /\ from > 1 => ~ Silent(from - 1)
  /\ Near(pending.start, from - 1, Len(recording))

PendingInv ==
  Scanning =>
    /\ pending.on <=> Seen > 0 /\ Silent(Seen)
    /\ pending.on => \E from \in 1 .. Seen : BeganAt(from)
    /\ pending.on /\ pending.reported => Clock - pending.start >= MinSilence

LongRun(r) == To(r) - From(r) >= MinSilence * Rate + Slack

\* What was found is what has ended.
FoundInv ==
  phase # "idle" =>
    /\ \A r \in Runs : (phase = "done" \/ r.to < Seen) /\ LongRun(r) =>
         \E k \in DOMAIN intervals : Matches(intervals[k], r)
    /\ \A k \in DOMAIN intervals :
         /\ intervals[k].end - intervals[k].start >= MinSilence
         /\ \E r \in Runs : Matches(intervals[k], r)

\* Where a sample lasts at least a tick, the clock moves with every sample.
ApartInv ==
  Rate <= Base =>
    /\ \A j, k \in DOMAIN intervals : j < k => intervals[j].end < intervals[k].start
    /\ Scanning => \A k \in DOMAIN intervals : intervals[k].end < Clock
    /\ Scanning /\ pending.on =>
         \A k \in DOMAIN intervals : intervals[k].end < pending.start

ScanInv == ScanTypes /\ ClockInv /\ PendingInv /\ FoundInv /\ ApartInv

\* What the types say, as the proofs use it.
LEMMA ScanParts ==
  ASSUME ScanTypes
  PROVE  /\ recording \in Seq(Seq(BOOLEAN)) /\ requested \in Int
         /\ Len(recording) \in Nat
         /\ frame \in Nat /\ frame # 0 /\ i \in Nat /\ i # 0
         /\ frameStart \in Nat /\ nextSample \in Nat
         /\ pending.start \in Nat
         /\ intervals \in Seq(Spans)
         /\ MinSilence \in Nat /\ Rate \in Nat /\ Base \in Nat
         /\ \A k \in DOMAIN intervals : k \in Nat /\ intervals[k] \in Spans
              /\ intervals[k].start \in Nat /\ intervals[k].end \in Nat
<1>1. /\ recording \in Seq(Seq(BOOLEAN)) /\ requested \in Int
      /\ frame \in Nat /\ frame # 0 /\ i \in Nat /\ i # 0
      /\ frameStart \in Nat /\ nextSample \in Nat
      /\ pending.start \in Nat
      /\ intervals \in Seq(Spans)
  BY DEF ScanTypes
<1>2. Len(recording) \in Nat
  BY <1>1, LenProperties
<1>3. MinSilence \in Nat /\ Rate \in Nat /\ Base \in Nat
  BY <1>1, ScanAssumption DEF MinSilence
<1>4. \A k \in DOMAIN intervals : k \in Nat /\ intervals[k] \in Spans
  BY <1>1, LenProperties, ElementOfSeq
<1>5. \A k \in DOMAIN intervals : intervals[k].start \in Nat /\ intervals[k].end \in Nat
  BY <1>4 DEF Spans
<1> QED
  BY <1>1, <1>2, <1>3, <1>4, <1>5

\* The clock, whatever the scan is at.
LEMMA ClockIsNear ==
  ASSUME ScanTypes, ClockInv, Scanning
  PROVE  /\ Seen \in Nat /\ Clock \in Nat
         /\ Seen <= Len(Samples) /\ Len(Samples) \in Nat
         /\ Near(Clock, Seen, Len(recording))
<1>1. /\ recording \in Seq(Seq(BOOLEAN)) /\ Len(recording) \in Nat
      /\ frame \in Nat /\ frame # 0 /\ frame <= Len(recording) + 1 /\ i \in Nat /\ i # 0
      /\ frameStart \in Nat /\ nextSample \in Nat
  BY ScanParts DEF ClockInv
<1>2. /\ Before(frame) \in Nat /\ Before(frame) <= Len(Samples) /\ Len(Samples) \in Nat
  <2>1. frame - 1 \in 0 .. Len(recording)
    BY <1>1
  <2> QED
    BY <1>1, <2>1, UpToPrefix DEF Before, Samples
<1>3. CASE phase = "between"
  <2>1. Seen = Before(frame) /\ Clock = nextSample
    BY <1>2, <1>3 DEF Seen, Clock
  <2>2. Near(nextSample, Before(frame), frame - 1)
    BY <1>3 DEF ClockInv
  <2>3. frame - 1 <= Len(recording) /\ frame - 1 \in Int
    BY <1>1
  <2>4. Near(nextSample, Before(frame), Len(recording))
    BY <1>1, <1>2, <2>2, <2>3, NearMore
  <2> QED
    BY <1>1, <1>2, <2>1, <2>4
<1>4. CASE phase = "inside"
  <2>1. /\ Seen = Before(frame) + (i - 1) /\ Clock = frameStart + Rescale(i - 1)
        /\ i - 1 \in Nat
    BY <1>1, <1>4 DEF Seen, Clock, Now
  <2>2. /\ Near(frameStart, Before(frame), frame - 1) /\ frame <= Len(recording)
        /\ i <= Len(recording[frame]) + 1
    BY <1>4 DEF ClockInv
  <2>3. Rescale(i - 1) \in Nat /\ Near(Rescale(i - 1), i - 1, 1)
    BY <2>1, RescaleNear
  <2> HIDE DEF Clock, Seen
  <2>4. Near(Clock, Seen, (frame - 1) + 1)
    <3> DEFINE q == Rescale(i - 1)
               n == i - 1
               e == frame - 1
    <3>1. /\ q \in Int /\ n \in Int /\ e \in Int
          /\ Near(q, n, 1) /\ Near(frameStart, Before(frame), e)
      BY <1>1, <2>1, <2>2, <2>3
    <3>2. Clock = frameStart + q /\ Seen = Before(frame) + n
      BY <2>1
    <3> HIDE DEF q, n, e
    <3>3. Near(frameStart + q, Before(frame) + n, e + 1)
      BY <1>1, <1>2, <3>1, NearSum
    <3>4. Near(Clock, Seen, e + 1)
      BY <3>2, <3>3
    <3> QED
      BY <3>4 DEF e
  <2>5. (frame - 1) + 1 = frame /\ Seen \in Nat /\ Clock \in Nat
    BY <1>1, <1>2, <2>1, <2>3
  <2>6. Near(Clock, Seen, Len(recording))
    BY <1>1, <2>2, <2>4, <2>5, NearMore
  <2>7. Seen <= Len(Samples)
    <3>1. frame \in 1 .. Len(recording)
      BY <1>1, <2>2
    <3>2. /\ Len(UpTo(recording)[frame]) = Before(frame) + Len(recording[frame])
          /\ Len(UpTo(recording)[frame]) <= Len(Samples) /\ Len(recording[frame]) \in Nat
      BY <1>1, <3>1, FlatAt DEF Before, Samples
    <3> QED
      BY <1>1, <1>2, <2>1, <2>2, <3>2
  <2> QED
    BY <1>2, <2>5, <2>6, <2>7
<1> QED
  BY <1>3, <1>4 DEF Scanning

\* A run, as the invariant speaks of it.
LEMMA RunIs ==
  ASSUME NEW r
  PROVE  r \in Runs <=>
           /\ r \in [from : DOMAIN Samples, to : DOMAIN Samples]
           /\ r.from <= r.to
           /\ \A k \in r.from .. r.to : Silent(k)
           /\ r.from > 1 => ~ Silent(r.from - 1)
           /\ r.to < Len(Samples) => ~ Silent(r.to + 1)
BY DEF Runs, Maximal, Silent

\* The samples of a recording are a sequence.
LEMMA SamplesAre ==
  ASSUME ScanTypes
  PROVE  /\ Samples \in Seq(BOOLEAN) /\ Len(Samples) \in Nat
         /\ DOMAIN Samples = 1 .. Len(Samples)
<1>1. recording \in Seq(Seq(BOOLEAN)) /\ Len(recording) \in 0 .. Len(recording)
  BY ScanParts
<1>2. Samples \in Seq(BOOLEAN)
  BY <1>1, UpToTypes DEF Samples, Flat
<1> QED
  BY <1>2, LenProperties

\* The place of a run, to half a tick for every frame.
LEMMA MatchesIs ==
  ASSUME ScanTypes, NEW v \in Spans, NEW r \in [from : DOMAIN Samples, to : DOMAIN Samples],
         Near(v.start, r.from - 1, Len(recording)), Near(v.end, r.to, Len(recording))
  PROVE  Matches(v, r)
<1>1. /\ r.from \in Nat /\ r.to \in Nat /\ v.start \in Nat /\ v.end \in Nat
      /\ Rate \in Nat /\ Base \in Nat /\ Len(recording) \in Nat
  BY SamplesAre, ScanParts DEF Spans
<1>2. Slack = Len(recording) * Rate
  BY <1>1 DEF Slack
<1> QED
  BY <1>1, <1>2 DEF Matches, Within, Near, From, To

-----------------------------------------------------------------------------
(***************************************************************************)
(* The steps of a scan.                                                    *)
(***************************************************************************)
\* What does not change while a recording is scanned.
LEMMA Same ==
  ASSUME recording' = recording, requested' = requested
  PROVE  /\ Samples' = Samples /\ Runs' = Runs /\ MinSilence' = MinSilence
         /\ Slack' = Slack
         /\ \A f : Before(f)' = Before(f)
         /\ \A k : Silent(k)' = Silent(k)
         /\ \A r : LongRun(r)' <=> LongRun(r)
         /\ \A v, r : Matches(v, r)' <=> Matches(v, r)
<1>1. Samples' = Samples
  BY DEF Samples
<1>2. Slack' = Slack /\ MinSilence' = MinSilence
  BY DEF Slack, MinSilence
<1>3. Runs' = Runs
  BY <1>1 DEF Runs
<1>4. \A f : Before(f)' = Before(f)
  BY DEF Before
<1>5. \A k : Silent(k)' = Silent(k)
  BY <1>1 DEF Silent
<1>6. \A r : LongRun(r)' <=> LongRun(r)
  BY <1>2 DEF LongRun
<1>7. \A v, r : Matches(v, r)' <=> Matches(v, r)
  BY <1>2 DEF Matches, Within
<1> QED
  BY <1>1, <1>2, <1>3, <1>4, <1>5, <1>6, <1>7

\* A step between two samples.
LEMMA Standing ==
  ASSUME ScanInv, Scanning, Scanning', recording' = recording, requested' = requested,
         Seen' = Seen, Clock' = Clock, pending' = pending, intervals' = intervals
  PROVE  PendingInv' /\ FoundInv' /\ ApartInv'
<1>1. /\ Samples' = Samples /\ Runs' = Runs /\ MinSilence' = MinSilence
      /\ \A k : Silent(k)' = Silent(k)
      /\ \A r : LongRun(r)' <=> LongRun(r)
      /\ \A v, r : Matches(v, r)' <=> Matches(v, r)
  BY Same
<1>2. PendingInv /\ FoundInv /\ ApartInv
  BY DEF ScanInv
<1>3. PendingInv'
  <2>1. \A from : BeganAt(from)' <=> BeganAt(from)
    <3>1. Len(recording)' = Len(recording) /\ pending.start' = pending.start
      OBVIOUS
    <3> QED
      BY <1>1, <3>1 DEF BeganAt
  <2>2. (pending.on /\ pending.reported => Clock - pending.start >= MinSilence)'
    BY <1>1, <1>2 DEF PendingInv
  <2>3. (pending.on <=> Seen > 0 /\ Silent(Seen))'
    BY <1>1, <1>2 DEF PendingInv
  <2>4. (pending.on => \E from \in 1 .. Seen : BeganAt(from))'
    BY <1>2, <2>1 DEF PendingInv
  <2> QED
    BY <2>2, <2>3, <2>4 DEF PendingInv
<1>4. FoundInv'
  <2>1. phase # "idle" /\ phase # "done" /\ phase' # "done"
    BY DEF Scanning
  <2> QED
    BY <1>1, <1>2, <2>1 DEF FoundInv
<1>5. ApartInv'
  BY <1>2 DEF ApartInv
<1> QED
  BY <1>3, <1>4, <1>5

\* A scan begins with nothing seen.
LEMMA BeginScanKeeps ==
  ASSUME NEW frames \in Seq(Seq(BOOLEAN)), NEW least \in Int, BeginScan(frames, least)
  PROVE  ScanInv'
<1>1. /\ recording' = frames /\ requested' = least /\ phase' = "between" /\ frame' = 1
      /\ i' = 1 /\ frameStart' = 0 /\ nextSample' = 0 /\ intervals' = <<>>
      /\ pending' = [on |-> FALSE, start |-> 0, reported |-> FALSE]
  BY DEF BeginScan, NoSilence
<1>2. DOMAIN intervals' = {}
  BY <1>1
<1>3. UpTo(frames)[0] = <<>> /\ Len(frames) \in Nat
  BY UpToIs, LenProperties
<1>4. Before(frame)' = 0 /\ Seen' = 0 /\ Clock' = 0
  <2>1. Before(frame)' = 0
    BY <1>1, <1>3 DEF Before
  <2> QED
    BY <1>1, <2>1 DEF Seen, Clock
<1>5. ScanTypes'
  <2>1. pending' \in [on : BOOLEAN, start : Nat, reported : BOOLEAN]
    BY <1>1
  <2>2. intervals' \in Seq(Spans)
    BY <1>1
  <2> QED
    BY <1>1, <2>1, <2>2 DEF ScanTypes
<1>6. ClockInv'
  <2>1. Near(0, 0, 0)
    BY ScanAssumption DEF Near
  <2>2. frame' - 1 = 0 /\ frame' <= Len(recording') + 1
    BY <1>1, <1>3
  <2>3. Near(nextSample, Before(frame), frame - 1)'
    BY <1>1, <1>4, <2>1, <2>2
  <2> QED
    BY <1>1, <2>2, <2>3 DEF ClockInv
<1>7. PendingInv'
  <2>1. pending.on' = FALSE /\ ~ (Seen' > 0)
    BY <1>1, <1>4
  <2> QED
    BY <2>1 DEF PendingInv
<1>8. FoundInv'
  <2>1. ASSUME NEW r \in Runs' PROVE ~ (phase' = "done" \/ r.to < Seen')
    <3>1. r \in [from : DOMAIN Samples, to : DOMAIN Samples]'
      BY DEF Runs
    <3>2. DOMAIN Samples' \subseteq Nat
      <4>1. UpTo(frames)[Len(frames)] \in Seq(BOOLEAN)
        BY <1>3, UpToTypes
      <4>2. Samples' \in Seq(BOOLEAN)
        BY <1>1, <4>1 DEF Samples, Flat
      <4> QED
        BY <4>2, LenProperties
    <3> QED
      BY <1>1, <1>4, <3>1, <3>2
  <2> QED
    BY <1>2, <2>1 DEF FoundInv
<1>9. ApartInv'
  BY <1>2 DEF ApartInv
<1> QED
  BY <1>5, <1>6, <1>7, <1>8, <1>9 DEF ScanInv

\* A frame begins where the clock is; an empty one is nothing.
LEMMA BeginFrameKeeps ==
  ASSUME ScanInv, BeginFrame
  PROVE  ScanInv'
<1>1. /\ recording \in Seq(Seq(BOOLEAN)) /\ Len(recording) \in Nat
      /\ frame \in Nat /\ frame # 0 /\ frameStart \in Nat /\ nextSample \in Nat
  BY ScanParts DEF ScanInv
<1>2. /\ phase = "between" /\ frame <= Len(recording) /\ i' = 1
      /\ recording' = recording /\ requested' = requested /\ intervals' = intervals
  BY DEF BeginFrame
<1>3. frame \in 1 .. Len(recording)
  BY <1>1, <1>2
<1>4. recording[frame] \in Seq(BOOLEAN) /\ Len(recording[frame]) \in Nat
  BY <1>1, <1>3, ElementOfSeq, LenProperties
<1>5. /\ Near(nextSample, Before(frame), frame - 1) /\ ScanTypes
      /\ Seen = Before(frame) /\ Clock = nextSample /\ Before(frame) \in Nat
  <2>1. Before(frame) \in Nat
    BY <1>1, <1>3, FlatAt DEF Before
  <2> QED
    BY <1>2, <2>1 DEF ScanInv, ClockInv, Seen, Clock
<1>6. CASE recording[frame] = <<>>
  <2>1. /\ frame' = frame + 1 /\ phase' = phase /\ frameStart' = frameStart
        /\ nextSample' = nextSample /\ pending' = pending
    BY <1>6 DEF BeginFrame
  <2>2. Before(frame)' = Before(frame)
    <3>1. Len(UpTo(recording)[frame]) = Len(UpTo(recording)[frame - 1]) + Len(recording[frame])
          /\ Len(UpTo(recording)[frame - 1]) \in Nat
      BY <1>1, <1>3, FlatAt
    <3>2. Len(recording[frame]) = 0
      BY <1>6
    <3>3. Len(UpTo(recording)[frame]) = Len(UpTo(recording)[frame - 1])
      BY <3>1, <3>2
    <3>4. frame' - 1 = frame
      BY <1>1, <2>1
    <3> QED
      BY <1>2, <3>3, <3>4 DEF Before
  <2>3. ScanTypes'
    BY <1>1, <1>2, <1>5, <2>1 DEF ScanTypes
  <2>4. ClockInv'
    <3>1. frame - 1 <= frame /\ frame' - 1 = frame /\ frame' <= Len(recording') + 1
      BY <1>1, <1>2, <2>1
    <3>2. Near(nextSample, Before(frame), frame)
      BY <1>1, <1>5, <3>1, NearMore
    <3>3. Near(nextSample, Before(frame), frame - 1)'
      BY <2>1, <2>2, <3>1, <3>2
    <3> QED
      BY <1>2, <2>1, <3>1, <3>3 DEF ClockInv
  <2>5. Seen' = Seen /\ Clock' = Clock
    BY <1>2, <1>5, <2>1, <2>2 DEF Seen, Clock
  <2>6. Scanning /\ Scanning'
    BY <1>2, <2>1 DEF Scanning
  <2> QED
    BY <1>2, <2>1, <2>3, <2>4, <2>5, <2>6, Standing DEF ScanInv
<1>7. CASE recording[frame] # <<>>
  <2>1. /\ frame' = frame /\ phase' = "inside" /\ frameStart' = nextSample
        /\ nextSample' = nextSample + Rescale(Len(recording[frame])) /\ pending' = pending
    BY <1>7 DEF BeginFrame, Carried
  <2>2. Rescale(0) = 0
    <3>1. 2 * 0 * Base = 0 /\ Rate \in Nat /\ Rate > 0
      BY ScanAssumption
    <3>2. (2 * 0 * Base + Rate) \div (2 * Rate) = 0
      <4>1. 2 * Rate \in Nat \ {0} /\ Rate \in Int
        BY <3>1
      <4>2. PICK q \in Int : q = Rate \div (2 * Rate)
        BY <4>1
      <4>3. (2 * Rate) * q <= Rate /\ Rate < (2 * Rate) * q + 2 * Rate
        BY <4>1, <4>2, Quotient
      <4>4. PICK p \in Int : p = Rate * q
        BY <3>1
      <4>5. 2 * p <= Rate /\ Rate < 2 * p + 2 * Rate
        BY <3>1, <4>3, <4>4
      <4>6. q = 0
        <5>1. CASE q >= 1
          <6>1. Rate * q >= Rate
            BY <3>1, <5>1
          <6> QED
            BY <3>1, <4>4, <4>5, <6>1
        <5>2. CASE q <= -1
          <6>1. Rate * q <= -1 * Rate
            BY <3>1, <5>2
          <6> QED
            BY <3>1, <4>4, <4>5, <6>1
        <5> QED
          BY <5>1, <5>2
      <4>7. 2 * 0 * Base + Rate = Rate
        BY <3>1
      <4> QED
        BY <4>2, <4>6, <4>7
    <3> QED
      BY <3>2 DEF Rescale
  <2>3. Rescale(Len(recording[frame])) \in Nat
    BY <1>4, RescaleNear
  <2>4. ScanTypes'
    <3>1. nextSample' \in Nat
      BY <1>1, <2>1, <2>3
    <3> QED
      BY <1>1, <1>2, <1>5, <2>1, <3>1 DEF ScanTypes
  <2>5. Before(frame)' = Before(frame)
    BY <1>2, <2>1 DEF Before
  <2>6. ClockInv'
    <3>1. (i <= Len(recording[frame]) + 1)' /\ (frame <= Len(recording))'
          /\ (frame <= Len(recording) + 1)'
      BY <1>1, <1>2, <1>4, <2>1
    <3>2. Near(frameStart, Before(frame), frame - 1)'
      BY <1>5, <2>1, <2>5
    <3>3. (nextSample = frameStart + Rescale(Len(recording[frame])))'
      BY <1>2, <2>1
    <3> QED
      BY <2>1, <3>1, <3>2, <3>3 DEF ClockInv
  <2>7. Seen' = Seen /\ Clock' = Clock
    <3>1. i' - 1 = 0
      BY <1>2
    <3>2. Seen' = Before(frame) + 0
      BY <2>1, <2>5, <3>1 DEF Seen
    <3>3. Clock' = nextSample + 0
      BY <2>1, <2>2, <3>1 DEF Clock, Now
    <3> QED
      BY <1>1, <1>5, <3>2, <3>3
  <2>8. Scanning /\ Scanning'
    BY <1>2, <2>1 DEF Scanning
  <2> QED
    BY <1>2, <2>1, <2>4, <2>6, <2>7, <2>8, Standing DEF ScanInv
<1> QED
  BY <1>6, <1>7

\* A frame ends where the next one begins.
LEMMA EndFrameKeeps ==
  ASSUME ScanInv, EndFrame
  PROVE  ScanInv'
<1>1. /\ recording \in Seq(Seq(BOOLEAN)) /\ Len(recording) \in Nat
      /\ frame \in Nat /\ frame # 0 /\ frameStart \in Nat /\ nextSample \in Nat
      /\ i \in Nat /\ ScanTypes
  BY ScanParts DEF ScanInv
<1>2. /\ phase = "inside" /\ phase' = "between" /\ frame' = frame + 1 /\ i' = i
      /\ i > Len(recording[frame])
      /\ recording' = recording /\ requested' = requested /\ intervals' = intervals
      /\ frameStart' = frameStart /\ nextSample' = nextSample /\ pending' = pending
  BY DEF EndFrame
<1>3. /\ frame <= Len(recording) /\ i <= Len(recording[frame]) + 1
      /\ Near(frameStart, Before(frame), frame - 1)
      /\ nextSample = frameStart + Rescale(Len(recording[frame]))
  BY <1>2 DEF ScanInv, ClockInv
<1>4. frame \in 1 .. Len(recording)
  BY <1>1, <1>3
<1>5. /\ Len(UpTo(recording)[frame]) = Before(frame) + Len(recording[frame])
      /\ Before(frame) \in Nat /\ Len(recording[frame]) \in Nat
  BY <1>1, <1>4, FlatAt DEF Before
<1>6. frame' - 1 = frame /\ i - 1 = Len(recording[frame])
  BY <1>1, <1>2, <1>3, <1>5
<1>7. Before(frame)' = Before(frame) + Len(recording[frame])
  BY <1>2, <1>5, <1>6 DEF Before
<1>8. ScanTypes'
  BY <1>1, <1>2 DEF ScanTypes
<1>9. ClockInv'
  <2> DEFINE l == Len(recording[frame])
             q == Rescale(l)
             e == frame - 1
  <2>1. q \in Nat /\ Near(q, l, 1) /\ l \in Nat /\ e \in Int
    <3>1. l \in Nat /\ e \in Int
      BY <1>1, <1>5
    <3> HIDE DEF l, e
    <3>2. q \in Nat /\ Near(q, l, 1)
      BY <3>1, RescaleNear
    <3> QED
      BY <3>1, <3>2
  <2>2. nextSample = frameStart + q /\ Near(frameStart, Before(frame), e)
        /\ Before(frame)' = Before(frame) + l /\ frame' - 1 = e + 1
    BY <1>1, <1>3, <1>6, <1>7
  <2> HIDE DEF l, q, e
  <2>3. Near(frameStart + q, Before(frame) + l, e + 1)
    BY <1>1, <1>5, <2>1, <2>2, NearSum
  <2>4. Near(nextSample, Before(frame), frame - 1)'
    BY <1>2, <2>2, <2>3
  <2>5. (frame <= Len(recording) + 1)'
    BY <1>1, <1>2, <1>3
  <2> QED
    BY <1>2, <2>4, <2>5 DEF ClockInv
<1>10. Seen' = Seen /\ Clock' = Clock
  <2>1. Seen = Before(frame) + Len(recording[frame])
    BY <1>2, <1>6 DEF Seen
  <2>2. Seen' = Before(frame) + Len(recording[frame])
    BY <1>2, <1>5, <1>7 DEF Seen
  <2>3. Clock = nextSample /\ Clock' = nextSample
    BY <1>2, <1>3, <1>6 DEF Clock, Now
  <2> QED
    BY <2>1, <2>2, <2>3
<1>11. Scanning /\ Scanning'
  BY <1>2 DEF Scanning
<1> QED
  BY <1>2, <1>8, <1>9, <1>10, <1>11, Standing DEF ScanInv

\* The next sample, and the time it takes.
LEMMA NextSample ==
  ASSUME ScanTypes, ClockInv, phase = "inside", i <= Len(recording[frame]),
         recording' = recording, requested' = requested, phase' = phase, frame' = frame,
         frameStart' = frameStart, nextSample' = nextSample, i' = i + 1
  PROVE  /\ Seen' = Seen + 1 /\ Seen \in Nat /\ Seen + 1 <= Len(Samples)
         /\ Silent(Seen + 1) = recording[frame][i]
         /\ Clock = Now /\ Clock \in Nat /\ Clock' \in Nat /\ Clock <= Clock'
         /\ Rate <= Base => Clock < Clock'
         /\ ClockInv'
<1>1. /\ recording \in Seq(Seq(BOOLEAN)) /\ Len(recording) \in Nat
      /\ frame \in Nat /\ frame # 0 /\ frameStart \in Nat /\ nextSample \in Nat
      /\ i \in Nat /\ i # 0
  BY ScanParts
<1>2. /\ frame <= Len(recording) /\ Near(frameStart, Before(frame), frame - 1)
      /\ nextSample = frameStart + Rescale(Len(recording[frame]))
  BY DEF ClockInv
<1>3. frame \in 1 .. Len(recording)
  BY <1>1, <1>2
<1>4. /\ Len(UpTo(recording)[frame]) = Before(frame) + Len(recording[frame])
      /\ Len(UpTo(recording)[frame]) <= Len(Samples) /\ Len(Samples) \in Nat
      /\ Before(frame) \in Nat /\ Len(recording[frame]) \in Nat
      /\ \A j \in 1 .. Len(recording[frame]) :
           Samples[Before(frame) + j] = recording[frame][j]
  BY <1>1, <1>3, FlatAt DEF Before, Samples
<1>5. Before(frame)' = Before(frame)
  BY DEF Before
<1>6. Seen = Before(frame) + (i - 1) /\ Seen' = Before(frame) + i
  BY <1>1, <1>5 DEF Seen
<1>7. Seen' = Seen + 1 /\ Seen \in Nat /\ Seen + 1 = Before(frame) + i
  BY <1>1, <1>4, <1>6
<1>8. Seen + 1 <= Len(Samples)
  BY <1>1, <1>4, <1>7
<1>9. Silent(Seen + 1) = recording[frame][i]
  <2>1. i \in 1 .. Len(recording[frame])
    BY <1>1, <1>4
  <2> QED
    BY <1>4, <1>7, <2>1 DEF Silent
<1>10. /\ Clock = Now /\ Clock \in Nat /\ Clock' \in Nat /\ Clock <= Clock'
       /\ Rate <= Base => Clock < Clock'
  <2> DEFINE q == Rescale(i - 1)
             p == Rescale(i)
  <2>1. i - 1 \in Nat /\ i - 1 < i /\ i' - 1 = i
    BY <1>1
  <2>2. Clock = Now /\ Now = frameStart + q /\ Clock' = frameStart + p
    BY <2>1 DEF Clock, Now
  <2>3. q \in Nat /\ p \in Nat /\ q <= p /\ (Rate <= Base => q < p)
    BY <1>1, <2>1, RescaleRises, RescaleNear
  <2> HIDE DEF p, q
  <2> QED
    BY <1>1, <2>2, <2>3
<1>11. ClockInv'
  <2>1. (i <= Len(recording[frame]) + 1)' /\ (frame <= Len(recording))'
        /\ (frame <= Len(recording) + 1)'
    BY <1>1, <1>2, <1>4
  <2>2. Near(frameStart, Before(frame), frame - 1)'
    BY <1>2, <1>5
  <2>3. (nextSample = frameStart + Rescale(Len(recording[frame])))'
    BY <1>2
  <2> QED
    BY <2>1, <2>2, <2>3 DEF ClockInv
<1> QED
  BY <1>7, <1>8, <1>9, <1>10, <1>11

\* A silent sample begins a run, or belongs to the one that is pending.
LEMMA SilentSampleKeeps ==
  ASSUME ScanInv, SilentSample
  PROVE  ScanInv'
<1>1. /\ ScanTypes /\ ClockInv /\ PendingInv /\ FoundInv /\ ApartInv
  BY DEF ScanInv
<1>2. /\ phase = "inside" /\ i <= Len(recording[frame]) /\ recording[frame][i]
      /\ recording' = recording /\ requested' = requested /\ phase' = phase /\ frame' = frame
      /\ frameStart' = frameStart /\ nextSample' = nextSample /\ i' = i + 1
      /\ intervals' = intervals
      /\ pending' = IF pending.on THEN [pending EXCEPT !.reported = LongEnough(Now)]
                    ELSE [on |-> TRUE, start |-> Now, reported |-> FALSE]
  BY DEF SilentSample, SilenceFrom
<1>3. /\ Seen' = Seen + 1 /\ Seen \in Nat /\ Seen + 1 <= Len(Samples)
      /\ Silent(Seen + 1) = recording[frame][i]
      /\ Clock = Now /\ Clock \in Nat /\ Clock' \in Nat /\ Clock <= Clock'
      /\ Rate <= Base => Clock < Clock'
      /\ ClockInv'
  BY <1>1, <1>2, NextSample
<1>4. /\ Samples' = Samples /\ Runs' = Runs /\ MinSilence' = MinSilence
      /\ \A k : Silent(k)' = Silent(k)
      /\ \A r : LongRun(r)' <=> LongRun(r)
      /\ \A v, r : Matches(v, r)' <=> Matches(v, r)
  BY <1>2, Same
<1>5. /\ pending \in [on : BOOLEAN, start : Nat, reported : BOOLEAN] /\ i \in Nat
      /\ MinSilence \in Nat /\ Len(Samples) \in Nat /\ Len(recording) \in Nat
      /\ DOMAIN Samples = 1 .. Len(Samples) /\ Rate \in Nat /\ Base \in Nat
      /\ \A k \in DOMAIN intervals : intervals[k].end \in Nat
  BY <1>1, ScanParts, SamplesAre DEF ScanTypes
<1>6. Scanning /\ Scanning'
  BY <1>2 DEF Scanning
<1>7. PICK n \in Nat : n = Seen
  BY <1>3
<1>8. Seen' = n + 1 /\ Silent(n + 1)
  BY <1>2, <1>3, <1>7
<1>9. /\ \A k \in 1 .. n : k > 0 => Silent(k)' = Silent(k)
      /\ Silent(n + 1)' /\ Silent(Seen)'
  <2>1. Silent(n + 1)'
    BY <1>4, <1>8
  <2>2. Silent(Seen)' = Samples'[n + 1] /\ Silent(n + 1)' = Samples'[n + 1]
    BY <1>8 DEF Silent
  <2> QED
    BY <1>4, <2>1, <2>2
<1>10. /\ LongEnough(Now) \in BOOLEAN
       /\ LongEnough(Now) => (pending.on => Clock - pending.start >= MinSilence)
  <2>1. LongEnough(Now) <=> pending.reported \/ Clock - pending.start >= MinSilence
    BY <1>3 DEF LongEnough
  <2>2. pending.on /\ pending.reported => Clock - pending.start >= MinSilence
    BY <1>1, <1>6 DEF PendingInv
  <2>3. LongEnough(Now) \in BOOLEAN
    BY <1>5 DEF LongEnough
  <2> QED
    BY <2>1, <2>2, <2>3
<1>11. PICK b \in BOOLEAN : b = LongEnough(Now)
  BY <1>10
<1>12. /\ pending' \in [on : BOOLEAN, start : Nat, reported : BOOLEAN] /\ pending.on' = TRUE
       /\ pending.on => pending.start' = pending.start /\ pending.reported' = b
       /\ ~ pending.on => pending.start' = Clock /\ pending.reported' = FALSE
  <2>1. CASE pending.on
    <3>1. pending' = [pending EXCEPT !.reported = b]
      BY <1>2, <1>11, <2>1
    <3> QED
      BY <1>5, <2>1, <3>1
  <2>2. CASE ~ pending.on
    <3>1. pending' = [on |-> TRUE, start |-> Clock, reported |-> FALSE]
      BY <1>2, <1>3, <2>2
    <3> QED
      BY <1>3, <2>2, <3>1
  <2> QED
    BY <2>1, <2>2
<1>13. \E from \in 1 .. n + 1 : BeganAt(from)'
  <2>1. CASE pending.on
    <3>1. PICK from \in 1 .. n : BeganAt(from)
      BY <1>1, <1>6, <1>7, <2>1 DEF PendingInv
    <3>2. \A k \in from .. n + 1 : Silent(k)'
      <4>1. \A k \in from .. n + 1 : k \in from .. n \/ k = n + 1
        BY <1>7
      <4>2. \A k \in from .. n : Silent(k)
        BY <1>7, <3>1 DEF BeganAt
      <4> QED
        BY <1>4, <1>9, <4>1, <4>2
    <3>3. (from > 1 => ~ Silent(from - 1)) /\ Near(pending.start, from - 1, Len(recording))
      BY <3>1 DEF BeganAt
    <3>4. Silent(from - 1)' = Silent(from - 1)
      BY <1>4
    <3>5. Len(recording)' = Len(recording) /\ pending.start' = pending.start
      BY <1>2, <1>12, <2>1
    <3>6. BeganAt(from)'
      BY <1>8, <3>2, <3>3, <3>4, <3>5 DEF BeganAt
    <3> QED
      BY <3>6
  <2>2. CASE ~ pending.on
    <3>1. \A k \in n + 1 .. n + 1 : Silent(k)'
      <4>1. \A k \in n + 1 .. n + 1 : k = n + 1
        OBVIOUS
      <4> QED
        BY <1>9, <4>1
    <3>2. n + 1 > 1 => ~ Silent(n)'
      <4>1. n > 0 => ~ Silent(n)
        BY <1>1, <1>6, <1>7, <2>2 DEF PendingInv
      <4> QED
        BY <1>4, <4>1
    <3>3. Near(Clock, n, Len(recording)) /\ (n + 1) - 1 = n
      BY <1>1, <1>6, <1>7, ClockIsNear
    <3>4. Len(recording)' = Len(recording) /\ pending.start' = Clock
      BY <1>2, <1>12, <2>2
    <3>5. BeganAt(n + 1)'
      <4> DEFINE m == n + 1
      <4>1. m - 1 = n /\ Seen' = m /\ (\A k \in m .. m : Silent(k)') /\ (m > 1 => ~ Silent(n)')
        BY <1>8, <3>1, <3>2, <3>3
      <4>2. PICK l \in Nat : l = m
        OBVIOUS
      <4>3. BeganAt(l)'
        BY <3>3, <3>4, <4>1, <4>2 DEF BeganAt
      <4> QED
        BY <4>2, <4>3
    <3> QED
      BY <3>5
  <2> QED
    BY <2>1, <2>2
<1>14. PendingInv'
  <2>1. (pending.on <=> Seen > 0 /\ Silent(Seen))'
    BY <1>8, <1>9, <1>12
  <2>2. (pending.on => \E from \in 1 .. Seen : BeganAt(from))'
    BY <1>8, <1>13
  <2>3. (pending.on /\ pending.reported => Clock - pending.start >= MinSilence)'
    <3>1. CASE pending.on /\ b
      <4>1. Clock - pending.start >= MinSilence /\ pending.start \in Nat
        BY <1>5, <1>10, <1>11, <3>1
      <4>2. Clock' - pending.start >= MinSilence
        BY <1>3, <1>5, <4>1
      <4> QED
        BY <1>4, <1>12, <3>1, <4>2
    <3>2. CASE ~ (pending.on /\ b)
      <4>1. ~ pending.reported'
        BY <1>12, <3>2
      <4> QED
        BY <4>1
    <3> QED
      BY <3>1, <3>2
  <2> QED
    BY <2>1, <2>2, <2>3 DEF PendingInv
<1>15. FoundInv'
  <2>1. phase # "idle" /\ phase # "done" /\ phase' # "idle" /\ phase' # "done"
    BY <1>2
  <2>2. ASSUME NEW r \in Runs, r.to < n + 1 PROVE r.to < n
    <3>1. r.to \in 1 .. Len(Samples) /\ (r.to < Len(Samples) => ~ Silent(r.to + 1))
      BY <1>5, RunIs
    <3>2. r.to # n
      BY <1>3, <1>5, <1>7, <1>8, <3>1
    <3> QED
      BY <2>2, <3>1, <3>2
  <2>3. \A r \in Runs : r.to < n /\ LongRun(r) =>
          \E k \in DOMAIN intervals : Matches(intervals[k], r)
    BY <1>1, <1>7, <2>1 DEF FoundInv
  <2>4. (\A r \in Runs : (phase = "done" \/ r.to < Seen) /\ LongRun(r) =>
           \E k \in DOMAIN intervals : Matches(intervals[k], r))'
    BY <1>2, <1>4, <1>8, <2>1, <2>2, <2>3
  <2>5. (\A k \in DOMAIN intervals :
          /\ intervals[k].end - intervals[k].start >= MinSilence
          /\ \E r \in Runs : Matches(intervals[k], r))'
    <3>1. \A k \in DOMAIN intervals :
            /\ intervals[k].end - intervals[k].start >= MinSilence
            /\ \E r \in Runs : Matches(intervals[k], r)
      BY <1>1, <2>1 DEF FoundInv
    <3> QED
      BY <1>2, <1>4, <3>1
  <2> QED
    BY <2>4, <2>5 DEF FoundInv
<1>16. ApartInv'
  <2> SUFFICES ASSUME Rate <= Base
               PROVE  /\ \A j, k \in DOMAIN intervals : j < k =>
                            intervals[j].end < intervals[k].start
                      /\ \A k \in DOMAIN intervals : intervals[k].end < Clock'
                      /\ \A k \in DOMAIN intervals : intervals[k].end < pending.start'
    BY <1>2 DEF ApartInv
  <2>1. /\ \A j, k \in DOMAIN intervals : j < k => intervals[j].end < intervals[k].start
        /\ \A k \in DOMAIN intervals : intervals[k].end < Clock
        /\ pending.on => \A k \in DOMAIN intervals : intervals[k].end < pending.start
    BY <1>1, <1>6 DEF ApartInv
  <2>2. \A k \in DOMAIN intervals : intervals[k].end < Clock'
    BY <1>3, <1>5, <2>1
  <2>3. \A k \in DOMAIN intervals : intervals[k].end < pending.start'
    BY <1>12, <2>1
  <2> QED
    BY <2>1, <2>2, <2>3
<1>17. ScanTypes'
  <2>1. i' \in Nat \ {0}
    BY <1>2, <1>5
  <2> QED
    BY <1>1, <1>2, <1>12, <2>1 DEF ScanTypes
<1> QED
  BY <1>3, <1>14, <1>15, <1>16, <1>17 DEF ScanInv

\* The next sample is not silent, or there is none.
Ending == Seen = Len(Samples) \/ (Seen < Len(Samples) /\ ~ Silent(Seen + 1))

\* The pending silence is the run that ends here, and the only one.
LEMMA EndingRun ==
  ASSUME ScanInv, Scanning, Ending, Seen > 0, Silent(Seen)
  PROVE  \E r \in Runs : /\ r.to = Seen /\ BeganAt(r.from)
                         /\ \A o \in Runs : o.to = Seen => o = r
<1>1. /\ ScanTypes /\ ClockInv /\ PendingInv
      /\ Len(Samples) \in Nat /\ DOMAIN Samples = 1 .. Len(Samples)
  BY SamplesAre DEF ScanInv
<1>2. PICK n \in Nat : n = Seen /\ n <= Len(Samples)
  BY <1>1, ClockIsNear
<1>3. PICK from \in 1 .. n : BeganAt(from)
  BY <1>1, <1>2 DEF PendingInv
<1>4. (\A k \in from .. n : Silent(k)) /\ (from > 1 => ~ Silent(from - 1))
  BY <1>2, <1>3 DEF BeganAt
<1> DEFINE r == [from |-> from, to |-> n]
<1>5. r \in Runs
  <2>1. /\ r \in [from : DOMAIN Samples, to : DOMAIN Samples] /\ r.from = from /\ r.to = n
        /\ from <= n
    BY <1>1, <1>2
  <2>2. n < Len(Samples) => ~ Silent(n + 1)
    <3>1. Silent(Seen + 1) = Silent(n + 1)
      BY <1>2, Zenon
    <3>2. CASE Seen = Len(Samples)
      BY <1>1, <1>2, <3>2
    <3>3. CASE ~ Silent(Seen + 1)
      BY <3>1, <3>3
    <3> QED
      BY <3>2, <3>3 DEF Ending
  <2> HIDE DEF r
  <2> QED
    BY <1>4, <2>1, <2>2, RunIs
<1>6. ASSUME NEW o \in Runs, o.to = n PROVE o = r
  <2>1. /\ o \in [from : DOMAIN Samples, to : DOMAIN Samples]
        /\ o.from <= n /\ (\A k \in o.from .. n : Silent(k))
        /\ o.from > 1 => ~ Silent(o.from - 1)
    BY <1>6, RunIs
  <2>2. o.from \in 1 .. n /\ o.from \in Nat
    BY <1>1, <2>1
  <2>3. CASE o.from < from
    <3>1. from - 1 \in o.from .. n /\ from > 1
      BY <2>2, <2>3
    <3> QED
      BY <1>4, <2>1, <3>1
  <2>4. CASE from < o.from
    <3>1. o.from - 1 \in from .. n /\ o.from > 1
      BY <2>2, <2>4
    <3> QED
      BY <1>4, <2>1, <3>1
  <2>5. o.from = from
    BY <2>2, <2>3, <2>4
  <2> QED
    BY <1>6, <2>1, <2>5
<1>7. r.to = Seen /\ r.from = from
  BY <1>2
<1> HIDE DEF r
<1> QED
  BY <1>2, <1>3, <1>5, <1>6, <1>7

\* A silence that is not reported before it ends is not a long one; one that is
\* has its place.
LEMMA Closing ==
  ASSUME ScanInv, Scanning, Ending, NEW s,
         s = IF pending.on /\ (pending.reported \/ Clock - pending.start >= MinSilence)
             THEN Append(intervals, [start |-> pending.start, end |-> Clock])
             ELSE intervals
  PROVE  /\ s \in Seq(Spans)
         /\ \A r \in Runs : r.to <= Seen /\ LongRun(r) =>
              \E k \in DOMAIN s : Matches(s[k], r)
         /\ \A k \in DOMAIN s : s[k].end - s[k].start >= MinSilence
                                /\ \E r \in Runs : Matches(s[k], r)
         /\ Rate <= Base =>
              /\ \A j, k \in DOMAIN s : j < k => s[j].end < s[k].start
              /\ \A k \in DOMAIN s : s[k].end <= Clock
<1>1. /\ ScanTypes /\ ClockInv /\ PendingInv /\ FoundInv /\ ApartInv
      /\ Len(Samples) \in Nat /\ DOMAIN Samples = 1 .. Len(Samples)
  BY SamplesAre DEF ScanInv
<1>2. /\ MinSilence \in Nat /\ Rate \in Nat /\ Base \in Nat /\ Len(recording) \in Nat
      /\ pending.start \in Nat /\ intervals \in Seq(Spans)
      /\ \A k \in DOMAIN intervals : k \in Nat /\ intervals[k] \in Spans
           /\ intervals[k].start \in Nat /\ intervals[k].end \in Nat
  BY <1>1, ScanParts
<1>3. Seen \in Nat /\ Clock \in Nat /\ Near(Clock, Seen, Len(recording))
  BY <1>1, ClockIsNear
<1>4. /\ pending.on <=> Seen > 0 /\ Silent(Seen)
      /\ pending.on /\ pending.reported => Clock - pending.start >= MinSilence
  BY <1>1 DEF PendingInv
<1>5. /\ \A r \in Runs : r.to < Seen /\ LongRun(r) =>
           \E k \in DOMAIN intervals : Matches(intervals[k], r)
      /\ \A k \in DOMAIN intervals :
           /\ intervals[k].end - intervals[k].start >= MinSilence
           /\ \E r \in Runs : Matches(intervals[k], r)
  BY <1>1 DEF FoundInv, Scanning
<1>6. Rate <= Base =>
        /\ \A j, k \in DOMAIN intervals : j < k => intervals[j].end < intervals[k].start
        /\ \A k \in DOMAIN intervals : intervals[k].end < Clock
        /\ pending.on => \A k \in DOMAIN intervals : intervals[k].end < pending.start
  BY <1>1 DEF ApartInv
<1>7. ASSUME NEW r \in Runs, r.to = Seen
      PROVE  /\ pending.on /\ BeganAt(r.from)
             /\ LongRun(r) => Clock - pending.start >= MinSilence
  <2>1. /\ r \in [from : DOMAIN Samples, to : DOMAIN Samples]
        /\ r.from <= r.to /\ \A k \in r.from .. r.to : Silent(k)
    BY RunIs
  <2>2. r.from \in Nat /\ r.from >= 1 /\ r.to \in Nat /\ r.to \in r.from .. r.to
    BY <1>1, <2>1
  <2>3. Seen > 0 /\ Silent(Seen)
    BY <1>7, <2>1, <2>2
  <2>4. PICK o \in Runs : BeganAt(o.from) /\ \A q \in Runs : q.to = Seen => q = o
    BY <2>3, EndingRun
  <2>5. BeganAt(r.from)
    BY <1>7, <2>4
  <2>6. ASSUME LongRun(r) PROVE Clock - pending.start >= MinSilence
    <3> DEFINE n == Len(recording)
               a == r.from - 1
               b == r.to
    <3>1. n \in Nat /\ a \in Nat /\ b \in Nat /\ Near(pending.start, a, n) /\ Near(Clock, b, n)
      BY <1>2, <1>3, <1>7, <2>2, <2>5 DEF BeganAt
    <3>2. b * Base - a * Base >= MinSilence * Rate + Rate * n
      BY <2>6 DEF LongRun, To, From, Slack
    <3> HIDE DEF n, a, b
    <3> QED
      BY <1>2, <1>3, <3>1, <3>2, NearFar
  <2> QED
    BY <1>4, <2>3, <2>5, <2>6
<1>8. CASE pending.on /\ (pending.reported \/ Clock - pending.start >= MinSilence)
  <2> DEFINE v == [start |-> pending.start, end |-> Clock]
  <2>1. s = Append(intervals, v)
    BY <1>8
  <2>2. /\ v \in Spans /\ v.start = pending.start /\ v.end = Clock
        /\ v.end - v.start >= MinSilence
    BY <1>2, <1>3, <1>4, <1>8 DEF Spans
  <2>3. PICK o \in Runs : /\ o.to = Seen /\ BeganAt(o.from)
                          /\ \A q \in Runs : q.to = Seen => q = o
    BY <1>4, <1>8, EndingRun
  <2>4. Matches(v, o)
    <3>1. o \in [from : DOMAIN Samples, to : DOMAIN Samples]
      BY RunIs
    <3>2. Near(v.start, o.from - 1, Len(recording)) /\ Near(v.end, o.to, Len(recording))
      BY <1>3, <2>2, <2>3 DEF BeganAt
    <3> HIDE DEF v
    <3> QED
      BY <1>1, <2>2, <3>1, <3>2, MatchesIs
  <2> HIDE DEF v
  <2> DEFINE n == Len(intervals)
  <2>5. /\ n \in Nat /\ DOMAIN intervals = 1 .. n
        /\ s \in Seq(Spans) /\ DOMAIN s = 1 .. n + 1
        /\ s[n + 1] = v /\ \A k \in 1 .. n : s[k] = intervals[k]
    BY <1>2, <2>1, <2>2, LenProperties, AppendProperties
  <2> HIDE DEF n
  <2>6. \A k \in DOMAIN s : k \in DOMAIN intervals \/ k = n + 1
    BY <2>5
  <2>7. \A r \in Runs : r.to <= Seen /\ LongRun(r) => \E k \in DOMAIN s : Matches(s[k], r)
    <3> SUFFICES ASSUME NEW r \in Runs, r.to <= Seen, LongRun(r)
                 PROVE  \E k \in DOMAIN s : Matches(s[k], r)
      OBVIOUS
    <3>1. CASE r.to = Seen
      <4>1. n + 1 \in DOMAIN s /\ s[n + 1] = v /\ r = o
        BY <2>3, <2>5, <3>1
      <4> QED
        BY <2>4, <4>1
    <3>2. CASE r.to # Seen
      <4>1. r.to \in Nat
        BY <1>1, RunIs
      <4>2. r.to < Seen
        BY <1>3, <3>2, <4>1
      <4>3. PICK k \in DOMAIN intervals : Matches(intervals[k], r)
        BY <1>5, <4>2
      <4>4. k \in DOMAIN s /\ s[k] = intervals[k]
        BY <2>5
      <4> QED
        BY <4>3, <4>4
    <3> QED
      BY <3>1, <3>2
  <2>8. \A k \in DOMAIN s : s[k].end - s[k].start >= MinSilence
                            /\ \E r \in Runs : Matches(s[k], r)
    <3> SUFFICES ASSUME NEW k \in DOMAIN s
                 PROVE  s[k].end - s[k].start >= MinSilence /\ \E r \in Runs : Matches(s[k], r)
      OBVIOUS
    <3>1. CASE k \in DOMAIN intervals
      <4>1. s[k] = intervals[k]
        BY <2>5, <3>1
      <4> QED
        BY <1>5, <3>1, <4>1
    <3>2. CASE k = n + 1
      <4>1. s[k] = v
        BY <2>5, <3>2
      <4> QED
        BY <2>2, <2>4, <4>1
    <3> QED
      BY <2>6, <3>1, <3>2
  <2>9. ASSUME Rate <= Base
        PROVE  /\ \A j, k \in DOMAIN s : j < k => s[j].end < s[k].start
               /\ \A k \in DOMAIN s : s[k].end <= Clock
    <3>1. /\ \A j, k \in 1 .. n : j < k => intervals[j].end < intervals[k].start
          /\ \A k \in 1 .. n : intervals[k].end < Clock /\ intervals[k].end < pending.start
                               /\ intervals[k].end \in Nat
      BY <1>2, <1>6, <1>8, <2>5, <2>9
    <3>2. \A j, k \in 1 .. n + 1 : j < k => j \in 1 .. n /\ (k \in 1 .. n \/ k = n + 1)
      BY <2>5
    <3>3. \A j, k \in DOMAIN s : j < k => s[j].end < s[k].start
      BY <2>2, <2>5, <3>1, <3>2
    <3>4. \A k \in DOMAIN s : s[k].end <= Clock
      <4> SUFFICES ASSUME NEW k \in DOMAIN s PROVE s[k].end <= Clock
        OBVIOUS
      <4>1. CASE k \in 1 .. n
        BY <1>3, <2>5, <3>1, <4>1
      <4>2. CASE k = n + 1
        <5>1. s[k] = v
          BY <2>5, <4>2
        <5> QED
          BY <1>3, <2>2, <5>1
      <4> QED
        BY <2>5, <2>6, <4>1, <4>2
    <3> QED
      BY <3>3, <3>4
  <2> QED
    BY <2>5, <2>7, <2>8, <2>9
<1>9. CASE ~ (pending.on /\ (pending.reported \/ Clock - pending.start >= MinSilence))
  <2>1. s = intervals
    BY <1>9
  <2>2. ASSUME NEW r \in Runs, r.to <= Seen, LongRun(r)
        PROVE  \E k \in DOMAIN s : Matches(s[k], r)
    <3>1. r.to # Seen
      BY <1>7, <1>9, <2>2
    <3>2. r.to \in Nat
      BY <1>1, RunIs
    <3>3. r.to < Seen
      BY <1>3, <2>2, <3>1, <3>2
    <3> QED
      BY <1>5, <2>1, <2>2, <3>3
  <2>3. Rate <= Base => \A k \in DOMAIN s : s[k].end <= Clock
    BY <1>2, <1>3, <1>6, <2>1
  <2> QED
    BY <1>2, <1>5, <1>6, <2>1, <2>2, <2>3
<1> QED
  BY <1>8, <1>9

\* Another sample ends the run before it.
LEMMA LoudSampleKeeps ==
  ASSUME ScanInv, LoudSample
  PROVE  ScanInv'
<1>1. /\ ScanTypes /\ ClockInv
  BY DEF ScanInv
<1>2. /\ phase = "inside" /\ i <= Len(recording[frame]) /\ ~ recording[frame][i]
      /\ recording' = recording /\ requested' = requested /\ phase' = phase /\ frame' = frame
      /\ frameStart' = frameStart /\ nextSample' = nextSample /\ i' = i + 1
      /\ intervals' = Pushed(Now)
      /\ pending' = [on |-> FALSE, start |-> 0, reported |-> FALSE]
  BY DEF LoudSample, NoSilence
<1>3. /\ Seen' = Seen + 1 /\ Seen \in Nat /\ Seen + 1 <= Len(Samples)
      /\ Silent(Seen + 1) = recording[frame][i]
      /\ Clock = Now /\ Clock \in Nat /\ Clock' \in Nat /\ Clock <= Clock'
      /\ Rate <= Base => Clock < Clock'
      /\ ClockInv'
  BY <1>1, <1>2, NextSample
<1>4. /\ Samples' = Samples /\ Runs' = Runs /\ MinSilence' = MinSilence
      /\ \A k : Silent(k)' = Silent(k)
      /\ \A r : LongRun(r)' <=> LongRun(r)
      /\ \A v, r : Matches(v, r)' <=> Matches(v, r)
  BY <1>2, Same
<1>5. /\ Len(Samples) \in Nat /\ DOMAIN Samples = 1 .. Len(Samples) /\ i \in Nat
      /\ Rate \in Nat /\ Base \in Nat
  BY <1>1, ScanParts, SamplesAre
<1>6. Scanning /\ Ending
  <2>1. Seen < Len(Samples) /\ ~ Silent(Seen + 1)
    BY <1>2, <1>3, <1>5
  <2> QED
    BY <1>2, <2>1 DEF Scanning, Ending
<1>7. PICK s : s = intervals'
  OBVIOUS
<1>8. s = IF pending.on /\ (pending.reported \/ Clock - pending.start >= MinSilence)
          THEN Append(intervals, [start |-> pending.start, end |-> Clock])
          ELSE intervals
  BY <1>2, <1>3, <1>7 DEF Pushed, LongEnough
<1>9. /\ s \in Seq(Spans)
      /\ \A r \in Runs : r.to <= Seen /\ LongRun(r) =>
           \E k \in DOMAIN s : Matches(s[k], r)
      /\ \A k \in DOMAIN s : s[k].end - s[k].start >= MinSilence
                             /\ \E r \in Runs : Matches(s[k], r)
      /\ Rate <= Base =>
           /\ \A j, k \in DOMAIN s : j < k => s[j].end < s[k].start
           /\ \A k \in DOMAIN s : s[k].end <= Clock
  BY <1>6, <1>8, Closing
<1>10. ~ pending.on' /\ pending' \in [on : BOOLEAN, start : Nat, reported : BOOLEAN]
  BY <1>2
<1>11. \A k \in DOMAIN s : s[k].end \in Nat
  <2>1. \A k \in DOMAIN s : s[k] \in Spans
    BY <1>9, LenProperties, ElementOfSeq
  <2> QED
    BY <2>1 DEF Spans
<1>12. PendingInv'
  <2>1. ~ Silent(Seen)'
    <3>1. PICK n \in Nat : n = Seen + 1
      BY <1>3
    <3>2. Silent(n) = Silent(Seen + 1)
      BY <3>1, Zenon
    <3>3. Silent(Seen)' = Samples'[n] /\ Silent(n)' = Samples'[n]
      BY <1>3, <3>1 DEF Silent
    <3> QED
      BY <1>2, <1>3, <1>4, <3>2, <3>3
  <2> QED
    BY <1>10, <2>1 DEF PendingInv
<1>13. FoundInv'
  <2>1. PICK n \in Nat : n = Seen
    BY <1>3
  <2>2. Seen' = n + 1 /\ phase' # "done"
    BY <1>2, <1>3, <2>1
  <2>3. ASSUME NEW r \in Runs, r.to < n + 1, LongRun(r)
        PROVE  \E k \in DOMAIN s : Matches(s[k], r)
    <3>1. r.to \in Nat
      BY <1>5, RunIs
    <3>2. r.to <= Seen
      BY <2>1, <2>3, <3>1
    <3> QED
      BY <1>9, <2>3, <3>2
  <2>4. (\A r \in Runs : (phase = "done" \/ r.to < Seen) /\ LongRun(r) =>
           \E k \in DOMAIN intervals : Matches(intervals[k], r))'
    BY <1>4, <1>7, <2>2, <2>3
  <2>5. (\A k \in DOMAIN intervals :
          /\ intervals[k].end - intervals[k].start >= MinSilence
          /\ \E r \in Runs : Matches(intervals[k], r))'
    BY <1>4, <1>7, <1>9
  <2> QED
    BY <2>4, <2>5 DEF FoundInv
<1>14. ApartInv'
  <2> SUFFICES ASSUME Rate <= Base
               PROVE  /\ \A j, k \in DOMAIN s : j < k => s[j].end < s[k].start
                      /\ \A k \in DOMAIN s : s[k].end < Clock'
    BY <1>7, <1>10 DEF ApartInv
  <2> QED
    BY <1>3, <1>9, <1>11
<1>15. ScanTypes'
  <2>1. i' \in Nat \ {0} /\ intervals' \in Seq(Spans)
    BY <1>2, <1>5, <1>7, <1>9
  <2> QED
    BY <1>1, <1>2, <1>10, <2>1 DEF ScanTypes
<1> QED
  BY <1>3, <1>12, <1>13, <1>14, <1>15 DEF ScanInv

\* The end of the recording ends the last run.
LEMMA ClosePendingKeeps ==
  ASSUME ScanInv, ClosePending
  PROVE  ScanInv'
<1>1. /\ ScanTypes /\ ClockInv /\ PendingInv
  BY DEF ScanInv
<1>2. /\ phase = "between" /\ frame > Len(recording) /\ phase' = "done"
      /\ recording' = recording /\ requested' = requested /\ frame' = frame
      /\ frameStart' = frameStart /\ nextSample' = nextSample /\ i' = i
      /\ intervals' = IF nextSample > pending.start THEN Pushed(nextSample) ELSE intervals
      /\ pending' = [on |-> FALSE, start |-> 0, reported |-> FALSE]
  BY DEF ClosePending, NoSilence
<1>3. /\ Samples' = Samples /\ Runs' = Runs /\ MinSilence' = MinSilence
      /\ \A r : LongRun(r)' <=> LongRun(r)
      /\ \A v, r : Matches(v, r)' <=> Matches(v, r)
  BY <1>2, Same
<1>4. /\ Len(Samples) \in Nat /\ DOMAIN Samples = 1 .. Len(Samples)
      /\ MinSilence \in Nat /\ pending.start \in Nat /\ nextSample \in Nat
      /\ frame \in Nat /\ Len(recording) \in Nat /\ recording \in Seq(Seq(BOOLEAN))
  BY <1>1, ScanParts, SamplesAre
<1>5. MinSilence > 0
  <2>1. requested \in Int /\ LeastSilence \in Nat /\ LeastSilence > 0
    BY <1>1, ScanAssumption DEF ScanTypes
  <2> QED
    BY <2>1 DEF MinSilence
<1>6. Scanning /\ Clock = nextSample /\ Seen = Len(Samples)
  <2>1. frame = Len(recording) + 1
    BY <1>1, <1>2, <1>4 DEF ClockInv, Scanning
  <2>2. frame - 1 = Len(recording)
    BY <1>4, <2>1
  <2>3. Before(frame) = Len(Samples)
    BY <2>2 DEF Before, Samples, Flat
  <2>4. Before(frame) \in Nat
    BY <1>4, <2>3
  <2> QED
    BY <1>2, <2>3, <2>4 DEF Scanning, Clock, Seen
<1>7. PICK s : s = intervals'
  OBVIOUS
<1>8. s = IF pending.on /\ (pending.reported \/ Clock - pending.start >= MinSilence)
          THEN Append(intervals, [start |-> pending.start, end |-> Clock])
          ELSE intervals
  <2>1. pending.on /\ (pending.reported \/ Clock - pending.start >= MinSilence) =>
          nextSample > pending.start
    <3>1. ASSUME pending.on, pending.reported \/ Clock - pending.start >= MinSilence
          PROVE  nextSample > pending.start
      <4>1. Clock - pending.start >= MinSilence
        BY <1>1, <1>6, <3>1 DEF PendingInv
      <4> QED
        BY <1>4, <1>5, <1>6, <4>1
    <3> QED
      BY <3>1
  <2>2. s = IF nextSample > pending.start
            THEN IF pending.on /\ (pending.reported \/ nextSample - pending.start >= MinSilence)
                 THEN Append(intervals, [start |-> pending.start, end |-> nextSample])
                 ELSE intervals
            ELSE intervals
    BY <1>2, <1>7 DEF Pushed, LongEnough
  <2> QED
    BY <1>6, <2>1, <2>2
<1>9. /\ s \in Seq(Spans)
      /\ \A r \in Runs : r.to <= Seen /\ LongRun(r) =>
           \E k \in DOMAIN s : Matches(s[k], r)
      /\ \A k \in DOMAIN s : s[k].end - s[k].start >= MinSilence
                             /\ \E r \in Runs : Matches(s[k], r)
      /\ Rate <= Base => \A j, k \in DOMAIN s : j < k => s[j].end < s[k].start
  BY <1>6, <1>8, Closing DEF Ending
<1>10. ~ Scanning' /\ phase' # "between" /\ phase' # "inside"
  BY <1>2 DEF Scanning
<1>11. ScanTypes'
  <2>1. /\ pending' \in [on : BOOLEAN, start : Nat, reported : BOOLEAN]
        /\ intervals' \in Seq(Spans)
    BY <1>2, <1>7, <1>9
  <2> QED
    BY <1>1, <1>2, <2>1 DEF ScanTypes
<1>12. ClockInv' /\ PendingInv'
  BY <1>10 DEF ClockInv, PendingInv
<1>13. FoundInv'
  <2>1. ASSUME NEW r \in Runs, LongRun(r)
        PROVE  \E k \in DOMAIN s : Matches(s[k], r)
    <3>1. r.to <= Seen
      BY <1>4, <1>6, RunIs
    <3> QED
      BY <1>9, <2>1, <3>1
  <2>2. (\A r \in Runs : (phase = "done" \/ r.to < Seen) /\ LongRun(r) =>
           \E k \in DOMAIN intervals : Matches(intervals[k], r))'
    BY <1>3, <1>7, <2>1
  <2>3. (\A k \in DOMAIN intervals :
          /\ intervals[k].end - intervals[k].start >= MinSilence
          /\ \E r \in Runs : Matches(intervals[k], r))'
    BY <1>3, <1>7, <1>9
  <2> QED
    BY <2>2, <2>3 DEF FoundInv
<1>14. ApartInv'
  BY <1>7, <1>9, <1>10 DEF ApartInv
<1> QED
  BY <1>11, <1>12, <1>13, <1>14 DEF ScanInv

\* Every step of a scan.
LEMMA ScanStepKeeps ==
  ASSUME ScanInv, ScanStep
  PROVE  ScanInv'
BY BeginFrameKeeps, SilentSampleKeeps, LoudSampleKeeps, EndFrameKeeps, ClosePendingKeeps
   DEF ScanStep

\* A step of something else.
LEMMA ScanUnchanged ==
  ASSUME ScanInv, UNCHANGED scanVars
  PROVE  ScanInv'
<1>1. /\ recording' = recording /\ requested' = requested /\ phase' = phase
      /\ frame' = frame /\ i' = i /\ frameStart' = frameStart /\ nextSample' = nextSample
      /\ pending' = pending /\ intervals' = intervals
  BY DEF scanVars
<1>2. /\ Samples' = Samples /\ Runs' = Runs /\ MinSilence' = MinSilence
      /\ \A f : Before(f)' = Before(f)
      /\ \A k : Silent(k)' = Silent(k)
      /\ \A r : LongRun(r)' <=> LongRun(r)
      /\ \A v, r : Matches(v, r)' <=> Matches(v, r)
  BY <1>1, Same
<1>3. ScanTypes'
  BY <1>1 DEF ScanTypes, ScanInv
<1>4. Before(frame)' = Before(frame)
  BY <1>1 DEF Before
<1>5. ClockInv'
  BY <1>1, <1>4 DEF ClockInv, Scanning, ScanInv
<1>6. Seen' = Seen /\ Clock' = Clock
  BY <1>1, <1>4 DEF Seen, Clock, Now
<1>7. Scanning' <=> Scanning
  BY <1>1 DEF Scanning
<1>8. CASE Scanning
  BY <1>1, <1>3, <1>5, <1>6, <1>7, <1>8, Standing DEF ScanInv
<1>9. CASE ~ Scanning
  <2>1. PendingInv'
    BY <1>7, <1>9 DEF PendingInv
  <2>2. FoundInv'
    BY <1>1, <1>2, <1>6 DEF FoundInv, ScanInv
  <2>3. ApartInv'
    BY <1>1, <1>7, <1>9 DEF ApartInv, ScanInv
  <2> QED
    BY <1>3, <1>5, <2>1, <2>2, <2>3 DEF ScanInv
<1> QED
  BY <1>8, <1>9

\* Before the first scan.
LEMMA ScanInitInv ==
  ScanInit => ScanInv
<1> SUFFICES ASSUME ScanInit PROVE ScanInv
  OBVIOUS
<1>1. /\ recording = <<>> /\ requested = 0 /\ phase = "idle" /\ frame = 1 /\ i = 1
      /\ frameStart = 0 /\ nextSample = 0 /\ intervals = <<>>
      /\ pending = [on |-> FALSE, start |-> 0, reported |-> FALSE]
  BY DEF ScanInit, NoSilence
<1>2. ScanTypes
  <2>1. pending \in [on : BOOLEAN, start : Nat, reported : BOOLEAN]
    BY <1>1
  <2>2. intervals \in Seq(Spans) /\ recording \in Seq(Seq(BOOLEAN))
    BY <1>1
  <2> QED
    BY <1>1, <2>1, <2>2 DEF ScanTypes
<1>3. ~ Scanning /\ DOMAIN intervals = {}
  BY <1>1 DEF Scanning
<1> QED
  BY <1>1, <1>2, <1>3 DEF ScanInv, ClockInv, PendingInv, FoundInv, ApartInv

-----------------------------------------------------------------------------
(***************************************************************************)
(* The options.                                                            *)
(***************************************************************************)
\* The numbers and lists among the defaults.
LEMMA DefaultIs ==
  /\ Default["MinSilence"] = 700 /\ Default["Padding"] = 100 /\ Default["Window"] = 20
  /\ Default["MinSpeech"] = 20 /\ Default["SliceLength"] = 5000
  /\ Default["FixedWorkers"] = 16 /\ Default["MinSegmentLength"] = 10
  /\ Default["MaxLength"] = 175000 /\ Default["OutputSampleRate"] = 16000
  /\ Default["SegmentWorkers"] = 0 /\ Default["CodecThreads"] = 0
  /\ Default["ThresholdFloor"] = -60 /\ Default["ThresholdCeil"] = -10
  /\ Default["ThresholdDB"] = <<>> /\ Default["Thresholds"] = <<>>
BY DEF Default

\* The defaults are a configuration.
LEMMA DefaultIsConfig ==
  IsConfig(Default)
<1> DEFINE D == Default
<1>1. ASSUME NEW f \in Positive \cup NonNegative \cup NonZero
      PROVE  D[f] \in Int /\ D[f] > Zero /\ f \notin {"ThresholdDB", "Thresholds"}
  BY DefaultIs DEF Positive, NonNegative, NonZero, Zero
<1>2. D["ThresholdDB"] = <<>> /\ D["Thresholds"] = <<>>
  BY DefaultIs
<1> HIDE DEF D
<1>3. ASSUME NEW f PROVE Legal(f, D[f])
  <2>1. <<>> \in Seq(Int) /\ Len(<<>>) = 0
    OBVIOUS
  <2>2. CASE f \in {"ThresholdDB", "Thresholds"}
    <3>1. D[f] = <<>> /\ f \notin Positive /\ f \notin NonNegative /\ f \notin NonZero
      BY <1>2, <2>2 DEF Positive, NonNegative, NonZero
    <3>2. D[f] \in Seq(Int) /\ Len(D[f]) <= 1
      BY <2>1, <3>1
    <3> QED
      BY <3>1, <3>2 DEF Legal
  <2>3. CASE f \notin {"ThresholdDB", "Thresholds"}
    BY <1>1, <2>3 DEF Legal
  <2> QED
    BY <2>2, <2>3
<1> QED
  BY <1>3 DEF IsConfig, D, Fields

\* The fields that the scans depend on are fields, and no names.
LEMMA FieldIs ==
  ASSUME NEW f \in {"MinSilence", "FixedWorkers", "MaxLength", "CodecThreads", "Thresholds",
                    "ThresholdDB", "ThresholdFloor", "ThresholdCeil"}
  PROVE  f \in Fields /\ f # "OutputFormat" /\ f # "OutputSampleFormat" /\ f # "Config"
BY DEF Fields, Default

\* What is read of a configuration.
LEMMA ConfigIs ==
  ASSUME NEW c, IsConfig(c)
  PROVE  /\ c.MinSilence \in Int /\ c.FixedWorkers \in Int /\ c.MaxLength \in Int
         /\ c.CodecThreads \in Int
         /\ c.ThresholdFloor \in Int /\ c.ThresholdFloor > Zero /\ c.ThresholdCeil \in Int
         /\ c.ThresholdDB \in Seq(Int) /\ Len(c.ThresholdDB) <= 1
         /\ c.Thresholds \in Seq(Int)
<1>1. \A f \in {"MinSilence", "FixedWorkers", "MaxLength", "CodecThreads", "Thresholds",
                "ThresholdDB", "ThresholdFloor", "ThresholdCeil"} : Legal(f, c[f])
  BY FieldIs DEF IsConfig
<1>2. ASSUME NEW f \in {"MinSilence", "FixedWorkers", "MaxLength", "CodecThreads",
                        "ThresholdFloor", "ThresholdCeil"}
      PROVE  c[f] \in Int
  <2>1. f \in Positive \cup NonNegative \cup NonZero /\ Legal(f, c[f])
    BY <1>1 DEF Positive, NonNegative, NonZero
  <2> QED
    BY <2>1 DEF Legal
<1>3. c["ThresholdFloor"] > Zero
  <2>1. "ThresholdFloor" \in NonZero /\ Legal("ThresholdFloor", c["ThresholdFloor"])
    BY <1>1 DEF NonZero
  <2> QED
    BY <2>1 DEF Legal
<1>4. /\ c["ThresholdDB"] \in Seq(Int) /\ Len(c["ThresholdDB"]) <= 1
      /\ c["Thresholds"] \in Seq(Int)
  BY <1>1 DEF Legal
<1> QED
  BY <1>2, <1>3, <1>4

\* Positive worker counts and lengths survive the options.
Settings(c) ==
  IsConfig(c) /\ c.FixedWorkers > 0 /\ c.MaxLength > 0 /\ c.CodecThreads >= 0

\* Config.normalized makes the settings positive.
LEMMA NormalizedIs ==
  ASSUME NEW c, IsConfig(c)
  PROVE  Settings(Normalized(c))
<1> DEFINE n == Normalized(c)
<1>1. DOMAIN n = Fields /\ \A f \in Fields :
        n[f] = IF Configured(f, c[f]) THEN Cleaned(f, c[f]) ELSE Default[f]
  BY DEF Normalized
<1>2. \A f \in Fields : Legal(f, c[f]) /\ Legal(f, Default[f])
  BY DefaultIsConfig DEF IsConfig
<1> HIDE DEF n
<1>3. ASSUME NEW f \in Fields PROVE Legal(f, n[f])
  <2>1. CASE f \in {"OutputFormat", "OutputSampleFormat"}
    BY <2>1 DEF Legal, Positive, NonNegative, NonZero
  <2>2. CASE f \notin {"OutputFormat", "OutputSampleFormat"}
    <3>1. Cleaned(f, c[f]) = c[f]
      BY <2>2 DEF Cleaned
    <3>2. n[f] = c[f] \/ n[f] = Default[f]
      BY <1>1, <3>1
    <3> QED
      BY <1>2, <3>2
  <2> QED
    BY <2>1, <2>2
<1>4. IsConfig(n)
  BY <1>1, <1>3 DEF IsConfig
<1>5. ASSUME NEW f \in {"FixedWorkers", "MaxLength"} PROVE n[f] > 0
  <2>1. /\ f \in Fields /\ f \in Positive /\ Cleaned(f, c[f]) = c[f]
        /\ f \notin NonNegative /\ f \notin NonZero /\ f \notin Optional /\ f \notin Text
    BY FieldIs DEF Positive, NonNegative, NonZero, Optional, Text, Cleaned
  <2>2. Configured(f, c[f]) <=> c[f] > 0
    BY <2>1 DEF Configured
  <2>3. Default[f] > 0
    BY DefaultIs
  <2> QED
    BY <1>1, <2>1, <2>2, <2>3
<1>6. n["CodecThreads"] >= 0
  <2> DEFINE f == "CodecThreads"
  <2>1. /\ f \in Fields /\ f \in NonNegative /\ Cleaned(f, c[f]) = c[f]
        /\ f \notin Positive /\ f \notin NonZero /\ f \notin Optional /\ f \notin Text
    BY FieldIs DEF Positive, NonNegative, NonZero, Optional, Text, Cleaned
  <2>2. Configured(f, c[f]) <=> c[f] >= 0
    BY <2>1 DEF Configured
  <2>3. Default[f] >= 0
    BY DefaultIs
  <2> QED
    BY <1>1, <2>1, <2>2, <2>3
<1> QED
  BY <1>4, <1>5, <1>6 DEF Settings, n

\* No option makes them anything else.
LEMMA OptionKeeps ==
  ASSUME NEW c, Settings(c), NEW o, IsOption(o)
  PROVE  Settings(Option(c, o))
<1>1. CASE o.field = "Config"
  <2>1. Option(c, o) = Normalized(o.value) /\ IsConfig(o.value)
    BY <1>1 DEF Option, IsOption
  <2> QED
    BY <2>1, NormalizedIs
<1>2. CASE o.field # "Config" /\ Refused(o.field, o.value)
  <2>1. Option(c, o) = c
    BY <1>2 DEF Option
  <2> QED
    BY <2>1
<1>3. CASE o.field # "Config" /\ ~ Refused(o.field, o.value)
  <2>1. Option(c, o) = [c EXCEPT ![o.field] = o.value]
    BY <1>3 DEF Option
  <2>2. o.field \in Fields /\ Legal(o.field, o.value)
    BY <1>3 DEF IsOption
  <2>3. DOMAIN c = Fields /\ \A f \in Fields : Legal(f, c[f])
    BY DEF Settings, IsConfig
  <2> DEFINE n == [c EXCEPT ![o.field] = o.value]
  <2>4. DOMAIN n = Fields /\ \A f \in Fields : n[f] = IF f = o.field THEN o.value ELSE c[f]
    BY <2>3
  <2> HIDE DEF n
  <2>5. IsConfig(n)
    <3>1. ASSUME NEW f \in Fields PROVE Legal(f, n[f])
      <4>1. CASE f = o.field
        <5>1. n[f] = o.value
          BY <2>4, <4>1
        <5> QED
          BY <2>2, <4>1, <5>1
      <4>2. CASE f # o.field
        <5>1. n[f] = c[f]
          BY <2>4, <4>2
        <5> QED
          BY <2>3, <5>1
      <4> QED
        BY <4>1, <4>2
    <3> QED
      BY <2>4, <3>1 DEF IsConfig
  <2>6. ASSUME NEW f \in {"FixedWorkers", "MaxLength", "CodecThreads"}, n[f] # c[f]
        PROVE  f = o.field /\ n[f] = o.value /\ ~ Refused(f, n[f])
    BY <1>3, <2>4, <2>6, FieldIs
  <2>7. n["FixedWorkers"] > 0 /\ n["MaxLength"] > 0 /\ n["CodecThreads"] >= 0
    <3>1. /\ n["FixedWorkers"] \in Int /\ n["MaxLength"] \in Int /\ n["CodecThreads"] \in Int
      BY <2>5, ConfigIs
    <3>2. c["FixedWorkers"] > 0 /\ c["MaxLength"] > 0 /\ c["CodecThreads"] >= 0
      BY DEF Settings
    <3>3. ASSUME NEW f \in {"FixedWorkers", "MaxLength"} PROVE n[f] > 0
      BY <2>6, <3>1, <3>2 DEF Refused
    <3>4. n["CodecThreads"] >= 0
      BY <2>6, <3>1, <3>2 DEF Refused, NonNegative
    <3> QED
      BY <3>3, <3>4
  <2> QED
    BY <2>1, <2>5, <2>7 DEF Settings, n
<1> QED
  BY <1>1, <1>2, <1>3

-----------------------------------------------------------------------------
(***************************************************************************)
(* The first occurrences of the thresholds.                                *)
(***************************************************************************)
\* What is kept of the first k, as FirstOnly computes it from those before.
Kept(s, g, k) == IF k = 0 THEN <<>>
                 ELSE IF \E j \in 1 .. k - 1 : s[j] = s[k] THEN g[k - 1]
                 ELSE Append(g[k - 1], s[k])

\* The recursion of FirstOnly defines a function.
LEMMA KeptExists ==
  ASSUME NEW s, NEW n \in Nat
  PROVE  \E g : g = [k \in 0 .. n |-> Kept(s, g, k)]
<1> DEFINE S == {m \in Nat : \E g : g = [k \in 0 .. m |-> Kept(s, g, k)]}
<1>1. 0 \in S
  <2> DEFINE g == [k \in 0 .. 0 |-> <<>>]
  <2>1. g = [k \in 0 .. 0 |-> Kept(s, g, k)]
    BY DEF Kept
  <2> QED
    BY <2>1
<1>2. ASSUME NEW m \in Nat, m \in S PROVE m + 1 \in S
  <2>1. PICK g : g = [k \in 0 .. m |-> Kept(s, g, k)]
    BY <1>2
  <2> DEFINE h == [k \in 0 .. m + 1 |-> IF k <= m THEN g[k] ELSE Kept(s, g, k)]
  <2>2. \A k \in 0 .. m : h[k] = g[k]
    OBVIOUS
  <2>3. \A k \in 0 .. m + 1 : Kept(s, h, k) = Kept(s, g, k)
    <3> SUFFICES ASSUME NEW k \in 0 .. m + 1 PROVE Kept(s, h, k) = Kept(s, g, k)
      OBVIOUS
    <3>1. CASE k = 0
      BY <3>1 DEF Kept
    <3>2. CASE k # 0
      <4>1. h[k - 1] = g[k - 1]
        BY <2>2, <3>2
      <4> HIDE DEF h
      <4> QED
        BY <4>1, <3>2, Zenon DEF Kept
    <3> QED
      BY <3>1, <3>2
  <2>4. \A k \in 0 .. m + 1 : h[k] = Kept(s, h, k)
    <3> SUFFICES ASSUME NEW k \in 0 .. m + 1 PROVE h[k] = Kept(s, g, k)
      BY <2>3
    <3>1. CASE k <= m
      BY <2>1, <3>1
    <3>2. CASE k = m + 1
      BY <3>2
    <3> QED
      BY <3>1, <3>2
  <2> HIDE DEF h
  <2>5. h = [k \in 0 .. m + 1 |-> Kept(s, h, k)]
    <3>1. h = [k \in 0 .. m + 1 |-> h[k]]
      BY DEF h
    <3> QED
      BY <3>1, <2>4
  <2> QED
    BY <2>5
<1> HIDE DEF S
<1>3. Nat \subseteq S
  BY <1>1, <1>2, SetInduction
<1> QED
  BY <1>3 DEF S

Rising(s) == \A j, k \in DOMAIN s : j < k => s[j] <= s[k]

\* u is what is kept of the first n.
KeptIs(s, u, n) ==
  /\ u \in Seq(Int)
  /\ \A k \in 1 .. Len(u) : \E j \in 1 .. n : s[j] = u[k]
  /\ n > 0 => Len(u) > 0
  /\ \A j, k \in 1 .. Len(u) : j # k => u[j] # u[k]
  /\ Rising(s) => \A j, k \in 1 .. Len(u) : j < k => u[j] < u[k]

\* Nothing is kept of nothing.
LEMMA KeptNone ==
  ASSUME NEW s
  PROVE  KeptIs(s, <<>>, 0)
<1>1. <<>> \in Seq(Int) /\ Len(<<>>) = 0 /\ 1 .. 0 = {}
  OBVIOUS
<1> QED
  BY <1>1 DEF KeptIs

\* One more value is kept, or was kept before.
LEMMA KeptMore ==
  ASSUME NEW s \in Seq(Int), NEW u, NEW n \in Nat, n + 1 <= Len(s), KeptIs(s, u, n)
  PROVE  /\ (\E j \in 1 .. n : s[j] = s[n + 1]) => KeptIs(s, u, n + 1)
         /\ ~ (\E j \in 1 .. n : s[j] = s[n + 1]) => KeptIs(s, Append(u, s[n + 1]), n + 1)
<1>1. Len(s) \in Nat /\ DOMAIN s = 1 .. Len(s) /\ \A j \in 1 .. Len(s) : s[j] \in Int
  BY LenProperties, ElementOfSeq
<1>2. PICK m \in Nat : m = n + 1
  OBVIOUS
<1>3. PICK v \in Int : v = s[m]
  BY <1>1, <1>2
<1>4. /\ u \in Seq(Int)
      /\ \A k \in 1 .. Len(u) : \E j \in 1 .. n : s[j] = u[k]
      /\ n > 0 => Len(u) > 0
      /\ \A j, k \in 1 .. Len(u) : j # k => u[j] # u[k]
      /\ Rising(s) => \A j, k \in 1 .. Len(u) : j < k => u[j] < u[k]
  BY DEF KeptIs
<1>5. \A j \in 1 .. n : j \in 1 .. m
  BY <1>2
<1>6. ASSUME \E j \in 1 .. n : s[j] = v PROVE KeptIs(s, u, m)
  <2>1. n > 0
    BY <1>6
  <2>2. \A k \in 1 .. Len(u) : \E j \in 1 .. m : s[j] = u[k]
    BY <1>4, <1>5
  <2> QED
    BY <1>4, <2>1, <2>2 DEF KeptIs
<1>7. ASSUME ~ \E j \in 1 .. n : s[j] = v PROVE KeptIs(s, Append(u, v), m)
  <2> DEFINE w == Append(u, v)
             l == Len(u)
  <2>1. /\ l \in Nat /\ w \in Seq(Int) /\ Len(w) = l + 1
        /\ \A k \in 1 .. l : w[k] = u[k] /\ u[k] \in Int
        /\ w[l + 1] = v
    BY <1>4, LenProperties, ElementOfSeq, AppendProperties
  <2>2. /\ \A k \in 1 .. l : \E j \in 1 .. n : s[j] = u[k]
        /\ \A j, k \in 1 .. l : j # k => u[j] # u[k]
        /\ Rising(s) => \A j, k \in 1 .. l : j < k => u[j] < u[k]
    BY <1>4
  <2> HIDE DEF w, l
  <2>3. \A k \in 1 .. l : u[k] # v
    BY <1>7, <2>2
  <2>4. ASSUME Rising(s), NEW k \in 1 .. l PROVE u[k] < v
    <3>1. PICK j \in 1 .. n : s[j] = u[k]
      BY <2>2
    <3>2. j \in DOMAIN s /\ m \in DOMAIN s /\ j < m
      BY <1>1, <1>2
    <3>3. s[j] <= s[m]
      BY <2>4, <3>2 DEF Rising
    <3>4. u[k] <= v /\ u[k] # v /\ u[k] \in Int
      BY <1>3, <2>1, <2>3, <3>1, <3>3
    <3> QED
      BY <3>4
  <2>5. \A k \in 1 .. Len(w) : k \in 1 .. l \/ k = l + 1
    BY <2>1
  <2>6. \A k \in 1 .. Len(w) : \E j \in 1 .. m : s[j] = w[k]
    <3> SUFFICES ASSUME NEW k \in 1 .. Len(w) PROVE \E j \in 1 .. m : s[j] = w[k]
      OBVIOUS
    <3>1. CASE k \in 1 .. l
      <4>1. PICK j \in 1 .. n : s[j] = u[k]
        BY <2>2, <3>1
      <4>2. j \in 1 .. m /\ w[k] = u[k]
        BY <1>5, <2>1, <3>1
      <4> QED
        BY <4>1, <4>2
    <3>2. CASE k = l + 1
      <4>1. m \in 1 .. m /\ w[k] = v
        BY <1>2, <2>1, <3>2
      <4> QED
        BY <1>3, <4>1
    <3> QED
      BY <2>5, <3>1, <3>2
  <2>7. \A j, k \in 1 .. Len(w) : j # k => w[j] # w[k]
    BY <2>1, <2>2, <2>3, <2>5
  <2>8. ASSUME Rising(s) PROVE \A j, k \in 1 .. Len(w) : j < k => w[j] < w[k]
    <3> SUFFICES ASSUME NEW j \in 1 .. Len(w), NEW k \in 1 .. Len(w), j < k
                 PROVE  w[j] < w[k]
      OBVIOUS
    <3>1. j \in 1 .. l
      BY <2>1
    <3>2. CASE k \in 1 .. l
      <4>1. u[j] < u[k] /\ w[j] = u[j] /\ w[k] = u[k]
        BY <2>1, <2>2, <2>8, <3>1, <3>2
      <4> QED
        BY <4>1
    <3>3. CASE k = l + 1
      <4>1. u[j] < v /\ w[j] = u[j] /\ w[k] = v
        BY <2>1, <2>4, <2>8, <3>1, <3>3
      <4> QED
        BY <4>1
    <3> QED
      BY <2>5, <3>2, <3>3
  <2>9. Len(w) > 0
    BY <2>1
  <2>10. KeptIs(s, w, m)
    BY <2>1, <2>6, <2>7, <2>8, <2>9 DEF KeptIs
  <2> QED
    BY <2>10 DEF w
<1> QED
  BY <1>2, <1>3, <1>6, <1>7

\* What is kept of a list: its values, each once, and in their order.
LEMMA FirstOnlyIs ==
  ASSUME NEW s \in Seq(Int)
  PROVE  KeptIs(s, FirstOnly(s), Len(s))
<1> DEFINE g == CHOOSE u : u = [k \in 0 .. Len(s) |-> Kept(s, u, k)]
<1>1. FirstOnly(s) = g[Len(s)]
  BY DEF FirstOnly, Kept
<1>2. Len(s) \in Nat
  BY LenProperties
<1>3. g = [k \in 0 .. Len(s) |-> Kept(s, g, k)]
  BY <1>2, KeptExists
<1> HIDE DEF g
<1>4. \A k \in 0 .. Len(s) : g[k] = Kept(s, g, k)
  BY <1>3
<1>5. g[0] = <<>>
  BY <1>2, <1>4 DEF Kept
<1>6. ASSUME NEW k \in 1 .. Len(s)
      PROVE  /\ (\E j \in 1 .. k - 1 : s[j] = s[k]) => g[k] = g[k - 1]
             /\ ~ (\E j \in 1 .. k - 1 : s[j] = s[k]) => g[k] = Append(g[k - 1], s[k])
  <2>1. k \in 0 .. Len(s) /\ k # 0
    BY <1>2
  <2> QED
    BY <1>4, <2>1, Zenon DEF Kept
<1> DEFINE T == {n \in Nat : n <= Len(s) => KeptIs(s, g[n], n)}
<1>7. 0 \in T
  BY <1>5, KeptNone
<1>8. ASSUME NEW n \in Nat, n \in T PROVE n + 1 \in T
  <2> SUFFICES ASSUME n + 1 <= Len(s) PROVE KeptIs(s, g[n + 1], n + 1)
    OBVIOUS
  <2>1. n <= Len(s) /\ n + 1 \in 1 .. Len(s) /\ (n + 1) - 1 = n
    BY <1>2
  <2>2. KeptIs(s, g[n], n)
    BY <1>8, <2>1
  <2>3. CASE \E j \in 1 .. n : s[j] = s[n + 1]
    <3>1. g[n + 1] = g[n]
      BY <1>6, <2>1, <2>3
    <3> QED
      BY <2>2, <2>3, <3>1, KeptMore
  <2>4. CASE ~ \E j \in 1 .. n : s[j] = s[n + 1]
    <3>1. g[n + 1] = Append(g[n], s[n + 1])
      BY <1>6, <2>1, <2>4
    <3> QED
      BY <2>2, <2>4, <3>1, KeptMore
  <2> QED
    BY <2>3, <2>4
<1> HIDE DEF T
<1>9. Nat \subseteq T
  BY <1>7, <1>8, SetInduction
<1>10. Len(s) \in T /\ Len(s) <= Len(s)
  BY <1>2, <1>9
<1> QED
  BY <1>1, <1>10 DEF T

-----------------------------------------------------------------------------
(***************************************************************************)
(* The thresholds.                                                         *)
(***************************************************************************)
LEMMA BoundsAre ==
  ASSUME IsConfig(cfg)
  PROVE  Floor \in Int /\ Ceil \in Int /\ Floor > Zero
BY ConfigIs DEF Floor, Ceil, Zero

\* Clamp moves a level into the bounds and keeps the order.
LEMMA ClampIs ==
  ASSUME IsConfig(cfg), NEW v \in Int
  PROVE  /\ Clamp(v) \in Int
         /\ Floor <= Ceil => /\ Clamp(v) \in Floor .. Ceil
                             /\ Clamp(v) <= v \/ Clamp(v) = Floor
                             /\ \A w \in Int : v <= w => Clamp(v) <= Clamp(w)
<1>1. Floor \in Int /\ Ceil \in Int
  BY BoundsAre
<1> QED
  BY <1>1 DEF Clamp

\* The thresholds in their bounds.
LEMMA InRangeIs ==
  ASSUME IsConfig(cfg), NEW s \in Seq(Int)
  PROVE  /\ InRange(s) \in Seq(Int)
         /\ s # <<>> => InRange(s) # <<>>
         /\ \A k \in DOMAIN InRange(s) : \E j \in DOMAIN s : InRange(s)[k] = Clamp(s[j])
         /\ \A j, k \in DOMAIN InRange(s) : j # k => InRange(s)[j] # InRange(s)[k]
         /\ Floor <= Ceil => \A k \in DOMAIN InRange(s) : InRange(s)[k] \in Floor .. Ceil
         /\ Floor <= Ceil /\ Rising(s) =>
              \A j, k \in DOMAIN InRange(s) : j < k => InRange(s)[j] < InRange(s)[k]
<1> DEFINE c == [k \in DOMAIN s |-> Clamp(s[k])]
           u == InRange(s)
<1>1. Len(s) \in Nat /\ DOMAIN s = 1 .. Len(s) /\ \A j \in DOMAIN s : s[j] \in Int
  BY LenProperties, ElementOfSeq
<1>2. /\ c \in Seq(Int) /\ DOMAIN c = DOMAIN s /\ Len(c) = Len(s)
      /\ \A j \in DOMAIN s : c[j] = Clamp(s[j])
  <2>1. c \in [1 .. Len(s) -> Int]
    BY <1>1, ClampIs
  <2>2. c \in Seq(Int)
    BY <1>1, <2>1, IsASeq
  <2>3. DOMAIN c = 1 .. Len(s)
    BY <1>1
  <2>4. Len(c) = Len(s)
    BY <1>1, <2>2, <2>3, LenProperties
  <2> QED
    BY <1>1, <2>2, <2>4
<1>3. u = FirstOnly(c)
  BY DEF InRange
<1> HIDE DEF c, u
<1>4. /\ u \in Seq(Int)
      /\ \A k \in 1 .. Len(u) : \E j \in 1 .. Len(s) : c[j] = u[k]
      /\ Len(s) > 0 => Len(u) > 0
      /\ \A j, k \in 1 .. Len(u) : j # k => u[j] # u[k]
      /\ Rising(c) => \A j, k \in 1 .. Len(u) : j < k => u[j] < u[k]
  BY <1>2, <1>3, FirstOnlyIs DEF KeptIs
<1>5. Len(u) \in Nat /\ DOMAIN u = 1 .. Len(u)
  BY <1>4, LenProperties
<1>6. \A k \in DOMAIN u : \E j \in DOMAIN s : u[k] = Clamp(s[j])
  <2> SUFFICES ASSUME NEW k \in DOMAIN u PROVE \E j \in DOMAIN s : u[k] = Clamp(s[j])
    OBVIOUS
  <2>1. PICK j \in 1 .. Len(s) : c[j] = u[k]
    BY <1>4, <1>5
  <2> QED
    BY <1>1, <1>2, <2>1
<1>7. ASSUME Floor <= Ceil PROVE \A k \in DOMAIN u : u[k] \in Floor .. Ceil
  <2> SUFFICES ASSUME NEW k \in DOMAIN u PROVE u[k] \in Floor .. Ceil
    OBVIOUS
  <2>1. PICK j \in DOMAIN s : u[k] = Clamp(s[j])
    BY <1>6
  <2>2. s[j] \in Int
    BY <1>1
  <2> QED
    BY <1>7, <2>1, <2>2, ClampIs
<1>8. ASSUME Floor <= Ceil, Rising(s) PROVE Rising(c)
  <2> SUFFICES ASSUME NEW j \in DOMAIN s, NEW k \in DOMAIN s, j < k PROVE c[j] <= c[k]
    BY <1>2 DEF Rising
  <2>1. s[j] <= s[k] /\ s[j] \in Int /\ s[k] \in Int
    BY <1>1, <1>8 DEF Rising
  <2>2. Clamp(s[j]) <= Clamp(s[k])
    BY <1>8, <2>1, ClampIs
  <2> QED
    BY <1>2, <2>2
<1>9. s # <<>> => u # <<>>
  <2>1. s # <<>> => Len(s) > 0
    BY <1>1
  <2>2. Len(u) > 0 => u # <<>>
    OBVIOUS
  <2> QED
    BY <1>4, <2>1, <2>2
<1> QED
  BY <1>4, <1>5, <1>6, <1>7, <1>8, <1>9 DEF u

\* A union of sets of numbers that are bounded is bounded.
LEMMA UnionBounded ==
  ASSUME NEW n \in Nat, NEW g, \A k \in 1 .. n : \E b \in Int : \A l \in g[k] : l <= b,
         \A k \in 1 .. n : g[k] \subseteq Int
  PROVE  \E b \in Int : \A k \in 1 .. n : \A l \in g[k] : l <= b
<1> DEFINE P(m) == \E b \in Int : \A k \in 1 .. m : \A l \in g[k] : l <= b
           T == {m \in Nat : m <= n => P(m)}
<1>1. 0 \in T
  <2>1. 0 \in Int /\ 1 .. 0 = {}
    OBVIOUS
  <2> QED
    BY <2>1
<1>2. ASSUME NEW m \in Nat, m \in T PROVE m + 1 \in T
  <2> SUFFICES ASSUME m + 1 <= n PROVE P(m + 1)
    OBVIOUS
  <2>1. PICK b \in Int : \A k \in 1 .. m : \A l \in g[k] : l <= b
    BY <1>2
  <2>2. m + 1 \in 1 .. n
    OBVIOUS
  <2>3. PICK d \in Int : \A l \in g[m + 1] : l <= d
    BY <2>2
  <2>4. PICK e \in Int : b <= e /\ d <= e
    <3>1. CASE b <= d
      BY <3>1
    <3>2. CASE d <= b
      BY <3>2
    <3> QED
      BY <3>1, <3>2
  <2>5. ASSUME NEW k \in 1 .. m + 1, NEW l \in g[k] PROVE l <= e
    <3>1. l \in Int
      <4>1. k \in 1 .. n
        OBVIOUS
      <4> QED
        BY <4>1
    <3>2. CASE k \in 1 .. m
      <4>1. l <= b
        BY <2>1, <3>2
      <4> QED
        BY <2>4, <3>1, <4>1
    <3>3. CASE k = m + 1
      <4>1. l <= d
        BY <2>3, <3>3
      <4> QED
        BY <2>4, <3>1, <4>1
    <3> QED
      BY <3>2, <3>3
  <2> QED
    BY <2>5
<1> HIDE DEF T
<1>3. Nat \subseteq T
  BY <1>1, <1>2, SetInduction
<1>4. n \in T /\ n <= n
  BY <1>3
<1> QED
  BY <1>4 DEF T

\* A recording with a sample has a loudest one.
LEMMA Loudest ==
  ASSUME NEW t \in Seq(Seq(Int)), Levels(t) # {}
  PROVE  /\ MaxDB(t) \in Levels(t) /\ MaxDB(t) \in Int
         /\ \A l \in Levels(t) : l <= MaxDB(t)
<1>1. Len(t) \in Nat /\ DOMAIN t = 1 .. Len(t) /\ \A f \in DOMAIN t : t[f] \in Seq(Int)
  BY LenProperties, ElementOfSeq
<1> DEFINE L == [f \in DOMAIN t |-> {t[f][j] : j \in DOMAIN t[f]}]
<1>2. ASSUME NEW f \in DOMAIN t
      PROVE  L[f] \subseteq Int /\ \E b \in Int : \A l \in L[f] : l <= b
  <2>1. PICK s : s = t[f]
    OBVIOUS
  <2>2. Len(s) \in Nat /\ DOMAIN s = 1 .. Len(s) /\ \A j \in DOMAIN s : s[j] \in Int
    BY <1>1, <2>1, LenProperties, ElementOfSeq
  <2>3. L[f] = {s[j] : j \in DOMAIN s}
    BY <2>1
  <2> DEFINE g == [j \in DOMAIN s |-> {s[j]}]
  <2>4. \A j \in 1 .. Len(s) : g[j] = {s[j]}
    BY <2>2
  <2>5. /\ \A j \in 1 .. Len(s) : \E b \in Int : \A l \in g[j] : l <= b
        /\ \A j \in 1 .. Len(s) : g[j] \subseteq Int
    <3>1. ASSUME NEW j \in 1 .. Len(s)
          PROVE  g[j] \subseteq Int /\ \E b \in Int : \A l \in g[j] : l <= b
      <4>1. s[j] \in Int /\ g[j] = {s[j]}
        BY <2>2, <2>4
      <4> HIDE DEF g
      <4>2. \A l \in g[j] : l <= s[j]
        BY <4>1
      <4> QED
        BY <4>1, <4>2
    <3> QED
      BY <3>1
  <2> HIDE DEF g, L
  <2>6. PICK b \in Int : \A j \in 1 .. Len(s) : \A l \in g[j] : l <= b
    BY <2>2, <2>5, UnionBounded
  <2>7. \A j \in DOMAIN s : s[j] <= b
    BY <2>2, <2>4, <2>6
  <2> QED
    BY <2>2, <2>3, <2>7
<1>3. Levels(t) = UNION {L[f] : f \in DOMAIN t}
  BY DEF Levels
<1> HIDE DEF L
<1>4. PICK b \in Int : \A f \in 1 .. Len(t) : \A l \in L[f] : l <= b
  <2>1. /\ \A f \in 1 .. Len(t) : \E b \in Int : \A l \in L[f] : l <= b
        /\ \A f \in 1 .. Len(t) : L[f] \subseteq Int
    BY <1>1, <1>2
  <2> QED
    BY <1>1, <2>1, UnionBounded
<1>5. \A l \in Levels(t) : l \in Int /\ l <= b
  BY <1>1, <1>2, <1>3, <1>4
<1> DEFINE S == {b - l : l \in Levels(t)}
<1>6. S \in SUBSET Nat /\ S # {}
  BY <1>5
<1> HIDE DEF S
<1>7. PICK m \in S : \A k \in S : m <= k
  BY <1>6, LeastMember
<1>8. PICK x \in Levels(t) : m = b - x
  BY DEF S
<1>9. ASSUME NEW l \in Levels(t) PROVE l <= x
  <2>1. b - l \in S
    BY DEF S
  <2> QED
    BY <1>5, <1>7, <1>8, <2>1
<1> QED
  BY <1>5, <1>9 DEF MaxDB

\* The measured thresholds rise, and stay below the maximum.
LEMMA AutomaticIs ==
  ASSUME NEW t \in Seq(Seq(Int)), Levels(t) # {}, NEW vol
  PROVE  /\ Automatic(t, vol) \in Seq(Int) /\ Automatic(t, vol) # <<>>
         /\ Rising(Automatic(t, vol))
         /\ vol = "both" /\ MaxDB(t) # Zero =>
              \A k \in DOMAIN Automatic(t, vol) : Automatic(t, vol)[k] < MaxDB(t)
<1> DEFINE x == MaxDB(t)
           y == MeanDB(t)
           a == Automatic(t, vol)
<1>1. x \in Int /\ y \in Int
  BY Loudest DEF MeanDB, Zero
<1>2. CASE vol = "both" /\ x # Zero
  <2>1. a = Below(x, <<18, 16, 14, 12, 10>>)
    BY <1>2 DEF Automatic
  <2> HIDE DEF a, x
  <2>2. a = <<x - 18, x - 16, x - 14, x - 12, x - 10>>
    BY <2>1 DEF Below
  <2>3. /\ a \in Seq(Int) /\ a # <<>> /\ Rising(a) /\ \A k \in DOMAIN a : a[k] < x
    BY <1>1, <2>2 DEF Rising
  <2> QED
    BY <2>3 DEF a, x
<1>3. CASE ~ (vol = "both" /\ x # Zero) /\ vol = "mean" /\ y # Zero
  <2>1. a = Below(y, <<8, 2, -4>>)
    BY <1>3 DEF Automatic
  <2> HIDE DEF a, y
  <2>2. a = <<y - 8, y - 2, y + 4>>
    BY <1>1, <2>1 DEF Below
  <2>3. a \in Seq(Int) /\ a # <<>> /\ Rising(a)
    BY <1>1, <2>2 DEF Rising
  <2> QED
    BY <1>3, <2>3 DEF a, y
<1>4. CASE ~ (vol = "both" /\ x # Zero) /\ ~ (vol = "mean" /\ y # Zero)
  <2>1. a = <<-35, -30, -25, -20>>
    BY <1>4 DEF Automatic
  <2> HIDE DEF a
  <2>2. a \in Seq(Int) /\ a # <<>> /\ Rising(a)
    BY <2>1 DEF Rising
  <2> QED
    BY <1>4, <2>2 DEF a
<1> QED
  BY <1>2, <1>3, <1>4

\* What BuildThresholds makes.
ThresholdsOf(b, t, vol) ==
  /\ b \in Seq(Int) /\ b # <<>>
  /\ \A j, k \in DOMAIN b : j # k => b[j] # b[k]
  /\ cfg.ThresholdDB = <<>> /\ Floor <= Ceil => \A k \in DOMAIN b : b[k] \in Floor .. Ceil
  /\ cfg.ThresholdDB = <<>> /\ cfg.Thresholds = <<>> /\ Floor <= Ceil =>
       /\ \A j, k \in DOMAIN b : j < k => b[j] < b[k]
       /\ vol = "both" /\ MaxDB(t) > Floor => \A k \in DOMAIN b : b[k] < MaxDB(t)

\* BuildThresholds, with any settings.
LEMMA BuildIs ==
  ASSUME IsConfig(cfg), NEW t \in Seq(Seq(Int)), Levels(t) # {}, NEW vol
  PROVE  ThresholdsOf(BuildThresholds(t, vol), t, vol)
<1> DEFINE b == BuildThresholds(t, vol)
<1>1. /\ cfg.ThresholdDB \in Seq(Int) /\ Len(cfg.ThresholdDB) <= 1
      /\ cfg.Thresholds \in Seq(Int)
  BY ConfigIs
<1>2. CASE cfg.ThresholdDB # <<>>
  <2>1. b = cfg.ThresholdDB
    BY <1>2 DEF BuildThresholds
  <2> HIDE DEF b
  <2>2. \A j, k \in DOMAIN b : j = k
    <3>1. DOMAIN b = 1 .. Len(b) /\ Len(b) \in Nat /\ Len(b) <= 1
      BY <1>1, <2>1, LenProperties
    <3> QED
      BY <3>1
  <2>3. ThresholdsOf(b, t, vol)
    BY <1>1, <1>2, <2>1, <2>2 DEF ThresholdsOf
  <2> QED
    BY <2>3 DEF b
<1>3. CASE cfg.ThresholdDB = <<>> /\ cfg.Thresholds # <<>>
  <2>1. b = InRange(cfg.Thresholds)
    BY <1>3 DEF BuildThresholds
  <2> HIDE DEF b
  <2>2. /\ b \in Seq(Int) /\ b # <<>>
        /\ \A j, k \in DOMAIN b : j # k => b[j] # b[k]
        /\ Floor <= Ceil => \A k \in DOMAIN b : b[k] \in Floor .. Ceil
    BY <1>1, <1>3, <2>1, InRangeIs
  <2>3. ThresholdsOf(b, t, vol)
    BY <1>3, <2>2 DEF ThresholdsOf
  <2> QED
    BY <2>3 DEF b
<1>4. CASE cfg.ThresholdDB = <<>> /\ cfg.Thresholds = <<>>
  <2> DEFINE a == Automatic(t, vol)
  <2>1. b = InRange(a)
    BY <1>4 DEF BuildThresholds
  <2>2. /\ a \in Seq(Int) /\ a # <<>> /\ Rising(a)
        /\ vol = "both" /\ MaxDB(t) # Zero => \A k \in DOMAIN a : a[k] < MaxDB(t)
    BY AutomaticIs
  <2> HIDE DEF b, a
  <2>3. /\ b \in Seq(Int) /\ b # <<>>
        /\ \A k \in DOMAIN b : \E j \in DOMAIN a : b[k] = Clamp(a[j])
        /\ \A j, k \in DOMAIN b : j # k => b[j] # b[k]
        /\ Floor <= Ceil => \A k \in DOMAIN b : b[k] \in Floor .. Ceil
        /\ Floor <= Ceil => \A j, k \in DOMAIN b : j < k => b[j] < b[k]
    BY <2>1, <2>2, InRangeIs
  <2>4. ASSUME Floor <= Ceil, vol = "both", MaxDB(t) > Floor, NEW k \in DOMAIN b
        PROVE  b[k] < MaxDB(t)
    <3>1. Floor \in Int /\ Floor > Zero /\ MaxDB(t) \in Int /\ Zero \in Int
      BY BoundsAre, Loudest DEF Zero
    <3>2. MaxDB(t) # Zero
      BY <2>4, <3>1
    <3>3. PICK j \in DOMAIN a : b[k] = Clamp(a[j])
      BY <2>3
    <3>4. a[j] < MaxDB(t) /\ a[j] \in Int
      BY <2>2, <2>4, <3>2, LenProperties, ElementOfSeq
    <3>5. Clamp(a[j]) \in Int /\ (Clamp(a[j]) <= a[j] \/ Clamp(a[j]) = Floor)
      BY <2>4, <3>4, ClampIs
    <3> QED
      BY <2>4, <3>1, <3>3, <3>4, <3>5
  <2>5. ThresholdsOf(b, t, vol)
    BY <1>4, <2>3, <2>4 DEF ThresholdsOf
  <2> QED
    BY <2>5 DEF b
<1> QED
  BY <1>2, <1>3, <1>4

-----------------------------------------------------------------------------
(***************************************************************************)
(* The invariant of detectSilences.                                        *)
(***************************************************************************)
\* LongSilence, before the scan with this threshold has begun.
LongAt(threshold) ==
  LET samples == Flat(SilentAt(threshold))
  IN  \E r \in [from : DOMAIN samples, to : DOMAIN samples] :
        /\ Maximal(samples, r)
        /\ To(r) - From(r) >= MinSilenceFloored * Rate + Rate * Len(take)

DetectTypes ==
  /\ step \in {"options", "volume", "next", "scan", "returned", "failed"}
  /\ Settings(cfg)
  /\ \E S : options \in Seq(S) /\ \A o \in S : IsOption(o)
  /\ step # "options" => threads = cfg.CodecThreads
  /\ take \in Seq(Seq(Int)) /\ tried \in Nat

Loop == step \in {"next", "scan", "returned"}

ThresholdsInv ==
  /\ step = "volume" => tried = 0
  /\ Loop => /\ Levels(take) # {} /\ ThresholdsOf(thresholds, take, volume)
             /\ tried <= Len(thresholds)
             /\ tried > 0 => requested = MinSilenceFloored /\ Len(recording) = Len(take)

\* Where the loop is: no threshold before had a long silence.
TriedInv ==
  /\ step = "options" => tried = 0
  /\ step = "next" => \A k \in 1 .. tried : ~ LongAt(thresholds[k])
  /\ step = "scan" => /\ tried > 0 /\ recording = SilentAt(thresholds[tried])
                      /\ \A k \in 1 .. tried - 1 : ~ LongAt(thresholds[k])
  /\ step = "returned" =>
       /\ tried > 0 /\ \A k \in 1 .. tried - 1 : ~ LongAt(thresholds[k])
       /\ found = <<>> => \A k \in DOMAIN thresholds : ~ LongAt(thresholds[k])

DetectInv == ScanInv /\ DetectTypes /\ ThresholdsInv /\ TriedInv

\* The minimum that is passed to a scan is the floor or more.
LEMMA MinSilenceIs ==
  ASSUME Settings(cfg)
  PROVE  MinSilenceFloored \in Int /\ MinSilenceFloored >= LeastSilence
BY ConfigIs, ScanAssumption DEF MinSilenceFloored, Settings

\* A function on the numbers up to n is a sequence of length n.
LEMMA FunctionIsSeq ==
  ASSUME NEW S, NEW n \in Nat, NEW u \in [1 .. n -> S]
  PROVE  u \in Seq(S) /\ Len(u) = n
<1>1. u \in Seq(S)
  BY SeqDef
<1>2. DOMAIN u = 1 .. n /\ DOMAIN u = 1 .. Len(u) /\ Len(u) \in Nat
  BY <1>1, LenProperties
<1> QED
  BY <1>1, <1>2

\* The comparison with a threshold makes a recording of the same frames.
LEMMA SilentAtIs ==
  ASSUME take \in Seq(Seq(Int)), NEW threshold \in Int
  PROVE  /\ SilentAt(threshold) \in Seq(Seq(BOOLEAN)) /\ Len(SilentAt(threshold)) = Len(take)
         /\ \A f \in DOMAIN take : \A j \in DOMAIN take[f] :
              SilentAt(threshold)[f][j] <=> take[f][j] <= threshold
<1>1. /\ Len(take) \in Nat /\ DOMAIN take = 1 .. Len(take)
      /\ \A f \in DOMAIN take : take[f] \in Seq(Int)
  BY LenProperties, ElementOfSeq
<1> DEFINE u == SilentAt(threshold)
<1>2. DOMAIN u = DOMAIN take /\ u = [f \in DOMAIN take |-> u[f]]
      /\ \A f \in DOMAIN take : u[f] = [j \in DOMAIN take[f] |-> take[f][j] <= threshold]
  BY DEF SilentAt
<1> HIDE DEF u
<1>3. ASSUME NEW f \in DOMAIN take PROVE u[f] \in Seq(BOOLEAN)
  <2>1. PICK s : s = take[f]
    OBVIOUS
  <2>2. Len(s) \in Nat /\ DOMAIN s = 1 .. Len(s) /\ \A j \in DOMAIN s : s[j] \in Int
    BY <1>1, <2>1, LenProperties, ElementOfSeq
  <2> DEFINE w == [j \in 1 .. Len(s) |-> s[j] <= threshold]
  <2>3. u[f] = w
    BY <1>2, <2>1, <2>2
  <2>4. \A j \in 1 .. Len(s) : (s[j] <= threshold) \in BOOLEAN
    BY <2>2
  <2>5. w \in [1 .. Len(s) -> BOOLEAN]
    BY <2>4, Zenon
  <2> HIDE DEF w
  <2>6. w \in Seq(BOOLEAN)
    BY <2>2, <2>5, FunctionIsSeq
  <2> QED
    BY <2>3, <2>6
<1>4. u \in [1 .. Len(take) -> Seq(BOOLEAN)]
  BY <1>1, <1>2, <1>3
<1>5. u \in Seq(Seq(BOOLEAN)) /\ Len(u) = Len(take)
  BY <1>1, <1>4, FunctionIsSeq
<1>7. ASSUME NEW f \in DOMAIN take, NEW j \in DOMAIN take[f]
      PROVE  u[f][j] <=> take[f][j] <= threshold
  BY <1>2, <1>7
<1> QED
  BY <1>5, <1>7 DEF u

\* The invariant holds before the options.
LEMMA DetectInitInv ==
  DetectInit => DetectInv
<1> SUFFICES ASSUME DetectInit PROVE DetectInv
  OBVIOUS
<1>1. /\ options \in OptionLists /\ cfg = Default /\ threads = 0
      /\ step = "options" /\ take = <<>> /\ volume = "none"
      /\ thresholds = <<>> /\ tried = 0 /\ found = <<>> /\ ScanInit
  BY DEF DetectInit
<1>2. Settings(cfg)
  <2>1. /\ Default.FixedWorkers > 0 /\ Default.MaxLength > 0 /\ Default.CodecThreads >= 0
    BY DefaultIs
  <2> QED
    BY <1>1, <2>1, DefaultIsConfig DEF Settings
<1>3. \E S : options \in Seq(S) /\ \A o \in S : IsOption(o)
  <2> DEFINE S == {options[k] : k \in 1 .. Len(options)}
  <2>1. /\ Len(options) \in Nat /\ options = [k \in 1 .. Len(options) |-> options[k]]
        /\ \A k \in 1 .. Len(options) : IsOption(options[k])
    BY <1>1, OptionsAssumption
  <2>2. options \in [1 .. Len(options) -> S]
    BY <2>1
  <2>3. options \in Seq(S)
    BY <2>1, <2>2
  <2>4. \A o \in S : IsOption(o)
    BY <2>1
  <2> QED
    BY <2>3, <2>4
<1>4. take \in Seq(Seq(Int)) /\ tried \in Nat
  BY <1>1
<1> QED
  BY <1>1, <1>2, <1>3, <1>4, ScanInitInv
     DEF DetectInv, DetectTypes, ThresholdsInv, TriedInv, Loop

\* What depends on the configuration and the recording alone.
LEMMA SameTake ==
  ASSUME cfg' = cfg, take' = take
  PROVE  /\ MinSilenceFloored' = MinSilenceFloored
         /\ \A b, t, vol : ThresholdsOf(b, t, vol)' <=> ThresholdsOf(b, t, vol)
         /\ \A threshold : /\ LongAt(threshold)' <=> LongAt(threshold)
                           /\ SilentAt(threshold)' = SilentAt(threshold)
<1>1. MinSilenceFloored' = MinSilenceFloored /\ Floor' = Floor /\ Ceil' = Ceil
  BY DEF MinSilenceFloored, Floor, Ceil
<1>2. \A b, t, vol : ThresholdsOf(b, t, vol)' <=> ThresholdsOf(b, t, vol)
  BY <1>1 DEF ThresholdsOf
<1>3. \A threshold : SilentAt(threshold)' = SilentAt(threshold)
  BY DEF SilentAt
<1>4. \A threshold : LongAt(threshold)' <=> LongAt(threshold)
  BY <1>1, <1>3 DEF LongAt
<1> QED
  BY <1>1, <1>2, <1>3, <1>4

\* What depends on the thresholds as well.
LEMMA SameThresholds ==
  ASSUME cfg' = cfg, take' = take, volume' = volume, thresholds' = thresholds
  PROVE  /\ MinSilenceFloored' = MinSilenceFloored /\ Levels(take)' = Levels(take)
         /\ ThresholdsOf(thresholds, take, volume)' <=> ThresholdsOf(thresholds, take, volume)
         /\ \A k : /\ LongAt(thresholds[k])' <=> LongAt(thresholds[k])
                  /\ SilentAt(thresholds[k])' = SilentAt(thresholds[k])
<1>1. /\ MinSilenceFloored' = MinSilenceFloored
      /\ \A b, t, vol : ThresholdsOf(b, t, vol)' <=> ThresholdsOf(b, t, vol)
      /\ \A threshold : /\ LongAt(threshold)' <=> LongAt(threshold)
                        /\ SilentAt(threshold)' = SilentAt(threshold)
  BY SameTake
<1>2. Levels(take)' = Levels(take)
  BY DEF Levels
<1>3. ThresholdsOf(thresholds, take, volume)' <=> ThresholdsOf(thresholds, take, volume)
  <2>1. PICK b, t, vol : b = thresholds /\ t = take /\ vol = volume
    OBVIOUS
  <2>2. ThresholdsOf(b, t, vol)' <=> ThresholdsOf(b, t, vol)
    BY <1>1
  <2>3. thresholds' = b /\ take' = t /\ volume' = vol
    BY <2>1
  <2>4. ThresholdsOf(thresholds, take, volume)' <=> ThresholdsOf(b, t, vol)'
    BY <2>3 DEF ThresholdsOf
  <2>5. ThresholdsOf(thresholds, take, volume) <=> ThresholdsOf(b, t, vol)
    BY <2>1, Zenon
  <2> QED
    BY <2>2, <2>4, <2>5
<1>4. ASSUME NEW k
      PROVE  /\ LongAt(thresholds[k])' <=> LongAt(thresholds[k])
             /\ SilentAt(thresholds[k])' = SilentAt(thresholds[k])
  <2>1. PICK th : th = thresholds[k]
    OBVIOUS
  <2>2. thresholds'[k] = th
    BY <2>1
  <2>3. (LongAt(th)' <=> LongAt(th)) /\ SilentAt(th)' = SilentAt(th)
    BY <1>1
  <2>4. SilentAt(thresholds[k])' = SilentAt(th)'
    BY <2>2 DEF SilentAt
  <2>5. LongAt(thresholds[k])' <=> LongAt(th)'
    BY <2>4 DEF LongAt
  <2>6. (LongAt(thresholds[k]) <=> LongAt(th)) /\ SilentAt(thresholds[k]) = SilentAt(th)
    BY <2>1, Zenon
  <2> QED
    BY <2>3, <2>4, <2>5, <2>6
<1> QED
  BY <1>1, <1>2, <1>3, <1>4

\* The loop over the options.
LEMMA ApplyOptionKeeps ==
  ASSUME DetectInv, ApplyOption
  PROVE  DetectInv'
<1>1. /\ step = "options" /\ options # <<>> /\ cfg' = Option(cfg, Head(options))
      /\ options' = Tail(options) /\ threads' = threads /\ step' = step /\ take' = take
      /\ tried' = tried /\ UNCHANGED scanVars
  BY DEF ApplyOption
<1>2. DetectTypes /\ ScanInv /\ TriedInv
  BY DEF DetectInv
<1>3. PICK S : options \in Seq(S) /\ \A o \in S : IsOption(o)
  BY <1>2 DEF DetectTypes
<1>4. Head(options) \in S /\ Tail(options) \in Seq(S)
  BY <1>1, <1>3, HeadTailProperties
<1>5. Settings(cfg)'
  <2> DEFINE o == Head(options)
             n == Option(cfg, o)
  <2>1. IsOption(o) /\ Settings(cfg) /\ cfg' = n
    BY <1>1, <1>2, <1>3, <1>4 DEF DetectTypes
  <2> HIDE DEF o
  <2>2. Settings(n)
    BY <2>1, OptionKeeps
  <2> HIDE DEF n
  <2> QED
    BY <2>1, <2>2 DEF Settings, IsConfig
<1>6. DetectTypes'
  <2>1. (\E U : options \in Seq(U) /\ \A o \in U : IsOption(o))'
    BY <1>1, <1>3, <1>4
  <2> QED
    BY <1>1, <1>2, <1>5, <2>1 DEF DetectTypes
<1> QED
  BY <1>1, <1>2, <1>6, ScanUnchanged DEF DetectInv, ThresholdsInv, TriedInv, Loop

\* A step that leaves the options and the recording alone.
LEMMA TypesKept ==
  ASSUME DetectTypes, UNCHANGED <<options, cfg, threads, take>>, tried' \in Nat,
         step # "options",
         step' \in {"volume", "next", "scan", "returned", "failed"}
  PROVE  DetectTypes'
<1>1. options' = options /\ cfg' = cfg /\ threads' = threads /\ take' = take
  OBVIOUS
<1>2. PICK S : options \in Seq(S) /\ \A o \in S : IsOption(o)
  BY DEF DetectTypes
<1>3. Settings(cfg)'
  <2>1. Settings(cfg)
    BY DEF DetectTypes
  <2> QED
    BY <1>1, <2>1 DEF Settings, IsConfig
<1>4. (\E U : options \in Seq(U) /\ \A o \in U : IsOption(o))'
  BY <1>1, <1>2
<1> QED
  BY <1>1, <1>3, <1>4 DEF DetectTypes

\* The backend takes the configuration.
LEMMA ConfigureKeeps ==
  ASSUME DetectInv, ConfigureBackend
  PROVE  DetectInv'
<1>1. /\ step = "options" /\ threads' = cfg.CodecThreads /\ step' = "volume"
      /\ options' = options /\ cfg' = cfg /\ take' = take /\ tried' = tried
      /\ UNCHANGED scanVars
  BY DEF ConfigureBackend
<1>2. DetectTypes /\ ScanInv /\ TriedInv
  BY DEF DetectInv
<1>3. DetectTypes'
  <2>1. PICK S : options \in Seq(S) /\ \A o \in S : IsOption(o)
    BY <1>2 DEF DetectTypes
  <2>2. Settings(cfg)
    BY <1>2 DEF DetectTypes
  <2>3. Settings(cfg)'
    BY <1>1, <2>2 DEF Settings, IsConfig
  <2>4. (\E U : options \in Seq(U) /\ \A o \in U : IsOption(o))'
    BY <1>1, <2>1
  <2> QED
    BY <1>1, <1>2, <2>3, <2>4 DEF DetectTypes
<1> QED
  BY <1>1, <1>2, <1>3, ScanUnchanged DEF DetectInv, ThresholdsInv, TriedInv, Loop

\* The volume is measured and the thresholds are built, or there is no sample.
LEMMA DetectVolumeKeeps ==
  ASSUME DetectInv, DetectVolume
  PROVE  DetectInv'
<1>1. PICK t \in Takes, vol \in Volumes :
        /\ take' = t /\ volume' = vol
        /\ IF Levels(t) = {} THEN ReturnError /\ UNCHANGED thresholds
           ELSE /\ thresholds' = BuildThresholds(t, vol)
                /\ step' = "next" /\ UNCHANGED found
  BY DEF DetectVolume
<1>2. /\ step = "volume" /\ options' = options /\ cfg' = cfg /\ threads' = threads
      /\ tried' = tried /\ UNCHANGED scanVars
  BY DEF DetectVolume
<1>3. DetectTypes /\ ScanInv /\ ThresholdsInv
  BY DEF DetectInv
<1>4. t \in Seq(Seq(Int)) /\ tried = 0
  BY <1>2, <1>3, DetectAssumption DEF ThresholdsInv
<1>5. step' \in {"next", "failed"} /\ (step' = "next" => Levels(t) # {})
  BY <1>1 DEF ReturnError
<1>6. DetectTypes'
  <2>1. PICK S : options \in Seq(S) /\ \A o \in S : IsOption(o)
    BY <1>3 DEF DetectTypes
  <2>2. Settings(cfg)
    BY <1>3 DEF DetectTypes
  <2>3. Settings(cfg)'
    BY <1>2, <2>2 DEF Settings, IsConfig
  <2>4. (\E U : options \in Seq(U) /\ \A o \in U : IsOption(o))'
    BY <1>2, <2>1
  <2>5. take' \in Seq(Seq(Int))
    BY <1>1, <1>4
  <2> QED
    BY <1>2, <1>3, <1>4, <1>5, <2>3, <2>4, <2>5 DEF DetectTypes
<1>7. ThresholdsInv'
  <2>1. CASE step' = "next"
    <3>1. Levels(t) # {} /\ thresholds' = BuildThresholds(t, vol)
      BY <1>1, <1>5, <2>1
    <3>2. IsConfig(cfg)
      BY <1>3 DEF DetectTypes, Settings
    <3>3. ThresholdsOf(BuildThresholds(t, vol), t, vol)
      BY <1>4, <3>1, <3>2, BuildIs
    <3>4. PICK b : b = BuildThresholds(t, vol)
      OBVIOUS
    <3>5. b \in Seq(Int) /\ ThresholdsOf(b, t, vol)
      BY <3>3, <3>4 DEF ThresholdsOf
    <3>6. Floor' = Floor /\ Ceil' = Ceil
      BY <1>2 DEF Floor, Ceil
    <3>7. ThresholdsOf(b, t, vol)'
      BY <1>2, <3>5, <3>6 DEF ThresholdsOf
    <3>8. ThresholdsOf(thresholds, take, volume)'
      BY <1>1, <3>1, <3>4, <3>7 DEF ThresholdsOf
    <3>9. Levels(take)' = Levels(t)
      BY <1>1 DEF Levels
    <3>10. 0 <= Len(b) /\ tried' = 0 /\ thresholds' = b
      BY <1>2, <1>4, <3>1, <3>4, <3>5, LenProperties
    <3> QED
      BY <2>1, <3>1, <3>8, <3>9, <3>10 DEF ThresholdsInv
  <2>2. CASE step' = "failed"
    BY <2>2 DEF ThresholdsInv, Loop
  <2> QED
    BY <1>5, <2>1, <2>2
<1>8. TriedInv'
  <2>1. tried' = 0 /\ 1 .. 0 = {}
    BY <1>2, <1>4
  <2> QED
    BY <1>5, <2>1 DEF TriedInv
<1> QED
  BY <1>2, <1>3, <1>6, <1>7, <1>8, ScanUnchanged DEF DetectInv

\* The loop scans with the next threshold, or ends after the last.
LEMMA NextThresholdKeeps ==
  ASSUME DetectInv, NextThreshold
  PROVE  DetectInv'
<1>1. /\ step = "next" /\ options' = options /\ cfg' = cfg /\ threads' = threads
      /\ take' = take /\ volume' = volume /\ thresholds' = thresholds
  BY DEF NextThreshold
<1>2. /\ DetectTypes /\ ScanInv /\ TriedInv /\ Settings(cfg) /\ take \in Seq(Seq(Int))
      /\ tried \in Nat
  BY DEF DetectInv, DetectTypes
<1>3. /\ Levels(take) # {} /\ ThresholdsOf(thresholds, take, volume)
      /\ tried <= Len(thresholds)
      /\ tried > 0 => requested = MinSilenceFloored /\ Len(recording) = Len(take)
      /\ \A k \in 1 .. tried : ~ LongAt(thresholds[k])
  BY <1>1 DEF DetectInv, ThresholdsInv, TriedInv, Loop
<1>4. thresholds \in Seq(Int) /\ thresholds # <<>> /\ Len(thresholds) \in Nat
      /\ DOMAIN thresholds = 1 .. Len(thresholds)
      /\ \A k \in 1 .. Len(thresholds) : thresholds[k] \in Int
  BY <1>3, LenProperties, ElementOfSeq DEF ThresholdsOf
<1>5. /\ MinSilenceFloored' = MinSilenceFloored
      /\ \A threshold : SilentAt(threshold)' = SilentAt(threshold)
      /\ \A k : LongAt(thresholds[k])' <=> LongAt(thresholds[k])
  BY <1>1, SameTake, SameThresholds
<1>6. ThresholdsOf(thresholds, take, volume)' /\ Levels(take)' # {}
  BY <1>1, <1>3, SameThresholds
<1>7. CASE tried < Len(thresholds)
  <2>1. /\ BeginScan(SilentAt(thresholds[tried + 1]), MinSilenceFloored)
        /\ tried' = tried + 1 /\ step' = "scan"
    BY <1>7 DEF NextThreshold
  <2>2. PICK n \in Nat : n = tried + 1 /\ n > 0 /\ n - 1 = tried /\ n <= Len(thresholds)
    BY <1>2, <1>4, <1>7
  <2>3. PICK threshold \in Int : threshold = thresholds[n]
    BY <1>4, <2>2
  <2>4. /\ SilentAt(threshold) \in Seq(Seq(BOOLEAN)) /\ Len(SilentAt(threshold)) = Len(take)
        /\ MinSilenceFloored \in Int
    BY <1>2, SilentAtIs, MinSilenceIs
  <2>5. BeginScan(SilentAt(threshold), MinSilenceFloored)
    BY <2>1, <2>2, <2>3
  <2>6. ScanInv'
    BY <2>4, <2>5, BeginScanKeeps
  <2>7. recording' = SilentAt(threshold) /\ requested' = MinSilenceFloored
    BY <2>5 DEF BeginScan
  <2>8. DetectTypes'
    BY <1>1, <1>2, <2>1, <2>2, TypesKept
  <2>9. ThresholdsInv'
    <3>1. requested' = MinSilenceFloored' /\ Len(recording)' = Len(take)'
      BY <1>1, <1>5, <2>4, <2>7
    <3>2. tried' <= Len(thresholds)' /\ tried' = n
      BY <1>1, <2>1, <2>2
    <3> QED
      BY <1>6, <2>1, <3>1, <3>2 DEF ThresholdsInv
  <2>10. TriedInv'
    <3>1. recording' = SilentAt(thresholds[tried])'
      <4>1. thresholds'[tried'] = threshold
        BY <1>1, <2>1, <2>2, <2>3
      <4>2. SilentAt(thresholds[tried])' = SilentAt(threshold)'
        BY <4>1 DEF SilentAt
      <4> QED
        BY <1>5, <2>7, <4>2
    <3>2. \A k \in 1 .. n - 1 : ~ LongAt(thresholds[k])'
      BY <1>3, <1>5, <2>2
    <3> QED
      BY <2>1, <2>2, <3>1, <3>2 DEF TriedInv
  <2> QED
    BY <2>6, <2>8, <2>9, <2>10 DEF DetectInv
<1>8. CASE ~ tried < Len(thresholds)
  <2>1. step' = "returned" /\ found' = <<>> /\ UNCHANGED scanVars /\ tried' = tried
    BY <1>8 DEF NextThreshold, Return
  <2>2. tried = Len(thresholds) /\ tried > 0
    <3>1. Len(thresholds) # 0
      BY <1>4
    <3>2. tried <= Len(thresholds) /\ tried \in Nat /\ Len(thresholds) \in Nat
      BY <1>2, <1>3, <1>4
    <3>3. tried >= Len(thresholds)
      BY <1>8, <3>2
    <3> QED
      BY <3>1, <3>2, <3>3
  <2>3. DetectTypes'
    BY <1>1, <1>2, <2>1, TypesKept
  <2>4. ThresholdsInv'
    <3>1. requested' = MinSilenceFloored' /\ Len(recording)' = Len(take)'
      BY <1>1, <1>3, <1>5, <2>1, <2>2 DEF scanVars
    <3>2. tried' <= Len(thresholds)'
      BY <1>1, <1>3, <2>1
    <3> QED
      BY <1>6, <2>1, <3>1, <3>2 DEF ThresholdsInv
  <2>5. TriedInv'
    <3>1. \A k \in 1 .. tried : ~ LongAt(thresholds[k])'
      BY <1>3, <1>5
    <3>2. DOMAIN thresholds' = 1 .. tried /\ 1 .. tried - 1 \subseteq 1 .. tried
      BY <1>1, <1>2, <1>4, <2>2
    <3> QED
      BY <2>1, <2>2, <3>1, <3>2 DEF TriedInv
  <2> QED
    BY <1>2, <2>1, <2>3, <2>4, <2>5, ScanUnchanged DEF DetectInv
<1> QED
  BY <1>7, <1>8

\* A scan does not change what it scans.
LEMMA ScanStepFrame ==
  ASSUME ScanStep
  PROVE  recording' = recording /\ requested' = requested
BY DEF ScanStep, BeginFrame, SilentSample, LoudSample, EndFrame, ClosePending

\* A step of the scan.
LEMMA ScanKeeps ==
  ASSUME DetectInv, Scan
  PROVE  DetectInv'
<1>1. /\ step = "scan" /\ ScanStep
      /\ options' = options /\ cfg' = cfg /\ threads' = threads /\ step' = step
      /\ take' = take /\ volume' = volume /\ thresholds' = thresholds /\ tried' = tried
      /\ found' = found
  BY DEF Scan, detectVars
<1>2. /\ DetectTypes /\ ScanInv /\ ThresholdsInv /\ TriedInv /\ tried \in Nat
  BY DEF DetectInv, DetectTypes
<1>3. /\ MinSilenceFloored' = MinSilenceFloored /\ Levels(take)' = Levels(take)
      /\ ThresholdsOf(thresholds, take, volume)' <=> ThresholdsOf(thresholds, take, volume)
      /\ \A k : /\ LongAt(thresholds[k])' <=> LongAt(thresholds[k])
                /\ SilentAt(thresholds[k])' = SilentAt(thresholds[k])
  BY <1>1, SameThresholds
<1>4. recording' = recording /\ requested' = requested
  BY <1>1, ScanStepFrame
<1>5. ScanInv'
  BY <1>1, <1>2, ScanStepKeeps
<1>6. DetectTypes'
  BY <1>1, <1>2, TypesKept
<1>7. ThresholdsInv'
  BY <1>1, <1>2, <1>3, <1>4 DEF ThresholdsInv, Loop
<1>8. TriedInv'
  <2>1. SilentAt(thresholds[tried])' = SilentAt(thresholds[tried])
    <3>1. PICK n : n = tried
      OBVIOUS
    <3>2. SilentAt(thresholds[n])' = SilentAt(thresholds[n])
      BY <1>3
    <3>3. thresholds'[tried'] = thresholds'[n] /\ thresholds[tried] = thresholds[n]
      BY <1>1, <3>1
    <3>4. SilentAt(thresholds[tried])' = SilentAt(thresholds[n])'
      BY <3>3 DEF SilentAt
    <3>5. SilentAt(thresholds[tried]) = SilentAt(thresholds[n])
      BY <3>3 DEF SilentAt
    <3> QED
      BY <3>2, <3>4, <3>5
  <2>2. /\ tried > 0 /\ recording = SilentAt(thresholds[tried])
        /\ \A k \in 1 .. tried - 1 : ~ LongAt(thresholds[k])
    BY <1>1, <1>2 DEF TriedInv
  <2>3. \A k \in 1 .. tried - 1 : ~ LongAt(thresholds[k])'
    BY <1>3, <2>2
  <2>4. tried' > 0 /\ recording' = SilentAt(thresholds[tried])'
        /\ \A k \in 1 .. tried' - 1 : ~ LongAt(thresholds[k])'
    BY <1>1, <1>4, <2>1, <2>2, <2>3
  <2> QED
    BY <1>1, <2>4 DEF TriedInv
<1> QED
  BY <1>5, <1>6, <1>7, <1>8 DEF DetectInv

\* A scan that fails ends the loop.
LEMMA ScanFailsKeeps ==
  ASSUME DetectInv, ScanFails
  PROVE  DetectInv'
<1>1. /\ step = "scan" /\ step' = "failed"
      /\ options' = options /\ cfg' = cfg /\ threads' = threads
      /\ take' = take /\ tried' = tried /\ UNCHANGED scanVars
  BY DEF ScanFails, ReturnError
<1>2. DetectTypes /\ ScanInv /\ tried \in Nat
  BY DEF DetectInv, DetectTypes
<1>3. DetectTypes'
  BY <1>1, <1>2, TypesKept
<1> QED
  BY <1>1, <1>2, <1>3, ScanUnchanged DEF DetectInv, ThresholdsInv, TriedInv, Loop

\* A scan that finds nothing has shown that there is no long silence.
LEMMA NothingLong ==
  ASSUME DetectInv, step = "scan", phase = "done", intervals = <<>>
  PROVE  ~ LongAt(thresholds[tried])
<1>1. /\ Settings(cfg) /\ FoundInv /\ Loop /\ tried > 0
      /\ recording = SilentAt(thresholds[tried])
      /\ requested = MinSilenceFloored /\ Len(recording) = Len(take)
  BY DEF DetectInv, DetectTypes, ThresholdsInv, TriedInv, ScanInv, Loop
<1>2. MinSilence = MinSilenceFloored
  <2>1. MinSilenceFloored \in Int /\ MinSilenceFloored >= LeastSilence /\ LeastSilence \in Int
    BY <1>1, MinSilenceIs, ScanAssumption
  <2> QED
    BY <1>1, <2>1 DEF MinSilence
<1>3. DOMAIN intervals = {}
  OBVIOUS
<1>4. \A r \in Runs : ~ LongRun(r)
  BY <1>1, <1>3 DEF FoundInv
<1>5. Samples = Flat(SilentAt(thresholds[tried]))
  BY <1>1 DEF Samples
<1>6. Slack = Rate * Len(take)
  BY <1>1 DEF Slack
<1> SUFFICES ASSUME LongAt(thresholds[tried]) PROVE FALSE
  OBVIOUS
<1>7. PICK r \in [from : DOMAIN Samples, to : DOMAIN Samples] :
        Maximal(Samples, r) /\ To(r) - From(r) >= MinSilenceFloored * Rate + Rate * Len(take)
  BY <1>5 DEF LongAt
<1>8. r \in Runs
  BY <1>7 DEF Runs
<1>9. LongRun(r)
  BY <1>2, <1>6, <1>7 DEF LongRun
<1> QED
  BY <1>4, <1>8, <1>9

\* A scan that found something ends the loop; one that did not goes on.
LEMMA EndScanKeeps ==
  ASSUME DetectInv, EndScan
  PROVE  DetectInv'
<1>1. /\ step = "scan" /\ phase = "done"
      /\ IF Enough THEN Return(intervals) ELSE step' = "next" /\ UNCHANGED found
      /\ options' = options /\ cfg' = cfg /\ threads' = threads
      /\ take' = take /\ volume' = volume /\ thresholds' = thresholds /\ tried' = tried
      /\ UNCHANGED scanVars
  BY DEF EndScan
<1>2. /\ DetectTypes /\ ScanInv /\ ThresholdsInv /\ TriedInv /\ tried \in Nat
  BY DEF DetectInv, DetectTypes
<1>3. /\ MinSilenceFloored' = MinSilenceFloored /\ Levels(take)' = Levels(take)
      /\ ThresholdsOf(thresholds, take, volume)' <=> ThresholdsOf(thresholds, take, volume)
      /\ \A k : /\ LongAt(thresholds[k])' <=> LongAt(thresholds[k])
                /\ SilentAt(thresholds[k])' = SilentAt(thresholds[k])
  BY <1>1, SameThresholds
<1>4. recording' = recording /\ requested' = requested /\ intervals' = intervals
  BY <1>1 DEF scanVars
<1>5. step' \in {"next", "returned"}
  BY <1>1 DEF Return
<1>6. DetectTypes'
  BY <1>1, <1>2, <1>5, TypesKept
<1>7. ThresholdsInv'
  BY <1>1, <1>2, <1>3, <1>4, <1>5 DEF ThresholdsInv, Loop
<1>8. tried > 0 /\ \A k \in 1 .. tried - 1 : ~ LongAt(thresholds[k])
  BY <1>1, <1>2 DEF TriedInv
<1>9. TriedInv'
  <2>1. CASE intervals # <<>>
    <3>1. step' = "returned" /\ found' = intervals
      BY <1>1, <2>1 DEF Enough, Return
    <3>2. \A k \in 1 .. tried' - 1 : ~ LongAt(thresholds[k])'
      BY <1>1, <1>3, <1>8
    <3> QED
      BY <1>1, <1>8, <2>1, <3>1, <3>2 DEF TriedInv
  <2>2. CASE intervals = <<>>
    <3>1. step' = "next"
      BY <1>1, <2>2 DEF Enough
    <3>2. ~ LongAt(thresholds[tried])
      BY <1>1, <2>2, NothingLong
    <3>3. \A k \in 1 .. tried : ~ LongAt(thresholds[k])
      <4> SUFFICES ASSUME NEW k \in 1 .. tried PROVE ~ LongAt(thresholds[k])
        OBVIOUS
      <4>1. CASE k = tried
        BY <3>2, <4>1
      <4>2. CASE k # tried
        <5>1. k \in 1 .. tried - 1
          BY <1>2, <4>2
        <5> QED
          BY <1>8, <5>1
      <4> QED
        BY <4>1, <4>2
    <3>4. \A k \in 1 .. tried' : ~ LongAt(thresholds[k])'
      BY <1>1, <1>3, <3>3
    <3> QED
      BY <3>1, <3>4 DEF TriedInv
  <2> QED
    BY <2>1, <2>2
<1> QED
  BY <1>1, <1>2, <1>6, <1>7, <1>9, ScanUnchanged DEF DetectInv

\* Stuttering.
LEMMA DetectUnchanged ==
  ASSUME DetectInv, UNCHANGED allVars
  PROVE  DetectInv'
<1>1. /\ options' = options /\ cfg' = cfg /\ threads' = threads /\ step' = step
      /\ take' = take /\ volume' = volume /\ thresholds' = thresholds /\ tried' = tried
      /\ found' = found /\ UNCHANGED scanVars
      /\ recording' = recording /\ requested' = requested
  BY DEF allVars, detectVars, scanVars
<1>2. /\ DetectTypes /\ ScanInv /\ ThresholdsInv /\ TriedInv
  BY DEF DetectInv
<1>3. /\ MinSilenceFloored' = MinSilenceFloored /\ Levels(take)' = Levels(take)
      /\ ThresholdsOf(thresholds, take, volume)' <=> ThresholdsOf(thresholds, take, volume)
      /\ \A k : /\ LongAt(thresholds[k])' <=> LongAt(thresholds[k])
                /\ SilentAt(thresholds[k])' = SilentAt(thresholds[k])
  BY <1>1, SameThresholds
<1>4. DetectTypes'
  <2>1. Settings(cfg)'
    BY <1>1, <1>2 DEF DetectTypes, Settings, IsConfig
  <2>2. PICK S : options \in Seq(S) /\ \A o \in S : IsOption(o)
    BY <1>2 DEF DetectTypes
  <2>3. (\E U : options \in Seq(U) /\ \A o \in U : IsOption(o))'
    BY <1>1, <2>2
  <2> QED
    BY <1>1, <1>2, <2>1, <2>3 DEF DetectTypes
<1>5. ThresholdsInv'
  BY <1>1, <1>2, <1>3 DEF ThresholdsInv, Loop
<1>6. TriedInv'
  <2>1. SilentAt(thresholds[tried])' = SilentAt(thresholds[tried])
    BY <1>1 DEF SilentAt
  <2>2. \A k \in 1 .. tried - 1 : LongAt(thresholds[k])' <=> LongAt(thresholds[k])
    BY <1>3
  <2>3. CASE step = "options"
    BY <1>1, <1>2, <2>3 DEF TriedInv
  <2>4. CASE step = "next"
    BY <1>1, <1>2, <1>3, <2>4 DEF TriedInv
  <2>5. CASE step = "scan"
    BY <1>1, <1>2, <1>3, <2>1, <2>5 DEF TriedInv
  <2>6. CASE step = "returned"
    BY <1>1, <1>2, <1>3, <2>6 DEF TriedInv
  <2>7. CASE step \notin {"options", "next", "scan", "returned"}
    BY <1>1, <2>7 DEF TriedInv
  <2> QED
    BY <2>3, <2>4, <2>5, <2>6, <2>7
<1> QED
  BY <1>1, <1>2, <1>4, <1>5, <1>6, ScanUnchanged DEF DetectInv

\* The invariant holds in every state.
LEMMA DetectIsInvariant ==
  Spec => []DetectInv
<1>1. DetectInit => DetectInv
  BY DetectInitInv
<1>2. DetectInv /\ [Next]_allVars => DetectInv'
  <2> SUFFICES ASSUME DetectInv, [Next]_allVars PROVE DetectInv'
    OBVIOUS
  <2>1. CASE Finished
    BY <2>1, DetectUnchanged DEF Finished
  <2>2. CASE UNCHANGED allVars
    BY <2>2, DetectUnchanged
  <2> QED
    BY <2>1, <2>2, ApplyOptionKeeps, ConfigureKeeps, DetectVolumeKeeps, NextThresholdKeeps,
       ScanKeeps, ScanFailsKeeps, EndScanKeeps DEF Next
<1> QED
  BY <1>1, <1>2, PTL DEF Spec

-----------------------------------------------------------------------------
(***************************************************************************)
(* The theorems.                                                           *)
(***************************************************************************)
\* Whatever the recording and its frames, the detector finds every longest run
\* of silent samples that is clearly long enough (sa_silence_sample_cb).
THEOREM EverySilenceIsFound ==
  Spec => []LongRunsFound
<1>1. DetectInv => LongRunsFound
  <2> SUFFICES ASSUME DetectInv, phase = "done", NEW r \in Runs,
                      To(r) - From(r) >= MinSilence * Rate + Slack
               PROVE  \E k \in DOMAIN intervals : Matches(intervals[k], r)
    BY DEF LongRunsFound
  <2>1. FoundInv /\ LongRun(r)
    BY DEF DetectInv, ScanInv, LongRun
  <2> QED
    BY <2>1 DEF FoundInv
<1> QED
  BY <1>1, DetectIsInvariant, PTL

\* What it finds are such runs, as long as was asked for, in order and apart,
\* where a sample lasts at least a tick: at more than a million samples a second
\* two silences could begin and end in the same microsecond.
THEOREM OnlySilencesAreFound ==
  ASSUME Rate <= Base
  PROVE  Spec => []OnlyRunsFound
<1>1. DetectInv => OnlyRunsFound
  <2> SUFFICES ASSUME DetectInv, phase = "done" PROVE OnlyRunsFound
    BY DEF OnlyRunsFound
  <2>1. FoundInv /\ ApartInv
    BY DEF DetectInv, ScanInv
  <2>2. \A k \in DOMAIN intervals :
          /\ intervals[k].end - intervals[k].start >= MinSilence
          /\ \E r \in Runs : Matches(intervals[k], r)
    BY <2>1 DEF FoundInv
  <2>3. \A j, k \in DOMAIN intervals : j < k => intervals[j].end < intervals[k].start
    BY <2>1 DEF ApartInv
  <2> QED
    BY <2>2, <2>3 DEF OnlyRunsFound
<1> QED
  BY <1>1, DetectIsInvariant, PTL

\* detectSilences returns the silences of the first threshold that has any, and
\* none only when there is no clearly long silence with any of them.
THEOREM TheFirstThresholdWins ==
  Spec => []FirstThresholdWins
<1>1. DetectInv => FirstThresholdWins
  <2> SUFFICES ASSUME DetectInv, step = "returned", NEW k \in DOMAIN thresholds,
                      found = <<>> \/ k < tried
               PROVE  ~ LongSilence(thresholds[k])
    BY DEF FirstThresholdWins
  <2>1. /\ Settings(cfg) /\ tried \in Nat /\ tried > 0 /\ thresholds \in Seq(Int)
        /\ requested = MinSilenceFloored /\ Len(recording) = Len(take)
        /\ \A n \in 1 .. tried - 1 : ~ LongAt(thresholds[n])
        /\ found = <<>> => \A n \in DOMAIN thresholds : ~ LongAt(thresholds[n])
    BY DEF DetectInv, DetectTypes, ThresholdsInv, TriedInv, Loop, ThresholdsOf
  <2>2. ~ LongAt(thresholds[k])
    <3>1. CASE found = <<>>
      BY <2>1, <3>1
    <3>2. CASE k < tried
      <4>1. k \in Nat /\ k >= 1
        BY <2>1, LenProperties
      <4>2. k \in 1 .. tried - 1
        BY <2>1, <3>2, <4>1
      <4> QED
        BY <2>1, <4>2
    <3> QED
      BY <3>1, <3>2
  <2>3. MinSilence = MinSilenceFloored
    <3>1. MinSilenceFloored \in Int /\ MinSilenceFloored >= LeastSilence /\ LeastSilence \in Int
      BY <2>1, MinSilenceIs, ScanAssumption
    <3> QED
      BY <2>1, <3>1 DEF MinSilence
  <2>4. Slack = Rate * Len(take)
    BY <2>1 DEF Slack
  <2> QED
    BY <2>2, <2>3, <2>4 DEF LongAt, LongSilence
<1> QED
  BY <1>1, DetectIsInvariant, PTL

\* Whatever the options and their order, the settings and the thresholds that
\* NewProcessor and BuildThresholds make are usable.
THEOREM SettingsAreUsable ==
  Spec => []SettingsUsable
<1>1. DetectInv => SettingsUsable
  <2> SUFFICES ASSUME DetectInv PROVE SettingsUsable
    OBVIOUS
  <2>1. DetectTypes /\ Settings(cfg)
    BY DEF DetectInv, DetectTypes
  <2>2. step # "options" => cfg.FixedWorkers > 0 /\ cfg.MaxLength > 0 /\ threads >= 0
    BY <2>1 DEF DetectTypes, Settings
  <2>3. ASSUME step = "scan" PROVE requested >= LeastSilence
    <3>1. requested = MinSilenceFloored
      BY <2>3 DEF DetectInv, ThresholdsInv, TriedInv, Loop
    <3> QED
      BY <2>1, <3>1, MinSilenceIs
  <2>4. ASSUME step = "next" PROVE ThresholdsOf(thresholds, take, volume)
    BY <2>4 DEF DetectInv, ThresholdsInv, Loop
  <2> QED
    BY <2>2, <2>3, <2>4 DEF SettingsUsable, ThresholdsOf
<1> QED
  BY <1>1, DetectIsInvariant, PTL

\* Trimming does not take a quiet recording for silence: with thresholds from the
\* measured maximum, the loudest sample stays speech, if it is above the floor.
THEOREM TheLoudestIsSpeech ==
  Spec => []LoudestIsSpeech
<1>1. DetectInv => LoudestIsSpeech
  <2> SUFFICES ASSUME DetectInv, step = "scan", volume = "both", Floor <= Ceil,
                      cfg.ThresholdDB = <<>>, cfg.Thresholds = <<>>, MaxDB(take) > Floor
               PROVE  \E f \in DOMAIN take : \E j \in DOMAIN take[f] :
                        take[f][j] = MaxDB(take) /\ ~ recording[f][j]
    BY DEF LoudestIsSpeech
  <2>1. /\ take \in Seq(Seq(Int)) /\ tried \in Nat /\ tried > 0 /\ tried <= Len(thresholds)
        /\ Levels(take) # {} /\ ThresholdsOf(thresholds, take, volume)
        /\ recording = SilentAt(thresholds[tried])
    BY DEF DetectInv, DetectTypes, ThresholdsInv, TriedInv, Loop
  <2>2. thresholds[tried] < MaxDB(take) /\ thresholds[tried] \in Int
    <3>1. thresholds \in Seq(Int) /\ \A k \in DOMAIN thresholds : thresholds[k] < MaxDB(take)
      BY <2>1 DEF ThresholdsOf
    <3>2. tried \in DOMAIN thresholds /\ thresholds[tried] \in Int
      BY <2>1, <3>1, LenProperties, ElementOfSeq
    <3> QED
      BY <3>1, <3>2
  <2>3. MaxDB(take) \in Levels(take) /\ MaxDB(take) \in Int
    BY <2>1, Loudest
  <2>4. PICK f \in DOMAIN take : \E j \in DOMAIN take[f] : take[f][j] = MaxDB(take)
    BY <2>3 DEF Levels
  <2>5. PICK j \in DOMAIN take[f] : take[f][j] = MaxDB(take)
    BY <2>4
  <2>6. SilentAt(thresholds[tried])[f][j] <=> take[f][j] <= thresholds[tried]
    BY <2>1, <2>2, SilentAtIs
  <2>7. ~ recording[f][j]
    BY <2>1, <2>2, <2>3, <2>5, <2>6
  <2> QED
    BY <2>5, <2>7
<1> QED
  BY <1>1, DetectIsInvariant, PTL
=============================================================================
