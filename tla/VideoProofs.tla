----------------------------- MODULE VideoProofs -----------------------------
(***************************************************************************)
(* The proofs about the modules of the video: what FakeEncoder produces,   *)
(* and what VideoFrameMatcher and VideoQualityAnalyzer, composed by        *)
(* VideoQuality, find out about it.                                        *)
(***************************************************************************)
EXTENDS VideoQuality, FakeEncoder, SequenceTheorems, FiniteSetTheorems, Recursion, TLAPS
------------------------------------------------------------------------------
(* Sums *)

Sums(f, s, n) == f = [i \in 0..n |-> IF i = 0 THEN 0 ELSE f[i - 1] + s[i]]

\* The recursive function in SumOf exists.
LEMMA SumsExist ==
  ASSUME NEW n \in Nat, NEW s \in [1..n -> Int]
  PROVE  \E f : Sums(f, s, n)
<1> DEFINE t == [i \in 1..n |-> [x \in Int |-> x + s[i]]]
<1>1. t \in StepFunctions(Int, n)
  BY DEF StepFunctions
<1>2. \A i \in 1..n : \A x \in Int : t[i][x] = x + s[i]
  OBVIOUS
<1>3. PICK f : Iterates(f, Int, 0, n, t)
  <2>1. 0 \in Int
    OBVIOUS
  <2> HIDE DEF t
  <2> QED BY <1>1, <2>1, Iteration
<1> DEFINE g == [i \in 0..n |-> IF i = 0 THEN 0 ELSE f[i - 1] + s[i]]
<1> HIDE DEF t
<1>4. f \in [0..n -> Int] /\ f[0] = 0 /\ \A i \in 1..n : f[i] = t[i][f[i - 1]]
  BY <1>3 DEF Iterates
<1>5. \A i \in 0..n : f[i] = g[i]
  <2> TAKE i \in 0..n
  <2>1. CASE i = 0
    BY <1>4, <2>1
  <2>2. CASE i # 0
    <3>1. i \in 1..n /\ i - 1 \in 0..n
      BY <2>2
    <3>2. f[i - 1] \in Int
      BY <1>4, <3>1
    <3> QED BY <1>2, <1>4, <2>2, <3>1, <3>2
  <2> QED BY <2>1, <2>2
<1>6. f = g
  <2>1. f = [i \in 0..n |-> f[i]] /\ g = [i \in 0..n |-> g[i]]
    BY <1>4
  <2> QED BY <1>5, <2>1
<1> QED BY <1>6 DEF Sums

\* What its values are.
LEMMA SumsUnfold ==
  ASSUME NEW n \in Nat, NEW s \in [1..n -> Int], NEW f, Sums(f, s, n)
  PROVE  f[0] = 0 /\ (\A i \in 1..n : f[i] = f[i - 1] + s[i]) /\ \A i \in 0..n : f[i] \in Int
<1>1. f[0] = 0
  BY DEF Sums
<1>2. \A i \in 1..n : f[i] = f[i - 1] + s[i]
  BY DEF Sums
<1> DEFINE Good == {i \in 0..n : f[i] \in Int}
<1>3. 0 \in Good
  BY <1>1
<1>4. \A i \in 1..n : i - 1 \in Good => i \in Good
  BY <1>2
<1>5. \A i \in 0..n : i \in Good
  <2> HIDE DEF Good
  <2> QED BY <1>3, <1>4, UpTo
<1> QED BY <1>1, <1>2, <1>5

\* What SumOf is, in terms of the sums of the prefixes.
LEMMA SumOfIs ==
  ASSUME NEW n \in Nat, NEW s \in [1..n -> Int]
  PROVE  \E f : Sums(f, s, n) /\ SumOf(s) = f[n] /\ f[n] \in Int
<1> DEFINE f == CHOOSE f : Sums(f, s, n)
<1>1. Sums(f, s, n)
  BY SumsExist
<1>2. Len(s) = n
  OBVIOUS
<1>3. SumOf(s) = f[n]
  BY <1>2 DEF SumOf, Sums
<1>4. f[n] \in Int
  <2> HIDE DEF f
  <2> QED BY <1>1, SumsUnfold
<1> QED BY <1>1, <1>3, <1>4

\* A linear inequality that holds of all elements holds of the sums.
LEMMA SumInequality ==
  ASSUME NEW n \in Nat, NEW s \in [1..n -> Int], NEW t \in [1..n -> Int],
         NEW u \in [1..n -> Int], NEW c \in Int, NEW d \in Int, NEW e \in Int,
         \A i \in 1..n : c * s[i] + d * t[i] <= e * u[i]
  PROVE  c * SumOf(s) + d * SumOf(t) <= e * SumOf(u)
<1>1. PICK f : Sums(f, s, n) /\ SumOf(s) = f[n]
  BY SumOfIs
<1>2. PICK g : Sums(g, t, n) /\ SumOf(t) = g[n]
  BY SumOfIs
<1>3. PICK h : Sums(h, u, n) /\ SumOf(u) = h[n]
  BY SumOfIs
<1>4. /\ f[0] = 0 /\ (\A i \in 1..n : f[i] = f[i - 1] + s[i]) /\ \A i \in 0..n : f[i] \in Int
      /\ g[0] = 0 /\ (\A i \in 1..n : g[i] = g[i - 1] + t[i]) /\ \A i \in 0..n : g[i] \in Int
      /\ h[0] = 0 /\ (\A i \in 1..n : h[i] = h[i - 1] + u[i]) /\ \A i \in 0..n : h[i] \in Int
  BY <1>1, <1>2, <1>3, SumsUnfold
<1> DEFINE Good == {i \in 0..n : c * f[i] + d * g[i] <= e * h[i]}
<1>5. 0 \in Good
  BY <1>4
<1>6. ASSUME NEW i \in 1..n, i - 1 \in Good PROVE i \in Good
  <2>1. PICK x \in Int, y \in Int, z \in Int : x = f[i - 1] /\ y = g[i - 1] /\ z = h[i - 1]
    <3>1. i - 1 \in 0..n
      OBVIOUS
    <3> QED BY <1>4, <3>1
  <2>2. PICK x1 \in Int, y1 \in Int, z1 \in Int : x1 = s[i] /\ y1 = t[i] /\ z1 = u[i]
    OBVIOUS
  <2>3. c * x + d * y <= e * z /\ c * x1 + d * y1 <= e * z1
    BY <1>6, <2>1, <2>2
  <2>4. f[i] = x + x1 /\ g[i] = y + y1 /\ h[i] = z + z1
    BY <1>4, <2>1, <2>2
  <2>5. PICK x2 \in Int, y2 \in Int, z2 \in Int : x2 = x + x1 /\ y2 = y + y1 /\ z2 = z + z1
    OBVIOUS
  <2>6. c * x2 + d * y2 <= e * z2
    <3>1. PICK p1 \in Int, q1 \in Int, r1 \in Int : p1 = c * x /\ q1 = d * y /\ r1 = e * z
      OBVIOUS
    <3>2. PICK p2 \in Int, q2 \in Int, r2 \in Int : p2 = c * x1 /\ q2 = d * y1 /\ r2 = e * z1
      OBVIOUS
    <3>3. p1 + q1 <= r1 /\ p2 + q2 <= r2
      BY <2>3, <3>1, <3>2
    <3>4. c * x2 = p1 + p2 /\ d * y2 = q1 + q2 /\ e * z2 = r1 + r2
      BY <2>5, <3>1, <3>2
    <3>5. (p1 + p2) + (q1 + q2) <= r1 + r2
      BY <3>3
    <3> QED BY <3>4, <3>5
  <2>7. c * f[i] + d * g[i] <= e * h[i]
    BY <2>4, <2>5, <2>6
  <2> QED BY <2>7
<1>7. n \in Good
  <2> HIDE DEF Good
  <2>1. \A i \in 0..n : i \in Good
    BY <1>5, <1>6, UpTo
  <2> QED BY <2>1
<1> QED BY <1>1, <1>2, <1>3, <1>7

\* The sum of integers is an integer.
LEMMA SumOfInt ==
  ASSUME NEW n \in Nat, NEW s \in [1..n -> Int]
  PROVE  SumOf(s) \in Int
BY SumOfIs

\* The sum of natural numbers is one.
LEMMA SumOfNat ==
  ASSUME NEW n \in Nat, NEW s \in [1..n -> Nat]
  PROVE  SumOf(s) \in Nat
<1>1. s \in [1..n -> Int]
  OBVIOUS
<1>2. PICK a \in Int, b \in Int : a = -1 /\ b = 0
  OBVIOUS
<1>3. \A i \in 1..n : a * s[i] + b * s[i] <= b * s[i]
  BY <1>2
<1>4. a * SumOf(s) + b * SumOf(s) <= b * SumOf(s)
  BY <1>1, <1>3, SumInequality
<1> QED BY <1>1, <1>2, <1>4, SumOfInt

------------------------------------------------------------------------------
(* The rates *)

\* Scaling keeps the sum within the maximum, although every stream is rounded.
LEMMA ScaledWithinMax ==
  ASSUME NEW b \in [Streams -> Nat], NEW max \in Int
  PROVE  /\ Scaled(b, max) \in [Streams -> Nat]
         /\ max > 0 => KbpsOf(Scaled(b, max)) <= max
<1>1. NumStreams \in Nat /\ Kilo \in Nat \ {0} /\ b \in [1..NumStreams -> Nat]
  BY EncoderConstants DEF Streams
<1>2. PICK total \in Nat : total = SumOf(b)
  BY <1>1, SumOfNat
<1>3. PICK kbps \in Nat : kbps = KbpsOf(b) /\ total < Kilo * (kbps + 1)
  <2>1. PICK q \in Nat : q = total \div Kilo
    BY <1>1
  <2>2. total < Kilo * (q + 1)
    BY <1>1, <2>1
  <2> QED BY <1>2, <2>1, <2>2 DEF KbpsOf
<1>4. CASE ~(max > 0 /\ KbpsOf(b) > max)
  BY <1>3, <1>4 DEF Scaled
<1>5. CASE max > 0 /\ KbpsOf(b) > max
  <2> DEFINE x == [s \in Streams |-> (b[s] * max) \div kbps]
  <2>1. Scaled(b, max) = x /\ kbps > max /\ max > 0
    BY <1>3, <1>5 DEF Scaled
  <2>2. ASSUME NEW s \in Streams PROVE x[s] \in Nat /\ kbps * x[s] <= max * b[s]
    <3>1. PICK p \in Nat : p = b[s] * max
      BY <2>1
    <3>2. x[s] = p \div kbps /\ max * b[s] = p
      BY <2>1, <3>1
    <3>3. p \div kbps \in Nat /\ kbps * (p \div kbps) <= p
      BY <2>1
    <3> QED BY <3>2, <3>3
  <2>3. x \in [1..NumStreams -> Nat]
    BY <2>2 DEF Streams
  <2> HIDE DEF x
  <2>4. PICK zero \in Int : zero = 0
    OBVIOUS
  <2>5. x \in [1..NumStreams -> Int] /\ b \in [1..NumStreams -> Int]
    BY <1>1, <2>3
  <2>6. kbps * SumOf(x) + zero * SumOf(x) <= max * SumOf(b)
    <3>1. \A s \in 1..NumStreams : kbps * x[s] + zero * x[s] <= max * b[s]
      BY <2>2, <2>3, <2>4 DEF Streams
    <3>2. kbps \in Int /\ NumStreams \in Nat
      BY <1>1
    <3> QED BY <2>5, <3>1, <3>2, SumInequality
  <2>7. PICK sum \in Nat : sum = SumOf(x)
    BY <1>1, <2>3, SumOfNat
  <2>8. kbps * sum <= max * total
    BY <1>2, <2>4, <2>6, <2>7
  <2>9. sum < Kilo * (max + 1)
    <3>1. SUFFICES ASSUME sum >= Kilo * (max + 1) PROVE FALSE
      BY <1>1
    <3>2. kbps * sum >= kbps * (Kilo * (max + 1))
      BY <1>1, <2>1, <3>1
    <3>3. max * total < max * (Kilo * (kbps + 1))
      <4>1. PICK w \in Nat : w = Kilo * (kbps + 1)
        BY <1>1
      <4>2. total < w
        BY <1>3, <4>1
      <4>3. max * total < max * w
        BY <2>1, <4>2
      <4> QED BY <4>1, <4>3
    <3>4. kbps * (Kilo * (max + 1)) < max * (Kilo * (kbps + 1))
      BY <1>1, <2>1, <2>8, <3>2, <3>3
    <3>5. /\ kbps * (Kilo * (max + 1)) = kbps * (Kilo * max) + Kilo * kbps
          /\ max * (Kilo * (kbps + 1)) = kbps * (Kilo * max) + Kilo * max
      BY <1>1
    <3>6. Kilo * max < Kilo * kbps
      BY <1>1, <2>1
    <3>7. PICK u \in Int, v \in Int, w \in Int :
            u = kbps * (Kilo * max) /\ v = Kilo * kbps /\ w = Kilo * max
      BY <1>1
    <3> QED BY <3>4, <3>5, <3>6, <3>7
  <2>10. sum \div Kilo <= max
    BY <1>1, <2>1, <2>9
  <2> QED BY <2>1, <2>3, <2>7, <2>10 DEF KbpsOf, Streams
<1> QED BY <1>4, <1>5

RateInv == bitrate \in [Streams -> Nat] /\ max_target \in Int /\ RateWithinMax

\* Every step keeps the types and the maximum.
LEMMA RateStep == RateInv /\ [EncoderNext]_encoderVars => RateInv'
<1> SUFFICES ASSUME RateInv, [EncoderNext]_encoderVars PROVE RateInv'
  OBVIOUS
<1> USE DEF RateInv
<1>1. CASE InitEncode
  <2>1. StartRate * Kilo \in Nat
    BY EncoderConstants
  <2>2. bitrate' \in [Streams -> Nat]
    BY <1>1, <2>1 DEF InitEncode
  <2> QED BY <1>1, <2>2 DEF InitEncode, RateWithinMax
<1>2. ASSUME NEW b \in Allocations, SetRates(b) PROVE RateInv'
  <2>1. b \in [Streams -> Nat] /\ max_target \in Int
    BY EncoderConstants
  <2>2. bitrate' = Scaled(b, max_target) /\ max_target' = max_target
    BY <1>2 DEF SetRates
  <2>3. bitrate' \in [Streams -> Nat] /\ (max_target > 0 => KbpsOf(bitrate') <= max_target)
    BY <2>1, <2>2, ScaledWithinMax
  <2>4. RateWithinMax'
    BY <2>2, <2>3 DEF RateWithinMax, KbpsOf
  <2> QED BY <2>2, <2>3, <2>4
<1>3. ASSUME NEW max \in MaxRates, SetMaxBitrate(max) PROVE RateInv'
  <2>1. bitrate \in [Streams -> Nat] /\ max \in Int
    BY EncoderConstants
  <2>2. bitrate' = Scaled(bitrate, max) /\ max_target' = max
    BY <1>3 DEF SetMaxBitrate
  <2>3. bitrate' \in [Streams -> Nat] /\ (max > 0 => KbpsOf(bitrate') <= max)
    BY <2>1, <2>2, ScaledWithinMax
  <2>4. RateWithinMax'
    BY <2>2, <2>3 DEF RateWithinMax, KbpsOf
  <2> QED BY <2>1, <2>2, <2>3, <2>4
<1>4. CASE UNCHANGED rateVars
  BY <1>4 DEF rateVars, RateWithinMax, KbpsOf
<1>5. Encode \/ DeliverLayer \/ (\E requested \in BOOLEAN : NextFrame(requested))
        \/ UNCHANGED encoderVars => UNCHANGED rateVars
  BY DEF Encode, DeliverLayer, NextFrame, encoderVars
<1> QED BY <1>1, <1>2, <1>3, <1>4, <1>5 DEF EncoderNext

\* Whatever the rates, the maxima, the number of streams and the order of calls, the
\* rate that the next frame is made for is within the maximum, unless it is the
\* start rate that InitEncode sets (SetRates, SetMaxBitrate).
THEOREM RateCorrect == EncoderSpec => []RateWithinMax
<1>1. EncoderInit => RateInv
  BY DEF RateInv, EncoderInit, RateWithinMax
<1>2. RateInv => RateWithinMax
  BY DEF RateInv
<1> QED BY <1>1, <1>2, RateStep, PTL DEF EncoderSpec
------------------------------------------------------------------------------
(* The frames of one stream *)

\* The sum of no numbers, and of one.
LEMMA SumOfOne ==
  ASSUME NEW n \in {0, 1}, NEW s \in [1..n -> Int]
  PROVE  SumOf(s) = IF n = 1 THEN s[1] ELSE 0
<1>1. n \in Nat /\ (n = 0 \/ n = 1)
  OBVIOUS
<1>2. PICK f : Sums(f, s, n) /\ SumOf(s) = f[n]
  BY <1>1, SumOfIs
<1>3. f[0] = 0 /\ \A i \in 1..n : f[i] = f[i - 1] + s[i]
  BY <1>1, <1>2, SumsUnfold
<1> QED BY <1>1, <1>2, <1>3

\* Min, of two numbers.
LEMMA LeastOfTwo ==
  ASSUME NEW x \in Nat, NEW y \in Nat
  PROVE  Min({x, y}) \in Nat /\ Min({x, y}) <= x /\ Min({x, y}) <= y
<1>1. \E z \in {x, y} : \A w \in {x, y} : z <= w
  OBVIOUS
<1>2. Min({x, y}) \in {x, y} /\ \A w \in {x, y} : Min({x, y}) <= w
  BY <1>1 DEF Min
<1> QED BY <1>2

\* The size of a layer, in bits per second, is off its rate by what the division
\* by eight rounds up and the one by the frame rate rounds down.
LEMMA LayerSize ==
  ASSUME NumStreams = 1, NEW b \in [Streams -> Nat]
  PROVE  /\ AverageSize(b, 1, 1) \in Nat
         /\ 8 * Fps * AverageSize(b, 1, 1) <= b[1] + 7
         /\ b[1] <= 8 * Fps * AverageSize(b, 1, 1) + 8 * Fps
<1>1. PICK r \in Nat, c \in Nat \ {0} : r = b[1] /\ c = 8 * Fps
  BY EncoderConstants DEF Streams
<1>2. PICK q \in Nat : q = (r + 7) \div c
  BY <1>1
<1>3. c * q <= r + 7 /\ r + 7 < c * q + c
  BY <1>1, <1>2
<1>4. kTemporalLayerRateFactor[1][1] = 1
  BY DEF kTemporalLayerRateFactor
<1>5. AverageSize(b, 1, 1) = q
  BY <1>1, <1>2, <1>4 DEF AverageSize
<1> QED BY <1>1, <1>3, <1>5

\* What NextFrame makes of a stream, if it has a rate: a debt, and a layer which, less
\* what it adds to the debt, has the average size.
Layered(b, n, new) ==
  /\ new.debt \in Nat
  /\ \/ n = 0 /\ new.sizes = <<>> /\ new.debt = debt_bytes
     \/ /\ n = 1
        /\ \E x \in Nat : /\ new.sizes = <<x>>
                          /\ x = AverageSize(b, 1, 1) + new.debt - debt_bytes

LEMMA KeyLayered ==
  ASSUME NumStreams = 1, NEW b \in [Streams -> Nat], NEW n \in {0, 1}, debt_bytes \in Nat
  PROVE  Layered(b, n, KeyLayers(b, n))
<1> DEFINE owed == [i \in 1..n |-> (kKeyframeSizeFactor - 1) * AverageSize(b, n, i)]
           whole == [i \in 1..n |-> kKeyframeSizeFactor * AverageSize(b, n, i)]
<1>1. KeyLayers(b, n) = [debt |-> debt_bytes + SumOf(owed), sizes |-> whole]
  BY DEF KeyLayers
<1>2. CASE n = 0
  <2>1. owed \in [1..n -> Int] /\ whole = <<>>
    BY <1>2
  <2>2. SumOf(owed) = 0
    <3> HIDE DEF owed
    <3>1. SumOf(owed) = IF n = 1 THEN owed[1] ELSE 0
      BY <2>1, SumOfOne
    <3> QED BY <1>2, <3>1
  <2> QED BY <1>1, <1>2, <2>1, <2>2 DEF Layered
<1>3. CASE n = 1
  <2>1. PICK a \in Nat : a = AverageSize(b, 1, 1)
    BY LayerSize
  <2>2. owed \in [1..n -> Int] /\ owed[1] = 4 * a /\ whole = <<5 * a>>
    BY <1>3, <2>1 DEF kKeyframeSizeFactor
  <2>3. SumOf(owed) = 4 * a
    <3> HIDE DEF owed
    <3> QED BY <1>3, <2>2, SumOfOne
  <2>4. 5 * a \in Nat /\ 5 * a = a + (debt_bytes + 4 * a) - debt_bytes /\ debt_bytes + 4 * a \in Nat
    OBVIOUS
  <2> QED BY <1>1, <1>3, <2>1, <2>2, <2>3, <2>4 DEF Layered
<1> QED BY <1>2, <1>3

LEMMA DeltaLayered ==
  ASSUME NumStreams = 1, NEW b \in [Streams -> Nat], NEW n \in {0, 1}, debt_bytes \in Nat
  PROVE  Layered(b, n, DeltaLayers(b, n))
<1> DEFINE Pays(i, debt) == Min({AverageSize(b, n, i) \div 2, debt})
           After(f) == f = [i \in 0..n |-> IF i = 0 THEN debt_bytes
                                          ELSE f[i - 1] - Pays(i, f[i - 1])]
           after == CHOOSE f : After(f)
           g == [i \in 0..n |-> IF i = 0 THEN debt_bytes ELSE debt_bytes - Pays(1, debt_bytes)]
<1>1. DeltaLayers(b, n)
        = [debt |-> after[n],
           sizes |-> [i \in 1..n |-> AverageSize(b, n, i) - (after[i - 1] - after[i])]]
  BY DEF DeltaLayers
<1> HIDE DEF Pays
<1>2. After(g)
  <2> DEFINE h == [i \in 0..n |-> IF i = 0 THEN debt_bytes ELSE g[i - 1] - Pays(i, g[i - 1])]
  <2>1. \A i \in 0..n : g[i] = h[i]
    OBVIOUS
  <2> QED BY <2>1
<1>3. After(after)
  <2> HIDE DEF After, g
  <2> QED BY <1>2
<1> HIDE DEF after
<1>4. after[0] = debt_bytes /\ (n = 1 => after[1] = debt_bytes - Pays(1, debt_bytes))
  BY <1>3
<1> HIDE DEF After
<1>5. CASE n = 0
  BY <1>1, <1>4, <1>5 DEF Layered
<1>6. CASE n = 1
  <2>1. PICK a \in Nat, h \in Nat : a = AverageSize(b, 1, 1) /\ h = a \div 2 /\ h <= a
    BY LayerSize
  <2>2. PICK p \in Nat : p = Pays(1, debt_bytes) /\ p <= a /\ p <= debt_bytes
    <3>1. Min({h, debt_bytes}) \in Nat /\ Min({h, debt_bytes}) <= h /\ Min({h, debt_bytes}) <= debt_bytes
      BY LeastOfTwo
    <3> QED BY <1>6, <2>1, <3>1 DEF Pays
  <2>3. after[n] = debt_bytes - p
    BY <1>4, <1>6, <2>2
  <2>4. [i \in 1..n |-> AverageSize(b, n, i) - (after[i - 1] - after[i])] = <<a - p>>
    <3>1. \A i \in 1..n : AverageSize(b, n, i) - (after[i - 1] - after[i]) = a - p
      BY <1>4, <1>6, <2>1, <2>2, <2>3
    <3> QED BY <1>6, <3>1
  <2>5. a - p \in Nat /\ debt_bytes - p \in Nat /\ a - p = a + (debt_bytes - p) - debt_bytes
    BY <2>2
  <2> QED BY <1>1, <1>6, <2>1, <2>3, <2>4, <2>5 DEF Layered
<1> QED BY <1>5, <1>6

\* The bytes of the layer that Encode still has to deliver.
Undelivered == IF to_deliver = <<>> THEN 0 ELSE to_deliver[1]

TargetTypes ==
  /\ bitrate \in [Streams -> Nat] /\ max_target \in Int
  /\ snapshot \in {Idle} \cup [bitrate : [Streams -> Nat], keyframe : BOOLEAN]
  /\ pending_keyframe \in BOOLEAN
  /\ debt_bytes \in Nat /\ made \in Nat /\ small \in Nat /\ refused \in Nat
  /\ surplus \in Int
  /\ to_deliver = <<>> \/ \E x \in Nat : to_deliver = <<x>>

\* MeetsTarget, in the middle of Encode as well.
TargetInv ==
  /\ TargetTypes
  /\ surplus + 8 * Fps * Undelivered <= 8 * Fps * debt_bytes + 7 * made
  /\ surplus + 8 * Fps * Undelivered
       >= 8 * Fps * (debt_bytes - made - (kMinPayLoadLength - 1) * small - refused)
  /\ snapshot # Idle => to_deliver = <<>>

\* NextFrame makes one layer, or none, that meets the target.
LEMMA FrameMeets ==
  ASSUME NumStreams = 1, TargetInv, NEW requested \in BOOLEAN, NextFrame(requested)
  PROVE  TargetInv'
<1> DEFINE b == snapshot.bitrate
           coded == {s \in Streams : b[s] > 0}
           n == Cardinality(coded)
           keyframe == snapshot.keyframe \/ requested \/ last_layers < n
           new == IF keyframe THEN KeyLayers(b, n) ELSE DeltaLayers(b, n)
<1>1. b \in [Streams -> Nat] /\ debt_bytes \in Nat /\ to_deliver = <<>>
  BY DEF NextFrame, TargetInv, TargetTypes, Idle
<1>2. (b[1] > 0 => n = 1) /\ (b[1] = 0 => n = 0) /\ b[1] \in Nat /\ SumOf(b) = b[1]
  <2>1. Streams = {1} /\ Streams = 1..1 /\ b[1] \in Nat
    BY <1>1 DEF Streams
  <2>2. b[1] > 0 => coded = {1}
    BY <2>1
  <2>3. b[1] = 0 => coded = {}
    BY <2>1
  <2>4. b \in [1..1 -> Int]
    BY <1>1, <2>1
  <2> HIDE DEF b, coded
  <2>5. SumOf(b) = b[1]
    BY <2>4, SumOfOne
  <2> QED BY <2>1, <2>2, <2>3, <2>5, FS_EmptySet, FS_Singleton
<1>3. /\ snapshot' = Idle /\ debt_bytes' = new.debt /\ to_deliver' = new.sizes
      /\ made' = made + n /\ surplus' = surplus - b[1]
      /\ UNCHANGED <<rateVars, pending_keyframe, small, refused>>
  BY <1>2 DEF NextFrame
<1> HIDE DEF b, coded
<1>4. n \in {0, 1}
  BY <1>2
<1>5. Layered(b, n, new)
  <2> HIDE DEF n
  <2>1. Layered(b, n, KeyLayers(b, n)) /\ Layered(b, n, DeltaLayers(b, n))
    BY <1>1, <1>4, KeyLayered, DeltaLayered
  <2> QED BY <2>1
<1> HIDE DEF new, n
<1>6. PICK c \in Nat : c = 8 * Fps
  BY EncoderConstants
<1>a. /\ debt_bytes \in Nat /\ made \in Nat /\ small \in Nat /\ refused \in Nat
      /\ surplus \in Int
  BY DEF TargetInv, TargetTypes
<1>b. debt_bytes' \in Nat
  BY <1>3, <1>5 DEF Layered
<1>c. made' = made + n /\ small' = small /\ refused' = refused /\ n \in Nat
  BY <1>3, <1>4
<1>d. PICK w \in Int : w = (kMinPayLoadLength - 1) * small + refused
  BY <1>a DEF kMinPayLoadLength
<1>7. PICK lower \in Int :
        lower = debt_bytes - made - (kMinPayLoadLength - 1) * small - refused
  BY <1>a DEF kMinPayLoadLength
<1>8. surplus <= c * debt_bytes + 7 * made /\ surplus >= c * lower
  <2>1. Undelivered = 0 /\ surplus \in Int
    BY <1>1 DEF Undelivered, TargetInv, TargetTypes
  <2> QED BY <1>6, <1>7, <2>1 DEF TargetInv
<1>9. PICK lower2 \in Int : lower2 = debt_bytes' - (made + n) - w
  <2>1. debt_bytes' - (made + n) - w \in Int
    BY <1>a, <1>b, <1>c
  <2> QED BY <2>1
<1>10. /\ lower2 = debt_bytes' - made' - (kMinPayLoadLength - 1) * small' - refused'
       /\ lower2 = lower + (debt_bytes' - debt_bytes) - n
  <2>1. PICK v \in Int : v = (kMinPayLoadLength - 1) * small
    BY <1>a DEF kMinPayLoadLength
  <2>2. v = (kMinPayLoadLength - 1) * small'
    BY <1>c, <2>1
  <2>3. lower = debt_bytes - made - v - refused /\ w = v + refused
    BY <1>7, <1>d, <2>1
  <2>4. lower2 = debt_bytes' - made' - v - refused'
    BY <1>9, <1>a, <1>b, <1>c, <2>3
  <2>5. lower2 = lower + (debt_bytes' - debt_bytes) - n
    BY <1>9, <1>a, <1>b, <1>c, <2>3
  <2> QED BY <2>2, <2>4, <2>5
<1>11. /\ debt_bytes' \in Nat /\ made' \in Nat /\ surplus' \in Int
       /\ (to_deliver' = <<>> \/ \E x \in Nat : to_deliver' = <<x>>)
  <2>1. made' \in Nat /\ surplus' \in Int
    BY <1>2, <1>3, <1>a, <1>c
  <2>2. to_deliver' = <<>> \/ \E x \in Nat : to_deliver' = <<x>>
    BY <1>3, <1>4, <1>5 DEF Layered
  <2> QED BY <1>b, <2>1, <2>2
<1>12. /\ surplus' + c * Undelivered' <= c * debt_bytes' + 7 * made'
       /\ surplus' + c * Undelivered' >= c * lower2
  <2>1. PICK s \in Int, m \in Nat, d \in Nat, e \in Nat :
          s = surplus /\ m = made /\ d = debt_bytes /\ e = debt_bytes'
    BY <1>11 DEF TargetInv, TargetTypes
  <2>2. CASE n = 0
    <3>1. Undelivered' = 0 /\ b[1] = 0 /\ e = d
      BY <1>2, <1>3, <1>5, <2>1, <2>2 DEF Layered, Undelivered
    <3>2. surplus' = s /\ made' = m /\ lower2 = lower
      BY <1>3, <1>10, <2>1, <2>2, <3>1
    <3> QED BY <1>8, <2>1, <3>1, <3>2
  <2>3. CASE n = 1
    <3>1. PICK a \in Nat : a = AverageSize(b, 1, 1)
      BY <1>1, LayerSize
    <3>2. c * a <= b[1] + 7 /\ b[1] <= c * a + c
      BY <1>1, <1>6, <3>1, LayerSize
    <3>3. PICK x \in Nat : to_deliver' = <<x>> /\ x = a + e - d
      BY <1>3, <1>5, <2>1, <2>3, <3>1 DEF Layered
    <3>4. Undelivered' = x
      BY <3>3 DEF Undelivered
    <3>5. surplus' = s - b[1] /\ made' = m + 1 /\ lower2 = lower + e - d - 1
      BY <1>3, <1>10, <2>1, <2>3
    <3>6. PICK ca \in Int, ce \in Int, cd \in Int, cl \in Int :
            ca = c * a /\ ce = c * e /\ cd = c * d /\ cl = c * lower
      OBVIOUS
    <3>7. c * x = ca + ce - cd /\ c * lower2 = cl + ce - cd - c
      BY <3>3, <3>5, <3>6
    <3>8. s <= cd + 7 * m /\ s >= cl
      BY <1>8, <2>1, <3>6
    <3>9. PICK r \in Nat, cx \in Int, cl2 \in Int :
            r = b[1] /\ cx = c * x /\ cl2 = c * lower2
      BY <1>2
    <3>10. s - r + cx <= ce + 7 * (m + 1) /\ s - r + cx >= cl2
      BY <3>2, <3>6, <3>7, <3>8, <3>9
    <3>11. c * debt_bytes' = ce /\ c * Undelivered' = cx /\ made' = m + 1 /\ surplus' = s - r
      BY <2>1, <3>4, <3>5, <3>6, <3>9
    <3> QED BY <3>9, <3>10, <3>11
  <2> QED BY <1>4, <2>2, <2>3
<1>13. TargetTypes'
  BY <1>3, <1>11 DEF TargetInv, TargetTypes, rateVars
<1> QED BY <1>3, <1>6, <1>10, <1>12, <1>13 DEF TargetInv

\* A layer leaves the ones to be delivered.
LEMMA DeliveryMeets ==
  ASSUME TargetInv, DeliverLayer
  PROVE  TargetInv'
<1>1. PICK x \in Nat : to_deliver = <<x>>
  BY DEF DeliverLayer, TargetInv, TargetTypes
<1>2. Head(to_deliver) = x /\ Tail(to_deliver) = <<>> /\ SumOf(to_deliver) = x /\ Undelivered = x
  <2>1. to_deliver \in [1..1 -> Int] /\ to_deliver[1] = x
    BY <1>1
  <2>2. SumOf(to_deliver) = x
    BY <2>1, SumOfOne
  <2> QED BY <1>1, <2>2 DEF Undelivered
<1>3. /\ to_deliver' = <<>> /\ Undelivered' = 0
      /\ UNCHANGED <<rateVars, pending_keyframe, debt_bytes, snapshot, made>>
  BY <1>2 DEF DeliverLayer, Undelivered
<1>4. PICK c \in Nat : c = 8 * Fps
  BY EncoderConstants
<1>5. PICK lower \in Int : lower = debt_bytes - made - 13 * small - refused
  BY DEF TargetInv, TargetTypes
<1>6. surplus + c * x <= c * debt_bytes + 7 * made /\ surplus + c * x >= c * lower
  <2>1. kMinPayLoadLength - 1 = 13
    BY DEF kMinPayLoadLength
  <2> QED BY <1>2, <1>4, <1>5, <2>1 DEF TargetInv
<1>7. /\ surplus' \in Int /\ small' \in Nat /\ refused' \in Nat
      /\ surplus' <= c * debt_bytes + 7 * made
      /\ surplus' >= c * (debt_bytes - made - 13 * small' - refused')
  <2>1. PICK s \in Int, m \in Nat, d \in Nat, cx \in Int, cd \in Int, cl \in Int :
          /\ s = surplus /\ m = made /\ d = debt_bytes
          /\ cx = c * x /\ cd = c * debt_bytes /\ cl = c * lower
    BY DEF TargetInv, TargetTypes
  <2>2. s + cx <= cd + 7 * m /\ s + cx >= cl /\ cx \in Nat
    BY <1>6, <2>1
  <2>3. small \in Nat /\ refused \in Nat
    BY DEF TargetInv, TargetTypes
  <2>4. CASE x < 14 /\ small' = small + 1 /\ UNCHANGED <<refused, surplus>>
    <3>1. debt_bytes - made - 13 * small' - refused' = lower - 13
      BY <1>5, <2>1, <2>3, <2>4
    <3>2. c * (lower - 13) = cl - c * 13 /\ cx <= c * 13
      BY <2>1, <2>4
    <3> QED BY <2>1, <2>2, <2>3, <2>4, <3>1, <3>2
  <2>5. CASE surplus' = surplus + 8 * Fps * x /\ UNCHANGED <<small, refused>>
    <3>1. surplus' = s + cx
      BY <1>4, <2>1, <2>5
    <3>2. debt_bytes - made - 13 * small' - refused' = lower
      BY <1>5, <2>5
    <3> QED BY <2>1, <2>2, <2>3, <2>5, <3>1, <3>2
  <2>6. CASE refused' = refused + x /\ UNCHANGED <<small, surplus>>
    <3>1. debt_bytes - made - 13 * small' - refused' = lower - x
      BY <1>5, <2>1, <2>3, <2>6
    <3>2. c * (lower - x) = cl - cx
      BY <2>1
    <3> QED BY <2>1, <2>2, <2>3, <2>6, <3>1, <3>2
  <2> QED BY <1>2, <2>4, <2>5, <2>6 DEF DeliverLayer, kMinPayLoadLength
<1>8. TargetTypes'
  BY <1>3, <1>7 DEF TargetInv, TargetTypes, rateVars
<1>9. kMinPayLoadLength - 1 = 13 /\ c * 0 = 0
  BY DEF kMinPayLoadLength
<1> QED BY <1>3, <1>4, <1>7, <1>8, <1>9 DEF TargetInv

\* The other steps leave the balance alone.
LEMMA TargetStep ==
  NumStreams = 1 /\ TargetInv /\ [EncoderNext]_encoderVars => TargetInv'
<1> SUFFICES ASSUME NumStreams = 1, TargetInv, [EncoderNext]_encoderVars PROVE TargetInv'
  OBVIOUS
<1> DEFINE Same == UNCHANGED <<debt_bytes, to_deliver, made, small, refused, surplus>>
<1>1. ASSUME Same, bitrate' \in [Streams -> Nat], max_target' \in Int,
             pending_keyframe' \in BOOLEAN,
             snapshot' \in {Idle} \cup [bitrate : [Streams -> Nat], keyframe : BOOLEAN],
             snapshot' # Idle => to_deliver = <<>>
      PROVE  TargetInv'
  BY <1>1 DEF TargetInv, TargetTypes, Undelivered
<1>2. /\ bitrate \in [Streams -> Nat] /\ max_target \in Int /\ pending_keyframe \in BOOLEAN
      /\ snapshot \in {Idle} \cup [bitrate : [Streams -> Nat], keyframe : BOOLEAN]
      /\ (snapshot # Idle => to_deliver = <<>>)
  BY DEF TargetInv, TargetTypes
<1>3. CASE UNCHANGED encoderVars
  <2>1. Same /\ UNCHANGED <<bitrate, max_target, pending_keyframe, snapshot>>
    BY <1>3 DEF encoderVars, rateVars, countVars
  <2> HIDE DEF Same
  <2> QED BY <1>1, <1>2, <2>1
<1>4. CASE InitEncode
  <2>1. StartRate * Kilo \in Nat
    BY EncoderConstants
  <2>2. bitrate' \in [Streams -> Nat] /\ pending_keyframe' \in BOOLEAN
    BY <1>2, <1>4, <2>1 DEF InitEncode
  <2>3. Same /\ UNCHANGED <<max_target, snapshot>>
    BY <1>4 DEF InitEncode, countVars
  <2> HIDE DEF Same
  <2> QED BY <1>1, <1>2, <2>2, <2>3
<1>5. CASE Encode
  <2>1. Same /\ UNCHANGED <<bitrate, max_target>> /\ pending_keyframe' = FALSE /\ to_deliver = <<>>
    BY <1>5 DEF Encode, rateVars, countVars, NotEncoding
  <2>2. snapshot' = [bitrate |-> bitrate, keyframe |-> pending_keyframe]
    BY <1>5 DEF Encode
  <2>3. snapshot' \in [bitrate : [Streams -> Nat], keyframe : BOOLEAN]
    BY <1>2, <2>2
  <2> HIDE DEF Same
  <2> QED BY <1>1, <1>2, <2>1, <2>3
<1>6. ASSUME NEW b \in Allocations, SetRates(b) PROVE TargetInv'
  <2>1. b \in [Streams -> Nat]
    BY EncoderConstants
  <2>2. bitrate' \in [Streams -> Nat]
    BY <1>2, <1>6, <2>1, ScaledWithinMax DEF SetRates
  <2>3. Same /\ UNCHANGED <<max_target, pending_keyframe, snapshot>>
    BY <1>6 DEF SetRates, countVars
  <2> HIDE DEF Same
  <2> QED BY <1>1, <1>2, <2>2, <2>3
<1>7. ASSUME NEW max \in MaxRates, SetMaxBitrate(max) PROVE TargetInv'
  <2>1. max \in Int
    BY EncoderConstants
  <2>2. bitrate' \in [Streams -> Nat] /\ max_target' \in Int
    BY <1>2, <1>7, <2>1, ScaledWithinMax DEF SetMaxBitrate
  <2>3. Same /\ UNCHANGED <<pending_keyframe, snapshot>>
    BY <1>7 DEF SetMaxBitrate, countVars
  <2> HIDE DEF Same
  <2> QED BY <1>1, <1>2, <2>2, <2>3
<1> QED BY <1>3, <1>4, <1>5, <1>6, <1>7, FrameMeets, DeliveryMeets DEF EncoderNext

\* With one stream, as the program configures it, for any rates, maxima and key frames
\* and rates that change inside Encode: what has been delivered and is not owed any more
\* differs from the target by the rounding of each layer, and falls short of it by no
\* more than that and the layers not delivered (NextFrame, Encode).
THEOREM TargetCorrect == NumStreams = 1 /\ EncoderSpec => []MeetsTarget
<1>1. EncoderInit => TargetInv
  <2> SUFFICES ASSUME EncoderInit PROVE TargetInv
    OBVIOUS
  <2>1. TargetTypes
    BY DEF EncoderInit, TargetTypes
  <2>2. PICK c \in Nat : c = 8 * Fps
    BY EncoderConstants
  <2>3. c * 0 = 0 /\ 13 * 0 = 0 /\ kMinPayLoadLength - 1 = 13
    BY DEF kMinPayLoadLength
  <2> QED BY <2>1, <2>2, <2>3 DEF EncoderInit, TargetInv, Undelivered
<1>2. TargetInv => MeetsTarget
  <2> SUFFICES ASSUME TargetInv, to_deliver = <<>>
               PROVE  /\ surplus <= 8 * Fps * debt_bytes + 7 * made
                      /\ surplus >= 8 * Fps * (debt_bytes - made - (kMinPayLoadLength - 1) * small
                                                 - refused)
    BY DEF MeetsTarget
  <2>1. Undelivered = 0 /\ surplus \in Int
    BY DEF Undelivered, TargetInv, TargetTypes
  <2>2. PICK c \in Nat : c = 8 * Fps
    BY EncoderConstants
  <2> QED BY <2>1, <2>2 DEF TargetInv
<1>3. NumStreams = 1 /\ EncoderInit /\ [][EncoderNext]_encoderVars => []TargetInv
  <2> SUFFICES ASSUME NumStreams = 1 PROVE EncoderInit /\ [][EncoderNext]_encoderVars => []TargetInv
    OBVIOUS
  <2>1. TargetInv /\ [EncoderNext]_encoderVars => TargetInv'
    BY TargetStep
  <2> QED BY <1>1, <2>1, PTL
<1> QED BY <1>2, <1>3, PTL DEF EncoderSpec
------------------------------------------------------------------------------
(* The best decode of a frame *)

\* Those of the decodes since..until that fit frame f, and that d is the first of those
\* that are most like it (0: there is none).
Fitting(f, ds, since, until) == {d \in since..until : ds[d].frame.width <= f.width}
IsBest(f, ds, since, until, d) ==
  IF d = 0 THEN Fitting(f, ds, since, until) = {}
  ELSE /\ d \in Fitting(f, ds, since, until)
       /\ \A e \in Fitting(f, ds, since, until) :
            \/ I420SSE(f, ds[d].frame) < I420SSE(f, ds[e].frame)
            \/ I420SSE(f, ds[d].frame) = I420SSE(f, ds[e].frame) /\ d <= e

\* Differences of frames are numbers.
LEMMA SSEInt ==
  ASSUME NEW f \in Frames, NEW g \in Frames
  PROVE  I420SSE(f, g) \in Int
<1>1. f.thumb \in Int /\ g.thumb \in Int
  BY MatcherConstants
<1> QED BY <1>1 DEF I420SSE

\* Only the frames among since..until matter, so that new decodes do not disturb.
LEMMA BestKept ==
  ASSUME NEW f, NEW ds, NEW es, NEW since \in Nat, NEW until \in Nat, NEW d \in Nat,
         \A e \in since..until : es[e].frame = ds[e].frame,
         IsBest(f, ds, since, until, d)
  PROVE  IsBest(f, es, since, until, d)
<1>1. Fitting(f, es, since, until) = Fitting(f, ds, since, until)
  BY DEF Fitting
<1>2. \A e \in Fitting(f, ds, since, until) : es[e].frame = ds[e].frame
  BY DEF Fitting
<1>3. CASE d = 0
  BY <1>1, <1>3 DEF IsBest
<1>4. CASE d # 0
  BY <1>1, <1>2, <1>4 DEF IsBest
<1> QED BY <1>3, <1>4

\* A new captured frame knows the last decode.
LEMMA CapturedBest ==
  ASSUME NEW l \in Layers, decodes[l] \in Seq(DecodedFrame),
         NEW t, t.frame \in Frames, t.id \in Nat
  PROVE  LET c == Captured(t, l)
         IN  /\ c \in CapturedFrame /\ ~c.matched /\ c.id = t.id
             /\ c.best_decode <= Len(decodes[l])
             /\ IsBest(c.frame, decodes[l], c.since, Len(decodes[l]), c.best_decode)
<1> DEFINE last == Len(decodes[l])
           c == Captured(t, l)
<1>1. last \in Nat /\ last = Len(decodes[l])
  BY LenProperties
<1>2. CASE last = 0
  <2>1. c = [id |-> t.id, frame |-> t.frame, matched |-> FALSE, best_decode |-> 0, since |-> 1]
    BY <1>2 DEF Captured
  <2>2. Fitting(t.frame, decodes[l], 1, 0) = {}
    BY DEF Fitting
  <2> QED BY <1>2, <2>1, <2>2 DEF IsBest, CapturedFrame
<1>3. CASE last # 0
  <2> DEFINE d == IF decodes[l][last].frame.width <= t.frame.width THEN last ELSE 0
  <2>0. last > 0
    BY <1>1, <1>3
  <2>1. /\ c = [id |-> t.id, frame |-> t.frame, matched |-> FALSE, best_decode |-> d,
                since |-> last]
        /\ d \in {0, last}
    BY <1>3, <2>0 DEF Captured
  <2>2. Fitting(t.frame, decodes[l], last, last)
          = IF decodes[l][last].frame.width <= t.frame.width THEN {last} ELSE {}
    BY <1>1 DEF Fitting
  <2>3. IsBest(t.frame, decodes[l], last, last, d)
    <3>1. CASE d = 0
      BY <1>3, <2>1, <2>2, <3>1 DEF IsBest
    <3>2. CASE d = last /\ d # 0
      <4>1. Fitting(t.frame, decodes[l], last, last) = {last}
        BY <2>1, <2>2, <3>2
      <4> HIDE DEF last, d
      <4> QED BY <1>1, <3>2, <4>1 DEF IsBest
    <3> QED BY <2>1, <3>1, <3>2
  <2>4. last \in Nat \ {0} /\ d \in Nat /\ d <= last
    BY <1>1, <1>3, <2>1
  <2> HIDE DEF last, d
  <2> QED BY <1>1, <2>1, <2>3, <2>4 DEF CapturedFrame
<1> QED BY <1>2, <1>3

\* Comparing with one more decode, the n-th, keeps the best one, and a frame is matched
\* only when the last decode is not it.
Compared(e, c, es, n) ==
  /\ e \in CapturedFrame /\ e.id = c.id /\ e.since = c.since /\ e.frame = c.frame
  /\ e.best_decode <= n
  /\ e.matched => e.best_decode < n
  /\ IsBest(e.frame, es, e.since, n, e.best_decode)

LEMMA CompareBest ==
  ASSUME NEW c \in CapturedFrame, NEW ds \in Seq(DecodedFrame), NEW f \in Frames,
         c.best_decode <= Len(ds), c.since <= Len(ds) + 1,
         IsBest(c.frame, ds, c.since, Len(ds), c.best_decode),
         NEW g \in DecodedFrame, g.frame = f, NEW es, es = Append(ds, g),
         NEW e, e = Compare(c, ds, f)
  PROVE  Compared(e, c, es, Len(ds) + 1)
<1>2. PICK n \in Nat : n = Len(ds)
  BY LenProperties
<1>3. /\ es \in Seq(DecodedFrame) /\ Len(es) = n + 1 /\ es[n + 1].frame = f
      /\ \A d \in 1..n : es[d].frame = ds[d].frame
  <2>1. /\ es \in Seq(DecodedFrame) /\ Len(es) = n + 1 /\ es[n + 1] = g
        /\ \A d \in 1..n : es[d] = ds[d]
    BY <1>2, AppendProperties
  <2> QED BY <2>1
<1>4. /\ c.frame \in Frames /\ c.since \in Nat \ {0} /\ c.since <= n + 1 /\ c.best_decode \in Nat
      /\ c.best_decode <= n /\ c.id \in Nat
  BY <1>2 DEF CapturedFrame
<1>5. \A d \in 1..n : ds[d].frame \in Frames
  <2> TAKE d \in 1..n
  <2>1. ds[d] \in DecodedFrame
    BY <1>2, ElementOfSeq
  <2> QED BY <2>1 DEF DecodedFrame
<1>6. \A h \in Frames : h.width \in Nat
  BY MatcherConstants
<1> DEFINE old == Fitting(c.frame, ds, c.since, n)
           new == Fitting(c.frame, es, c.since, n + 1)
<1>7. new = old \cup (IF f.width <= c.frame.width THEN {n + 1} ELSE {})
  <2>1. \A d \in c.since..(n + 1) : d = n + 1 \/ d \in c.since..n
    BY <1>4
  <2>2. \A d \in c.since..n : es[d].frame = ds[d].frame /\ d \in c.since..(n + 1)
    BY <1>3, <1>4
  <2>3. n + 1 \in c.since..(n + 1)
    BY <1>4
  <2>4. ASSUME NEW d \in new PROVE d \in old \cup (IF f.width <= c.frame.width THEN {n + 1} ELSE {})
    BY <1>3, <2>1, <2>2, <2>4 DEF Fitting
  <2>5. ASSUME NEW d \in old PROVE d \in new
    BY <2>2, <2>5 DEF Fitting
  <2>6. f.width <= c.frame.width => n + 1 \in new
    BY <1>3, <2>3 DEF Fitting
  <2> HIDE DEF new, old
  <2> QED BY <2>4, <2>5, <2>6
<1>8. \A d \in old : /\ d \in 1..n /\ es[d].frame = ds[d].frame
                     /\ I420SSE(c.frame, ds[d].frame) \in Int
  <2>1. \A d \in old : d \in 1..n
    BY <1>4 DEF Fitting
  <2> HIDE DEF old
  <2> QED BY <1>3, <1>4, <1>5, <2>1, SSEInt
<1>9. I420SSE(c.frame, f) \in Int /\ f.width \in Nat /\ c.frame.width \in Nat
  BY <1>4, <1>6, SSEInt
<1>10. IsBest(c.frame, ds, c.since, n, c.best_decode)
  BY <1>2
<1>11. CASE c.frame.width < f.width
  <2>1. e = [c EXCEPT !.matched = TRUE]
    BY <1>11 DEF Compare
  <2>2. new = old
    <3>1. ~(f.width <= c.frame.width)
      BY <1>9, <1>11
    <3> HIDE DEF new, old
    <3> QED BY <1>7, <3>1
  <2>3. IsBest(c.frame, es, c.since, n + 1, c.best_decode)
    <3> QED BY <1>8, <1>10, <2>2 DEF IsBest
  <2>4. e \in CapturedFrame /\ e.id = c.id /\ e.since = c.since /\ e.frame = c.frame
        /\ e.best_decode = c.best_decode
    BY <2>1 DEF CapturedFrame
  <2> QED BY <1>2, <1>4, <2>3, <2>4 DEF Compared
<1>12. CASE ~(c.frame.width < f.width)
            /\ (c.best_decode = 0
                  \/ I420SSE(c.frame, f) < I420SSE(c.frame, ds[c.best_decode].frame))
  <2>1. e = [c EXCEPT !.best_decode = n + 1, !.matched = FALSE]
    BY <1>2, <1>12 DEF Compare
  <2>2. e \in CapturedFrame /\ e.id = c.id /\ e.since = c.since /\ e.frame = c.frame
        /\ e.best_decode = n + 1 /\ ~e.matched
    <3>1. PICK m \in Nat : m = n + 1
      OBVIOUS
    <3>2. e = [c EXCEPT !.best_decode = m, !.matched = FALSE]
      BY <2>1, <3>1
    <3> QED BY <3>1, <3>2 DEF CapturedFrame
  <2>3. n + 1 \in new /\ new = old \cup {n + 1}
    <3>1. f.width <= c.frame.width
      BY <1>9, <1>12
    <3> HIDE DEF new, old
    <3> QED BY <1>7, <3>1
  <2>4. ASSUME NEW d \in old PROVE I420SSE(c.frame, f) < I420SSE(c.frame, ds[d].frame)
    <3>1. c.best_decode # 0 /\ c.best_decode \in old
      BY <1>10, <2>4 DEF IsBest
    <3>2. \/ I420SSE(c.frame, ds[c.best_decode].frame) < I420SSE(c.frame, ds[d].frame)
          \/ I420SSE(c.frame, ds[c.best_decode].frame) = I420SSE(c.frame, ds[d].frame)
      BY <1>10, <2>4, <3>1 DEF IsBest
    <3>3. I420SSE(c.frame, f) < I420SSE(c.frame, ds[c.best_decode].frame)
      BY <1>12, <3>1
    <3>4. I420SSE(c.frame, ds[c.best_decode].frame) \in Int
          /\ I420SSE(c.frame, ds[d].frame) \in Int
      BY <1>8, <3>1
    <3> HIDE DEF old
    <3> QED BY <1>9, <3>2, <3>3, <3>4
  <2>5. IsBest(c.frame, es, c.since, n + 1, n + 1)
    <3> HIDE DEF old
    <3>1. ASSUME NEW d \in new
          PROVE \/ I420SSE(c.frame, es[n + 1].frame) < I420SSE(c.frame, es[d].frame)
                \/ I420SSE(c.frame, es[n + 1].frame) = I420SSE(c.frame, es[d].frame)
                     /\ n + 1 <= d
      <4>1. CASE d = n + 1
        BY <4>1
      <4>2. CASE d \in old
        BY <1>3, <1>8, <2>4, <4>2
      <4> HIDE DEF new
      <4> QED BY <2>3, <3>1, <4>1, <4>2
    <3>2. new = Fitting(c.frame, es, c.since, n + 1) /\ n + 1 # 0
      OBVIOUS
    <3> HIDE DEF new
    <3> QED BY <2>3, <3>1, <3>2 DEF IsBest
  <2> QED BY <1>2, <2>2, <2>5 DEF Compared
<1>13. CASE ~(c.frame.width < f.width)
            /\ ~(c.best_decode = 0
                  \/ I420SSE(c.frame, f) < I420SSE(c.frame, ds[c.best_decode].frame))
  <2>1. e = [c EXCEPT !.matched = TRUE]
    BY <1>13 DEF Compare
  <2>2. e \in CapturedFrame /\ e.id = c.id /\ e.since = c.since /\ e.frame = c.frame
        /\ e.best_decode = c.best_decode
    BY <2>1 DEF CapturedFrame
  <2>3. new = old \cup {n + 1}
    <3>1. f.width <= c.frame.width
      BY <1>9, <1>13
    <3> HIDE DEF new, old
    <3> QED BY <1>7, <3>1
  <2>4. c.best_decode # 0 /\ c.best_decode \in old
    BY <1>10, <1>13 DEF IsBest
  <2>5. IsBest(c.frame, es, c.since, n + 1, c.best_decode)
    <3>1. ASSUME NEW d \in new
          PROVE \/ I420SSE(c.frame, es[c.best_decode].frame) < I420SSE(c.frame, es[d].frame)
                \/ I420SSE(c.frame, es[c.best_decode].frame) = I420SSE(c.frame, es[d].frame)
                     /\ c.best_decode <= d
      <4>1. CASE d = n + 1
        <5>1. es[d].frame = f /\ es[c.best_decode].frame = ds[c.best_decode].frame
              /\ I420SSE(c.frame, ds[c.best_decode].frame) \in Int
          BY <1>3, <1>8, <2>4, <4>1
        <5>2. PICK x \in Int, y \in Int :
                x = I420SSE(c.frame, f) /\ y = I420SSE(c.frame, ds[c.best_decode].frame)
          BY <1>9, <5>1
        <5>3. y <= x
          BY <1>13, <5>2
        <5>4. c.best_decode <= d
          BY <1>4, <4>1
        <5>5. y < x \/ y = x
          BY <5>3
        <5>6. I420SSE(c.frame, es[c.best_decode].frame) = y
              /\ I420SSE(c.frame, es[d].frame) = x
          BY <5>1, <5>2
        <5> QED BY ONLY <5>4, <5>5, <5>6
      <4>2. CASE d \in old
        <5>1. es[d].frame = ds[d].frame /\ es[c.best_decode].frame = ds[c.best_decode].frame
          BY <1>8, <2>4, <4>2
        <5> QED BY <1>10, <2>4, <4>2, <5>1 DEF IsBest
      <4> HIDE DEF new, old
      <4> QED BY <2>3, <3>1, <4>1, <4>2
    <3>2. c.best_decode \in new
      <4> HIDE DEF new, old
      <4> QED BY <2>3, <2>4
    <3> QED BY <2>4, <3>1, <3>2 DEF IsBest
  <2> QED BY <1>2, <1>4, <2>2, <2>5 DEF Compared
<1> QED BY <1>11, <1>12, <1>13

------------------------------------------------------------------------------
(* Frames that are handed on *)

Handed(N) == [1..N -> [layer : Layers, captured : CapturedFrame]]
Fits(ds, handed, N) ==
  \A n \in 1..N : handed[n].captured.best_decode <= Len(ds[handed[n].layer])

\* A decode that is used no times is in none of the frames.
LEMMA UsesCount ==
  ASSUME NEW N \in Nat, NEW handed \in Handed(N), NEW l, NEW d, NEW n \in 0..N
  PROVE  /\ Uses(handed, l, d, n) \in Nat
         /\ Uses(handed, l, d, n) = 0
              <=> \A m \in 1..n : ~(handed[m].layer = l /\ handed[m].captured.best_decode = d)
<1> DEFINE S == {m \in 1..n : handed[m].layer = l /\ handed[m].captured.best_decode = d}
<1>1. IsFiniteSet(S)
  <2>1. IsFiniteSet(1..n)
    BY FS_Interval
  <2> QED BY <2>1, FS_Subset
<1>2. Cardinality(S) \in Nat /\ (Cardinality(S) = 0 <=> S = {})
  BY <1>1, FS_CardinalityType, FS_EmptySet
<1> QED BY <1>2 DEF Uses

\* The pair that is made of a frame is a pair, and shows its best decode.
LEMMA PairMade ==
  ASSUME NEW ds \in [Layers -> Seq(DecodedFrame)], NEW N \in Nat, NEW handed \in Handed(N),
         Fits(ds, handed, N),
         NEW n \in 1..N, NEW p, p = HandleMatch(ds, handed, n),
         NEW l, l = handed[n].layer, NEW c, c = handed[n].captured
  PROVE  /\ p \in VideoFramePair /\ l \in Layers /\ c \in CapturedFrame
         /\ p.layer_id = l /\ p.capture_id = c.id /\ p.captured = c.frame
         /\ p.decode_id = c.best_decode /\ p.since = c.since /\ p.until = Len(ds[l])
         /\ p.final = (Head(tasks).kind = "finalize")
         /\ c.best_decode # 0 =>
              /\ c.best_decode \in 1..Len(ds[l])
              /\ p.repeated = ds[l][c.best_decode].repeat_count
                                + Uses(handed, l, c.best_decode, n - 1)
<1>1. l \in Layers /\ c \in CapturedFrame
  BY DEF Handed
<1>2. /\ c.id \in Nat /\ c.frame \in Frames /\ c.best_decode \in Nat /\ c.since \in Nat \ {0}
      /\ c.best_decode <= Len(ds[l]) /\ Len(ds[l]) \in Nat
  <2>1. Len(ds[l]) \in Nat
    BY <1>1, LenProperties
  <2>2. c.best_decode <= Len(ds[l])
    BY DEF Fits
  <2> QED BY <1>1, <2>1, <2>2 DEF CapturedFrame
<1> DEFINE repeated == IF c.best_decode = 0 THEN 0
                       ELSE ds[l][c.best_decode].repeat_count
                              + Uses(handed, l, c.best_decode, n - 1)
<1>3. repeated \in Nat
  <2>1. CASE c.best_decode = 0
    BY <2>1
  <2>2. CASE c.best_decode # 0
    <3>1. c.best_decode \in 1..Len(ds[l])
      BY <1>2, <2>2
    <3>2. ds[l][c.best_decode] \in DecodedFrame
      <4>1. ds[l] \in Seq(DecodedFrame)
        BY <1>1
      <4> QED BY <3>1, <4>1, ElementOfSeq
    <3>3. ds[l][c.best_decode].repeat_count \in Nat
      BY <3>2 DEF DecodedFrame
    <3>4. n - 1 \in 0..N
      OBVIOUS
    <3>5. Uses(handed, l, c.best_decode, n - 1) \in Nat
      BY <3>4, UsesCount
    <3>6. PICK x \in Nat, y \in Nat : /\ x = ds[l][c.best_decode].repeat_count
                                      /\ y = Uses(handed, l, c.best_decode, n - 1)
      BY <3>3, <3>5
    <3> QED BY <2>2, <3>6
  <2> QED BY <2>1, <2>2
<1>4. p = [layer_id |-> l, capture_id |-> c.id, captured |-> c.frame,
           decode_id |-> c.best_decode, repeated |-> repeated, since |-> c.since,
           until |-> Len(ds[l]), final |-> Head(tasks).kind = "finalize"]
  BY DEF HandleMatch
<1>5. c.best_decode # 0 => c.best_decode \in 1..Len(ds[l])
  BY <1>2
<1>6. c.best_decode # 0 => repeated = ds[l][c.best_decode].repeat_count
                                       + Uses(handed, l, c.best_decode, n - 1)
  OBVIOUS
<1> HIDE DEF repeated
<1> QED BY <1>1, <1>2, <1>3, <1>4, <1>5, <1>6 DEF VideoFramePair

\* The same, in terms of the frames.
LEMMA PairsMade ==
  ASSUME NEW ds \in [Layers -> Seq(DecodedFrame)], NEW N \in Nat, NEW handed \in Handed(N),
         Fits(ds, handed, N), NEW n \in 1..N
  PROVE  /\ HandleMatch(ds, handed, n).layer_id = handed[n].layer
         /\ HandleMatch(ds, handed, n).capture_id = handed[n].captured.id
         /\ HandleMatch(ds, handed, n).decode_id = handed[n].captured.best_decode
         /\ handed[n].layer \in Layers
         /\ handed[n].captured.best_decode # 0 =>
              /\ handed[n].captured.best_decode \in 1..Len(ds[handed[n].layer])
              /\ HandleMatch(ds, handed, n).repeated
                   = ds[handed[n].layer][handed[n].captured.best_decode].repeat_count
                       + Uses(handed, handed[n].layer, handed[n].captured.best_decode, n - 1)
<1>1. PICK q : q = HandleMatch(ds, handed, n)
  OBVIOUS
<1>2. PICK l, c : l = handed[n].layer /\ c = handed[n].captured
  OBVIOUS
<1>3. /\ q.layer_id = l /\ q.capture_id = c.id /\ q.decode_id = c.best_decode /\ l \in Layers
      /\ c.best_decode # 0 =>
           /\ c.best_decode \in 1..Len(ds[l])
           /\ q.repeated = ds[l][c.best_decode].repeat_count
                             + Uses(handed, l, c.best_decode, n - 1)
  BY <1>1, <1>2, PairMade
<1> QED BY <1>1, <1>2, <1>3

\* What handing on does to the pairs and to the decodes.
LEMMA HandOver ==
  ASSUME pairs \in Seq(VideoFramePair),
         NEW ds \in [Layers -> Seq(DecodedFrame)], NEW N \in Nat, NEW handed \in Handed(N),
         Fits(ds, handed, N),
         HandleMatches(ds, handed)
  PROVE  /\ pairs' \in Seq(VideoFramePair) /\ Len(pairs') = Len(pairs) + N
         /\ \A i \in 1..Len(pairs) : pairs'[i] = pairs[i]
         /\ \A n \in 1..N : pairs'[Len(pairs) + n] = HandleMatch(ds, handed, n)
         /\ decodes' \in [Layers -> Seq(DecodedFrame)]
         /\ \A l \in Layers :
              /\ Len(decodes'[l]) = Len(ds[l])
              /\ \A d \in 1..Len(ds[l]) :
                   /\ decodes'[l][d].frame = ds[l][d].frame
                   /\ decodes'[l][d].repeat_count
                        = ds[l][d].repeat_count + Uses(handed, l, d, N)
<1> DEFINE new == [n \in 1..N |-> HandleMatch(ds, handed, n)]
<1>1. DOMAIN handed = 1..N /\ Len(handed) = N
  BY DEF Handed
<1>2. pairs' = pairs \o new
  BY <1>1 DEF HandleMatches
<1>3. \A n \in 1..N : HandleMatch(ds, handed, n) \in VideoFramePair
  BY PairMade
<1>4. new \in Seq(VideoFramePair) /\ Len(new) = N
      /\ \A n \in 1..N : new[n] = HandleMatch(ds, handed, n)
  <2>1. new \in [1..N -> VideoFramePair]
    BY <1>3
  <2>2. \A n \in 1..N : new[n] = HandleMatch(ds, handed, n)
    OBVIOUS
  <2> HIDE DEF new
  <2> QED BY <2>1, <2>2, SeqDef
<1>5. PICK m \in Nat : m = Len(pairs)
  BY LenProperties
<1>6. /\ pairs' \in Seq(VideoFramePair) /\ Len(pairs') = m + N
      /\ \A i \in 1..(m + N) : pairs'[i] = IF i <= m THEN pairs[i] ELSE new[i - m]
  <2> HIDE DEF new
  <2>1. /\ pairs \o new \in Seq(VideoFramePair) /\ Len(pairs \o new) = Len(pairs) + Len(new)
        /\ \A i \in 1..(Len(pairs) + Len(new)) :
             (pairs \o new)[i] = IF i <= Len(pairs) THEN pairs[i] ELSE new[i - Len(pairs)]
    <3>1. pairs \in Seq(VideoFramePair) /\ new \in Seq(VideoFramePair)
      BY <1>4
    <3> QED BY ONLY <3>1, ConcatProperties
  <2> QED BY <1>2, <1>4, <1>5, <2>1
<1>7. \A i \in 1..m : pairs'[i] = pairs[i]
  <2> TAKE i \in 1..m
  <2>1. i \in 1..(m + N) /\ i <= m
    OBVIOUS
  <2> QED BY <1>6, <2>1
<1>8. \A n \in 1..N : pairs'[m + n] = HandleMatch(ds, handed, n)
  <2> TAKE n \in 1..N
  <2>1. m + n \in 1..(m + N) /\ ~(m + n <= m) /\ (m + n) - m = n
    OBVIOUS
  <2> HIDE DEF new
  <2>2. pairs'[m + n] = new[n]
    BY <1>6, <2>1
  <2> QED BY <1>4, <2>2
<1>9. ASSUME NEW l \in Layers
      PROVE  /\ decodes'[l] \in Seq(DecodedFrame) /\ Len(decodes'[l]) = Len(ds[l])
             /\ \A d \in 1..Len(ds[l]) :
                  /\ decodes'[l][d].frame = ds[l][d].frame
                  /\ decodes'[l][d].repeat_count
                       = ds[l][d].repeat_count + Uses(handed, l, d, N)
  <2>1. PICK k \in Nat : k = Len(ds[l])
    BY LenProperties
  <2>2. ds[l] \in [1..k -> DecodedFrame] /\ DOMAIN ds[l] = 1..k
    <3>1. ds[l] \in Seq(DecodedFrame)
      OBVIOUS
    <3> QED BY <2>1, <3>1, LenProperties
  <2> DEFINE e == [d \in 1..k |->
                     [ds[l][d] EXCEPT !.repeat_count = @ + Uses(handed, l, d, N)]]
  <2>3. decodes'[l] = e
    BY <1>1, <2>2 DEF HandleMatches
  <2>4. ASSUME NEW d \in 1..k
        PROVE  /\ e[d] \in DecodedFrame /\ e[d].frame = ds[l][d].frame
               /\ e[d].repeat_count = ds[l][d].repeat_count + Uses(handed, l, d, N)
    <3>1. PICK u \in Nat : u = Uses(handed, l, d, N)
      <4>1. N \in 0..N
        OBVIOUS
      <4> QED BY <4>1, UsesCount
    <3>2. PICK g \in DecodedFrame : g = ds[l][d]
      BY <2>2
    <3>3. e[d] = [g EXCEPT !.repeat_count = @ + u]
      BY <3>1, <3>2
    <3>4. g.repeat_count \in Nat
      BY DEF DecodedFrame
    <3>5. PICK r \in Nat : r = g.repeat_count + u
      BY <3>4
    <3>6. [g EXCEPT !.repeat_count = @ + u] = [g EXCEPT !.repeat_count = r]
      BY <3>5
    <3>7. /\ [g EXCEPT !.repeat_count = r] \in DecodedFrame
          /\ [g EXCEPT !.repeat_count = r].frame = g.frame
          /\ [g EXCEPT !.repeat_count = r].repeat_count = r
      BY DEF DecodedFrame
    <3> QED BY <3>1, <3>2, <3>3, <3>5, <3>6, <3>7
  <2>5. e \in Seq(DecodedFrame) /\ Len(e) = k
    <3>0. e = [d \in 1..k |-> e[d]]
      OBVIOUS
    <3> HIDE DEF e
    <3>1. e \in [1..k -> DecodedFrame]
      BY <2>4, <3>0
    <3> QED BY <3>1, SeqDef
  <2> HIDE DEF e
  <2> QED BY <2>1, <2>3, <2>4, <2>5
<1>10. decodes' \in [Layers -> Seq(DecodedFrame)]
  <2>1. decodes' = [l \in Layers |-> decodes'[l]]
    BY DEF HandleMatches
  <2> QED BY <1>9, <2>1
<1> HIDE DEF new
<1> QED BY <1>5, <1>6, <1>7, <1>8, <1>9, <1>10

------------------------------------------------------------------------------
(* Repetitions *)

\* A decode is unused as long as no pair shows it, and the pairs that are
\* no repetitions are the first to show their decode.
Shows(p, l, d) == p.layer_id = l /\ p.decode_id = d
Unused(ps, ds) ==
  \A l \in Layers : \A d \in 1..Len(ds[l]) :
    ds[l][d].repeat_count = 0 <=> \A i \in 1..Len(ps) : ~Shows(ps[i], l, d)
FirstShown(ps, i) ==
  ps[i].decode_id # 0 =>
    (ps[i].repeated = 0
       <=> \A j \in 1..(i - 1) : ~Shows(ps[j], ps[i].layer_id, ps[i].decode_id))
FirstUses(ps) == \A i \in 1..Len(ps) : FirstShown(ps, i)

\* Handing on keeps that the first to show a decode are no repetitions.
LEMMA HandOverUses ==
  ASSUME pairs \in Seq(VideoFramePair),
         NEW ds \in [Layers -> Seq(DecodedFrame)], NEW N \in Nat, NEW handed \in Handed(N),
         Fits(ds, handed, N),
         HandleMatches(ds, handed), Unused(pairs, ds), FirstUses(pairs)
  PROVE  Unused(pairs, decodes)' /\ FirstUses(pairs)'
<1>1. PICK m \in Nat : m = Len(pairs)
  BY LenProperties
<1>2. /\ Len(pairs') = m + N
      /\ \A i \in 1..m : pairs'[i] = pairs[i]
      /\ \A n \in 1..N : pairs'[m + n] = HandleMatch(ds, handed, n)
      /\ \A l \in Layers :
           /\ Len(decodes'[l]) = Len(ds[l])
           /\ \A d \in 1..Len(ds[l]) :
                decodes'[l][d].repeat_count = ds[l][d].repeat_count + Uses(handed, l, d, N)
  BY <1>1, HandOver
<1>3. \A i \in 1..(m + N) : i \in 1..m \/ (i - m \in 1..N /\ i = m + (i - m))
  OBVIOUS
<1>4. \A n \in 1..N : m + n \in 1..(m + N)
  OBVIOUS
<1>5. \A i \in 1..m : i \in 1..(m + N)
  OBVIOUS
<1>6. \A n \in 1..N :
        /\ pairs'[m + n].layer_id = handed[n].layer
        /\ pairs'[m + n].decode_id = handed[n].captured.best_decode
        /\ handed[n].layer \in Layers
        /\ handed[n].captured.best_decode # 0 =>
             /\ handed[n].captured.best_decode \in 1..Len(ds[handed[n].layer])
             /\ pairs'[m + n].repeated
                  = ds[handed[n].layer][handed[n].captured.best_decode].repeat_count
                      + Uses(handed, handed[n].layer, handed[n].captured.best_decode, n - 1)
  <2> TAKE n \in 1..N
  <2>1. pairs'[m + n] = HandleMatch(ds, handed, n)
    BY <1>2
  <2> QED BY <2>1, PairsMade
<1>7. \A l \in Layers : \A d \in 1..Len(ds[l]) : ds[l][d].repeat_count \in Nat
  <2> TAKE l \in Layers
  <2> TAKE d \in 1..Len(ds[l])
  <2>1. ds[l][d] \in DecodedFrame
    <3>1. ds[l] \in Seq(DecodedFrame)
      OBVIOUS
    <3> QED BY <3>1, ElementOfSeq
  <2> QED BY <2>1 DEF DecodedFrame
\* What the first n new pairs show.
<1>8. ASSUME NEW l, NEW d, NEW n \in 0..N
      PROVE  (\A i \in 1..(m + n) : ~Shows(pairs'[i], l, d))
               <=> /\ \A i \in 1..m : ~Shows(pairs[i], l, d)
                   /\ Uses(handed, l, d, n) = 0
  <2>1. Uses(handed, l, d, n) = 0
          <=> \A k \in 1..n : ~Shows(pairs'[m + k], l, d)
    <3>1. \A k \in 1..n : k \in 1..N
      OBVIOUS
    <3>2. \A k \in 1..n : Shows(pairs'[m + k], l, d)
            <=> handed[k].layer = l /\ handed[k].captured.best_decode = d
      BY <1>6, <3>1 DEF Shows
    <3>3. Uses(handed, l, d, n) = 0
            <=> \A k \in 1..n : ~(handed[k].layer = l /\ handed[k].captured.best_decode = d)
      BY UsesCount
    <3> QED BY <3>2, <3>3
  <2>2. \A i \in 1..(m + n) : i \in 1..m \/ (i - m \in 1..n /\ i = m + (i - m))
    OBVIOUS
  <2>3. \A k \in 1..n : m + k \in 1..(m + n)
    OBVIOUS
  <2>4. \A i \in 1..m : i \in 1..(m + n)
    OBVIOUS
  <2>5. ASSUME \A i \in 1..(m + n) : ~Shows(pairs'[i], l, d)
        PROVE  /\ \A i \in 1..m : ~Shows(pairs[i], l, d)
               /\ \A k \in 1..n : ~Shows(pairs'[m + k], l, d)
    <3>1. ASSUME NEW i \in 1..m PROVE ~Shows(pairs[i], l, d)
      BY <1>2, <2>4, <2>5
    <3>2. ASSUME NEW k \in 1..n PROVE ~Shows(pairs'[m + k], l, d)
      BY <2>3, <2>5
    <3> QED BY <3>1, <3>2
  <2>6. ASSUME \A i \in 1..m : ~Shows(pairs[i], l, d),
               \A k \in 1..n : ~Shows(pairs'[m + k], l, d),
               NEW i \in 1..(m + n)
        PROVE  ~Shows(pairs'[i], l, d)
    <3>1. CASE i \in 1..m
      BY <1>2, <2>6, <3>1
    <3>2. CASE i - m \in 1..n /\ i = m + (i - m)
      <4>1. PICK k \in 1..n : i = m + k
        BY <3>2
      <4> QED BY <2>6, <4>1
    <3> QED BY <2>2, <3>1, <3>2
  <2> QED BY <2>1, <2>5, <2>6
<1>9. Unused(pairs, decodes)'
  <2>1. ASSUME NEW l \in Layers, NEW d \in 1..Len(ds[l])
        PROVE  decodes'[l][d].repeat_count = 0
                 <=> \A i \in 1..(m + N) : ~Shows(pairs'[i], l, d)
    <3>1. N \in 0..N
      OBVIOUS
    <3>2. PICK u \in Nat : u = Uses(handed, l, d, N)
      BY <3>1, UsesCount
    <3>3. PICK r \in Nat : r = ds[l][d].repeat_count
      BY <1>7
    <3>4. decodes'[l][d].repeat_count = 0 <=> r = 0 /\ u = 0
      <4>1. decodes'[l][d].repeat_count = r + u
        BY <1>2, <3>2, <3>3
      <4> QED BY <4>1
    <3>5. r = 0 <=> \A i \in 1..m : ~Shows(pairs[i], l, d)
      BY <1>1, <3>3 DEF Unused
    <3> QED BY <1>8, <3>1, <3>2, <3>4, <3>5
  <2> QED BY <1>2, <2>1 DEF Unused, Shows
<1>10. FirstUses(pairs)'
  <2>1. ASSUME NEW i \in 1..m PROVE FirstShown(pairs', i)
    <3>1. FirstShown(pairs, i)
      BY <1>1 DEF FirstUses
    <3>2. \A j \in 1..(i - 1) : j \in 1..m
      OBVIOUS
    <3>3. pairs'[i] = pairs[i] /\ \A j \in 1..(i - 1) : pairs'[j] = pairs[j]
      BY <1>2, <3>2
    <3> QED BY <3>1, <3>3 DEF FirstShown
  <2>2. ASSUME NEW n \in 1..N PROVE FirstShown(pairs', m + n)
    <3>0. PICK p, l, d : /\ p = pairs'[m + n] /\ l = handed[n].layer
                         /\ d = handed[n].captured.best_decode
      OBVIOUS
    <3>1. p.layer_id = l /\ p.decode_id = d /\ l \in Layers
          /\ (d # 0 => /\ d \in 1..Len(ds[l])
                       /\ p.repeated = ds[l][d].repeat_count + Uses(handed, l, d, n - 1))
      BY <1>6, <3>0
    <3> SUFFICES ASSUME d # 0
                 PROVE  p.repeated = 0 <=> \A j \in 1..((m + n) - 1) : ~Shows(pairs'[j], l, d)
      BY <3>0, <3>1 DEF FirstShown
    <3>2. n - 1 \in 0..N /\ (m + n) - 1 = m + (n - 1)
      OBVIOUS
    <3>3. PICK u \in Nat : u = Uses(handed, l, d, n - 1)
      BY <3>2, UsesCount
    <3>4. PICK r \in Nat : r = ds[l][d].repeat_count
      BY <1>7, <3>1
    <3>5. r = 0 <=> \A i \in 1..m : ~Shows(pairs[i], l, d)
      BY <1>1, <3>1, <3>4 DEF Unused
    <3>6. p.repeated = 0 <=> r = 0 /\ u = 0
      <4>1. p.repeated = r + u
        BY <3>1, <3>3, <3>4
      <4> QED BY <4>1
    <3>7. (\A i \in 1..(m + (n - 1)) : ~Shows(pairs'[i], l, d))
            <=> /\ \A i \in 1..m : ~Shows(pairs[i], l, d)
                /\ Uses(handed, l, d, n - 1) = 0
      BY <1>8, <3>2
    <3> QED BY <3>2, <3>3, <3>5, <3>6, <3>7
  <2>3. ASSUME NEW i \in 1..(m + N) PROVE FirstShown(pairs', i)
    <3>1. CASE i \in 1..m
      BY <2>1, <3>1
    <3>2. CASE i - m \in 1..N /\ i = m + (i - m)
      <4>1. PICK k \in 1..N : i = m + k
        BY <3>2
      <4> QED BY <2>2, <4>1
    <3> QED BY <1>3, <3>1, <3>2
  <2> QED BY <1>2, <2>3 DEF FirstUses, FirstShown, Shows
<1> QED BY <1>9, <1>10

------------------------------------------------------------------------------
(* What a frame that waits, and a pair, have to do with the decodes *)

Waits(c, ds) ==
  /\ c.best_decode <= Len(ds) /\ c.since <= Len(ds) + 1
  /\ c.matched => c.best_decode < Len(ds)
  /\ IsBest(c.frame, ds, c.since, Len(ds), c.best_decode)
Paired(p, ls, dss) ==
  /\ p.layer_id \in ls /\ p.until <= Len(dss[p.layer_id])
  /\ IsBest(p.captured, dss[p.layer_id], p.since, p.until, p.decode_id)
  /\ p.decode_id = 0 \/ p.final \/ p.decode_id < p.until

\* A pair stays the best one when decodes are added.
LEMMA PairedKept ==
  ASSUME NEW p \in VideoFramePair, NEW ls \in SUBSET Layers,
         NEW dss \in [Layers -> Seq(DecodedFrame)], NEW ess \in [Layers -> Seq(DecodedFrame)],
         \A l \in ls : /\ Len(dss[l]) <= Len(ess[l])
                       /\ \A d \in 1..Len(dss[l]) : ess[l][d].frame = dss[l][d].frame,
         Paired(p, ls, dss)
  PROVE  Paired(p, ls, ess)
<1>1. PICK l \in ls : l = p.layer_id
  BY DEF Paired
<1>2. PICK m \in Nat, n \in Nat : m = Len(dss[l]) /\ n = Len(ess[l])
  <2>1. dss[l] \in Seq(DecodedFrame) /\ ess[l] \in Seq(DecodedFrame)
    BY <1>1
  <2> QED BY <2>1, LenProperties
<1>3. /\ p.since \in Nat \ {0} /\ p.until \in Nat /\ p.decode_id \in Nat
      /\ p.until <= m /\ m <= n
  BY <1>1, <1>2 DEF VideoFramePair, Paired
<1>4. \A d \in p.since..p.until : ess[l][d].frame = dss[l][d].frame
  <2>1. \A d \in p.since..p.until : d \in 1..m
    BY <1>3
  <2> QED BY <1>2, <2>1
<1>5. IsBest(p.captured, ess[l], p.since, p.until, p.decode_id)
  <2>1. IsBest(p.captured, dss[l], p.since, p.until, p.decode_id)
    BY <1>1 DEF Paired
  <2> QED BY <1>3, <1>4, <2>1, BestKept
<1> QED BY <1>1, <1>2, <1>3, <1>5 DEF Paired

\* Handing on makes pairs that have their best decode.
LEMMA HandOverPairs ==
  ASSUME pairs \in Seq(VideoFramePair), NEW ls \in SUBSET Layers,
         NEW ds \in [Layers -> Seq(DecodedFrame)], NEW N \in Nat, NEW handed \in Handed(N),
         Fits(ds, handed, N), HandleMatches(ds, handed),
         \A i \in 1..Len(pairs) : Paired(pairs[i], ls, ds),
         \A n \in 1..N :
           /\ handed[n].layer \in ls
           /\ Waits(handed[n].captured, ds[handed[n].layer])
           /\ handed[n].captured.matched \/ Head(tasks).kind = "finalize"
  PROVE  \A i \in 1..Len(pairs') : Paired(pairs'[i], ls, decodes')
<1>1. PICK m \in Nat : m = Len(pairs)
  BY LenProperties
<1>2. /\ pairs' \in Seq(VideoFramePair) /\ Len(pairs') = m + N
      /\ \A i \in 1..m : pairs'[i] = pairs[i]
      /\ \A n \in 1..N : pairs'[m + n] = HandleMatch(ds, handed, n)
      /\ decodes' \in [Layers -> Seq(DecodedFrame)]
      /\ \A l \in Layers :
           /\ Len(decodes'[l]) = Len(ds[l])
           /\ \A d \in 1..Len(ds[l]) : decodes'[l][d].frame = ds[l][d].frame
  BY <1>1, HandOver
<1>3. \A l \in ls : /\ Len(ds[l]) <= Len(decodes'[l])
                    /\ \A d \in 1..Len(ds[l]) : decodes'[l][d].frame = ds[l][d].frame
  <2> TAKE l \in ls
  <2>1. Len(ds[l]) \in Nat
    <3>1. ds[l] \in Seq(DecodedFrame)
      OBVIOUS
    <3> QED BY <3>1, LenProperties
  <2> QED BY <1>2, <2>1
<1>4. ASSUME NEW p \in VideoFramePair, Paired(p, ls, ds) PROVE Paired(p, ls, decodes')
  <2>1. decodes' \in [Layers -> Seq(DecodedFrame)]
    BY <1>2
  <2> QED BY <1>3, <1>4, <2>1, PairedKept
<1>5. ASSUME NEW n \in 1..N PROVE Paired(pairs'[m + n], ls, decodes')
  <2>1. PICK p : p = HandleMatch(ds, handed, n)
    OBVIOUS
  <2>2. PICK l, c : l = handed[n].layer /\ c = handed[n].captured
    OBVIOUS
  <2>3. /\ p \in VideoFramePair /\ l \in Layers /\ c \in CapturedFrame
        /\ p.layer_id = l /\ p.captured = c.frame
        /\ p.decode_id = c.best_decode /\ p.since = c.since /\ p.until = Len(ds[l])
        /\ p.final = (Head(tasks).kind = "finalize")
    BY <2>1, <2>2, PairMade
  <2>4. l \in ls /\ Waits(c, ds[l]) /\ (c.matched \/ p.final)
    BY <2>2, <2>3
  <2>5. Paired(p, ls, ds)
    <3>1. Len(ds[l]) \in Nat
      <4>1. ds[l] \in Seq(DecodedFrame)
        BY <2>3
      <4> QED BY <4>1, LenProperties
    <3> QED BY <2>3, <2>4, <3>1 DEF Waits, Paired
  <2> QED BY <1>2, <1>4, <2>1, <2>3, <2>5
<1>6. ASSUME NEW i \in 1..m PROVE Paired(pairs'[i], ls, decodes')
  <2>1. pairs[i] \in VideoFramePair /\ Paired(pairs[i], ls, ds)
    BY <1>1, ElementOfSeq
  <2> QED BY <1>2, <1>4, <2>1
<1>7. ASSUME NEW i \in 1..(m + N) PROVE Paired(pairs'[i], ls, decodes')
  <2>1. CASE i \in 1..m
    BY <1>6, <2>1
  <2>2. CASE i - m \in 1..N /\ i = m + (i - m)
    <3>1. PICK k \in 1..N : i = m + k
      BY <2>2
    <3> QED BY <1>5, <3>1
  <2> QED BY <2>1, <2>2
<1> QED BY <1>2, <1>7

------------------------------------------------------------------------------
(* The order of the pairs *)

\* The pairs of layer l are those of the captured frames a to b - 1, in order.
Ordered(ps, l, a, b) ==
  /\ a <= b
  /\ \A i \in 1..Len(ps) : ps[i].layer_id = l => ps[i].capture_id \in a..(b - 1)
  /\ \A n \in a..(b - 1) : \E i \in 1..Len(ps) : ps[i].layer_id = l /\ ps[i].capture_id = n
  /\ \A i, j \in 1..Len(ps) :
       ps[i].layer_id = l /\ ps[j].layer_id = l /\ i < j => ps[i].capture_id < ps[j].capture_id
\* The same of the frames that are handed on.
HandedInOrder(handed, N, l, a, b) ==
  /\ a <= b
  /\ \A i \in 1..N : handed[i].layer = l => handed[i].captured.id \in a..(b - 1)
  /\ \A n \in a..(b - 1) : \E i \in 1..N : handed[i].layer = l /\ handed[i].captured.id = n
  /\ \A i, j \in 1..N :
       handed[i].layer = l /\ handed[j].layer = l /\ i < j
         => handed[i].captured.id < handed[j].captured.id

\* Handing on in order keeps the pairs in order.
LEMMA HandOverOrder ==
  ASSUME pairs \in Seq(VideoFramePair),
         NEW ds \in [Layers -> Seq(DecodedFrame)], NEW N \in Nat, NEW handed \in Handed(N),
         Fits(ds, handed, N), HandleMatches(ds, handed),
         NEW l, NEW a \in Nat, NEW b \in Nat, NEW c \in Nat,
         Ordered(pairs, l, a, b), HandedInOrder(handed, N, l, b, c)
  PROVE  Ordered(pairs', l, a, c)
<1>1. PICK m \in Nat : m = Len(pairs)
  BY LenProperties
<1>2. /\ Len(pairs') = m + N
      /\ \A i \in 1..m : pairs'[i] = pairs[i]
      /\ \A n \in 1..N : pairs'[m + n] = HandleMatch(ds, handed, n)
  BY <1>1, HandOver
<1>3. \A n \in 1..N : /\ pairs'[m + n].layer_id = handed[n].layer
                      /\ pairs'[m + n].capture_id = handed[n].captured.id
  <2> TAKE n \in 1..N
  <2>1. pairs'[m + n] = HandleMatch(ds, handed, n)
    BY <1>2
  <2> QED BY <2>1, PairsMade
<1>4. /\ a <= b /\ b <= c
      /\ \A i \in 1..m : pairs[i].layer_id = l => pairs[i].capture_id \in a..(b - 1)
      /\ \A n \in a..(b - 1) : \E i \in 1..m : pairs[i].layer_id = l /\ pairs[i].capture_id = n
      /\ \A i, j \in 1..m :
           pairs[i].layer_id = l /\ pairs[j].layer_id = l /\ i < j
             => pairs[i].capture_id < pairs[j].capture_id
  BY <1>1 DEF Ordered, HandedInOrder
<1>5. /\ \A i \in 1..N : pairs'[m + i].layer_id = l => pairs'[m + i].capture_id \in b..(c - 1)
      /\ \A n \in b..(c - 1) : \E i \in 1..N :
           pairs'[m + i].layer_id = l /\ pairs'[m + i].capture_id = n
      /\ \A i, j \in 1..N :
           pairs'[m + i].layer_id = l /\ pairs'[m + j].layer_id = l /\ i < j
             => pairs'[m + i].capture_id < pairs'[m + j].capture_id
  <2>1. ASSUME NEW i \in 1..N, pairs'[m + i].layer_id = l
        PROVE  pairs'[m + i].capture_id \in b..(c - 1)
    BY <1>3, <2>1 DEF HandedInOrder
  <2>2. ASSUME NEW n \in b..(c - 1)
        PROVE  \E i \in 1..N : pairs'[m + i].layer_id = l /\ pairs'[m + i].capture_id = n
    <3>1. PICK i \in 1..N : handed[i].layer = l /\ handed[i].captured.id = n
      BY DEF HandedInOrder
    <3> QED BY <1>3, <3>1
  <2>3. ASSUME NEW i \in 1..N, NEW j \in 1..N, i < j,
               pairs'[m + i].layer_id = l, pairs'[m + j].layer_id = l
        PROVE  pairs'[m + i].capture_id < pairs'[m + j].capture_id
    <3>1. handed[i].layer = l /\ handed[j].layer = l
      BY <1>3, <2>3
    <3>2. handed[i].captured.id < handed[j].captured.id
      BY <2>3, <3>1 DEF HandedInOrder
    <3> QED BY <1>3, <3>2
  <2> QED BY <2>1, <2>2, <2>3
<1>6. \A i \in 1..(m + N) : i \in 1..m \/ \E k \in 1..N : i = m + k
  <2> TAKE i \in 1..(m + N)
  <2>1. i \in 1..m \/ (i - m \in 1..N /\ i = m + (i - m))
    OBVIOUS
  <2> QED BY <2>1
<1>7. (\A i \in 1..m : i \in 1..(m + N)) /\ (\A k \in 1..N : m + k \in 1..(m + N))
  OBVIOUS
<1>8. ASSUME NEW i \in 1..(m + N), pairs'[i].layer_id = l
      PROVE  pairs'[i].capture_id \in a..(c - 1)
  <2>1. CASE i \in 1..m
    <3>1. pairs'[i].capture_id \in a..(b - 1)
      BY <1>2, <1>4, <1>8, <2>1
    <3> QED BY <1>4, <3>1
  <2>2. ASSUME NEW k \in 1..N, i = m + k PROVE pairs'[i].capture_id \in a..(c - 1)
    <3>1. pairs'[i].capture_id \in b..(c - 1)
      BY <1>5, <1>8, <2>2
    <3> QED BY <1>4, <3>1
  <2> QED BY <1>6, <2>1, <2>2
<1>9. ASSUME NEW n \in a..(c - 1)
      PROVE  \E i \in 1..(m + N) : pairs'[i].layer_id = l /\ pairs'[i].capture_id = n
  <2>1. CASE n \in a..(b - 1)
    <3>1. PICK i \in 1..m : pairs[i].layer_id = l /\ pairs[i].capture_id = n
      BY <1>4, <2>1
    <3>2. pairs'[i].layer_id = l /\ pairs'[i].capture_id = n /\ i \in 1..(m + N)
      BY <1>2, <1>7, <3>1
    <3> QED BY <3>2
  <2>2. CASE n \in b..(c - 1)
    <3>1. PICK i \in 1..N : pairs'[m + i].layer_id = l /\ pairs'[m + i].capture_id = n
      BY <1>5, <2>2
    <3>2. m + i \in 1..(m + N)
      BY <1>7
    <3> QED BY <3>1, <3>2
  <2> QED BY <1>4, <2>1, <2>2
<1>10. ASSUME NEW i \in 1..(m + N), NEW j \in 1..(m + N), i < j,
              pairs'[i].layer_id = l, pairs'[j].layer_id = l
       PROVE  pairs'[i].capture_id < pairs'[j].capture_id
  <2>1. CASE j \in 1..m
    <3>1. i \in 1..m
      BY <1>10, <2>1
    <3> QED BY <1>2, <1>4, <1>10, <2>1, <3>1
  <2>2. ASSUME NEW k \in 1..N, j = m + k PROVE pairs'[i].capture_id < pairs'[j].capture_id
    <3>1. pairs'[j].capture_id \in b..(c - 1)
      BY <1>5, <1>10, <2>2
    <3>2. CASE i \in 1..m
      <4>1. pairs'[i].capture_id \in a..(b - 1)
        BY <1>2, <1>4, <1>10, <3>2
      <4> QED BY <3>1, <4>1
    <3>3. ASSUME NEW h \in 1..N, i = m + h PROVE pairs'[i].capture_id < pairs'[j].capture_id
      <4>1. h < k
        BY <1>10, <2>2, <3>3
      <4> QED BY <1>5, <1>10, <2>2, <3>3, <4>1
    <3> QED BY <1>6, <3>2, <3>3
  <2> QED BY <1>6, <2>1, <2>2
<1>11. a <= c
  BY <1>4
<1> QED BY <1>2, <1>8, <1>9, <1>10, <1>11 DEF Ordered

------------------------------------------------------------------------------
(* The tasks that wait *)

\* Append, Tail and the indices of what they return.
LEMMA AppendFacts ==
  ASSUME NEW S, NEW s \in Seq(S), NEW x \in S, NEW m \in Nat, m = Len(s)
  PROVE  /\ Append(s, x) \in Seq(S) /\ Len(Append(s, x)) = m + 1
         /\ Append(s, x)[m + 1] = x /\ \A i \in 1..m : Append(s, x)[i] = s[i]
         /\ \A i \in 1..(m + 1) : i = m + 1 \/ i \in 1..m
         /\ \A i \in 1..m : i \in 1..(m + 1)
         /\ m + 1 \in 1..(m + 1)
BY AppendProperties

LEMMA TailFacts ==
  ASSUME NEW S, NEW s \in Seq(S), s # <<>>, NEW m \in Nat, m = Len(s)
  PROVE  /\ Tail(s) \in Seq(S) /\ Len(Tail(s)) = m - 1 /\ m - 1 \in Nat
         /\ Head(s) = s[1] /\ 1 \in 1..m
         /\ \A i \in 1..(m - 1) : Tail(s)[i] = s[i + 1] /\ i + 1 \in 1..m
         /\ \A i \in 1..m : i = 1 \/ (i - 1 \in 1..(m - 1) /\ i = (i - 1) + 1)
<1>1. Len(s) \in Nat \ {0}
  BY EmptySeq, LenProperties
<1>2. m - 1 \in Nat /\ 1 \in 1..m
  BY <1>1
<1>3. /\ Tail(s) \in Seq(S) /\ Len(Tail(s)) = m - 1
      /\ \A i \in 1..(m - 1) : Tail(s)[i] = s[i + 1]
  <2>1. Tail(s) \in Seq(S) /\ Len(Tail(s)) = Len(s) - 1
        /\ \A i \in 1..Len(Tail(s)) : Tail(s)[i] = s[i + 1]
    BY HeadTailProperties
  <2> QED BY <2>1
<1>4. Head(s) = s[1]
  OBVIOUS
<1>5. \A i \in 1..(m - 1) : i + 1 \in 1..m
  BY <1>2
<1>6. \A i \in 1..m : i = 1 \/ (i - 1 \in 1..(m - 1) /\ i = (i - 1) + 1)
  BY <1>2
<1> QED BY <1>2, <1>3, <1>4, <1>5, <1>6

\* The captured frames that are on their way to the layers are a to b - 1, in order.
Coming(ts, a, b) ==
  /\ a <= b
  /\ \A i \in 1..Len(ts) : ts[i].kind = "captured" => ts[i].id \in a..(b - 1)
  /\ \A n \in a..(b - 1) : \E i \in 1..Len(ts) : ts[i].kind = "captured" /\ ts[i].id = n
  /\ \A i, j \in 1..Len(ts) :
       ts[i].kind = "captured" /\ ts[j].kind = "captured" /\ i < j => ts[i].id < ts[j].id

\* Then a is the next one to come to the layers.
LEMMA ComesNext ==
  ASSUME tasks \in Seq(MatcherTask), next_capture_id \in Nat, NEW a \in Nat,
         Coming(tasks, a, next_capture_id)
  PROVE  NextToCome = a
<1> DEFINE S == {tasks[i].id : i \in {j \in DOMAIN tasks : tasks[j].kind = "captured"}}
                  \cup {next_capture_id}
<1>1. DOMAIN tasks = 1..Len(tasks)
  BY LenProperties
<1>2. a \in S
  <2>1. CASE a = next_capture_id
    BY <2>1
  <2>2. CASE a # next_capture_id
    <3>1. a \in a..(next_capture_id - 1)
      BY <2>2 DEF Coming
    <3> QED BY <1>1, <3>1 DEF Coming
  <2> QED BY <2>1, <2>2
<1>3. \A x \in S : x \in Nat /\ a <= x
  <2>1. ASSUME NEW i \in DOMAIN tasks, tasks[i].kind = "captured"
        PROVE  tasks[i].id \in Nat /\ a <= tasks[i].id
    <3>1. tasks[i].id \in a..(next_capture_id - 1)
      BY <1>1, <2>1 DEF Coming
    <3> QED BY <3>1
  <2>2. a <= next_capture_id
    BY DEF Coming
  <2> QED BY <2>1, <2>2
<1>4. \A x \in S : (\A y \in S : x <= y) => x = a
  <2> HIDE DEF S
  <2> TAKE x \in S
  <2> HAVE \A y \in S : x <= y
  <2>1. x <= a /\ a <= x /\ x \in Nat
    BY <1>2, <1>3
  <2> QED BY <2>1
<1>5. Min(S) = a
  <2> HIDE DEF S
  <2> QED BY <1>2, <1>3, <1>4 DEF Min
<1> QED BY <1>5 DEF NextToCome

\* What the calls and the tasks do to it.
LEMMA PostOther ==
  ASSUME NEW ts \in Seq(MatcherTask), NEW t \in MatcherTask, t.kind # "captured",
         NEW a, NEW b, Coming(ts, a, b)
  PROVE  Coming(Append(ts, t), a, b)
<1>1. PICK m \in Nat : m = Len(ts)
  BY LenProperties
<1> DEFINE us == Append(ts, t)
<1>2. /\ Len(us) = m + 1 /\ us[m + 1] = t /\ \A i \in 1..m : us[i] = ts[i]
      /\ \A i \in 1..(m + 1) : i = m + 1 \/ i \in 1..m
      /\ \A i \in 1..m : i \in 1..(m + 1)
  BY <1>1, AppendFacts
<1> HIDE DEF us
<1>3. ASSUME NEW i \in 1..(m + 1), us[i].kind = "captured" PROVE i \in 1..m /\ us[i] = ts[i]
  BY <1>2, <1>3
<1>4. ASSUME NEW n \in a..(b - 1)
      PROVE  \E i \in 1..(m + 1) : us[i].kind = "captured" /\ us[i].id = n
  <2>1. PICK i \in 1..m : ts[i].kind = "captured" /\ ts[i].id = n
    BY <1>1 DEF Coming
  <2> QED BY <1>2, <2>1
<1>5. Coming(us, a, b)
  BY <1>1, <1>2, <1>3, <1>4 DEF Coming
<1> QED BY <1>5 DEF us

LEMMA PostCaptured ==
  ASSUME NEW ts \in Seq(MatcherTask), NEW t \in MatcherTask, NEW a \in Nat, NEW b \in Nat,
         t.kind = "captured", t.id = b, Coming(ts, a, b)
  PROVE  Coming(Append(ts, t), a, b + 1)
<1>1. PICK m \in Nat : m = Len(ts)
  BY LenProperties
<1> DEFINE us == Append(ts, t)
<1>2. /\ Len(us) = m + 1 /\ us[m + 1] = t /\ \A i \in 1..m : us[i] = ts[i]
      /\ \A i \in 1..(m + 1) : i = m + 1 \/ i \in 1..m
      /\ (\A i \in 1..m : i \in 1..(m + 1)) /\ m + 1 \in 1..(m + 1)
  BY <1>1, AppendFacts
<1> HIDE DEF us
<1>3. /\ a <= b
      /\ \A i \in 1..m : ts[i].kind = "captured" => ts[i].id \in a..(b - 1)
      /\ \A n \in a..(b - 1) : \E i \in 1..m : ts[i].kind = "captured" /\ ts[i].id = n
      /\ \A i, j \in 1..m :
           ts[i].kind = "captured" /\ ts[j].kind = "captured" /\ i < j => ts[i].id < ts[j].id
  BY <1>1 DEF Coming
<1>4. ASSUME NEW i \in 1..(m + 1), us[i].kind = "captured" PROVE us[i].id \in a..((b + 1) - 1)
  <2>1. CASE i = m + 1
    BY <1>2, <1>3, <2>1
  <2>2. CASE i \in 1..m
    <3>1. us[i].id \in a..(b - 1)
      BY <1>2, <1>3, <1>4, <2>2
    <3> QED BY <3>1
  <2> QED BY <1>2, <2>1, <2>2
<1>5. ASSUME NEW n \in a..((b + 1) - 1)
      PROVE  \E i \in 1..(m + 1) : us[i].kind = "captured" /\ us[i].id = n
  <2>1. CASE n = b
    BY <1>2, <2>1
  <2>2. CASE n \in a..(b - 1)
    <3>1. PICK i \in 1..m : ts[i].kind = "captured" /\ ts[i].id = n
      BY <1>3, <2>2
    <3> QED BY <1>2, <3>1
  <2> QED BY <2>1, <2>2
<1>6. ASSUME NEW i \in 1..(m + 1), NEW j \in 1..(m + 1), i < j,
             us[i].kind = "captured", us[j].kind = "captured"
      PROVE  us[i].id < us[j].id
  <2>1. i \in 1..m
    BY <1>6
  <2>2. CASE j = m + 1
    <3>1. us[i].id \in a..(b - 1)
      BY <1>2, <1>3, <1>6, <2>1
    <3> QED BY <1>2, <2>2, <3>1
  <2>3. CASE j \in 1..m
    BY <1>2, <1>3, <1>6, <2>1, <2>3
  <2> QED BY <1>2, <2>2, <2>3
<1>7. a <= b + 1
  BY <1>3
<1>8. Coming(us, a, b + 1)
  BY <1>2, <1>4, <1>5, <1>6, <1>7 DEF Coming
<1> QED BY <1>8 DEF us

LEMMA RunOther ==
  ASSUME NEW ts \in Seq(MatcherTask), ts # <<>>, Head(ts).kind # "captured",
         NEW a, NEW b, Coming(ts, a, b)
  PROVE  Coming(Tail(ts), a, b)
<1>1. PICK m \in Nat : m = Len(ts)
  BY LenProperties
<1> DEFINE us == Tail(ts)
<1>2. /\ Len(us) = m - 1 /\ m - 1 \in Nat /\ Head(ts) = ts[1]
      /\ \A i \in 1..(m - 1) : us[i] = ts[i + 1] /\ i + 1 \in 1..m
      /\ \A i \in 1..m : i = 1 \/ (i - 1 \in 1..(m - 1) /\ i = (i - 1) + 1)
  BY <1>1, TailFacts
<1> HIDE DEF us
<1>3. ASSUME NEW i \in 1..(m - 1), us[i].kind = "captured" PROVE us[i].id \in a..(b - 1)
  BY <1>1, <1>2, <1>3 DEF Coming
<1>4. ASSUME NEW n \in a..(b - 1)
      PROVE  \E i \in 1..(m - 1) : us[i].kind = "captured" /\ us[i].id = n
  <2>1. PICK i \in 1..m : ts[i].kind = "captured" /\ ts[i].id = n
    BY <1>1 DEF Coming
  <2>2. i # 1
    BY <1>2, <2>1
  <2>3. PICK k \in 1..(m - 1) : i = k + 1
    BY <1>2, <2>2
  <2> QED BY <1>2, <2>1, <2>3
<1>5. ASSUME NEW i \in 1..(m - 1), NEW j \in 1..(m - 1), i < j,
             us[i].kind = "captured", us[j].kind = "captured"
      PROVE  us[i].id < us[j].id
  <2>1. i + 1 < j + 1
    BY <1>2, <1>5
  <2> QED BY <1>1, <1>2, <1>5, <2>1 DEF Coming
<1>6. a <= b
  BY DEF Coming
<1>7. Coming(us, a, b)
  BY <1>2, <1>3, <1>4, <1>5, <1>6 DEF Coming
<1> QED BY <1>7 DEF us

LEMMA RunComing ==
  ASSUME NEW ts \in Seq(MatcherTask), ts # <<>>, Head(ts).kind = "captured",
         NEW a \in Nat, NEW b \in Nat, Coming(ts, a, b)
  PROVE  Head(ts).id = a /\ Coming(Tail(ts), a + 1, b)
<1>1. PICK m \in Nat : m = Len(ts)
  BY LenProperties
<1> DEFINE us == Tail(ts)
<1>2. /\ Len(us) = m - 1 /\ m - 1 \in Nat /\ Head(ts) = ts[1] /\ 1 \in 1..m
      /\ \A i \in 1..(m - 1) : us[i] = ts[i + 1] /\ i + 1 \in 1..m
      /\ \A i \in 1..m : i = 1 \/ (i - 1 \in 1..(m - 1) /\ i = (i - 1) + 1)
  BY <1>1, TailFacts
<1> HIDE DEF us
<1>3. /\ a <= b
      /\ \A i \in 1..m : ts[i].kind = "captured" => ts[i].id \in a..(b - 1)
      /\ \A n \in a..(b - 1) : \E i \in 1..m : ts[i].kind = "captured" /\ ts[i].id = n
      /\ \A i, j \in 1..m :
           ts[i].kind = "captured" /\ ts[j].kind = "captured" /\ i < j => ts[i].id < ts[j].id
  BY <1>1 DEF Coming
<1>4. ts[1].kind = "captured" /\ ts[1].id \in a..(b - 1)
  BY <1>2, <1>3
<1>5. ts[1].id = a
  <2>1. a \in a..(b - 1)
    BY <1>4
  <2>2. PICK i \in 1..m : ts[i].kind = "captured" /\ ts[i].id = a
    BY <1>3, <2>1
  <2>3. CASE i = 1
    BY <2>2, <2>3
  <2>4. CASE i # 1
    <3>1. ts[1].id < ts[i].id
      BY <1>2, <1>3, <1>4, <2>2, <2>4
    <3> QED BY <1>4, <2>2, <3>1
  <2> QED BY <2>3, <2>4
<1>6. ASSUME NEW i \in 1..(m - 1), us[i].kind = "captured" PROVE us[i].id \in (a + 1)..(b - 1)
  <2>1. us[i] = ts[i + 1] /\ i + 1 \in 1..m /\ 1 < i + 1
    BY <1>2
  <2>2. ts[i + 1].id \in a..(b - 1) /\ ts[1].id < ts[i + 1].id
    BY <1>2, <1>3, <1>4, <1>6, <2>1
  <2> QED BY <1>5, <2>1, <2>2
<1>7. ASSUME NEW n \in (a + 1)..(b - 1)
      PROVE  \E i \in 1..(m - 1) : us[i].kind = "captured" /\ us[i].id = n
  <2>1. n \in a..(b - 1) /\ n # a
    OBVIOUS
  <2>2. PICK i \in 1..m : ts[i].kind = "captured" /\ ts[i].id = n
    BY <1>3, <2>1
  <2>3. PICK k \in 1..(m - 1) : i = k + 1
    BY <1>2, <1>5, <2>1, <2>2
  <2> QED BY <1>2, <2>2, <2>3
<1>8. ASSUME NEW i \in 1..(m - 1), NEW j \in 1..(m - 1), i < j,
             us[i].kind = "captured", us[j].kind = "captured"
      PROVE  us[i].id < us[j].id
  <2>1. i + 1 < j + 1
    BY <1>2, <1>8
  <2>2. PICK p \in 1..m, q \in 1..m : p = i + 1 /\ q = j + 1
    BY <1>2
  <2>3. us[i] = ts[p] /\ us[j] = ts[q]
    BY <1>2, <2>2
  <2> QED BY <1>3, <1>8, <2>1, <2>2, <2>3
<1>9. a + 1 <= b
  BY <1>4
<1>10. Coming(us, a + 1, b)
  BY <1>2, <1>6, <1>7, <1>8, <1>9 DEF Coming
<1> QED BY <1>2, <1>5, <1>10 DEF us

------------------------------------------------------------------------------
(* What a task hands on *)

MatcherTypes ==
  /\ tasks \in Seq(MatcherTask) /\ next_capture_id \in 1..(MaxCaptured + 1)
  /\ layers \in SUBSET Layers
  /\ captured_frames \in [Layers -> Seq(CapturedFrame)]
  /\ decodes \in [Layers -> Seq(DecodedFrame)]
  /\ matcher \in {"alive", "finalizing", "destroyed"}
  /\ pairs \in Seq(VideoFramePair)
  /\ first \in [Layers -> Nat]

\* What waits has its best decode, and waits for a layer that is registered.
WaitInv ==
  /\ \A l \in Layers : \A i \in 1..Len(captured_frames[l]) :
       Waits(captured_frames[l][i], decodes[l])
  /\ \A l \in Layers : l \notin layers => captured_frames[l] = <<>>

\* A task hands these frames on, after it has made ds of the decodes; of each layer it is
\* the first frames, in order, and what waits then are the others.
SameSoFar(ds, es) ==
  /\ Len(ds) <= Len(es)
  /\ \A d \in 1..Len(ds) : es[d] = ds[d]
  /\ \A d \in 1..Len(es) : d \notin 1..Len(ds) => es[d].repeat_count = 0
HandsOn(ds, handed, N, cf) ==
  /\ ds \in [Layers -> Seq(DecodedFrame)] /\ N \in Nat /\ handed \in Handed(N)
  /\ HandleMatches(ds, handed)
  /\ \A n \in 1..N : /\ handed[n].layer \in layers
                     /\ Waits(handed[n].captured, ds[handed[n].layer])
                     /\ handed[n].captured.matched \/ Head(tasks).kind = "finalize"
  /\ \A l \in Layers : SameSoFar(decodes[l], ds[l])
  /\ cf \in [Layers -> Seq(CapturedFrame)]
  /\ \A l \in Layers : \A i \in 1..Len(cf[l]) : Waits(cf[l][i], ds[l])
  /\ \A l \in Layers : l \notin layers => cf[l] = <<>>
  /\ \A l \in layers : \E k \in 0..Len(captured_frames[l]) :
       /\ Len(cf[l]) = Len(captured_frames[l]) - k
       /\ \A i \in 1..Len(cf[l]) : cf[l][i].id = captured_frames[l][k + i].id
       /\ \A b \in Nat :
            (\A i \in 1..Len(captured_frames[l]) : captured_frames[l][i].id = b + i - 1)
              => HandedInOrder(handed, N, l, b, b + k)

\* What is ready are matched frames at the front.
LEMMA ReadyFront ==
  ASSUME NEW cs, NEW m \in Nat, m = Len(cs)
  PROVE  Ready(cs) \in 0..m /\ \A i \in 1..Ready(cs) : cs[i].matched
<1> DEFINE R(n) == (\A i \in 1..n : cs[i].matched) /\ (n < m => ~cs[n + 1].matched)
           S == {i \in 1..m : ~cs[i].matched}
<1>1. \E n \in 0..m : R(n)
  <2>1. CASE S = {}
    <3>1. m \in 0..m /\ R(m)
      BY <2>1
    <3> QED BY <3>1
  <2>2. CASE S # {}
    <3>1. S \in SUBSET Nat
      OBVIOUS
    <3>2. PICK i \in S : \A j \in S : i <= j
      <4> HIDE DEF S
      <4> QED BY <2>2, <3>1, FirstNumber
    <3>3. i \in 1..m /\ ~cs[i].matched
      OBVIOUS
    <3>4. PICK n \in 0..m : n = i - 1 /\ n + 1 = i
      BY <3>3
    <3>5. \A j \in 1..n : cs[j].matched
      <4> SUFFICES ASSUME NEW j \in 1..n, ~cs[j].matched PROVE FALSE
        OBVIOUS
      <4>1. j \in S
        BY <3>3, <3>4
      <4>2. ~(i <= j)
        BY <3>3, <3>4
      <4> QED BY <3>2, <4>1, <4>2
    <3>6. R(n)
      BY <3>3, <3>4, <3>5
    <3> QED BY <3>6
  <2> QED BY <2>1, <2>2
<1>2. Ready(cs) = CHOOSE n \in 0..m : R(n)
  BY DEF Ready
<1>3. Ready(cs) \in 0..m /\ R(Ready(cs))
  <2> HIDE DEF R
  <2> QED BY <1>1, <1>2
<1> QED BY <1>3

\* A decoded frame hands on what is ready.
LEMMA DecodedHands ==
  ASSUME MatcherTypes, WaitInv, NEW t \in MatcherTask, RunDecoded(t)
  PROVE  \E ds, handed, N : HandsOn(ds, handed, N, captured_frames')
<1>1. PICK l \in Layers, f \in Frames : t.kind = "decoded" /\ l = t.layer /\ f = t.frame
  BY DEF RunDecoded, MatcherTask
<1> DEFINE g == [frame |-> f, repeat_count |-> 0]
           es == Append(decodes[l], g)
           cf == captured_frames[l]
           cs == [i \in DOMAIN cf |-> Compare(cf[i], decodes[l], f)]
           n == Ready(cs)
           ds == [decodes EXCEPT ![l] = es]
           handed == [i \in 1..n |-> [layer |-> l, captured |-> cs[i]]]
<1>2. /\ captured_frames' = [captured_frames EXCEPT ![l] = SubSeq(cs, n + 1, Len(cs))]
      /\ HandleMatches(ds, handed)
  BY <1>1 DEF RunDecoded
<1>3. decodes[l] \in Seq(DecodedFrame) /\ cf \in Seq(CapturedFrame)
      /\ decodes \in [Layers -> Seq(DecodedFrame)]
      /\ captured_frames \in [Layers -> Seq(CapturedFrame)]
  BY <1>1 DEF MatcherTypes
<1>4. PICK m \in Nat : m = Len(cf) /\ DOMAIN cf = 1..m
  BY <1>3, LenProperties
<1>5. PICK k \in Nat : k = Len(decodes[l])
  BY <1>3, LenProperties
<1>6. g \in DecodedFrame
  BY DEF DecodedFrame
<1>7. /\ es \in Seq(DecodedFrame) /\ Len(es) = k + 1 /\ es[k + 1] = g
      /\ \A d \in 1..k : es[d] = decodes[l][d]
  <2> HIDE DEF g
  <2> QED BY <1>3, <1>5, <1>6, AppendProperties
<1>8. ASSUME NEW i \in 1..m
      PROVE  /\ cs[i] \in CapturedFrame /\ cs[i].id = cf[i].id /\ Waits(cs[i], es)
  <2>1. PICK c \in CapturedFrame : c = cf[i]
    BY <1>3, <1>4, ElementOfSeq
  <2>2. Waits(c, decodes[l])
    BY <1>4, <2>1 DEF WaitInv
  <2>3. /\ c.best_decode <= Len(decodes[l]) /\ c.since <= Len(decodes[l]) + 1
        /\ IsBest(c.frame, decodes[l], c.since, Len(decodes[l]), c.best_decode)
    BY <2>2 DEF Waits
  <2>4. PICK e : e = Compare(c, decodes[l], f)
    OBVIOUS
  <2>5. PICK h, fs : /\ h \in DecodedFrame /\ h.frame = f
                     /\ fs = Append(decodes[l], h) /\ fs = es
    <3>1. g \in DecodedFrame /\ g.frame = f /\ es = Append(decodes[l], g)
      BY <1>6
    <3> HIDE DEF g, es
    <3> QED BY <3>1
  <2>6. Compared(e, c, fs, Len(decodes[l]) + 1)
    <3>1. decodes[l] \in Seq(DecodedFrame) /\ f \in Frames /\ c \in CapturedFrame
      BY <1>3
    <3> QED BY ONLY <3>1, <2>3, <2>4, <2>5, CompareBest
  <2>7. c.since \in Nat
    BY DEF CapturedFrame
  <2>8. cs[i] = e
    BY <1>4, <2>1, <2>4
  <2> HIDE DEF es, cs
  <2> QED BY <1>5, <1>7, <2>1, <2>3, <2>5, <2>6, <2>7, <2>8 DEF Waits, Compared
<1>9. Len(cs) = m /\ cs \in [1..m -> CapturedFrame]
  <2>1. cs = [i \in 1..m |-> cs[i]]
    BY <1>4
  <2> HIDE DEF cs
  <2> QED BY <1>8, <2>1
<1>10. n \in 0..m /\ \A i \in 1..n : cs[i].matched
  <2> HIDE DEF cs
  <2> QED BY <1>9, ReadyFront
<1>11. l \notin layers => m = 0
  BY <1>4 DEF WaitInv
<1>12. ds \in [Layers -> Seq(DecodedFrame)] /\ ds[l] = es
       /\ \A j \in Layers : j # l => ds[j] = decodes[j]
  <2> HIDE DEF es
  <2> QED BY <1>3, <1>7
<1> DEFINE rest == SubSeq(cs, n + 1, Len(cs))
<1>13. /\ rest \in Seq(CapturedFrame) /\ Len(rest) = m - n
       /\ \A i \in 1..(m - n) : rest[i] = cs[n + i] /\ n + i \in 1..m
  <2>1. \A i \in (n + 1)..m : cs[i] \in CapturedFrame
    BY <1>8, <1>10
  <2> HIDE DEF cs, n
  <2>2. n + 1 \in Int /\ m \in Int /\ m - (n + 1) + 1 = m - n
    BY <1>10
  <2>3. PICK a \in Int : a = n + 1
    BY <2>2
  <2>4. /\ SubSeq(cs, a, m) \in Seq(CapturedFrame)
        /\ Len(SubSeq(cs, a, m)) = IF a <= m THEN m - a + 1 ELSE 0
        /\ \A i \in 1..(m - a + 1) : SubSeq(cs, a, m)[i] = cs[a + i - 1]
    BY <2>1, <2>3, SubSeqProperties
  <2>5. rest = SubSeq(cs, a, m)
    BY <1>9, <2>3
  <2>6. Len(rest) = m - n
    BY <1>10, <2>3, <2>4, <2>5
  <2>7. ASSUME NEW i \in 1..(m - n) PROVE rest[i] = cs[n + i] /\ n + i \in 1..m
    <3>1. a + i - 1 = n + i /\ i \in 1..(m - a + 1) /\ n + i \in 1..m
      BY <1>10, <2>3
    <3> QED BY <2>4, <2>5, <3>1
  <2> QED BY <2>4, <2>5, <2>6, <2>7
<1>14. captured_frames' = [captured_frames EXCEPT ![l] = rest]
  BY <1>2
<1>15. handed \in Handed(n) /\ \A i \in 1..n : /\ handed[i].layer = l
                                            /\ handed[i].captured = cs[i] /\ i \in 1..m
  <2>1. \A i \in 1..n : i \in 1..m
    BY <1>10
  <2> HIDE DEF cs, n
  <2> QED BY <1>8, <2>1 DEF Handed
<1> HIDE DEF g, es, cs, n, ds, handed, rest
<1>16. ASSUME NEW i \in 1..n
       PROVE  /\ handed[i].layer \in layers /\ Waits(handed[i].captured, ds[handed[i].layer])
              /\ handed[i].captured.matched
  <2>1. l \in layers
    BY <1>11, <1>15
  <2> QED BY <1>8, <1>10, <1>12, <1>15, <2>1
<1>17. ASSUME NEW j \in Layers PROVE SameSoFar(decodes[j], ds[j])
  <2>1. CASE j = l
    <3>1. \A d \in 1..(k + 1) : d \notin 1..k => d = k + 1
      OBVIOUS
    <3>2. g.repeat_count = 0
      BY DEF g
    <3> QED BY <1>5, <1>7, <1>12, <2>1, <3>1, <3>2 DEF SameSoFar
  <2>2. CASE j # l
    <3>1. ds[j] = decodes[j] /\ Len(decodes[j]) \in Nat
      <4>1. decodes[j] \in Seq(DecodedFrame)
        BY <1>3
      <4> QED BY <1>12, <2>2, <4>1, LenProperties
    <3> QED BY <3>1 DEF SameSoFar
  <2> QED BY <2>1, <2>2
<1>18. captured_frames' \in [Layers -> Seq(CapturedFrame)] /\ captured_frames'[l] = rest
       /\ \A j \in Layers : j # l => captured_frames'[j] = captured_frames[j]
  BY <1>3, <1>13, <1>14
<1>19. ASSUME NEW j \in Layers, NEW i \in 1..Len(captured_frames'[j])
       PROVE  Waits(captured_frames'[j][i], ds[j])
  <2>1. CASE j = l
    BY <1>8, <1>12, <1>13, <1>18, <2>1
  <2>2. CASE j # l
    BY <1>12, <1>18, <2>2 DEF WaitInv
  <2> QED BY <2>1, <2>2
<1>20. ASSUME NEW j \in Layers, j \notin layers PROVE captured_frames'[j] = <<>>
  <2>1. CASE j = l
    <3>1. Len(rest) = 0
      BY <1>10, <1>11, <1>13, <1>20, <2>1
    <3> QED BY <1>13, <1>18, <2>1, <3>1, EmptySeq
  <2>2. CASE j # l
    BY <1>18, <1>20, <2>2 DEF WaitInv
  <2> QED BY <2>1, <2>2
<1>21. ASSUME NEW j \in layers
       PROVE  \E q \in 0..Len(captured_frames[j]) :
                /\ Len(captured_frames'[j]) = Len(captured_frames[j]) - q
                /\ \A i \in 1..Len(captured_frames'[j]) :
                     captured_frames'[j][i].id = captured_frames[j][q + i].id
                /\ \A b \in Nat :
                     (\A i \in 1..Len(captured_frames[j]) : captured_frames[j][i].id = b + i - 1)
                       => HandedInOrder(handed, n, j, b, b + q)
  <2>0. j \in Layers
    BY DEF MatcherTypes
  <2>1. CASE j = l
    <3>1. \A i \in 1..(m - n) : rest[i].id = cf[n + i].id
      BY <1>8, <1>13
    <3>2. ASSUME NEW b \in Nat, \A i \in 1..m : cf[i].id = b + i - 1
          PROVE  HandedInOrder(handed, n, l, b, b + n)
      <4>1. \A i \in 1..n : handed[i].layer = l /\ handed[i].captured.id = b + i - 1
        BY <1>8, <1>15, <3>2
      <4>2. ASSUME NEW i \in 1..n PROVE handed[i].captured.id \in b..((b + n) - 1)
        BY <1>10, <4>1
      <4>3. ASSUME NEW x \in b..((b + n) - 1)
            PROVE  \E i \in 1..n : handed[i].layer = l /\ handed[i].captured.id = x
        <5>1. PICK i \in 1..n : b + i - 1 = x
          <6>1. x - b + 1 \in 1..n /\ b + (x - b + 1) - 1 = x
            BY <1>10
          <6> QED BY <6>1
        <5> QED BY <4>1, <5>1
      <4>4. ASSUME NEW i \in 1..n, NEW h \in 1..n, i < h
            PROVE  handed[i].captured.id < handed[h].captured.id
        <5>1. b + i - 1 < b + h - 1
          BY <1>10, <4>4
        <5> QED BY <4>1, <5>1
      <4>5. b <= b + n
        BY <1>10
      <4> QED BY <4>2, <4>3, <4>4, <4>5 DEF HandedInOrder
    <3> QED BY <1>4, <1>10, <1>13, <1>18, <2>1, <3>1, <3>2
  <2>2. CASE j # l
    <3>1. captured_frames'[j] = captured_frames[j]
      BY <1>18, <2>0, <2>2
    <3>2. PICK h \in Nat : h = Len(captured_frames[j])
      <4>1. captured_frames[j] \in Seq(CapturedFrame)
        BY <1>3, <2>0
      <4> QED BY <4>1, LenProperties
    <3>3. ASSUME NEW b \in Nat PROVE HandedInOrder(handed, n, j, b, b + 0)
      <4>1. b + 0 = b /\ b <= b /\ \A x \in b..(b - 1) : FALSE
        OBVIOUS
      <4>2. \A i \in 1..n : handed[i].layer # j
        BY <1>15, <2>2
      <4> QED BY <4>1, <4>2 DEF HandedInOrder
    <3>4. 0 \in 0..h /\ h - 0 = h /\ \A i \in 1..h : 0 + i = i
      OBVIOUS
    <3> QED BY <3>1, <3>2, <3>3, <3>4
  <2> QED BY <2>1, <2>2
<1>22. n \in Nat
  BY <1>10
<1>23. HandsOn(ds, handed, n, captured_frames')
  BY <1>2, <1>12, <1>15, <1>16, <1>17, <1>18, <1>19, <1>20, <1>21, <1>22 DEF HandsOn
<1> QED BY <1>23

\* Everything that waits, by layer and position.
Waiting == UNION {{<<l, i>> : i \in DOMAIN captured_frames[l]} : l \in layers}

\* It is finite, and made of the positions of the frames that wait.
LEMMA WaitingFinite ==
  ASSUME MatcherTypes
  PROVE  /\ IsFiniteSet(Waiting)
         /\ \A w \in Waiting : /\ w = <<w[1], w[2]>> /\ w[1] \in layers
                               /\ w[2] \in 1..Len(captured_frames[w[1]])
         /\ \A l \in layers : \A i \in 1..Len(captured_frames[l]) : <<l, i>> \in Waiting
<1>1. ASSUME NEW l \in layers
      PROVE  /\ DOMAIN captured_frames[l] = 1..Len(captured_frames[l])
             /\ Len(captured_frames[l]) \in Nat
  <2>1. captured_frames[l] \in Seq(CapturedFrame)
    BY DEF MatcherTypes
  <2> QED BY <2>1, LenProperties
<1> DEFINE Of(l) == {<<l, i>> : i \in DOMAIN captured_frames[l]}
           S == {Of(l) : l \in layers}
<1>2. IsFiniteSet(layers)
  BY MatcherConstants, FS_Subset DEF MatcherTypes
<1>3. IsFiniteSet(S)
  <2> DEFINE f == [l \in layers |-> Of(l)]
  <2>1. f \in Surjection(layers, S)
    <3>1. f \in [layers -> S]
      OBVIOUS
    <3>2. \A s \in S : \E l \in layers : f[l] = s
      OBVIOUS
    <3> HIDE DEF f, S
    <3> QED BY <3>1, <3>2 DEF Surjection
  <2> HIDE DEF f, S
  <2> QED BY <1>2, <2>1, FS_Surjection
<1>4. ASSUME NEW l \in layers PROVE IsFiniteSet(Of(l))
  <2> DEFINE n == Len(captured_frames[l])
             f == [i \in 1..n |-> <<l, i>>]
  <2>1. n \in Nat /\ DOMAIN captured_frames[l] = 1..n
    BY <1>1
  <2>2. f \in Surjection(1..n, Of(l))
    <3>1. f \in [1..n -> Of(l)]
      BY <2>1
    <3>2. \A s \in Of(l) : \E i \in 1..n : f[i] = s
      BY <2>1
    <3> HIDE DEF f, Of
    <3> QED BY <3>1, <3>2 DEF Surjection
  <2>3. IsFiniteSet(1..n)
    BY <2>1, FS_Interval
  <2> HIDE DEF f, Of, n
  <2> QED BY <2>2, <2>3, FS_Surjection
<1>5. \A s \in S : IsFiniteSet(s)
  <2> HIDE DEF Of
  <2> QED BY <1>4
<1>6. IsFiniteSet(UNION S)
  <2> HIDE DEF S
  <2> QED BY <1>3, <1>5, FS_UNION
<1>7. UNION S = Waiting
  BY DEF Waiting
<1>8. ASSUME NEW w \in Waiting
      PROVE  /\ w = <<w[1], w[2]>> /\ w[1] \in layers
             /\ w[2] \in 1..Len(captured_frames[w[1]])
  <2>1. PICK l \in layers : w \in {<<l, i>> : i \in DOMAIN captured_frames[l]}
    BY DEF Waiting
  <2>2. PICK i \in DOMAIN captured_frames[l] : w = <<l, i>>
    BY <2>1
  <2> QED BY <1>1, <2>2
<1>9. ASSUME NEW l \in layers, NEW i \in 1..Len(captured_frames[l]) PROVE <<l, i>> \in Waiting
  <2>1. i \in DOMAIN captured_frames[l]
    BY <1>1
  <2> QED BY <2>1 DEF Waiting
<1> HIDE DEF S
<1> QED BY <1>6, <1>7, <1>8, <1>9

\* The last task hands on everything that waits.
LEMMA FinalizeHands ==
  ASSUME MatcherTypes, WaitInv, NEW t, t = Head(tasks), RunFinalize(t)
  PROVE  \E ds, handed, N : HandsOn(ds, handed, N, captured_frames')
<1> DEFINE cf == captured_frames
           N == Cardinality(Waiting)
<1>1. PICK order \in [1..N -> Waiting] :
        /\ \A m, n \in 1..N : m < n =>
             \/ order[m][1] < order[n][1]
             \/ order[m][1] = order[n][1] /\ order[m][2] < order[n][2]
        /\ HandleMatches(decodes, [n \in 1..N |->
             [layer |-> order[n][1], captured |-> cf[order[n][1]][order[n][2]]]])
  BY DEF RunFinalize, Waiting
<1>2. Head(tasks).kind = "finalize" /\ captured_frames' = [l \in Layers |-> <<>>]
  BY DEF RunFinalize
<1>3. N \in Nat
  BY WaitingFinite, FS_CardinalityType
<1> HIDE DEF N
<1>4. /\ cf \in [Layers -> Seq(CapturedFrame)] /\ decodes \in [Layers -> Seq(DecodedFrame)]
      /\ layers \subseteq Layers
  BY DEF MatcherTypes
<1>5. \A l \in Layers : l \in Int
  BY MatcherConstants
<1>6. \A n \in 1..N : /\ order[n] \in Waiting /\ order[n] = <<order[n][1], order[n][2]>>
                      /\ order[n][1] \in layers
                      /\ order[n][2] \in 1..Len(cf[order[n][1]])
  BY <1>1, WaitingFinite
<1>7. order \in Injection(1..N, Waiting)
  <2>1. ASSUME NEW m \in 1..N, NEW n \in 1..N, order[m] = order[n] PROVE m = n
    <3>1. order[m][1] \in Int /\ order[m][2] \in Int
      BY <1>4, <1>5, <1>6
    <3>2. ~(m < n) /\ ~(n < m)
      BY <1>1, <2>1, <3>1
    <3> QED BY <3>2
  <2> QED BY <1>1, <2>1 DEF Injection, IsInjective
<1>8. \A w \in Waiting : \E n \in 1..N : order[n] = w
  <2>1. IsFiniteSet(1..N) /\ Cardinality(1..N) = N
    BY <1>3, FS_Interval
  <2>2. order \in Surjection(1..N, Waiting)
    BY <1>7, <2>1, WaitingFinite, FS_Injection DEF N
  <2> QED BY <2>2 DEF Surjection
<1> DEFINE handed == [n \in 1..N |->
             [layer |-> order[n][1], captured |-> cf[order[n][1]][order[n][2]]]]
<1>9. ASSUME NEW n \in 1..N
      PROVE  /\ handed[n] \in [layer : Layers, captured : CapturedFrame]
             /\ handed[n].layer = order[n][1] /\ handed[n].captured = cf[order[n][1]][order[n][2]]
  <2>0. PICK l \in layers : l = order[n][1]
    BY <1>6
  <2>1. PICK i \in 1..Len(cf[l]) : order[n] = <<l, i>>
    BY <1>6, <2>0
  <2>2. cf[l][i] \in CapturedFrame
    <3>1. cf[l] \in Seq(CapturedFrame)
      BY <1>4
    <3> QED BY <2>1, <3>1, ElementOfSeq
  <2> QED BY <1>4, <2>1, <2>2
<1>10. handed \in Handed(N)
  <2>1. handed = [n \in 1..N |-> handed[n]]
    OBVIOUS
  <2> HIDE DEF handed
  <2> QED BY <1>9, <2>1 DEF Handed
<1>11. HandleMatches(decodes, handed)
  BY <1>1
<1> HIDE DEF handed
<1>12. ASSUME NEW n \in 1..N
       PROVE  handed[n].layer \in layers /\ Waits(handed[n].captured, decodes[handed[n].layer])
  <2>0. PICK l \in layers : l = order[n][1]
    BY <1>6
  <2>1. PICK i \in 1..Len(cf[l]) : order[n] = <<l, i>>
    BY <1>6, <2>0
  <2>2. Waits(cf[l][i], decodes[l])
    BY <1>4, <2>1 DEF WaitInv
  <2>3. handed[n].layer = l /\ handed[n].captured = cf[l][i]
    BY <1>9, <2>1
  <2> QED BY <2>2, <2>3
<1>13. ASSUME NEW l \in Layers PROVE SameSoFar(decodes[l], decodes[l])
  <2>1. decodes[l] \in Seq(DecodedFrame)
    BY <1>4
  <2>2. Len(decodes[l]) \in Nat
    BY <2>1, LenProperties
  <2> QED BY <2>2 DEF SameSoFar
<1>14. /\ captured_frames' \in [Layers -> Seq(CapturedFrame)]
       /\ \A l \in Layers : captured_frames'[l] = <<>> /\ Len(captured_frames'[l]) = 0
  <2>1. <<>> \in Seq(CapturedFrame) /\ Len(<<>>) = 0
    BY EmptySeq
  <2> QED BY <1>2, <2>1
<1>15. ASSUME NEW l \in layers, NEW b \in Nat,
              \A i \in 1..Len(cf[l]) : cf[l][i].id = b + i - 1
       PROVE  HandedInOrder(handed, N, l, b, b + Len(cf[l]))
  <2>1. PICK q \in Nat : q = Len(cf[l])
    <3>1. cf[l] \in Seq(CapturedFrame)
      BY <1>4
    <3> QED BY <3>1, LenProperties
  <2>2. ASSUME NEW n \in 1..N, handed[n].layer = l
        PROVE  /\ order[n][1] = l /\ order[n][2] \in 1..q
               /\ handed[n].captured.id = b + order[n][2] - 1
    <3>1. order[n][1] = l /\ order[n][2] \in 1..q
      BY <1>6, <1>9, <2>1, <2>2
    <3>2. PICK i \in 1..q : i = order[n][2]
      BY <3>1
    <3>3. handed[n].captured = cf[l][i] /\ cf[l][i].id = b + i - 1
      BY <1>9, <1>15, <2>1, <3>1, <3>2
    <3> QED BY <3>1, <3>2, <3>3
  <2>3. ASSUME NEW n \in 1..N, handed[n].layer = l
        PROVE  handed[n].captured.id \in b..((b + q) - 1)
    <3>1. PICK i \in 1..q : i = order[n][2] /\ handed[n].captured.id = b + i - 1
      BY <2>2, <2>3
    <3>2. b + i - 1 \in b..((b + q) - 1)
      OBVIOUS
    <3> QED BY <3>1, <3>2
  <2>4. ASSUME NEW x \in b..((b + q) - 1)
        PROVE  \E n \in 1..N : handed[n].layer = l /\ handed[n].captured.id = x
    <3>1. PICK i \in 1..q : b + i - 1 = x
      <4>1. x - b + 1 \in 1..q /\ b + (x - b + 1) - 1 = x
        OBVIOUS
      <4> QED BY <4>1
    <3>2. <<l, i>> \in Waiting
      BY <2>1, WaitingFinite
    <3>3. PICK n \in 1..N : order[n] = <<l, i>>
      BY <1>8, <3>2
    <3>4. handed[n].layer = l /\ order[n][2] = i
      BY <1>9, <3>3
    <3> QED BY <2>2, <3>1, <3>4
  <2>5. ASSUME NEW m \in 1..N, NEW n \in 1..N, handed[m].layer = l, handed[n].layer = l, m < n
        PROVE  handed[m].captured.id < handed[n].captured.id
    <3>1. PICK i \in 1..q, j \in 1..q :
            /\ i = order[m][2] /\ handed[m].captured.id = b + i - 1
            /\ j = order[n][2] /\ handed[n].captured.id = b + j - 1
      BY <2>2, <2>5
    <3>2. order[m][1] = l /\ order[n][1] = l /\ l \in Int
      BY <1>4, <1>5, <2>2, <2>5
    <3>3. i < j
      BY <1>1, <2>5, <3>1, <3>2
    <3>4. b + i - 1 < b + j - 1
      BY <3>3
    <3> QED BY <3>1, <3>4
  <2>6. b <= b + q
    OBVIOUS
  <2> QED BY <2>1, <2>3, <2>4, <2>5, <2>6 DEF HandedInOrder
<1>16. ASSUME NEW l \in layers
       PROVE  \E k \in 0..Len(cf[l]) :
                /\ Len(captured_frames'[l]) = Len(cf[l]) - k
                /\ \A i \in 1..Len(captured_frames'[l]) :
                     captured_frames'[l][i].id = cf[l][k + i].id
                /\ \A b \in Nat :
                     (\A i \in 1..Len(cf[l]) : cf[l][i].id = b + i - 1)
                       => HandedInOrder(handed, N, l, b, b + k)
  <2>1. PICK q \in Nat : q = Len(cf[l])
    <3>1. cf[l] \in Seq(CapturedFrame)
      BY <1>4
    <3> QED BY <3>1, LenProperties
  <2>2. Len(captured_frames'[l]) = 0 /\ l \in Layers
    BY <1>4, <1>14
  <2>3. q \in 0..q /\ q - q = 0 /\ \A i \in 1..0 : FALSE
    OBVIOUS
  <2> QED BY <1>15, <2>1, <2>2, <2>3
<1>17. HandsOn(decodes, handed, N, captured_frames')
  <2>1. \A l \in Layers : \A i \in 1..Len(captured_frames'[l]) :
          Waits(captured_frames'[l][i], decodes[l])
    BY <1>14
  <2> QED BY <1>2, <1>3, <1>4, <1>10, <1>11, <1>12, <1>13, <1>14, <1>16, <2>1 DEF HandsOn
<1> QED BY <1>17

\* How often decodes have been used does not matter to what waits.
LEMMA WaitsKept ==
  ASSUME NEW c \in CapturedFrame, NEW ds \in Seq(DecodedFrame), NEW es,
         Len(es) = Len(ds), \A d \in 1..Len(ds) : es[d].frame = ds[d].frame,
         Waits(c, ds)
  PROVE  Waits(c, es)
<1>1. PICK n \in Nat : n = Len(ds)
  BY LenProperties
<1>2. c.since \in Nat \ {0} /\ c.best_decode \in Nat
  BY DEF CapturedFrame
<1>3. \A d \in c.since..n : d \in 1..n
  BY <1>2
<1>4. IsBest(c.frame, ds, c.since, n, c.best_decode)
  BY <1>1 DEF Waits
<1>5. \A d \in c.since..n : es[d].frame = ds[d].frame
  BY <1>1, <1>3
<1>6. IsBest(c.frame, es, c.since, n, c.best_decode)
  <2>1. c.since \in Nat
    BY <1>2
  <2> QED BY ONLY <1>2, <1>4, <1>5, <2>1, n \in Nat, BestKept
<1> QED BY <1>1, <1>6 DEF Waits

\* Every pair has its best decode.
PairedInv == \A i \in 1..Len(pairs) : Paired(pairs[i], layers, decodes)
\* Of a layer, the frames before the a-th that it is to match are in pairs or wait.
LayerInOrder(ps, l, f, cf, a) ==
  \E b \in Nat : /\ b + Len(cf) = a /\ Ordered(ps, l, f, b)
                 /\ \A i \in 1..Len(cf) : cf[i].id = b + i - 1

\* What is handed on fits the decodes.
LEMMA HandedFits ==
  ASSUME NEW ds, NEW handed, NEW N, NEW cf, HandsOn(ds, handed, N, cf)
  PROVE  Fits(ds, handed, N)
BY DEF HandsOn, Fits, Waits

\* What handing on does to the types, to what waits, to the pairs, to the
\* repetitions and to the order.
LEMMA HandsOnTypes ==
  ASSUME MatcherTypes, NEW ds, NEW handed, NEW N, HandsOn(ds, handed, N, captured_frames')
  PROVE  /\ pairs' \in Seq(VideoFramePair)
         /\ decodes' \in [Layers -> Seq(DecodedFrame)]
         /\ captured_frames' \in [Layers -> Seq(CapturedFrame)]
         /\ \A l \in Layers : /\ Len(decodes'[l]) = Len(ds[l])
                              /\ \A d \in 1..Len(ds[l]) : decodes'[l][d].frame = ds[l][d].frame
<1>1. /\ ds \in [Layers -> Seq(DecodedFrame)] /\ N \in Nat /\ handed \in Handed(N)
      /\ HandleMatches(ds, handed) /\ captured_frames' \in [Layers -> Seq(CapturedFrame)]
  BY DEF HandsOn
<1>2. Fits(ds, handed, N)
  BY HandedFits
<1>3. pairs \in Seq(VideoFramePair)
  BY DEF MatcherTypes
<1> QED BY <1>1, <1>2, <1>3, HandOver

LEMMA HandsOnWaits ==
  ASSUME MatcherTypes, NEW ds, NEW handed, NEW N, HandsOn(ds, handed, N, captured_frames'),
         layers' = layers
  PROVE  WaitInv'
<1>1. /\ captured_frames' \in [Layers -> Seq(CapturedFrame)]
      /\ \A l \in Layers : /\ Len(decodes'[l]) = Len(ds[l])
                           /\ \A d \in 1..Len(ds[l]) : decodes'[l][d].frame = ds[l][d].frame
  BY HandsOnTypes
<1>2. /\ ds \in [Layers -> Seq(DecodedFrame)]
      /\ \A l \in Layers : \A i \in 1..Len(captured_frames'[l]) :
           Waits(captured_frames'[l][i], ds[l])
      /\ \A l \in Layers : l \notin layers => captured_frames'[l] = <<>>
  BY DEF HandsOn
<1>3. ASSUME NEW l \in Layers, NEW i \in 1..Len(captured_frames'[l])
      PROVE  Waits(captured_frames'[l][i], decodes'[l])
  <2>1. ds[l] \in Seq(DecodedFrame) /\ captured_frames'[l] \in Seq(CapturedFrame)
    BY <1>1, <1>2
  <2>2. PICK c \in CapturedFrame : c = captured_frames'[l][i]
    BY <2>1, ElementOfSeq
  <2>3. Waits(c, ds[l])
    BY <1>2, <2>2
  <2>4. Waits(c, decodes'[l])
    BY <1>1, <2>1, <2>3, WaitsKept
  <2> QED BY <2>2, <2>4
<1> QED BY <1>2, <1>3 DEF WaitInv

LEMMA HandsOnPaired ==
  ASSUME MatcherTypes, PairedInv, NEW ds, NEW handed, NEW N,
         HandsOn(ds, handed, N, captured_frames'), layers' = layers
  PROVE  PairedInv'
<1>1. /\ ds \in [Layers -> Seq(DecodedFrame)] /\ N \in Nat /\ handed \in Handed(N)
      /\ HandleMatches(ds, handed)
      /\ \A n \in 1..N : /\ handed[n].layer \in layers
                         /\ Waits(handed[n].captured, ds[handed[n].layer])
                         /\ handed[n].captured.matched \/ Head(tasks).kind = "finalize"
      /\ \A l \in Layers : SameSoFar(decodes[l], ds[l])
  BY DEF HandsOn
<1>2. Fits(ds, handed, N)
  BY HandedFits
<1>3. /\ pairs \in Seq(VideoFramePair) /\ layers \in SUBSET Layers
      /\ decodes \in [Layers -> Seq(DecodedFrame)]
  BY DEF MatcherTypes
<1>4. \A l \in layers : /\ Len(decodes[l]) <= Len(ds[l])
                        /\ \A d \in 1..Len(decodes[l]) : ds[l][d].frame = decodes[l][d].frame
  BY <1>1, <1>3 DEF SameSoFar
<1>5. ASSUME NEW i \in 1..Len(pairs) PROVE Paired(pairs[i], layers, ds)
  <2>1. pairs[i] \in VideoFramePair /\ Paired(pairs[i], layers, decodes)
    BY <1>3, ElementOfSeq DEF PairedInv
  <2> QED BY <1>1, <1>3, <1>4, <2>1, PairedKept
<1>6. \A i \in 1..Len(pairs') : Paired(pairs'[i], layers, decodes')
  BY <1>1, <1>2, <1>3, <1>5, HandOverPairs
<1> QED BY <1>6 DEF PairedInv, Paired

LEMMA HandsOnUses ==
  ASSUME MatcherTypes, PairedInv, Unused(pairs, decodes), FirstUses(pairs),
         NEW ds, NEW handed, NEW N, HandsOn(ds, handed, N, captured_frames')
  PROVE  Unused(pairs, decodes)' /\ FirstUses(pairs)'
<1>1. /\ ds \in [Layers -> Seq(DecodedFrame)] /\ N \in Nat /\ handed \in Handed(N)
      /\ HandleMatches(ds, handed) /\ \A l \in Layers : SameSoFar(decodes[l], ds[l])
  BY DEF HandsOn
<1>2. Fits(ds, handed, N)
  BY HandedFits
<1>3. /\ pairs \in Seq(VideoFramePair) /\ layers \in SUBSET Layers
      /\ decodes \in [Layers -> Seq(DecodedFrame)]
  BY DEF MatcherTypes
<1>4. ASSUME NEW l \in Layers, NEW d \in 1..Len(ds[l])
      PROVE  ds[l][d].repeat_count = 0 <=> \A i \in 1..Len(pairs) : ~Shows(pairs[i], l, d)
  <2>1. PICK k \in Nat : k = Len(decodes[l])
    <3>1. decodes[l] \in Seq(DecodedFrame)
      BY <1>3
    <3> QED BY <3>1, LenProperties
  <2>2. CASE d \in 1..k
    <3>1. ds[l][d] = decodes[l][d]
      BY <1>1, <2>1, <2>2 DEF SameSoFar
    <3> QED BY <2>1, <2>2, <3>1 DEF Unused
  <2>3. CASE d \notin 1..k
    <3>1. ds[l][d].repeat_count = 0
      BY <1>1, <2>1, <2>3 DEF SameSoFar
    <3>2. ASSUME NEW i \in 1..Len(pairs), Shows(pairs[i], l, d) PROVE FALSE
      <4>1. PICK p \in VideoFramePair : p = pairs[i]
        BY <1>3, ElementOfSeq
      <4>2. /\ p.layer_id = l /\ p.decode_id = d /\ p.until <= k
            /\ IsBest(p.captured, decodes[l], p.since, p.until, d)
        BY <2>1, <3>2, <4>1 DEF PairedInv, Paired, Shows
      <4>3. d # 0
        <5>1. Len(ds[l]) \in Nat
          <6>1. ds[l] \in Seq(DecodedFrame)
            BY <1>1
          <6> QED BY <6>1, LenProperties
        <5> QED BY <5>1
      <4>4. d \in p.since..p.until /\ p.since \in Nat \ {0} /\ p.until \in Nat
        BY <4>2, <4>3 DEF IsBest, Fitting, VideoFramePair
      <4>5. d \in 1..k
        BY <4>2, <4>4
      <4> QED BY <2>3, <4>5
    <3> QED BY <3>1, <3>2
  <2> QED BY <2>2, <2>3
<1>5. Unused(pairs, ds)
  BY <1>4 DEF Unused
<1> QED BY <1>1, <1>2, <1>3, <1>5, HandOverUses

LEMMA HandsOnOrder ==
  ASSUME MatcherTypes, NEW ds, NEW handed, NEW N,
         HandsOn(ds, handed, N, captured_frames'),
         NEW l \in layers, NEW a \in Nat,
         LayerInOrder(pairs, l, first[l], captured_frames[l], a)
  PROVE  LayerInOrder(pairs', l, first[l], captured_frames'[l], a)
<1>1. /\ ds \in [Layers -> Seq(DecodedFrame)] /\ N \in Nat /\ handed \in Handed(N)
      /\ HandleMatches(ds, handed)
  BY DEF HandsOn
<1>2. Fits(ds, handed, N)
  BY HandedFits
<1>3. pairs \in Seq(VideoFramePair) /\ l \in Layers /\ first[l] \in Nat
  BY DEF MatcherTypes
<1>4. PICK m \in Nat : m = Len(captured_frames[l])
  <2>1. captured_frames[l] \in Seq(CapturedFrame)
    BY <1>3 DEF MatcherTypes
  <2> QED BY <2>1, LenProperties
<1>5. PICK b \in Nat : /\ b + m = a /\ Ordered(pairs, l, first[l], b)
                       /\ \A i \in 1..m : captured_frames[l][i].id = b + i - 1
  BY <1>4 DEF LayerInOrder
<1>6. PICK k \in 0..m :
        /\ Len(captured_frames'[l]) = m - k
        /\ \A i \in 1..(m - k) : captured_frames'[l][i].id = captured_frames[l][k + i].id
        /\ HandedInOrder(handed, N, l, b, b + k)
  <2>1. PICK k \in 0..m :
          /\ Len(captured_frames'[l]) = m - k
          /\ \A i \in 1..Len(captured_frames'[l]) :
               captured_frames'[l][i].id = captured_frames[l][k + i].id
          /\ \A c \in Nat :
               (\A i \in 1..m : captured_frames[l][i].id = c + i - 1)
                 => HandedInOrder(handed, N, l, c, c + k)
    BY <1>4 DEF HandsOn
  <2> QED BY <1>5, <2>1
<1>7. PICK c \in Nat : c = b + k
  BY <1>6
<1>8. Ordered(pairs', l, first[l], c)
  <2>1. HandedInOrder(handed, N, l, b, c)
    BY <1>6, <1>7
  <2> QED BY <1>1, <1>2, <1>3, <1>5, <2>1, HandOverOrder
<1>9. c + (m - k) = a
  BY <1>5, <1>6, <1>7
<1>10. ASSUME NEW i \in 1..(m - k) PROVE captured_frames'[l][i].id = c + i - 1
  <2>1. k + i \in 1..m /\ b + (k + i) - 1 = c + i - 1
    BY <1>6, <1>7
  <2> QED BY <1>5, <1>6, <2>1
<1> QED BY <1>6, <1>8, <1>9, <1>10 DEF LayerInOrder

------------------------------------------------------------------------------
(* The invariant of the matcher, and the calls *)

\* The captured frames come to the layers in the order of their ids.
InOrder ==
  \E a \in Nat : /\ Coming(tasks, a, next_capture_id)
                 /\ \A l \in layers :
                      LayerInOrder(pairs, l, first[l], captured_frames[l], a)
\* A layer is registered once.
RegisterInv ==
  \A i \in 1..Len(tasks) : tasks[i].kind = "register" =>
    /\ tasks[i].layer \notin layers
    /\ \A j \in 1..Len(tasks) : j # i => tasks[j] # tasks[i]
\* The destructor's task is the last one.
FinalInv ==
  /\ \A i \in 1..Len(tasks) : tasks[i].kind = "finalize" =>
       i = Len(tasks) /\ matcher = "finalizing"
  /\ matcher = "destroyed" => tasks = <<>> /\ \A l \in Layers : captured_frames[l] = <<>>
MatcherInv ==
  /\ MatcherTypes /\ WaitInv /\ PairedInv /\ Unused(pairs, decodes) /\ FirstUses(pairs)
  /\ InOrder /\ RegisterInv /\ FinalInv

\* The matcher starts in its invariant.
LEMMA MatcherStarts ==
  ASSUME MatcherInit PROVE MatcherInv
<1>1. MatcherTypes
  <2>1. /\ <<>> \in Seq(MatcherTask) /\ <<>> \in Seq(VideoFramePair)
        /\ <<>> \in Seq(CapturedFrame) /\ <<>> \in Seq(DecodedFrame)
    BY EmptySeq
  <2>2. 1 \in 1..(MaxCaptured + 1)
    BY QualityConstants
  <2> QED BY <2>1, <2>2 DEF MatcherInit, MatcherTypes
<1>2. /\ Len(tasks) = 0 /\ Len(pairs) = 0 /\ next_capture_id = 1
      /\ \A l \in Layers : Len(captured_frames[l]) = 0 /\ Len(decodes[l]) = 0
                           /\ captured_frames[l] = <<>>
  BY DEF MatcherInit
<1>3. (\A i \in 1..0 : FALSE) /\ (\A i \in 1..(1 - 1) : FALSE)
  OBVIOUS
<1>4. WaitInv /\ PairedInv /\ Unused(pairs, decodes) /\ FirstUses(pairs)
  BY <1>2, <1>3 DEF WaitInv, PairedInv, Unused, FirstUses
<1>5. InOrder
  <2>1. Coming(tasks, 1, next_capture_id)
    BY <1>2, <1>3 DEF Coming
  <2> QED BY <2>1 DEF InOrder, MatcherInit
<1>6. RegisterInv /\ FinalInv
  BY <1>2, <1>3 DEF RegisterInv, FinalInv, MatcherInit
<1> QED BY <1>1, <1>4, <1>5, <1>6 DEF MatcherInv

\* A call posts task t.
Posts(t) ==
  /\ t \in MatcherTask /\ tasks' = Append(tasks, t) /\ matcher = "alive"
  /\ UNCHANGED <<layers, captured_frames, decodes, pairs, first>>
  /\ matcher' = IF t.kind = "finalize" THEN "finalizing" ELSE "alive"
  /\ \/ /\ t.kind = "captured" /\ t.id = next_capture_id
        /\ next_capture_id <= MaxCaptured /\ next_capture_id' = next_capture_id + 1
     \/ t.kind # "captured" /\ UNCHANGED next_capture_id
  /\ t.kind = "register" => t.layer \notin layers /\ \A i \in 1..Len(tasks) : tasks[i] # t

\* Every call of the matcher posts a task.
LEMMA CallPosts ==
  ASSUME MatcherTypes, Call PROVE \E t : Posts(t)
<1>1. DOMAIN tasks = 1..Len(tasks)
  BY LenProperties DEF MatcherTypes
<1>2. ASSUME NEW l \in Layers, RegisterLayer(l) PROVE \E t : Posts(t)
  <2>1. PICK t : t = [kind |-> "register", layer |-> l]
    OBVIOUS
  <2>2. t \in MatcherTask /\ t.kind = "register" /\ t.layer = l
    BY <2>1 DEF MatcherTask
  <2>3. Posts(t)
    BY <1>1, <1>2, <2>1, <2>2 DEF RegisterLayer, PostTask, Posts
  <2> QED BY <2>3
<1>3. ASSUME next_capture_id <= MaxCaptured, NEW f \in Frames, OnCapturedFrame(f)
      PROVE  \E t : Posts(t)
  <2>1. PICK t : t = [kind |-> "captured", id |-> next_capture_id, frame |-> f]
    OBVIOUS
  <2>2. t \in MatcherTask /\ t.kind = "captured" /\ t.id = next_capture_id
    <3>1. next_capture_id \in Nat
      BY QualityConstants DEF MatcherTypes
    <3> QED BY <2>1, <3>1 DEF MatcherTask
  <2>3. Posts(t)
    BY <1>3, <2>1, <2>2 DEF OnCapturedFrame, PostTask, Posts
  <2> QED BY <2>3
<1>4. ASSUME NEW l \in Layers, NEW f \in Frames, OnDecodedFrame(f, l) PROVE \E t : Posts(t)
  <2>1. PICK t : t = [kind |-> "decoded", layer |-> l, frame |-> f]
    OBVIOUS
  <2>2. t \in MatcherTask /\ t.kind = "decoded"
    BY <2>1 DEF MatcherTask
  <2>3. Posts(t)
    BY <1>4, <2>1, <2>2 DEF OnDecodedFrame, PostTask, Posts
  <2> QED BY <2>3
<1>5. ASSUME Destroy PROVE \E t : Posts(t)
  <2>1. PICK t : t = [kind |-> "finalize"]
    OBVIOUS
  <2>2. t \in MatcherTask /\ t.kind = "finalize"
    BY <2>1 DEF MatcherTask
  <2>3. Posts(t)
    BY <1>5, <2>1, <2>2 DEF Destroy, PostTask, Posts
  <2> QED BY <2>3
<1> QED BY <1>2, <1>3, <1>4, <1>5 DEF Call

\* Posting a task keeps the invariant.
LEMMA PostKeeps ==
  ASSUME MatcherInv, NEW t, Posts(t) PROVE MatcherInv'
<1> USE DEF MatcherInv
<1>1. t \in MatcherTask /\ tasks \in Seq(MatcherTask) /\ tasks' = Append(tasks, t)
  BY DEF Posts, MatcherTypes
<1>2. PICK m \in Nat : m = Len(tasks)
  BY <1>1, LenProperties
<1>3. /\ tasks' \in Seq(MatcherTask) /\ Len(tasks') = m + 1 /\ tasks'[m + 1] = t
      /\ \A i \in 1..m : tasks'[i] = tasks[i]
      /\ \A i \in 1..(m + 1) : i = m + 1 \/ i \in 1..m
      /\ \A i \in 1..m : i \in 1..(m + 1) /\ i # m + 1
  BY <1>1, <1>2, AppendFacts
<1>4. /\ layers' = layers /\ captured_frames' = captured_frames /\ decodes' = decodes
      /\ pairs' = pairs /\ first' = first /\ matcher = "alive"
  BY DEF Posts
<1>5. MatcherTypes'
  <2>1. next_capture_id' \in 1..(MaxCaptured + 1)
    BY QualityConstants DEF Posts, MatcherTypes
  <2>2. matcher' \in {"alive", "finalizing", "destroyed"}
    BY DEF Posts
  <2> QED BY <1>3, <1>4, <2>1, <2>2 DEF MatcherTypes
<1>6. WaitInv'
  BY <1>4 DEF WaitInv
<1>7. PairedInv' /\ Unused(pairs, decodes)' /\ FirstUses(pairs)'
  <2>1. PairedInv'
    BY <1>4 DEF PairedInv, Paired
  <2>2. Unused(pairs, decodes)'
    BY <1>4 DEF Unused, Shows
  <2>3. FirstUses(pairs)'
    BY <1>4 DEF FirstUses, FirstShown, Shows
  <2> QED BY <2>1, <2>2, <2>3
<1>8. InOrder'
  <2>1. PICK a \in Nat : /\ Coming(tasks, a, next_capture_id)
                         /\ \A l \in layers :
                              LayerInOrder(pairs, l, first[l], captured_frames[l], a)
    BY DEF InOrder
  <2>2. next_capture_id \in Nat
    BY QualityConstants DEF MatcherTypes
  <2>3. Coming(tasks', a, next_capture_id')
    <3>1. CASE t.kind = "captured"
      <4>1. t.id = next_capture_id /\ next_capture_id' = next_capture_id + 1
        BY <3>1 DEF Posts
      <4> QED BY <1>1, <2>1, <2>2, <3>1, <4>1, PostCaptured
    <3>2. CASE t.kind # "captured"
      <4>1. next_capture_id' = next_capture_id
        BY <3>2 DEF Posts
      <4> QED BY <1>1, <2>1, <3>2, <4>1, PostOther
    <3> QED BY <3>1, <3>2
  <2>4. \A l \in layers' : LayerInOrder(pairs', l, first'[l], captured_frames'[l], a)
    BY <1>4, <2>1
  <2>5. \E c \in Nat : /\ Coming(tasks', c, next_capture_id')
                       /\ \A l \in layers' :
                            LayerInOrder(pairs', l, first'[l], captured_frames'[l], c)
    BY <2>3, <2>4
  <2> QED BY <2>5 DEF InOrder, Coming, LayerInOrder, Ordered
<1>9. RegisterInv'
  <2>1. ASSUME NEW i \in 1..(m + 1), tasks'[i].kind = "register"
        PROVE  tasks'[i].layer \notin layers
               /\ \A j \in 1..(m + 1) : j # i => tasks'[j] # tasks'[i]
    <3>1. CASE i = m + 1
      <4>1. t.kind = "register"
        BY <1>3, <2>1, <3>1
      <4>2. t.layer \notin layers /\ \A j \in 1..m : tasks[j] # t
        BY <1>2, <4>1 DEF Posts
      <4> QED BY <1>3, <3>1, <4>2
    <3>2. CASE i \in 1..m
      <4>1. tasks[i].kind = "register" /\ tasks'[i] = tasks[i]
        BY <1>3, <2>1, <3>2
      <4>2. tasks[i].layer \notin layers /\ \A j \in 1..m : j # i => tasks[j] # tasks[i]
        BY <1>2, <3>2, <4>1 DEF RegisterInv
      <4>3. t # tasks[i]
        <5>1. SUFFICES ASSUME t = tasks[i] PROVE FALSE
          OBVIOUS
        <5>2. \A j \in 1..m : tasks[j] # t
          BY <1>2, <4>1, <5>1 DEF Posts
        <5> QED BY <3>2, <5>1, <5>2
      <4> QED BY <1>3, <4>1, <4>2, <4>3
    <3> QED BY <1>3, <3>1, <3>2
  <2> QED BY <1>3, <1>4, <2>1 DEF RegisterInv
<1>10. FinalInv'
  <2>1. ASSUME NEW i \in 1..(m + 1), tasks'[i].kind = "finalize"
        PROVE  i = m + 1 /\ matcher' = "finalizing"
    <3>1. i = m + 1
      <4>1. CASE i \in 1..m
        <5>1. tasks[i].kind = "finalize"
          BY <1>3, <2>1, <4>1
        <5>2. matcher = "finalizing"
          BY <1>2, <4>1, <5>1 DEF FinalInv
        <5> QED BY <1>4, <5>2
      <4> QED BY <1>3, <4>1
    <3> QED BY <1>3, <2>1, <3>1 DEF Posts
  <2>2. matcher' # "destroyed"
    BY DEF Posts
  <2> QED BY <1>3, <2>1, <2>2 DEF FinalInv
<1> QED BY <1>5, <1>6, <1>7, <1>8, <1>9, <1>10

------------------------------------------------------------------------------
(* The tasks *)

\* Running the first task leaves the others.
LeavesTasks(t) ==
  /\ tasks' \in Seq(MatcherTask) /\ t \in MatcherTask /\ matcher # "destroyed"
  /\ t.kind = "finalize" => tasks' = <<>>
  /\ \A i \in 1..Len(tasks') : tasks'[i].kind = "finalize" =>
       i = Len(tasks') /\ matcher = "finalizing"
  /\ \A i \in 1..Len(tasks') : tasks'[i].kind = "register" =>
       /\ tasks'[i].layer \notin layers /\ tasks'[i] # t
       /\ \A j \in 1..Len(tasks') : j # i => tasks'[j] # tasks'[i]
  /\ t.kind = "register" => t.layer \in Layers \ layers

\* The first task can be run like that.
LEMMA TaskLeaves ==
  ASSUME MatcherInv, tasks # <<>>, tasks' = Tail(tasks), NEW t, t = Head(tasks)
  PROVE  LeavesTasks(t)
<1> USE DEF MatcherInv
<1>1. tasks \in Seq(MatcherTask)
  BY DEF MatcherTypes
<1>2. PICK m \in Nat : m = Len(tasks)
  BY <1>1, LenProperties
<1>3. /\ tasks' \in Seq(MatcherTask) /\ Len(tasks') = m - 1 /\ m - 1 \in Nat
      /\ t = tasks[1] /\ 1 \in 1..m
      /\ \A i \in 1..(m - 1) : tasks'[i] = tasks[i + 1] /\ i + 1 \in 1..m
  BY <1>1, <1>2, TailFacts
<1>4. t \in MatcherTask
  BY <1>1, <1>2, <1>3, ElementOfSeq
<1>5. matcher # "destroyed"
  BY DEF FinalInv
<1>6. t.kind = "finalize" => tasks' = <<>>
  <2>1. SUFFICES ASSUME t.kind = "finalize" PROVE tasks' = <<>>
    OBVIOUS
  <2>2. m = 1
    BY <1>2, <1>3, <2>1 DEF FinalInv
  <2>3. Len(tasks') = 0
    BY <1>3, <2>2
  <2> QED BY <1>3, <2>3, EmptySeq
<1>7. ASSUME NEW i \in 1..(m - 1), tasks'[i].kind = "finalize"
      PROVE  i = m - 1 /\ matcher = "finalizing"
  <2>1. tasks[i + 1].kind = "finalize" /\ i + 1 \in 1..m
    BY <1>3, <1>7
  <2>2. i + 1 = m /\ matcher = "finalizing"
    BY <1>2, <2>1 DEF FinalInv
  <2> QED BY <2>2
<1>8. ASSUME NEW i \in 1..(m - 1), tasks'[i].kind = "register"
      PROVE  /\ tasks'[i].layer \notin layers /\ tasks'[i] # t
             /\ \A j \in 1..(m - 1) : j # i => tasks'[j] # tasks'[i]
  <2>1. PICK k \in 1..m : k = i + 1 /\ tasks'[i] = tasks[k]
    BY <1>3
  <2>2. tasks[k].layer \notin layers /\ \A j \in 1..m : j # k => tasks[j] # tasks[k]
    BY <1>2, <1>8, <2>1 DEF RegisterInv
  <2>3. tasks[1] # tasks[k]
    BY <1>3, <2>1, <2>2
  <2>4. ASSUME NEW j \in 1..(m - 1), j # i PROVE tasks'[j] # tasks'[i]
    <3>1. PICK h \in 1..m : h = j + 1 /\ tasks'[j] = tasks[h]
      BY <1>3
    <3>2. h # k
      BY <2>1, <2>4, <3>1
    <3> QED BY <2>1, <2>2, <3>1, <3>2
  <2> QED BY <1>3, <2>1, <2>2, <2>3, <2>4
<1>9. t.kind = "register" => t.layer \in Layers \ layers
  <2>1. SUFFICES ASSUME t.kind = "register" PROVE t.layer \in Layers \ layers
    OBVIOUS
  <2>2. t.layer \in Layers
    BY <1>4, <2>1 DEF MatcherTask
  <2>3. t.layer \notin layers
    BY <1>2, <1>3, <2>1 DEF RegisterInv
  <2> QED BY <2>2, <2>3
<1> QED BY <1>3, <1>4, <1>5, <1>6, <1>7, <1>8, <1>9 DEF LeavesTasks

\* A task that hands frames on.
LEMMA HandsOnKeeps ==
  ASSUME MatcherInv, tasks # <<>>, tasks' = Tail(tasks), NEW t, t = Head(tasks),
         t.kind # "captured", UNCHANGED <<next_capture_id, layers, first>>,
         matcher' = IF t.kind = "finalize" THEN "destroyed" ELSE matcher,
         t.kind = "finalize" => \A l \in Layers : captured_frames'[l] = <<>>,
         NEW ds, NEW handed, NEW N, HandsOn(ds, handed, N, captured_frames')
  PROVE  MatcherInv'
<1> USE DEF MatcherInv
<1>1. LeavesTasks(t)
  BY TaskLeaves
<1>2. MatcherTypes'
  <2>1. /\ pairs' \in Seq(VideoFramePair)
        /\ decodes' \in [Layers -> Seq(DecodedFrame)]
        /\ captured_frames' \in [Layers -> Seq(CapturedFrame)]
    BY HandsOnTypes
  <2>2. tasks' \in Seq(MatcherTask)
    BY <1>1 DEF LeavesTasks
  <2>3. matcher' \in {"alive", "finalizing", "destroyed"}
    BY DEF MatcherTypes
  <2> QED BY <2>1, <2>2, <2>3 DEF MatcherTypes
<1>3. WaitInv'
  BY HandsOnWaits
<1>4. PairedInv'
  BY HandsOnPaired
<1>5. Unused(pairs, decodes)' /\ FirstUses(pairs)'
  BY HandsOnUses
<1>6. InOrder'
  <2>1. PICK a \in Nat : /\ Coming(tasks, a, next_capture_id)
                         /\ \A l \in layers :
                              LayerInOrder(pairs, l, first[l], captured_frames[l], a)
    BY DEF InOrder
  <2>2. next_capture_id \in Nat /\ tasks \in Seq(MatcherTask)
    BY QualityConstants DEF MatcherTypes
  <2>3. Coming(tasks', a, next_capture_id')
    BY <2>1, <2>2, RunOther
  <2>4. ASSUME NEW l \in layers
        PROVE  LayerInOrder(pairs', l, first[l], captured_frames'[l], a)
    <3>1. LayerInOrder(pairs, l, first[l], captured_frames[l], a)
      BY <2>1
    <3> QED BY <3>1, HandsOnOrder
  <2>5. \E c \in Nat : /\ Coming(tasks', c, next_capture_id')
                       /\ \A l \in layers' :
                            LayerInOrder(pairs', l, first'[l], captured_frames'[l], c)
    BY <2>3, <2>4
  <2> QED BY <2>5 DEF InOrder, Coming, LayerInOrder, Ordered
<1>7. RegisterInv'
  BY <1>1 DEF LeavesTasks, RegisterInv
<1>8. FinalInv'
  BY <1>1 DEF LeavesTasks, FinalInv
<1> QED BY <1>2, <1>3, <1>4, <1>5, <1>6, <1>7, <1>8

\* The registration of a layer keeps the invariant.
LEMMA RegisterKeeps ==
  ASSUME MatcherInv, tasks # <<>>, tasks' = Tail(tasks), NEW t, t = Head(tasks),
         UNCHANGED next_capture_id, RunRegister(t)
  PROVE  MatcherInv'
<1> USE DEF MatcherInv
<1>1. LeavesTasks(t)
  BY TaskLeaves
<1>2. PICK l \in Layers \ layers : t.kind = "register" /\ l = t.layer
  BY <1>1 DEF LeavesTasks, RunRegister
<1>3. /\ layers' = layers \cup {l} /\ captured_frames' = [captured_frames EXCEPT ![l] = <<>>]
      /\ decodes' = [decodes EXCEPT ![l] = <<>>] /\ first' = [first EXCEPT ![l] = NextToCome]
      /\ matcher' = matcher /\ pairs' = pairs
  BY <1>2 DEF RunRegister
<1>4. /\ captured_frames \in [Layers -> Seq(CapturedFrame)]
      /\ decodes \in [Layers -> Seq(DecodedFrame)]
      /\ first \in [Layers -> Nat] /\ pairs \in Seq(VideoFramePair)
      /\ layers \in SUBSET Layers
      /\ tasks \in Seq(MatcherTask) /\ next_capture_id \in Nat
  BY QualityConstants DEF MatcherTypes
<1>5. captured_frames'[l] = <<>> /\ decodes'[l] = <<>> /\ first'[l] = NextToCome
      /\ \A j \in Layers : j # l =>
           /\ captured_frames'[j] = captured_frames[j] /\ decodes'[j] = decodes[j]
           /\ first'[j] = first[j]
  BY <1>3, <1>4
<1>6. PICK a \in Nat : /\ Coming(tasks, a, next_capture_id)
                       /\ \A j \in layers :
                            LayerInOrder(pairs, j, first[j], captured_frames[j], a)
  BY DEF InOrder
<1>7. NextToCome = a
  BY <1>4, <1>6, ComesNext
<1>8. MatcherTypes'
  <2>1. tasks' \in Seq(MatcherTask)
    BY <1>1 DEF LeavesTasks
  <2>2. <<>> \in Seq(CapturedFrame) /\ <<>> \in Seq(DecodedFrame)
    BY EmptySeq
  <2>3. /\ captured_frames' \in [Layers -> Seq(CapturedFrame)]
        /\ decodes' \in [Layers -> Seq(DecodedFrame)]
        /\ first' \in [Layers -> Nat]
    BY <1>3, <1>4, <1>7, <2>2
  <2>4. layers' \in SUBSET Layers
    BY <1>3, <1>4
  <2> QED BY <1>3, <2>1, <2>3, <2>4 DEF MatcherTypes
<1>9. Len(<<>>) = 0 /\ \A i \in 1..0 : FALSE
  OBVIOUS
<1>10. \A i \in 1..Len(pairs) : pairs[i].layer_id # l
  BY DEF PairedInv, Paired
<1>11. WaitInv'
  <2>1. ASSUME NEW j \in Layers, NEW i \in 1..Len(captured_frames'[j])
        PROVE  Waits(captured_frames'[j][i], decodes'[j])
    BY <1>5, <1>9 DEF WaitInv
  <2>2. ASSUME NEW j \in Layers, j \notin layers' PROVE captured_frames'[j] = <<>>
    BY <1>3, <1>5, <2>2 DEF WaitInv
  <2> QED BY <2>1, <2>2 DEF WaitInv
<1>12. PairedInv'
  <2>1. ASSUME NEW i \in 1..Len(pairs) PROVE Paired(pairs[i], layers', decodes')
    <3>1. Paired(pairs[i], layers, decodes)
      BY DEF PairedInv
    <3>2. PICK j \in layers : j = pairs[i].layer_id
      BY <3>1 DEF Paired
    <3>3. j # l /\ j \in Layers
      BY <1>4, <3>2
    <3>4. j \in layers' /\ decodes'[j] = decodes[j]
      BY <1>3, <1>5, <3>2, <3>3
    <3> QED BY <3>1, <3>2, <3>4 DEF Paired
  <2> QED BY <1>3, <2>1 DEF PairedInv, Paired
<1>13. Unused(pairs, decodes)'
  <2>1. ASSUME NEW j \in Layers, NEW d \in 1..Len(decodes'[j])
        PROVE  decodes'[j][d].repeat_count = 0
                 <=> \A i \in 1..Len(pairs) : ~Shows(pairs[i], j, d)
    BY <1>5, <1>9 DEF Unused
  <2> QED BY <1>3, <2>1 DEF Unused, Shows
<1>14. FirstUses(pairs)'
  BY <1>3 DEF FirstUses, FirstShown, Shows
<1>15. InOrder'
  <2>1. Coming(tasks', a, next_capture_id')
    BY <1>2, <1>4, <1>6, RunOther
  <2>2. ASSUME NEW j \in layers' PROVE LayerInOrder(pairs', j, first'[j], captured_frames'[j], a)
    <3>1. CASE j = l
      <4>1. Ordered(pairs, l, a, a)
        <5>1. a <= a /\ \A n \in a..(a - 1) : FALSE
          OBVIOUS
        <5> QED BY <1>10, <5>1 DEF Ordered
      <4>2. a + Len(captured_frames'[l]) = a /\ \A i \in 1..Len(captured_frames'[l]) : FALSE
        BY <1>5, <1>9
      <4>3. \E b \in Nat : /\ b + Len(captured_frames'[l]) = a /\ Ordered(pairs, l, a, b)
                           /\ \A i \in 1..Len(captured_frames'[l]) :
                                captured_frames'[l][i].id = b + i - 1
        BY <4>1, <4>2
      <4> QED BY <1>3, <1>5, <1>7, <3>1, <4>3 DEF LayerInOrder
    <3>2. CASE j # l
      <4>1. j \in layers
        BY <1>3, <3>2
      <4> QED BY <1>3, <1>4, <1>5, <1>6, <3>2, <4>1
    <3> QED BY <3>1, <3>2
  <2>3. \E c \in Nat : /\ Coming(tasks', c, next_capture_id')
                       /\ \A j \in layers' :
                            LayerInOrder(pairs', j, first'[j], captured_frames'[j], c)
    BY <2>1, <2>2
  <2> QED BY <2>3 DEF InOrder, Coming, LayerInOrder, Ordered
<1>16. RegisterInv'
  <2>1. ASSUME NEW i \in 1..Len(tasks'), tasks'[i].kind = "register"
        PROVE  tasks'[i].layer # l
    <3>1. tasks'[i] # t /\ t \in MatcherTask
      BY <1>1, <2>1 DEF LeavesTasks
    <3>2. tasks'[i] \in MatcherTask
      <4>1. tasks' \in Seq(MatcherTask)
        BY <1>1 DEF LeavesTasks
      <4> QED BY <4>1, ElementOfSeq
    <3>3. /\ tasks'[i] = [kind |-> "register", layer |-> tasks'[i].layer]
          /\ t = [kind |-> "register", layer |-> t.layer]
      BY <1>2, <2>1, <3>1, <3>2 DEF MatcherTask
    <3> QED BY <1>2, <3>1, <3>3
  <2> QED BY <1>1, <1>3, <2>1 DEF LeavesTasks, RegisterInv
<1>17. FinalInv'
  <2>1. matcher' # "destroyed"
    BY <1>1, <1>3 DEF LeavesTasks
  <2> QED BY <1>1, <1>3, <2>1 DEF LeavesTasks, FinalInv
<1> QED BY <1>8, <1>11, <1>12, <1>13, <1>14, <1>15, <1>16, <1>17

\* A captured frame keeps the invariant.
LEMMA CapturedKeeps ==
  ASSUME MatcherInv, tasks # <<>>, tasks' = Tail(tasks), NEW t, t = Head(tasks),
         UNCHANGED next_capture_id, RunCaptured(t)
  PROVE  MatcherInv'
<1> USE DEF MatcherInv
<1>1. LeavesTasks(t)
  BY TaskLeaves
<1>2. t.kind = "captured" /\ t.id \in Nat /\ t.frame \in Frames
  BY <1>1 DEF LeavesTasks, RunCaptured, MatcherTask
<1>3. /\ layers' = layers /\ decodes' = decodes /\ first' = first
      /\ matcher' = matcher /\ pairs' = pairs
  BY DEF RunCaptured
<1>4. /\ captured_frames \in [Layers -> Seq(CapturedFrame)]
      /\ decodes \in [Layers -> Seq(DecodedFrame)]
      /\ first \in [Layers -> Nat] /\ pairs \in Seq(VideoFramePair)
      /\ layers \in SUBSET Layers
      /\ tasks \in Seq(MatcherTask) /\ next_capture_id \in Nat
  BY QualityConstants DEF MatcherTypes
<1>5. PICK a \in Nat : /\ Coming(tasks, a, next_capture_id)
                       /\ \A j \in layers :
                            LayerInOrder(pairs, j, first[j], captured_frames[j], a)
  BY DEF InOrder
<1>6. t.id = a /\ Coming(tasks', a + 1, next_capture_id)
  BY <1>2, <1>4, <1>5, RunComing
<1>7. ASSUME NEW l \in Layers
      PROVE  /\ Captured(t, l) \in CapturedFrame /\ Captured(t, l).id = a
             /\ Waits(Captured(t, l), decodes[l])
  <2>1. PICK c : c = Captured(t, l)
    OBVIOUS
  <2>2. decodes[l] \in Seq(DecodedFrame)
    BY <1>4
  <2>3. PICK n \in Nat : n = Len(decodes[l])
    BY <2>2, LenProperties
  <2>4. /\ c \in CapturedFrame /\ ~c.matched /\ c.id = t.id /\ c.best_decode <= n
        /\ IsBest(c.frame, decodes[l], c.since, n, c.best_decode)
    BY <1>2, <2>1, <2>2, <2>3, CapturedBest
  <2>5. c.since <= n + 1
    <3>1. c.since = IF n = 0 THEN 1 ELSE n
      BY <2>1, <2>3 DEF Captured
    <3> QED BY <3>1
  <2>6. Waits(c, decodes[l])
    BY <2>3, <2>4, <2>5 DEF Waits
  <2> QED BY <1>6, <2>1, <2>4, <2>6
<1>8. \A l \in Layers : captured_frames'[l] = IF l \in layers
                                              THEN Append(captured_frames[l], Captured(t, l))
                                              ELSE captured_frames[l]
  BY DEF RunCaptured
<1>9. ASSUME NEW l \in layers
      PROVE  \E m \in Nat :
               /\ m = Len(captured_frames[l])
               /\ captured_frames'[l] \in Seq(CapturedFrame)
               /\ Len(captured_frames'[l]) = m + 1
               /\ captured_frames'[l][m + 1] = Captured(t, l)
               /\ \A i \in 1..m : captured_frames'[l][i] = captured_frames[l][i]
               /\ \A i \in 1..(m + 1) : i = m + 1 \/ i \in 1..m
  <2>1. l \in Layers /\ captured_frames[l] \in Seq(CapturedFrame)
    BY <1>4
  <2>2. PICK m \in Nat : m = Len(captured_frames[l])
    BY <2>1, LenProperties
  <2>3. PICK c \in CapturedFrame : c = Captured(t, l)
    BY <1>7, <2>1
  <2>4. captured_frames'[l] = Append(captured_frames[l], c)
    BY <1>8, <2>1, <2>3
  <2> QED BY <2>1, <2>2, <2>3, <2>4, AppendFacts
<1>10. MatcherTypes'
  <2>1. tasks' \in Seq(MatcherTask)
    BY <1>1 DEF LeavesTasks
  <2>2. captured_frames' \in [Layers -> Seq(CapturedFrame)]
    <3>1. \A l \in Layers : captured_frames'[l] \in Seq(CapturedFrame)
      BY <1>4, <1>8, <1>9
    <3>2. captured_frames' = [l \in Layers |-> captured_frames'[l]]
      BY DEF RunCaptured
    <3> QED BY <3>1, <3>2
  <2> QED BY <1>3, <2>1, <2>2 DEF MatcherTypes
<1>11. WaitInv'
  <2>1. ASSUME NEW l \in Layers, NEW i \in 1..Len(captured_frames'[l])
        PROVE  Waits(captured_frames'[l][i], decodes'[l])
    <3>1. CASE l \in layers
      <4>1. PICK m \in Nat :
               /\ m = Len(captured_frames[l])
               /\ Len(captured_frames'[l]) = m + 1
               /\ captured_frames'[l][m + 1] = Captured(t, l)
               /\ \A h \in 1..m : captured_frames'[l][h] = captured_frames[l][h]
               /\ \A h \in 1..(m + 1) : h = m + 1 \/ h \in 1..m
        BY <1>9, <3>1
      <4>2. CASE i = m + 1
        BY <1>3, <1>7, <4>1, <4>2
      <4>3. CASE i \in 1..m
        BY <1>3, <4>1, <4>3 DEF WaitInv
      <4> QED BY <2>1, <4>1, <4>2, <4>3
    <3>2. CASE l \notin layers
      <4>1. captured_frames'[l] = captured_frames[l]
        BY <1>8, <3>2
      <4> QED BY <1>3, <4>1 DEF WaitInv
    <3> QED BY <3>1, <3>2
  <2>2. ASSUME NEW l \in Layers, l \notin layers' PROVE captured_frames'[l] = <<>>
    BY <1>3, <1>8, <2>2 DEF WaitInv
  <2> QED BY <2>1, <2>2 DEF WaitInv
<1>12. PairedInv' /\ Unused(pairs, decodes)' /\ FirstUses(pairs)'
  <2>1. PairedInv'
    BY <1>3 DEF PairedInv, Paired
  <2>2. Unused(pairs, decodes)'
    BY <1>3 DEF Unused, Shows
  <2>3. FirstUses(pairs)'
    BY <1>3 DEF FirstUses, FirstShown, Shows
  <2> QED BY <2>1, <2>2, <2>3
<1>13. InOrder'
  <2>1. ASSUME NEW l \in layers
        PROVE  LayerInOrder(pairs', l, first'[l], captured_frames'[l], a + 1)
    <3>1. PICK m \in Nat :
             /\ m = Len(captured_frames[l])
             /\ Len(captured_frames'[l]) = m + 1
             /\ captured_frames'[l][m + 1] = Captured(t, l)
             /\ \A i \in 1..m : captured_frames'[l][i] = captured_frames[l][i]
             /\ \A i \in 1..(m + 1) : i = m + 1 \/ i \in 1..m
      BY <1>9
    <3>2. PICK b \in Nat : /\ b + m = a /\ Ordered(pairs, l, first[l], b)
                           /\ \A i \in 1..m : captured_frames[l][i].id = b + i - 1
      BY <1>5, <3>1 DEF LayerInOrder
    <3>3. ASSUME NEW i \in 1..(m + 1) PROVE captured_frames'[l][i].id = b + i - 1
      <4>1. CASE i = m + 1
        <5>1. captured_frames'[l][i].id = a
          BY <1>4, <1>7, <3>1, <4>1
        <5> QED BY <3>2, <4>1, <5>1
      <4>2. CASE i \in 1..m
        BY <3>1, <3>2, <4>2
      <4> QED BY <3>1, <4>1, <4>2
    <3>4. b + (m + 1) = a + 1
      BY <3>2
    <3> QED BY <1>3, <3>1, <3>2, <3>3, <3>4 DEF LayerInOrder
  <2>2. a + 1 \in Nat /\ Coming(tasks', a + 1, next_capture_id')
    BY <1>6
  <2>3. \E c \in Nat : /\ Coming(tasks', c, next_capture_id')
                       /\ \A j \in layers' :
                            LayerInOrder(pairs', j, first'[j], captured_frames'[j], c)
    BY <1>3, <2>1, <2>2
  <2> QED BY <2>3 DEF InOrder, Coming, LayerInOrder, Ordered
<1>14. RegisterInv'
  BY <1>1, <1>3 DEF LeavesTasks, RegisterInv
<1>15. FinalInv'
  <2>1. matcher' # "destroyed"
    BY <1>1, <1>3 DEF LeavesTasks
  <2> QED BY <1>1, <1>3, <2>1 DEF LeavesTasks, FinalInv
<1> QED BY <1>10, <1>11, <1>12, <1>13, <1>14, <1>15

\* So does every task.
LEMMA RunTaskKeeps ==
  ASSUME MatcherInv, RunTask PROVE MatcherInv'
<1>1. PICK t : t = Head(tasks)
  OBVIOUS
<1>2. tasks # <<>> /\ tasks' = Tail(tasks) /\ UNCHANGED next_capture_id
  BY DEF RunTask
<1>3. MatcherTypes /\ WaitInv /\ t \in MatcherTask
  <2>1. LeavesTasks(t)
    BY <1>1, <1>2, TaskLeaves
  <2> QED BY <2>1 DEF MatcherInv, LeavesTasks
<1>4. CASE RunRegister(t)
  BY <1>1, <1>2, <1>4, RegisterKeeps
<1>5. CASE RunCaptured(t)
  BY <1>1, <1>2, <1>5, CapturedKeeps
<1>6. CASE RunDecoded(t)
  <2>1. PICK ds, handed, N : HandsOn(ds, handed, N, captured_frames')
    BY <1>3, <1>6, DecodedHands
  <2>2. t.kind = "decoded" /\ UNCHANGED <<layers, first>> /\ matcher' = matcher
    BY <1>6 DEF RunDecoded
  <2> QED BY <1>1, <1>2, <2>1, <2>2, HandsOnKeeps
<1>7. CASE RunFinalize(t)
  <2>1. PICK ds, handed, N : HandsOn(ds, handed, N, captured_frames')
    BY <1>1, <1>3, <1>7, FinalizeHands
  <2>2. /\ t.kind = "finalize" /\ UNCHANGED <<layers, first>> /\ matcher' = "destroyed"
        /\ \A l \in Layers : captured_frames'[l] = <<>>
    BY <1>7 DEF RunFinalize
  <2> QED BY <1>1, <1>2, <2>1, <2>2, HandsOnKeeps
<1> QED BY <1>1, <1>4, <1>5, <1>6, <1>7 DEF RunTask

\* So do the steps of the analyzer.
LEMMA MatcherStays ==
  ASSUME MatcherInv, UNCHANGED matcherVars PROVE MatcherInv'
<1>1. /\ tasks' = tasks /\ next_capture_id' = next_capture_id /\ layers' = layers
      /\ captured_frames' = captured_frames /\ decodes' = decodes /\ matcher' = matcher
      /\ pairs' = pairs /\ first' = first
  BY DEF matcherVars
<1>2. MatcherTypes'
  BY <1>1 DEF MatcherInv, MatcherTypes
<1>3. WaitInv'
  BY <1>1 DEF MatcherInv, WaitInv
<1>4. PairedInv'
  BY <1>1 DEF MatcherInv, PairedInv, Paired
<1>5. Unused(pairs, decodes)' /\ FirstUses(pairs)'
  <2>1. Unused(pairs, decodes)'
    BY <1>1 DEF MatcherInv, Unused, Shows
  <2>2. FirstUses(pairs)'
    BY <1>1 DEF MatcherInv, FirstUses, FirstShown, Shows
  <2> QED BY <2>1, <2>2
<1>6. InOrder'
  <2>1. PICK a \in Nat : /\ Coming(tasks, a, next_capture_id)
                         /\ \A l \in layers :
                              LayerInOrder(pairs, l, first[l], captured_frames[l], a)
    BY DEF MatcherInv, InOrder
  <2>2. /\ Coming(tasks', a, next_capture_id')
        /\ \A l \in layers' : LayerInOrder(pairs', l, first'[l], captured_frames'[l], a)
    BY <1>1, <2>1
  <2>3. \E c \in Nat : /\ Coming(tasks', c, next_capture_id')
                       /\ \A l \in layers' :
                            LayerInOrder(pairs', l, first'[l], captured_frames'[l], c)
    BY <2>2
  <2> QED BY <2>3 DEF InOrder, Coming, LayerInOrder, Ordered
<1>7. RegisterInv' /\ FinalInv'
  BY <1>1 DEF MatcherInv, RegisterInv, FinalInv
<1> QED BY <1>2, <1>3, <1>4, <1>5, <1>6, <1>7 DEF MatcherInv

\* The invariant of the matcher.
LEMMA MatcherAlways == Spec => []MatcherInv
<1>1. Init => MatcherInv
  BY MatcherStarts DEF Init
<1>2. MatcherInv /\ [Next]_vars => MatcherInv'
  <2> SUFFICES ASSUME MatcherInv, [Next]_vars PROVE MatcherInv'
    OBVIOUS
  <2>1. CASE Call
    <3>1. \E t : Posts(t)
      BY <2>1, CallPosts DEF MatcherInv
    <3> QED BY <3>1, PostKeeps
  <2>2. CASE Task
    BY <2>2, RunTaskKeeps DEF Task
  <2>3. CASE (RunPosted \/ stats) /\ UNCHANGED matcherVars
    BY <2>3, MatcherStays
  <2>4. CASE UNCHANGED vars
    <3>1. UNCHANGED matcherVars
      BY <2>4 DEF vars
    <3> QED BY <3>1, MatcherStays
  <2> QED BY <2>1, <2>2, <2>3, <2>4 DEF Next
<1> QED BY <1>1, <1>2, PTL DEF Spec

\* The invariant has every frame handed on once.
LEMMA OnceFollows ==
  ASSUME MatcherInv PROVE EveryFrameOnce
<1> USE DEF MatcherInv
<1>1. /\ tasks \in Seq(MatcherTask) /\ next_capture_id \in Nat /\ pairs \in Seq(VideoFramePair)
      /\ layers \in SUBSET Layers
  BY QualityConstants DEF MatcherTypes
<1>2. PICK a \in Nat : /\ Coming(tasks, a, next_capture_id)
                       /\ \A j \in layers :
                            LayerInOrder(pairs, j, first[j], captured_frames[j], a)
  BY DEF InOrder
<1>3. NextToCome = a
  BY <1>1, <1>2, ComesNext
<1>4. DOMAIN pairs = 1..Len(pairs)
  BY <1>1, LenProperties
<1>5. ASSUME NEW l \in layers,
             NEW mine, mine = {i \in DOMAIN pairs : pairs[i].layer_id = l},
             NEW next, next = NextToCome - Len(captured_frames[l])
      PROVE  /\ first[l] <= next
             /\ {pairs[i].capture_id : i \in mine} = first[l]..(next - 1)
             /\ \A i, j \in mine : i < j => pairs[i].capture_id < pairs[j].capture_id
             /\ \A i \in DOMAIN captured_frames[l] : captured_frames[l][i].id = next + i - 1
             /\ matcher = "destroyed" => captured_frames[l] = <<>>
  <2>1. captured_frames[l] \in Seq(CapturedFrame)
    BY <1>1 DEF MatcherTypes
  <2>2. PICK m \in Nat : m = Len(captured_frames[l]) /\ DOMAIN captured_frames[l] = 1..m
    BY <2>1, LenProperties
  <2>3. PICK b \in Nat : /\ b + m = a /\ Ordered(pairs, l, first[l], b)
                         /\ \A i \in 1..m : captured_frames[l][i].id = b + i - 1
    BY <1>2, <2>2 DEF LayerInOrder
  <2>4. next = b
    BY <1>3, <1>5, <2>2, <2>3
  <2>5. {pairs[i].capture_id : i \in mine} = first[l]..(next - 1)
    <3>1. ASSUME NEW i \in mine PROVE pairs[i].capture_id \in first[l]..(b - 1)
      BY <1>4, <1>5, <2>3 DEF Ordered
    <3>2. ASSUME NEW n \in first[l]..(b - 1) PROVE \E i \in mine : pairs[i].capture_id = n
      <4>1. PICK i \in 1..Len(pairs) : pairs[i].layer_id = l /\ pairs[i].capture_id = n
        BY <2>3 DEF Ordered
      <4> QED BY <1>4, <1>5, <4>1
    <3> QED BY <2>4, <3>1, <3>2
  <2>6. \A i, j \in mine : i < j => pairs[i].capture_id < pairs[j].capture_id
    BY <1>4, <1>5, <2>3 DEF Ordered
  <2>7. first[l] <= next
    BY <2>3, <2>4 DEF Ordered
  <2>8. \A i \in DOMAIN captured_frames[l] : captured_frames[l][i].id = next + i - 1
    BY <2>2, <2>3, <2>4
  <2>9. matcher = "destroyed" => captured_frames[l] = <<>>
    BY <1>1 DEF FinalInv
  <2> QED BY <2>5, <2>6, <2>7, <2>8, <2>9
<1> QED BY <1>5 DEF EveryFrameOnce

\* The invariant has every frame paired with its best decode.
LEMMA BestFollows ==
  ASSUME MatcherInv PROVE BestMatch
<1> SUFFICES ASSUME NEW i \in DOMAIN pairs, NEW p, p = pairs[i]
             PROVE  LET SSE(d) == I420SSE(p.captured, decodes[p.layer_id][d].frame)
                    IN  IF p.decode_id = 0 THEN Candidates(p) = {}
                        ELSE /\ p.decode_id \in Candidates(p)
                             /\ \A d \in Candidates(p) :
                                  \/ SSE(p.decode_id) < SSE(d)
                                  \/ SSE(p.decode_id) = SSE(d) /\ p.decode_id <= d
                             /\ p.final \/ p.decode_id < p.until
  BY DEF BestMatch
<1>1. i \in 1..Len(pairs)
  BY LenProperties DEF MatcherInv, MatcherTypes
<1>2. Paired(p, layers, decodes)
  BY <1>1 DEF MatcherInv, PairedInv
<1>3. PICK ds : ds = decodes[p.layer_id]
  OBVIOUS
<1>4. Candidates(p) = Fitting(p.captured, ds, p.since, p.until)
  BY <1>3 DEF Candidates, Fitting
<1>5. /\ IsBest(p.captured, ds, p.since, p.until, p.decode_id)
      /\ p.decode_id = 0 \/ p.final \/ p.decode_id < p.until
  BY <1>2, <1>3 DEF Paired
<1> QED BY <1>3, <1>4, <1>5 DEF IsBest

\* Every frame captured after the registration of a layer is handed on exactly once,
\* in the order of capture, or waits; none waits when the matcher has been destroyed
\* (OnDecodedFrame, Finalize).
THEOREM FramesMatchedOnce == Spec => []EveryFrameOnce
BY MatcherAlways, OnceFollows, PTL

\* A frame is paired with the first of the decodes that differ least from it
\* (OnDecodedFrame).
THEOREM BestCorrect == Spec => []BestMatch
BY MatcherAlways, BestFollows, PTL

------------------------------------------------------------------------------
(* What the analyzer counts *)

\* Whether pair p counts as rendered, and what it adds to the counts.
Renders(p) == p.decode_id # 0 /\ p.repeated = 0
One(b) == IF b THEN 1 ELSE 0
Adds(s, u, p) ==
  /\ u.capture = s.capture + 1
  /\ u.render = s.render + One(Renders(p))
  /\ u.lost + u.freeze = s.lost + s.freeze + One(~Renders(p))
  /\ u.skipped + u.skip_count = s.skipped + s.skip_count + One(~Renders(p))
CountsPair(la, e, p) ==
  /\ e \in [Layers -> LayerStats] /\ p.layer_id \in Layers
  /\ \A j \in Layers : j # p.layer_id => e[j] = la[j]
  /\ Adds(la[p.layer_id], e[p.layer_id], p)

\* HandleFramePair adds to the counts of one layer.
LEMMA PairCounts ==
  ASSUME NEW la \in [Layers -> LayerStats], NEW p \in VideoFramePair
  PROVE  CountsPair(la, HandleFramePair(la, p), p)
<1>1. PICK l \in Layers : l = p.layer_id
  BY DEF VideoFramePair
<1>2. p.decode_id \in Nat /\ p.repeated \in Nat
  BY DEF VideoFramePair
<1>3. PICK s \in LayerStats : s = la[l]
  OBVIOUS
<1>4. PICK c \in Nat, o \in Nat, f \in Nat, r \in Nat, k \in Nat, n \in Nat :
        s = [capture |-> c, lost |-> o, freeze |-> f, render |-> r, skipped |-> k,
             skip_count |-> n]
  BY DEF LayerStats
<1>5. PICK c1 \in Nat, o1 \in Nat, f1 \in Nat, r1 \in Nat, k1 \in Nat, n1 \in Nat :
        /\ c1 = c + 1 /\ o1 = o + 1 /\ f1 = f + 1 /\ r1 = r + 1 /\ k1 = k + n /\ n1 = n + 1
  OBVIOUS
<1> DEFINE lost == [capture |-> c1, lost |-> o1, freeze |-> f, render |-> r, skipped |-> k,
                    skip_count |-> n1]
           frozen == [capture |-> c1, lost |-> o, freeze |-> f1, render |-> r,
                      skipped |-> k, skip_count |-> n1]
           rendered == [capture |-> c1, lost |-> o, freeze |-> f, render |-> r1,
                        skipped |-> k1, skip_count |-> 0]
           u == IF p.decode_id = 0 THEN lost ELSE IF p.repeated > 0 THEN frozen ELSE rendered
<1>6. PICK v : v = HandleCapturedFrame(s)
  OBVIOUS
<1>7. v = [capture |-> c1, lost |-> o, freeze |-> f, render |-> r, skipped |-> k,
            skip_count |-> n]
  BY <1>4, <1>5, <1>6 DEF HandleCapturedFrame
<1>8. PICK w : w = [v EXCEPT !.skip_count = @ + 1]
  OBVIOUS
<1>9. w = [capture |-> c1, lost |-> o, freeze |-> f, render |-> r, skipped |-> k,
            skip_count |-> n1]
  <2>1. v.skip_count + 1 = n1
    BY <1>5, <1>7
  <2>2. w = [v EXCEPT !.skip_count = n1]
    BY <1>8, <2>1
  <2> QED BY <1>7, <2>2
<1>10. [w EXCEPT !.lost = @ + 1] = lost /\ [w EXCEPT !.freeze = @ + 1] = frozen
  <2>1. w.lost + 1 = o1 /\ w.freeze + 1 = f1
    BY <1>5, <1>9
  <2>2. [w EXCEPT !.lost = o1] = lost /\ [w EXCEPT !.freeze = f1] = frozen
    BY <1>9
  <2> QED BY <2>1, <2>2
<1>11. HandleRenderedFrame(v) = rendered
  <2>1. v.render + 1 = r1 /\ v.skipped + v.skip_count = k1
    BY <1>5, <1>7
  <2>2. HandleRenderedFrame(v)
          = [v EXCEPT !.render = r1, !.skipped = k1, !.skip_count = 0]
    BY <2>1 DEF HandleRenderedFrame
  <2> HIDE DEF u
  <2> QED BY <1>7, <2>2
<1>12. HandleFramePair(la, p) = [la EXCEPT ![l] = u]
  BY <1>1, <1>3, <1>6, <1>8, <1>10, <1>11 DEF HandleFramePair
<1>13. u \in LayerStats
  BY DEF LayerStats
<1>14. Adds(s, u, p)
  <2>1. CASE p.decode_id = 0
    BY <1>4, <1>5, <2>1 DEF Adds, Renders, One
  <2>2. CASE p.decode_id # 0 /\ p.repeated > 0
    BY <1>4, <1>5, <2>2 DEF Adds, Renders, One
  <2>3. CASE p.decode_id # 0 /\ ~(p.repeated > 0)
    <3>1. p.repeated = 0
      BY <1>2, <2>3
    <3> QED BY <1>4, <1>5, <2>3, <3>1 DEF Adds, Renders, One
  <2> QED BY <2>1, <2>2, <2>3
<1> HIDE DEF u
<1>15. /\ [la EXCEPT ![l] = u] \in [Layers -> LayerStats]
       /\ \A j \in Layers : j # l => [la EXCEPT ![l] = u][j] = la[j]
       /\ [la EXCEPT ![l] = u][l] = u
  BY <1>13
<1> QED BY <1>1, <1>3, <1>12, <1>14, <1>15 DEF CountsPair

\* The first k pairs of layer l, and the decodes that they show.
Mine(ps, l, k) == {i \in 1..k : ps[i].layer_id = l}
Rendered(ps, l, k) == {ps[i].decode_id : i \in Mine(ps, l, k)} \ {0}
Accounts(s, ps, l, k) ==
  /\ IsFiniteSet(Mine(ps, l, k)) /\ IsFiniteSet(Rendered(ps, l, k))
  /\ s.capture = Cardinality(Mine(ps, l, k)) /\ s.capture = s.lost + s.freeze + s.render
  /\ s.render = Cardinality(Rendered(ps, l, k))
  /\ s.skipped + s.skip_count = s.lost + s.freeze
Accounted(la, ps, k) ==
  la \in [Layers -> LayerStats] /\ \A l \in Layers : Accounts(la[l], ps, l, k)

\* Counting one more pair keeps the accounts.
LEMMA CountOne ==
  ASSUME NEW ps \in Seq(VideoFramePair), FirstUses(ps), NEW la,
         NEW k \in Nat, k + 1 \in 1..Len(ps), Accounted(la, ps, k)
  PROVE  Accounted(HandleFramePair(la, ps[k + 1]), ps, k + 1)
<1>1. PICK h \in 1..Len(ps) : h = k + 1
  OBVIOUS
<1>2. PICK p \in VideoFramePair : p = ps[h]
  BY ElementOfSeq
<1>3. PICK e : e = HandleFramePair(la, p)
  OBVIOUS
<1>4. la \in [Layers -> LayerStats]
  BY DEF Accounted
<1>5. CountsPair(la, e, p)
  BY <1>3, <1>4, PairCounts
<1>6. \A l : Mine(ps, l, h) = Mine(ps, l, k) \cup (IF p.layer_id = l THEN {h} ELSE {})
  <2> TAKE l
  <2>1. \A i \in 1..h : i = h \/ i \in 1..k
    BY <1>1
  <2>2. (\A i \in 1..k : i \in 1..h) /\ h \in 1..h
    BY <1>1
  <2> QED BY <1>2, <2>1, <2>2 DEF Mine
<1>7. ASSUME NEW l \in Layers, p.layer_id # l PROVE Accounts(e[l], ps, l, h)
  <2>1. e[l] = la[l] /\ Accounts(la[l], ps, l, k)
    BY <1>5, <1>7 DEF CountsPair, Accounted
  <2>2. Mine(ps, l, h) = Mine(ps, l, k)
    BY <1>6, <1>7
  <2>3. Rendered(ps, l, h) = Rendered(ps, l, k)
    BY <2>2 DEF Rendered
  <2> QED BY <2>1, <2>2, <2>3 DEF Accounts
<1>8. ASSUME NEW l \in Layers, p.layer_id = l PROVE Accounts(e[l], ps, l, h)
  <2>1. PICK s \in LayerStats, u \in LayerStats : s = la[l] /\ u = e[l]
    BY <1>4, <1>5 DEF CountsPair
  <2>2. Adds(s, u, p) /\ Accounts(s, ps, l, k)
    BY <1>5, <1>8, <2>1 DEF CountsPair, Accounted
  <2>3. PICK M, N, R, T : /\ M = Mine(ps, l, k) /\ N = Mine(ps, l, h)
                          /\ R = Rendered(ps, l, k) /\ T = Rendered(ps, l, h)
    OBVIOUS
  <2>4. N = M \cup {h} /\ h \notin M /\ IsFiniteSet(M)
    <3>1. h \notin M
      BY <1>1, <2>3 DEF Mine
    <3> QED BY <1>6, <1>8, <2>2, <2>3, <3>1 DEF Accounts
  <2>5. IsFiniteSet(N) /\ Cardinality(N) = Cardinality(M) + 1
    BY <2>4, FS_AddElement
  <2>6. T = R \cup ({p.decode_id} \ {0})
    BY <1>2, <2>3, <2>4 DEF Rendered
  <2>7. p.decode_id # 0 => (p.repeated = 0 <=> p.decode_id \notin R)
    <3> SUFFICES ASSUME p.decode_id # 0 PROVE p.repeated = 0 <=> p.decode_id \notin R
      OBVIOUS
    <3>1. FirstShown(ps, h)
      BY <1>1 DEF FirstUses
    <3>2. p.repeated = 0 <=> \A j \in 1..k : ~(ps[j].layer_id = l /\ ps[j].decode_id = p.decode_id)
      <4>1. h - 1 = k
        BY <1>1
      <4> QED BY <1>2, <1>8, <3>1, <4>1 DEF FirstShown, Shows
    <3>3. p.decode_id \in R
            <=> \E j \in 1..k : ps[j].layer_id = l /\ ps[j].decode_id = p.decode_id
      BY <2>3 DEF Rendered, Mine
    <3> QED BY <3>2, <3>3
  <2>8. IsFiniteSet(T) /\ Cardinality(T) = Cardinality(R) + One(Renders(p))
    <3>1. IsFiniteSet(R) /\ Cardinality(R) \in Nat
      BY <2>2, <2>3, FS_CardinalityType DEF Accounts
    <3>2. CASE p.decode_id = 0
      <4>1. T = R /\ One(Renders(p)) = 0
        BY <2>6, <3>2 DEF One, Renders
      <4> QED BY <3>1, <4>1
    <3>3. CASE p.decode_id # 0
      <4>1. T = R \cup {p.decode_id}
        BY <2>6, <3>3
      <4>2. /\ IsFiniteSet(T)
            /\ Cardinality(T) = IF p.decode_id \in R THEN Cardinality(R) ELSE Cardinality(R) + 1
        BY <3>1, <4>1, FS_AddElement
      <4>3. One(Renders(p)) = IF p.decode_id \in R THEN 0 ELSE 1
        BY <2>7, <3>3 DEF One, Renders
      <4> QED BY <3>1, <4>2, <4>3
    <3> QED BY <3>2, <3>3
  <2>9. PICK x \in Nat, y \in Nat : x = One(Renders(p)) /\ y = One(~Renders(p)) /\ x + y = 1
    <3>1. One(Renders(p)) \in Nat /\ One(~Renders(p)) \in Nat
          /\ One(Renders(p)) + One(~Renders(p)) = 1
      BY DEF One
    <3> QED BY <3>1
  <2>10. /\ s.capture = Cardinality(M) /\ s.capture = s.lost + s.freeze + s.render
         /\ s.render = Cardinality(R) /\ s.skipped + s.skip_count = s.lost + s.freeze
    BY <2>2, <2>3 DEF Accounts
  <2>11. /\ u.capture = s.capture + 1 /\ u.render = s.render + x
         /\ u.lost + u.freeze = s.lost + s.freeze + y
         /\ u.skipped + u.skip_count = s.skipped + s.skip_count + y
    BY <2>2, <2>9 DEF Adds
  <2>12. /\ s.capture \in Nat /\ s.lost \in Nat /\ s.freeze \in Nat /\ s.render \in Nat
         /\ u.capture \in Nat /\ u.lost \in Nat /\ u.freeze \in Nat /\ u.render \in Nat
         /\ s.skipped \in Nat /\ s.skip_count \in Nat /\ u.skipped \in Nat /\ u.skip_count \in Nat
    BY DEF LayerStats
  <2>13. u.capture = Cardinality(N)
    BY <2>5, <2>10, <2>11
  <2>14. u.render = Cardinality(T)
    BY <2>8, <2>9, <2>10, <2>11
  <2>15. u.capture = u.lost + u.freeze + u.render /\ u.skipped + u.skip_count = u.lost + u.freeze
    <3>1. PICK sl \in Nat, sf \in Nat, sr \in Nat, sk \in Nat, sc \in Nat :
            /\ sl = s.lost /\ sf = s.freeze /\ sr = s.render /\ sk = s.skipped
            /\ sc = s.skip_count
      BY <2>12
    <3>2. PICK ul \in Nat, uf \in Nat, ur \in Nat, uk \in Nat, uc \in Nat :
            /\ ul = u.lost /\ uf = u.freeze /\ ur = u.render /\ uk = u.skipped
            /\ uc = u.skip_count
      BY <2>12
    <3>3. /\ u.capture = sl + sf + sr + 1 /\ ur = sr + x /\ ul + uf = sl + sf + y
          /\ uk + uc = sl + sf + y
      BY <2>10, <2>11, <3>1, <3>2
    <3>4. sl + sf + sr + 1 = ul + uf + ur
      <4>1. x + y = 1 /\ ur = sr + x /\ ul + uf = sl + sf + y
        BY <2>9, <3>3
      <4>2. ul + uf + ur = sl + sf + sr + (x + y)
        <5>1. ul + uf + ur = (ul + uf) + ur
          OBVIOUS
        <5>2. (sl + sf + y) + (sr + x) = sl + sf + sr + (x + y)
          OBVIOUS
        <5>3. (ul + uf) + ur = (sl + sf + y) + (sr + x)
          BY ONLY <4>1
        <5> QED BY ONLY <5>1, <5>2, <5>3
      <4> QED BY ONLY <4>1, <4>2
    <3>5. uk + uc = ul + uf
      BY <3>3
    <3> QED BY <3>2, <3>3, <3>4, <3>5
  <2> QED BY <2>1, <2>3, <2>5, <2>8, <2>13, <2>14, <2>15 DEF Accounts
<1>9. Accounted(e, ps, h)
  BY <1>5, <1>7, <1>8 DEF Accounted, CountsPair
<1> QED BY <1>1, <1>2, <1>3, <1>9

\* The recursive function in Counted.
Tallies(f, la, ss, n) ==
  f = [i \in 0..n |-> IF i = 0 THEN la ELSE HandleFramePair(f[i - 1], ss[i])]

\* It exists, and Counted is its last value.
LEMMA TalliesExist ==
  ASSUME NEW n \in Nat, NEW ss \in [1..n -> VideoFramePair], NEW la \in [Layers -> LayerStats]
  PROVE  \E f : Tallies(f, la, ss, n)
<1>1. PICK S : S = [Layers -> LayerStats]
  OBVIOUS
<1> DEFINE t == [i \in 1..n |-> [x \in S |-> HandleFramePair(x, ss[i])]]
<1>2. ASSUME NEW i \in 1..n, NEW x \in S PROVE HandleFramePair(x, ss[i]) \in S
  <2>1. ss[i] \in VideoFramePair
    OBVIOUS
  <2>2. PICK p \in VideoFramePair, y \in [Layers -> LayerStats] : p = ss[i] /\ y = x
    BY <1>1, <2>1
  <2>3. CountsPair(y, HandleFramePair(y, p), p)
    BY PairCounts
  <2> QED BY <1>1, <2>2, <2>3 DEF CountsPair
<1>3. t \in StepFunctions(S, n) /\ \A i \in 1..n : \A x \in S : t[i][x] = HandleFramePair(x, ss[i])
  <2>1. \A i \in 1..n : \A x \in S : t[i][x] = HandleFramePair(x, ss[i])
    OBVIOUS
  <2>2. \A i \in 1..n : t[i] \in [S -> S]
    BY <1>2
  <2>3. t = [i \in 1..n |-> t[i]]
    OBVIOUS
  <2> HIDE DEF t
  <2> QED BY <2>1, <2>2, <2>3 DEF StepFunctions
<1> HIDE DEF t
<1>4. PICK f : Iterates(f, S, la, n, t)
  BY <1>1, <1>3, Iteration
<1> DEFINE g == [i \in 0..n |-> IF i = 0 THEN la ELSE HandleFramePair(f[i - 1], ss[i])]
<1>5. f \in [0..n -> S] /\ f[0] = la /\ \A i \in 1..n : f[i] = t[i][f[i - 1]]
  BY <1>4 DEF Iterates
<1>6. \A i \in 0..n : f[i] = g[i]
  <2> TAKE i \in 0..n
  <2>1. CASE i = 0
    BY <1>5, <2>1
  <2>2. CASE i # 0
    <3>1. i \in 1..n /\ i - 1 \in 0..n
      BY <2>2
    <3>2. f[i - 1] \in S
      BY <1>5, <3>1
    <3>3. f[i] = HandleFramePair(f[i - 1], ss[i])
      BY <1>3, <1>5, <3>1, <3>2
    <3> QED BY <2>2, <3>3
  <2> QED BY <2>1, <2>2
<1>7. f = g
  <2>1. f = [i \in 0..n |-> f[i]] /\ g = [i \in 0..n |-> g[i]]
    BY <1>5
  <2> QED BY <1>6, <2>1
<1> QED BY <1>7 DEF Tallies

LEMMA CountedIs ==
  ASSUME NEW n \in Nat, NEW ss \in [1..n -> VideoFramePair],
         layer_analyzers \in [Layers -> LayerStats]
  PROVE  \E f : Tallies(f, layer_analyzers, ss, n) /\ Counted(ss) = f[n]
<1> DEFINE f == CHOOSE f : Tallies(f, layer_analyzers, ss, n)
<1>1. Tallies(f, layer_analyzers, ss, n)
  BY TalliesExist
<1>2. Len(ss) = n
  OBVIOUS
<1>3. Counted(ss) = f[n]
  BY <1>2 DEF Counted, Tallies
<1> QED BY <1>1, <1>3

\* Counting nothing changes nothing.
LEMMA CountNone ==
  ASSUME layer_analyzers \in [Layers -> LayerStats]
  PROVE  Counted(<<>>) = layer_analyzers
<1>1. <<>> \in [1..0 -> VideoFramePair]
  OBVIOUS
<1>2. PICK f : Tallies(f, layer_analyzers, <<>>, 0) /\ Counted(<<>>) = f[0]
  BY <1>1, CountedIs
<1> QED BY <1>2 DEF Tallies

\* Counting the pairs after the k-th.
LEMMA CountAll ==
  ASSUME NEW ps \in Seq(VideoFramePair), FirstUses(ps), NEW k \in Nat, NEW n \in Nat,
         k + n <= Len(ps),
         NEW ss \in [1..n -> VideoFramePair], \A i \in 1..n : ss[i] = ps[k + i],
         Accounted(layer_analyzers, ps, k)
  PROVE  Accounted(Counted(ss), ps, k + n)
<1>1. layer_analyzers \in [Layers -> LayerStats]
  BY DEF Accounted
<1>2. PICK f : Tallies(f, layer_analyzers, ss, n) /\ Counted(ss) = f[n]
  BY <1>1, CountedIs
<1>3. PICK m \in Nat : m = Len(ps) /\ k + n <= m
  BY LenProperties
<1> DEFINE Good == {i \in 0..n : Accounted(f[i], ps, k + i)}
<1>4. 0 \in Good
  <2>1. f[0] = layer_analyzers /\ k + 0 = k /\ 0 \in 0..n
    BY <1>2 DEF Tallies
  <2> QED BY <2>1
<1>5. ASSUME NEW i \in 1..n, i - 1 \in Good PROVE i \in Good
  <2>1. PICK j \in Nat : j = k + (i - 1)
    OBVIOUS
  <2>2. Accounted(f[i - 1], ps, j)
    BY <1>5, <2>1
  <2>3. j + 1 \in 1..Len(ps) /\ j + 1 = k + i
    BY <1>3, <2>1
  <2>4. Accounted(HandleFramePair(f[i - 1], ps[j + 1]), ps, j + 1)
    <3>1. PICK la : la = f[i - 1]
      OBVIOUS
    <3>2. Accounted(la, ps, j)
      BY <2>2, <3>1
    <3>3. Accounted(HandleFramePair(la, ps[j + 1]), ps, j + 1)
      BY <2>3, <3>2, CountOne
    <3> QED BY <3>1, <3>3
  <2>5. f[i] = HandleFramePair(f[i - 1], ss[i])
    BY <1>2 DEF Tallies
  <2>6. Accounted(f[i], ps, k + i)
    BY <2>3, <2>4, <2>5
  <2> QED BY <2>6
<1>6. \A i \in 0..n : i \in Good
  <2> HIDE DEF Good
  <2> QED BY <1>4, <1>5, UpTo
<1>7. n \in 0..n
  OBVIOUS
<1> QED BY <1>2, <1>6, <1>7

\* New pairs do not disturb the accounts of those before.
LEMMA AccountedKept ==
  ASSUME NEW la, NEW ps, NEW qs, NEW k \in Nat, \A i \in 1..k : qs[i] = ps[i],
         Accounted(la, ps, k)
  PROVE  Accounted(la, qs, k)
<1>1. ASSUME NEW l \in Layers PROVE Accounts(la[l], qs, l, k)
  <2>1. Mine(qs, l, k) = Mine(ps, l, k)
    BY DEF Mine
  <2>2. \A i \in Mine(ps, l, k) : qs[i].decode_id = ps[i].decode_id
    BY DEF Mine
  <2>3. Rendered(qs, l, k) = Rendered(ps, l, k)
    BY <2>1, <2>2 DEF Rendered
  <2>4. Accounts(la[l], ps, l, k)
    BY DEF Accounted
  <2> QED BY <2>1, <2>3, <2>4 DEF Accounts
<1> QED BY <1>1 DEF Accounted

\* A task adds the pairs that it makes.
LEMMA PairsGrow ==
  ASSUME MatcherInv, RunTask
  PROVE  \E m, N \in Nat :
           /\ pairs \in Seq(VideoFramePair) /\ pairs' \in Seq(VideoFramePair)
           /\ m = Len(pairs) /\ Len(pairs') = m + N
           /\ \A i \in 1..m : pairs'[i] = pairs[i]
<1>1. PICK t : t = Head(tasks)
  OBVIOUS
<1>2. MatcherTypes /\ WaitInv /\ pairs \in Seq(VideoFramePair) /\ t \in MatcherTask
  <2>1. LeavesTasks(t)
    BY <1>1, TaskLeaves DEF RunTask
  <2> QED BY <2>1 DEF MatcherInv, MatcherTypes, LeavesTasks
<1>3. PICK m \in Nat : m = Len(pairs)
  BY <1>2, LenProperties
<1>4. CASE pairs' = pairs
  <2>1. 0 \in Nat /\ m + 0 = m
    OBVIOUS
  <2> QED BY <1>2, <1>3, <1>4, <2>1
<1>5. ASSUME NEW ds, NEW handed, NEW N, HandsOn(ds, handed, N, captured_frames')
      PROVE  /\ N \in Nat /\ pairs' \in Seq(VideoFramePair) /\ Len(pairs') = Len(pairs) + N
             /\ \A i \in 1..Len(pairs) : pairs'[i] = pairs[i]
  <2>1. /\ ds \in [Layers -> Seq(DecodedFrame)] /\ N \in Nat /\ handed \in Handed(N)
        /\ HandleMatches(ds, handed)
    BY <1>5 DEF HandsOn
  <2>2. Fits(ds, handed, N)
    BY <1>5, HandedFits
  <2> QED BY <1>2, <2>1, <2>2, HandOver
<1>6. CASE \E ds, handed, N : HandsOn(ds, handed, N, captured_frames')
  BY <1>2, <1>3, <1>5, <1>6
<1>7. CASE RunRegister(t)
  BY <1>4, <1>7 DEF RunRegister
<1>8. CASE RunCaptured(t)
  BY <1>4, <1>8 DEF RunCaptured
<1>9. CASE RunDecoded(t)
  BY <1>2, <1>6, <1>9, DecodedHands
<1>10. CASE RunFinalize(t)
  BY <1>1, <1>2, <1>6, <1>10, FinalizeHands
<1> QED BY <1>1, <1>7, <1>8, <1>9, <1>10 DEF RunTask

------------------------------------------------------------------------------
(* The invariant of the analyzer *)

\* What is posted to the thread are the last pairs, and those before are counted.
AnalyzerInv ==
  /\ thread \in BOOLEAN /\ posted \in Seq(VideoFramePair)
  /\ thread \/ posted = <<>>
  /\ \E k \in Nat : /\ k + Len(posted) = Len(pairs)
                    /\ \A i \in 1..Len(posted) : posted[i] = pairs[k + i]
                    /\ Accounted(layer_analyzers, pairs, k)
  /\ CacheFresh

\* The analyzer starts in its invariant.
LEMMA AnalyzerStarts ==
  ASSUME MatcherInit, AnalyzerInit PROVE AnalyzerInv
<1>1. posted = <<>> /\ pairs = <<>> /\ cached = <<>> /\ thread \in BOOLEAN
  BY DEF MatcherInit, AnalyzerInit
<1>2. posted \in Seq(VideoFramePair)
  BY <1>1, EmptySeq
<1>3. Len(posted) = 0 /\ Len(pairs) = 0 /\ 0 + 0 = 0 /\ \A i \in 1..0 : FALSE
  BY <1>1
<1>4. NoStats \in LayerStats
  BY DEF NoStats, LayerStats
<1>5. Accounted(layer_analyzers, pairs, 0)
  <2>1. layer_analyzers \in [Layers -> LayerStats]
        /\ \A l \in Layers : layer_analyzers[l] = NoStats
    <3> HIDE DEF NoStats
    <3> QED BY <1>4 DEF AnalyzerInit
  <2>2. ASSUME NEW l \in Layers PROVE Accounts(layer_analyzers[l], pairs, l, 0)
    <3>1. Mine(pairs, l, 0) = {} /\ Rendered(pairs, l, 0) = {}
      BY <1>3 DEF Mine, Rendered
    <3>2. IsFiniteSet({}) /\ Cardinality({}) = 0
      BY FS_EmptySet
    <3>3. Accounts(NoStats, pairs, l, 0)
      BY <3>1, <3>2 DEF Accounts, NoStats
    <3> QED BY <2>1, <3>3
  <2> QED BY <2>1, <2>2 DEF Accounted
<1>6. CacheFresh
  BY <1>1 DEF CacheFresh
<1>7. \E k \in Nat : /\ k + Len(posted) = Len(pairs)
                     /\ \A i \in 1..Len(posted) : posted[i] = pairs[k + i]
                     /\ Accounted(layer_analyzers, pairs, k)
  BY <1>3, <1>5
<1> QED BY <1>1, <1>2, <1>6, <1>7 DEF AnalyzerInv

\* What is counted is not in the cache.
LEMMA HandledFresh ==
  ASSUME layer_analyzers \in [Layers -> LayerStats], CacheFresh,
         NEW samples, HandleFramePairs(samples)
  PROVE  CacheFresh'
<1>1. CASE samples = <<>>
  <2>1. layer_analyzers' = layer_analyzers /\ cached' = cached
    BY <1>1, CountNone DEF HandleFramePairs
  <2> QED BY <2>1 DEF CacheFresh, Total
<1>2. CASE samples # <<>>
  <2>1. cached' = <<>>
    BY <1>2 DEF HandleFramePairs
  <2> QED BY <2>1 DEF CacheFresh
<1> QED BY <1>1, <1>2

\* The pairs of a task are counted, or posted to the thread.
LEMMA TaskCounts ==
  ASSUME MatcherInv, MatcherInv', AnalyzerInv, Task PROVE AnalyzerInv'
<1>1. RunTask /\ Handler(SubSeq(pairs', Len(pairs) + 1, Len(pairs')))
  BY DEF Task
<1>2. PICK m \in Nat, N \in Nat :
        /\ pairs \in Seq(VideoFramePair) /\ pairs' \in Seq(VideoFramePair)
        /\ m = Len(pairs) /\ Len(pairs') = m + N
        /\ \A i \in 1..m : pairs'[i] = pairs[i]
  BY <1>1, PairsGrow
<1>3. PICK qs \in Seq(VideoFramePair) : qs = pairs' /\ Len(qs) = m + N
  BY <1>2
<1>4. PICK a \in Int, b \in Int : a = m + 1 /\ b = m + N
  OBVIOUS
<1>5. PICK ss : ss = SubSeq(qs, a, b)
  OBVIOUS
<1>6. /\ ss \in Seq(VideoFramePair) /\ Len(ss) = N
      /\ \A i \in 1..N : ss[i] = qs[m + i] /\ m + i \in 1..(m + N)
  <2>1. \A i \in a..b : qs[i] \in VideoFramePair
    BY <1>3, <1>4, ElementOfSeq
  <2>2. /\ ss \in Seq(VideoFramePair)
        /\ Len(ss) = IF a <= b THEN b - a + 1 ELSE 0
        /\ \A i \in 1..(b - a + 1) : ss[i] = qs[a + i - 1]
    BY <1>5, <2>1, SubSeqProperties
  <2>3. Len(ss) = N
    BY <1>4, <2>2
  <2>4. ASSUME NEW i \in 1..N PROVE ss[i] = qs[m + i] /\ m + i \in 1..(m + N)
    <3>1. i \in 1..(b - a + 1) /\ a + i - 1 = m + i /\ m + i \in 1..(m + N)
      BY <1>4
    <3> QED BY <2>2, <3>1
  <2> QED BY <2>2, <2>3, <2>4
<1>7. Handler(ss)
  BY <1>1, <1>2, <1>3, <1>4, <1>5
<1>8. FirstUses(qs)
  BY <1>3 DEF MatcherInv, FirstUses, FirstShown, Shows
<1>9. PICK k \in Nat : /\ k + Len(posted) = m
                       /\ \A i \in 1..Len(posted) : posted[i] = pairs[k + i]
                       /\ Accounted(layer_analyzers, pairs, k)
  BY <1>2 DEF AnalyzerInv
<1>10. PICK w \in Nat : w = Len(posted) /\ k + w = m
  BY <1>9, LenProperties DEF AnalyzerInv
<1>11. Accounted(layer_analyzers, qs, k)
  <2>1. \A i \in 1..k : qs[i] = pairs[i]
    <3>1. \A i \in 1..k : i \in 1..m
      BY <1>10
    <3> QED BY <1>2, <1>3, <3>1
  <2> QED BY <1>9, <2>1, AccountedKept
<1>12. /\ thread \in BOOLEAN /\ posted \in Seq(VideoFramePair) /\ CacheFresh
       /\ layer_analyzers \in [Layers -> LayerStats]
  BY <1>9 DEF AnalyzerInv, Accounted
<1>13. CASE thread
  <2>1. posted' = posted \o ss /\ UNCHANGED <<thread, layer_analyzers, cached>>
    BY <1>7, <1>13 DEF Handler
  <2>2. /\ posted' \in Seq(VideoFramePair) /\ Len(posted') = w + N
        /\ \A i \in 1..(w + N) : posted'[i] = IF i <= w THEN posted[i] ELSE ss[i - w]
    <3>1. /\ posted \o ss \in Seq(VideoFramePair) /\ Len(posted \o ss) = Len(posted) + Len(ss)
          /\ \A i \in 1..(Len(posted) + Len(ss)) :
               (posted \o ss)[i] = IF i <= Len(posted) THEN posted[i] ELSE ss[i - Len(posted)]
      BY ONLY <1>6, <1>12, ConcatProperties
    <3> QED BY <1>6, <1>10, <2>1, <3>1
  <2>3. ASSUME NEW i \in 1..(w + N) PROVE posted'[i] = qs[k + i]
    <3>1. CASE i \in 1..w
      <4>1. k + i \in 1..m /\ i <= w
        BY <1>10, <3>1
      <4> QED BY <1>2, <1>3, <1>9, <1>10, <2>2, <3>1, <4>1
    <3>2. CASE i \notin 1..w
      <4>1. PICK j \in 1..N : j = i - w /\ m + j = k + i /\ ~(i <= w)
        <5>1. i - w \in 1..N /\ m + (i - w) = k + i /\ ~(i <= w)
          BY <1>10, <3>2
        <5> QED BY <5>1
      <4> QED BY <1>6, <2>2, <4>1
    <3> QED BY <3>1, <3>2
  <2>4. k + (w + N) = m + N
    BY <1>10
  <2>5. CacheFresh'
    BY <1>12, <2>1 DEF CacheFresh, Total
  <2>6. Accounted(layer_analyzers', pairs', k)
    BY <1>3, <1>11, <2>1
  <2>7. \E h \in Nat : /\ h + Len(posted') = Len(pairs')
                       /\ \A i \in 1..Len(posted') : posted'[i] = pairs'[h + i]
                       /\ Accounted(layer_analyzers', pairs', h)
    BY <1>2, <1>3, <2>2, <2>3, <2>4, <2>6
  <2>8. (\E h \in Nat : /\ h + Len(posted) = Len(pairs)
                        /\ \A i \in 1..Len(posted) : posted[i] = pairs[h + i]
                        /\ Accounted(layer_analyzers, pairs, h))'
    BY <2>7 DEF Accounted, Accounts, Mine, Rendered
  <2> QED BY <1>12, <1>13, <2>1, <2>2, <2>5, <2>8 DEF AnalyzerInv
<1>14. CASE ~thread
  <2>1. HandleFramePairs(ss) /\ posted' = posted /\ thread' = thread
    BY <1>7, <1>14 DEF Handler
  <2>2. posted = <<>> /\ w = 0 /\ k = m
    <3>1. posted = <<>>
      BY <1>14 DEF AnalyzerInv
    <3> QED BY <1>10, <3>1
  <2>3. ss \in [1..N -> VideoFramePair]
    BY <1>6, LenProperties
  <2>4. Accounted(Counted(ss), qs, k + N)
    <3>1. k + N <= Len(qs) /\ \A i \in 1..N : ss[i] = qs[k + i]
      BY <1>3, <1>6, <2>2
    <3> QED BY <1>8, <1>11, <2>3, <3>1, CountAll
  <2>5. Accounted(layer_analyzers', pairs', m + N) /\ m + N \in Nat
    BY <1>3, <2>1, <2>2, <2>4 DEF HandleFramePairs
  <2>6. CacheFresh'
    BY <1>12, <2>1, HandledFresh
  <2>7. \E h \in Nat : /\ h + Len(posted') = Len(pairs')
                       /\ \A i \in 1..Len(posted') : posted'[i] = pairs'[h + i]
                       /\ Accounted(layer_analyzers', pairs', h)
    <3>1. Len(posted') = 0 /\ (m + N) + 0 = Len(pairs') /\ \A i \in 1..0 : FALSE
      BY <1>2, <2>1, <2>2
    <3> QED BY <2>5, <3>1
  <2>8. (\E h \in Nat : /\ h + Len(posted) = Len(pairs)
                        /\ \A i \in 1..Len(posted) : posted[i] = pairs[h + i]
                        /\ Accounted(layer_analyzers, pairs, h))'
    BY <2>7 DEF Accounted, Accounts, Mine, Rendered
  <2>9. posted' \in Seq(VideoFramePair) /\ posted' = <<>> /\ thread' \in BOOLEAN
    BY <1>12, <2>1, <2>2
  <2> QED BY <2>6, <2>8, <2>9 DEF AnalyzerInv
<1> QED BY <1>12, <1>13, <1>14

\* A posted pair is counted.
LEMMA PostedCounts ==
  ASSUME MatcherInv, AnalyzerInv, RunPosted, UNCHANGED matcherVars PROVE AnalyzerInv'
<1>1. /\ thread \in BOOLEAN /\ posted \in Seq(VideoFramePair) /\ CacheFresh
      /\ pairs \in Seq(VideoFramePair) /\ FirstUses(pairs) /\ pairs' = pairs
  BY DEF AnalyzerInv, MatcherInv, MatcherTypes, matcherVars
<1>2. /\ posted # <<>> /\ posted' = Tail(posted) /\ thread' = thread
      /\ HandleFramePairs(<<Head(posted)>>)
  BY DEF RunPosted
<1>3. PICK k \in Nat : /\ k + Len(posted) = Len(pairs)
                       /\ \A i \in 1..Len(posted) : posted[i] = pairs[k + i]
                       /\ Accounted(layer_analyzers, pairs, k)
  BY DEF AnalyzerInv
<1>4. PICK w \in Nat : w = Len(posted) /\ k + w = Len(pairs)
  BY <1>1, <1>3, LenProperties
<1>5. /\ posted' \in Seq(VideoFramePair) /\ Len(posted') = w - 1 /\ w - 1 \in Nat
      /\ Head(posted) = posted[1] /\ 1 \in 1..w
      /\ \A i \in 1..(w - 1) : posted'[i] = posted[i + 1] /\ i + 1 \in 1..w
  BY <1>1, <1>2, <1>4, TailFacts
<1>6. PICK p \in VideoFramePair : p = Head(posted) /\ p = pairs[k + 1]
  <2>1. posted[1] \in VideoFramePair
    BY <1>1, <1>4, <1>5, ElementOfSeq
  <2> QED BY <1>3, <1>4, <1>5, <2>1
<1>7. PICK ss : ss = <<p>> /\ ss \in [1..1 -> VideoFramePair] /\ ss[1] = p
  <2>1. <<p>> \in [1..1 -> VideoFramePair] /\ <<p>>[1] = p
    OBVIOUS
  <2> QED BY <2>1
<1>8. HandleFramePairs(ss)
  BY <1>2, <1>6, <1>7
<1>9. Accounted(Counted(ss), pairs, k + 1)
  <2>1. 1 \in Nat /\ k + 1 <= Len(pairs) /\ \A i \in 1..1 : ss[i] = pairs[k + i]
    <3>1. \A i \in 1..1 : i = 1
      OBVIOUS
    <3> QED BY <1>4, <1>5, <1>6, <1>7, <3>1
  <2> QED BY <1>1, <1>3, <1>7, <2>1, CountAll
<1>10. Accounted(layer_analyzers', pairs', k + 1) /\ k + 1 \in Nat
  BY <1>1, <1>8, <1>9 DEF HandleFramePairs
<1>11. CacheFresh'
  <2>1. layer_analyzers \in [Layers -> LayerStats]
    BY <1>3 DEF Accounted
  <2> QED BY <1>1, <1>8, <2>1, HandledFresh
<1>12. (k + 1) + (w - 1) = Len(pairs)
  BY <1>4
<1>13. ASSUME NEW i \in 1..(w - 1) PROVE posted'[i] = pairs[(k + 1) + i]
  <2>1. k + (i + 1) = (k + 1) + i
    OBVIOUS
  <2> QED BY <1>3, <1>4, <1>5, <2>1
<1>14. \E h \in Nat : /\ h + Len(posted') = Len(pairs')
                      /\ \A i \in 1..Len(posted') : posted'[i] = pairs'[h + i]
                      /\ Accounted(layer_analyzers', pairs', h)
  BY <1>1, <1>5, <1>10, <1>12, <1>13
<1>15. (\E h \in Nat : /\ h + Len(posted) = Len(pairs)
                       /\ \A i \in 1..Len(posted) : posted[i] = pairs[h + i]
                       /\ Accounted(layer_analyzers, pairs, h))'
  BY <1>14 DEF Accounted, Accounts, Mine, Rendered
<1>16. thread' \/ posted' = <<>>
  BY <1>2 DEF AnalyzerInv
<1> QED BY <1>1, <1>2, <1>5, <1>11, <1>15, <1>16 DEF AnalyzerInv

\* A step that counts nothing.
LEMMA OthersCount ==
  ASSUME AnalyzerInv, pairs' = pairs, UNCHANGED <<thread, posted, layer_analyzers>>,
         cached' = cached \/ cached' = <<Total>>
  PROVE  AnalyzerInv'
<1>1. CacheFresh'
  <2>1. Total' = Total
    BY DEF Total
  <2>2. CASE cached' = cached
    BY <2>1, <2>2 DEF AnalyzerInv, CacheFresh
  <2>3. CASE cached' = <<Total>>
    <3>1. cached'[1] = Total
      BY <2>3
    <3> QED BY <2>1, <3>1 DEF CacheFresh
  <2> QED BY <2>2, <2>3
<1>2. \E h \in Nat : /\ h + Len(posted') = Len(pairs')
                     /\ \A i \in 1..Len(posted') : posted'[i] = pairs'[h + i]
                     /\ Accounted(layer_analyzers', pairs', h)
  BY DEF AnalyzerInv
<1>3. (\E h \in Nat : /\ h + Len(posted) = Len(pairs)
                      /\ \A i \in 1..Len(posted) : posted[i] = pairs[h + i]
                      /\ Accounted(layer_analyzers, pairs, h))'
  BY <1>2 DEF Accounted, Accounts, Mine, Rendered
<1> QED BY <1>1, <1>3 DEF AnalyzerInv

\* The invariant of the analyzer.
LEMMA AnalyzerAlways == Spec => []AnalyzerInv
<1>1. Init => AnalyzerInv
  BY AnalyzerStarts DEF Init
<1>2. MatcherInv /\ MatcherInv' /\ AnalyzerInv /\ [Next]_vars => AnalyzerInv'
  <2> SUFFICES ASSUME MatcherInv, MatcherInv', AnalyzerInv, [Next]_vars PROVE AnalyzerInv'
    OBVIOUS
  <2>1. CASE Call
    <3>1. pairs' = pairs
      <4>1. PICK t : Posts(t)
        BY <2>1, CallPosts DEF MatcherInv
      <4> QED BY <4>1 DEF Posts
    <3>2. UNCHANGED <<thread, posted, layer_analyzers>> /\ cached' = cached
      BY <2>1 DEF Call, analyzerVars
    <3> QED BY <3>1, <3>2, OthersCount
  <2>2. CASE Task
    BY <2>2, TaskCounts
  <2>3. CASE RunPosted /\ UNCHANGED matcherVars
    BY <2>3, PostedCounts
  <2>4. CASE stats /\ UNCHANGED matcherVars
    <3>1. pairs' = pairs
      BY <2>4 DEF matcherVars
    <3>2. /\ UNCHANGED <<thread, posted, layer_analyzers>>
          /\ cached' = cached \/ cached' = <<Total>>
      BY <2>4 DEF stats
    <3> QED BY <3>1, <3>2, OthersCount
  <2>5. CASE UNCHANGED vars
    <3>1. /\ pairs' = pairs /\ UNCHANGED <<thread, posted, layer_analyzers>>
          /\ cached' = cached
      BY <2>5 DEF vars, matcherVars, analyzerVars
    <3> QED BY <3>1, OthersCount
  <2> QED BY <2>1, <2>2, <2>3, <2>4, <2>5 DEF Next
<1> QED BY <1>1, <1>2, MatcherAlways, PTL DEF Spec

\* The invariants have every frame accounted for.
LEMMA AccountsFollow ==
  ASSUME MatcherInv, AnalyzerInv PROVE FramesAccounted
<1>1. posted \in Seq(VideoFramePair) /\ pairs \in Seq(VideoFramePair)
  BY DEF AnalyzerInv, MatcherInv, MatcherTypes
<1>2. PICK k \in Nat : /\ k + Len(posted) = Len(pairs) /\ Accounted(layer_analyzers, pairs, k)
  BY DEF AnalyzerInv
<1>3. Len(pairs) - Len(posted) = k
  BY <1>1, <1>2, LenProperties
<1>4. \A l \in Layers : Accounts(layer_analyzers[l], pairs, l, k)
  BY <1>2 DEF Accounted
<1> QED BY <1>3, <1>4 DEF FramesAccounted, Accounts, Mine, Rendered

\* The invariants have the types.
LEMMA TypesFollow ==
  ASSUME MatcherInv, AnalyzerInv PROVE TypeOK
<1>1. MatcherTypes /\ WaitInv
  BY DEF MatcherInv
<1>2. thread \in BOOLEAN /\ posted \in Seq(VideoFramePair)
      /\ layer_analyzers \in [Layers -> LayerStats]
  BY DEF AnalyzerInv, Accounted
<1>3. ASSUME NEW l \in Layers, NEW i \in DOMAIN captured_frames[l]
      PROVE  captured_frames[l][i].best_decode <= Len(decodes[l])
  <2>1. captured_frames[l] \in Seq(CapturedFrame)
    BY <1>1 DEF MatcherTypes
  <2>2. i \in 1..Len(captured_frames[l])
    BY <2>1, LenProperties
  <2> QED BY <1>1, <2>2 DEF WaitInv, Waits
<1> QED BY <1>1, <1>2, <1>3 DEF MatcherTypes, TypeOK

\* The types of the matcher and of the analyzer.
THEOREM QualityTypeCorrect == Spec => []TypeOK
BY MatcherAlways, AnalyzerAlways, TypesFollow, PTL

\* Every frame that was handled counts once, as rendered, frozen or lost; a decoded
\* frame is rendered once; what was not rendered is in a gap (HandleFramePair).
THEOREM FramesCounted == Spec => []FramesAccounted
BY MatcherAlways, AnalyzerAlways, AccountsFollow, PTL

\* What stats() has cached is what the layers have counted until now (stats(),
\* HandleFramePair).
THEOREM CacheCorrect == Spec => []CacheFresh
<1>1. AnalyzerInv => CacheFresh
  BY DEF AnalyzerInv
<1> QED BY <1>1, AnalyzerAlways, PTL
==============================================================================
