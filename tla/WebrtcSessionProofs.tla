------------------------- MODULE WebrtcSessionProofs -------------------------
(***************************************************************************)
(* Theorems about WebrtcSession and the modules it is made of: the trace,  *)
(* for packets that are lost, late or come twice in any number and order;  *)
(* the tag, for every number and base; and the session, in which the tag   *)
(* gives the trace the number and the delay of every packet.               *)
(***************************************************************************)
EXTENDS WebrtcSession, Recursion, SequenceTheorems, FiniteSetTheorems, TLAPS
------------------------------------------------------------------------------
(* The trace *)

\* The greatest number received, and that the next one is expected.
MaxInv ==
  /\ m_maxSeq \in Nat /\ m_lossPkts \in Nat /\ received \in Seq(Nat)
  /\ m_expectSeq = m_maxSeq + 1
  /\ \A i \in DOMAIN received : received[i] <= m_maxSeq
  /\ m_maxSeq > 0 => \E i \in DOMAIN received : received[i] = m_maxSeq

BelowInv ==
  /\ m_lossPkts <= m_maxSeq /\ (m_maxSeq > 0 => m_lossPkts < m_maxSeq)
  /\ m_loss = <<>> \/ m_loss \in Nat \X Nat
  /\ m_loss # <<>> => m_loss[1] < m_loss[2]

TraceInv == MaxInv /\ BelowInv /\ LossAccounting

\* A packet that comes last is in order if all others have smaller numbers.
LEMMA InOrderAppend ==
  ASSUME received \in Seq(Nat), NEW seq \in Nat, received' = Append(received, seq)
  PROVE  InOrder' = InOrder \cup
           {s \in {seq} : \A j \in DOMAIN received : received[j] < s}
<1> DEFINE n == Len(received)
           First(i) == \A j \in 1..(i - 1) : received[j] < received[i]
           First2(i) == \A j \in 1..(i - 1) : received'[j] < received'[i]
<1>1. /\ n \in Nat /\ DOMAIN received = 1..n /\ DOMAIN received' = 1..(n + 1)
      /\ received'[n + 1] = seq
      /\ \A i \in 1..n : received'[i] = received[i] /\ received[i] \in Nat
  OBVIOUS
<1>2. \A i \in 1..n : First2(i) <=> First(i)
  <2> TAKE i \in 1..n
  <2>1. \A j \in 1..(i - 1) : j \in 1..n
    BY <1>1
  <2> QED
    BY <1>1, <2>1
<1>3. First2(n + 1) <=> \A j \in DOMAIN received : received[j] < seq
  <2>1. (n + 1) - 1 = n
    BY <1>1
  <2> QED
    BY <1>1, <2>1
<1>4. InOrder = {received[i] : i \in {i \in 1..n : First(i)}}
  BY <1>1 DEF InOrder
<1>5. InOrder' = {received'[i] : i \in {i \in 1..(n + 1) : First2(i)}}
  BY <1>1 DEF InOrder
<1>6. \A i : i \in 1..(n + 1) <=> i \in 1..n \/ i = n + 1
  BY <1>1
<1> HIDE DEF n, First, First2
<1>7. ASSUME NEW s PROVE s \in InOrder' <=> s \in InOrder \/ (s = seq /\ First2(n + 1))
  <2>1. s \in InOrder' <=> \E i \in 1..(n + 1) : First2(i) /\ s = received'[i]
    BY <1>5
  <2>2. s \in InOrder <=> \E i \in 1..n : First(i) /\ s = received[i]
    BY <1>4
  <2> QED
    BY <1>1, <1>2, <1>6, <2>1, <2>2
<1> QED
  BY <1>3, <1>7

LEMMA MaxStep ==
  ASSUME MaxInv, NEW at \in Nat, NEW seq \in Nat, NEW owd \in Nat,
         OnReceiptPktInfo(at, seq, owd)
  PROVE  /\ MaxInv'
         /\ IF seq > m_maxSeq
            THEN m_maxSeq' = seq /\ m_lossPkts' = m_lossPkts + (seq - (m_maxSeq + 1))
            ELSE UNCHANGED <<m_maxSeq, m_lossPkts>>
<1>1. /\ received' = Append(received, seq) /\ received' \in Seq(Nat)
      /\ DOMAIN received = 1..Len(received) /\ Len(received) \in Nat
      /\ DOMAIN received' = 1..(Len(received) + 1)
      /\ received'[Len(received) + 1] = seq
      /\ \A i \in DOMAIN received : received'[i] = received[i] /\ received[i] \in Nat
  BY DEF OnReceiptPktInfo, MaxInv
<1>2. IF seq > m_maxSeq
      THEN m_maxSeq' = seq /\ m_lossPkts' = m_lossPkts + (seq - (m_maxSeq + 1))
           /\ m_expectSeq' = seq + 1
      ELSE UNCHANGED <<m_maxSeq, m_lossPkts, m_expectSeq>>
  BY DEF OnReceiptPktInfo, TraceLoss, MaxInv
<1>3. \A i \in DOMAIN received' : i \in DOMAIN received \/ i = Len(received) + 1
  BY <1>1
<1>4. CASE seq > m_maxSeq
  <2>1. \A i \in DOMAIN received' : received'[i] <= m_maxSeq'
    BY <1>1, <1>2, <1>3, <1>4 DEF MaxInv
  <2>2. \E i \in DOMAIN received' : received'[i] = m_maxSeq'
    BY <1>1, <1>2, <1>4
  <2> QED
    BY <1>1, <1>2, <1>4, <2>1, <2>2 DEF MaxInv
<1>5. CASE ~(seq > m_maxSeq)
  <2>1. \A i \in DOMAIN received' : received'[i] <= m_maxSeq'
    BY <1>1, <1>2, <1>3, <1>5 DEF MaxInv
  <2>2. m_maxSeq > 0 => \E i \in DOMAIN received' : received'[i] = m_maxSeq'
    BY <1>1, <1>2, <1>5 DEF MaxInv
  <2> QED
    BY <1>1, <1>2, <1>5, <2>1, <2>2 DEF MaxInv
<1> QED
  BY <1>2, <1>4, <1>5

LEMMA IntervalSize ==
  ASSUME NEW a \in Nat, NEW b \in Nat, a <= b + 1
  PROVE  IsFiniteSet(a..b) /\ Cardinality(a..b) = b + 1 - a
<1>1. a \in Int /\ b \in Int
  OBVIOUS
<1>2. IsFiniteSet(a..b) /\ Cardinality(a..b) = IF a > b THEN 0 ELSE b - a + 1
  BY <1>1, FS_Interval
<1> QED
  BY <1>2

LEMMA DisjointUnion ==
  ASSUME NEW S, NEW T, IsFiniteSet(S), IsFiniteSet(T), S \cap T = {}
  PROVE  Cardinality(S \cup T) = Cardinality(S) + Cardinality(T)
<1>1. Cardinality(S) \in Nat /\ Cardinality(T) \in Nat
  BY FS_CardinalityType
<1>2. Cardinality(S \cap T) = 0
  BY FS_EmptySet
<1>3. Cardinality(S \cup T) = Cardinality(S) + Cardinality(T) - Cardinality(S \cap T)
  BY FS_Union
<1> QED
  BY <1>1, <1>2, <1>3

LEMMA BelowStep == ASSUME MaxInv, BelowInv, [TraceNext]_traceVars PROVE BelowInv'
<1>1. ASSUME NEW at \in Nat, NEW seq \in Nat, NEW owd \in Nat,
             OnReceiptPktInfo(at, seq, owd)
      PROVE  BelowInv'
  <2>1. m_loss' = m_loss
    BY <1>1 DEF OnReceiptPktInfo
  <2>2. IF seq > m_maxSeq
        THEN m_maxSeq' = seq /\ m_lossPkts' = m_lossPkts + (seq - (m_maxSeq + 1))
        ELSE UNCHANGED <<m_maxSeq, m_lossPkts>>
    BY <1>1, MaxStep
  <2>3. m_maxSeq \in Nat /\ m_lossPkts \in Nat
    BY DEF MaxInv
  <2> QED
    BY <2>1, <2>2, <2>3 DEF BelowInv
<1>2. CASE Close
  BY <1>2 DEF Close, BelowInv, MaxInv
<1>3. CASE UNCHANGED traceVars
  BY <1>3 DEF traceVars, lossVars, BelowInv
<1> QED
  BY <1>1, <1>2, <1>3 DEF TraceNext

\* The numbers between the greatest one and one that comes are all missing.
LEMMA AccountingStep ==
  ASSUME MaxInv, LossAccounting, NEW at \in Nat, NEW seq \in Nat, NEW owd \in Nat,
         OnReceiptPktInfo(at, seq, owd)
  PROVE  LossAccounting'
<1> DEFINE Missing == (1..m_maxSeq) \ InOrder
<1>1. InOrder' = InOrder \cup
        {s \in {seq} : \A j \in DOMAIN received : received[j] < s}
  BY InOrderAppend DEF MaxInv, OnReceiptPktInfo
<1>2. InOrder \subseteq 0..m_maxSeq
  <2>1. \A i \in DOMAIN received : received[i] \in 0..m_maxSeq
    BY DEF MaxInv
  <2> QED
    BY <2>1 DEF InOrder
<1>3. m_maxSeq \in Nat /\ m_lossPkts = Cardinality(Missing)
  BY DEF MaxInv, LossAccounting
<1>4. CASE seq > m_maxSeq
  <2> DEFINE Gap == (m_maxSeq + 1)..(seq - 1)
  <2>1. m_maxSeq' = seq /\ m_lossPkts' = m_lossPkts + (seq - (m_maxSeq + 1))
    BY <1>4, MaxStep
  <2>2. InOrder' = InOrder \cup {seq}
    <3>1. \A j \in DOMAIN received : received[j] < seq
      BY <1>4 DEF MaxInv
    <3> QED
      BY <1>1, <3>1
  <2>3. (1..seq) \ InOrder' = Missing \cup Gap
    BY <1>2, <1>3, <1>4, <2>2
  <2>4. Missing \cap Gap = {}
    BY <1>3, <1>4
  <2>5. IsFiniteSet(Missing)
    <3>1. IsFiniteSet(1..m_maxSeq)
      BY <1>3, IntervalSize
    <3>2. Missing \in SUBSET (1..m_maxSeq)
      OBVIOUS
    <3> QED
      BY <3>1, <3>2, FS_Subset
  <2>6. IsFiniteSet(Gap) /\ Cardinality(Gap) = seq - (m_maxSeq + 1)
    <3>1. /\ m_maxSeq + 1 \in Nat /\ seq - 1 \in Nat /\ m_maxSeq + 1 <= (seq - 1) + 1
          /\ (seq - 1) + 1 - (m_maxSeq + 1) = seq - (m_maxSeq + 1)
      BY <1>3, <1>4
    <3> QED
      BY <3>1, IntervalSize
  <2>7. Cardinality(Missing \cup Gap) = Cardinality(Missing) + Cardinality(Gap)
    <3> HIDE DEF Missing, Gap
    <3> QED
      BY <2>4, <2>5, <2>6, DisjointUnion
  <2> QED
    BY <1>3, <2>1, <2>3, <2>6, <2>7 DEF LossAccounting
<1>5. CASE ~(seq > m_maxSeq)
  <2>1. UNCHANGED <<m_maxSeq, m_lossPkts>>
    BY <1>5, MaxStep
  <2>2. (1..m_maxSeq) \ InOrder' = Missing
    <3>1. CASE m_maxSeq = 0
      BY <3>1
    <3>2. CASE m_maxSeq > 0
      <4>1. PICK i \in DOMAIN received : received[i] = m_maxSeq
        BY <3>2 DEF MaxInv
      <4>2. ~(received[i] < seq)
        BY <1>3, <1>5, <4>1
      <4> QED
        BY <1>1, <4>2
    <3> QED
      BY <1>3, <3>1, <3>2
  <2> QED
    BY <1>3, <2>1, <2>2 DEF LossAccounting
<1> QED
  BY <1>4, <1>5

LEMMA TraceStep == TraceInv /\ [TraceNext]_traceVars => TraceInv'
<1> SUFFICES ASSUME TraceInv, [TraceNext]_traceVars PROVE TraceInv'
  OBVIOUS
<1>1. BelowInv'
  BY BelowStep DEF TraceInv
<1>2. ASSUME NEW at \in Nat, NEW seq \in Nat, NEW owd \in Nat,
             OnReceiptPktInfo(at, seq, owd)
      PROVE  MaxInv' /\ LossAccounting'
  BY <1>2, MaxStep, AccountingStep DEF TraceInv
<1>3. CASE UNCHANGED <<m_maxSeq, m_expectSeq, m_lossPkts, received>>
  <2>1. InOrder' = InOrder
    BY <1>3 DEF InOrder
  <2>2. LossAccounting'
    BY <1>3, <2>1 DEF TraceInv, LossAccounting
  <2> QED
    BY <1>1, <1>3, <2>2 DEF TraceInv, MaxInv
<1> QED
  BY <1>1, <1>2, <1>3 DEF TraceInv, TraceNext, Close, traceVars, lossVars

LEMMA TraceInitial == TraceInit => TraceInv
<1> SUFFICES ASSUME TraceInit PROVE TraceInv
  OBVIOUS
<1>1. MaxInv /\ BelowInv
  BY DEF TraceInit, MaxInv, BelowInv
<1>2. LossAccounting
  <2>1. (1..m_maxSeq) \ InOrder = {}
    BY DEF TraceInit
  <2> QED
    BY <2>1, FS_EmptySet DEF TraceInit, LossAccounting
<1> QED
  BY <1>1, <1>2 DEF TraceInv

LEMMA TraceInvariant == TraceSpec => []TraceInv
BY TraceInitial, TraceStep, PTL DEF TraceSpec

\* The counter is exactly the number of packets that did not come in order: every
\* gap is counted once, whatever comes late or twice (TraceLoss).
THEOREM AccountingCorrect == TraceSpec => []LossAccounting
<1>1. TraceInv => LossAccounting
  BY DEF TraceInv
<1> QED
  BY <1>1, TraceInvariant, PTL

\* The counted losses stay below the greatest number received, and so does the line
\* that Close writes (TraceLoss, Close).
THEOREM BelowCorrect == TraceSpec => []LossBelowAll
<1>1. TraceInv => LossBelowAll
  BY DEF TraceInv, MaxInv, BelowInv, LossBelowAll
<1> QED
  BY <1>1, TraceInvariant, PTL
------------------------------------------------------------------------------
(* The tag *)

Digit(v) == [digit |-> v % Base, more |-> v \div Base > 0]
Encoding(f, n) ==
  f = [v \in 0..n |-> IF v = 0 THEN <<>> ELSE <<Digit(v)>> \o f[v \div Base]]

LEMMA Quotient ==
  ASSUME NEW v \in Nat
  PROVE  \E q \in Nat, r \in 0..(Base - 1) :
           /\ q = v \div Base /\ r = v % Base
           /\ v = Base * q + r
           /\ v # 0 => q < v
<1> DEFINE q == v \div Base
           r == v % Base
<1>1. Base \in Nat /\ Base > 0 /\ Base > 1
  BY TagConstants DEF TagConstants
<1>2. q \in Nat /\ r \in 0..(Base - 1) /\ v = Base * q + r
  BY <1>1
<1>3. PICK a \in Nat, b \in 0..(Base - 1) : a = q /\ b = r /\ v = Base * a + b
  <2> HIDE DEF q, r
  <2> QED BY <1>2
<1>4. ASSUME v # 0 PROVE a < v
  <2>1. a # 0 => Base * a >= 2 * a
    BY <1>1
  <2>2. Base * a \in Nat
    BY <1>1
  <2> QED BY <1>1, <1>3, <1>4, <2>1, <2>2
<1> QED BY <1>3, <1>4

LEMMA EncodingExists == \A n \in Nat : \E f : Encoding(f, n)
<1> DEFINE Bad == {n \in Nat : ~\E f : Encoding(f, n)}
<1>1. SUFFICES ASSUME Bad # {} PROVE FALSE
  OBVIOUS
<1>2. PICK n \in Bad : \A m \in Bad : n <= m
  BY <1>1, FirstNumber
<1>3. n \in Nat /\ ~\E f : Encoding(f, n)
  OBVIOUS
<1>4. CASE n = 0
  <2> DEFINE f == [v \in 0..0 |-> <<>>]
  <2>1. f = [v \in 0..0 |-> IF v = 0 THEN <<>> ELSE <<Digit(v)>> \o f[v \div Base]]
    OBVIOUS
  <2> HIDE DEF f
  <2> QED BY <1>3, <1>4, <2>1 DEF Encoding
<1>5. CASE n # 0
  <2>1. n - 1 \in Nat /\ ~(n <= n - 1) /\ \A v \in 0..n : v = n \/ v \in 0..(n - 1)
    BY <1>3, <1>5
  <2>2. PICK f : Encoding(f, n - 1)
    BY <1>2, <2>1
  <2> DEFINE Body(v, c) == IF v = 0 THEN <<>> ELSE <<Digit(v)>> \o c
             x == Body(n, f[n \div Base])
             g == [v \in 0..n |-> IF v = n THEN x ELSE f[v]]
             h == [v \in 0..n |-> Body(v, g[v \div Base])]
  <2>3. \A v \in 0..(n - 1) : f[v] = Body(v, f[v \div Base])
    BY <2>2 DEF Encoding
  <2> HIDE DEF Body
  <2>4. \A v \in 0..n : v \div Base \in 0..n /\ (v \div Base \in 0..(n - 1))
    <3> TAKE v \in 0..n
    <3>1. v \in Nat /\ v \div Base \in Nat /\ (v # 0 => v \div Base < v)
      BY <1>3, Quotient
    <3>2. v = 0 => v \div Base = 0
      BY TagConstants DEF TagConstants
    <3> QED BY <1>3, <1>5, <3>1, <3>2
  <2>5. \A v \in 0..(n - 1) : g[v] = f[v]
    <3>1. \A v \in 0..(n - 1) : v \in 0..n /\ v # n
      BY <1>3
    <3> HIDE DEF x
    <3> QED BY <3>1
  <2>6. g[n] = x
    <3>1. n \in 0..n
      BY <1>3
    <3> HIDE DEF x
    <3> QED BY <3>1
  <2> HIDE DEF x, g
  <2>7. \A v \in 0..n : g[v] = h[v]
    <3> TAKE v \in 0..n
    <3>1. h[v] = Body(v, f[v \div Base])
      BY <2>4, <2>5
    <3> QED BY <2>1, <2>3, <2>5, <2>6, <3>1 DEF x
  <2>8. g = h
    <3> HIDE DEF Body
    <3>1. g = [v \in 0..n |-> g[v]]
      BY DEF g
    <3> QED BY <2>7, <3>1
  <2>9. Encoding(g, n)
    BY <2>8 DEF Encoding, Body
  <2> QED BY <1>3, <2>9
<1> QED BY <1>4, <1>5

LEMMA EncodeIs ==
  ASSUME NEW n \in Nat
  PROVE  \E f : /\ VarintEncode(n) = f[n]
                /\ \A v \in 0..n :
                     f[v] = IF v = 0 THEN <<>> ELSE <<Digit(v)>> \o f[v \div Base]
<1> DEFINE f == CHOOSE f : Encoding(f, n)
<1>1. Encoding(f, n)
  BY EncodingExists
<1>2. VarintEncode(n) = f[n]
  BY DEF VarintEncode, Encoding, Digit
<1> HIDE DEF f
<1>3. \A v \in 0..n : f[v] = IF v = 0 THEN <<>> ELSE <<Digit(v)>> \o f[v \div Base]
  BY <1>1 DEF Encoding
<1> QED BY <1>2, <1>3

\* The steps by which Number goes through the bytes.
DigitSteps(bytes) ==
  [k \in 1..Len(bytes) |-> [x \in Int |-> bytes[Len(bytes) + 1 - k].digit + Base * x]]

LEMMA NumberIs ==
  ASSUME NEW bytes \in Seq(Byte)
  PROVE  \E f : Iterates(f, Int, 0, Len(bytes), DigitSteps(bytes)) /\ Number(bytes) = f[Len(bytes)]
<1> DEFINE n == Len(bytes)
           d(k) == bytes[n + 1 - k].digit
           Own(f) == f = [k \in 0..n |-> IF k = 0 THEN 0 ELSE d(k) + Base * f[k - 1]]
           t == DigitSteps(bytes)
<1>1. n \in Nat /\ Base \in Nat /\ \A k \in 1..n : d(k) \in Nat
  <2>1. n \in Nat /\ Base \in Nat
    BY TagConstants DEF TagConstants
  <2>2. \A k \in 1..n : n + 1 - k \in 1..n
    BY <2>1
  <2>3. \A b \in Byte : b.digit \in Nat
    BY <2>1 DEF Byte
  <2>4. \A i \in 1..n : bytes[i] \in Byte
    OBVIOUS
  <2> QED BY <2>1, <2>2, <2>3, <2>4
<1>2. \A k \in 1..n : \A x \in Int : t[k][x] = d(k) + Base * x
  BY DEF DigitSteps
<1>3. t \in StepFunctions(Int, n)
  BY <1>1 DEF StepFunctions, DigitSteps
<1> HIDE DEF d, t
<1>4. PICK f : Iterates(f, Int, 0, n, t)
  <2>1. 0 \in Int
    OBVIOUS
  <2> HIDE DEF n
  <2> QED BY <1>1, <1>3, <2>1, Iteration
<1>5. \A k \in 1..n : f[k] = d(k) + Base * f[k - 1]
  <2> TAKE k \in 1..n
  <2>1. k - 1 \in 0..n
    BY <1>1
  <2> QED BY <1>2, <1>4, <2>1 DEF Iterates
<1>6. Own(f)
  <2> DEFINE g == [k \in 0..n |-> IF k = 0 THEN 0 ELSE d(k) + Base * f[k - 1]]
  <2>1. \A k \in 0..n : k = 0 \/ k \in 1..n
    BY <1>1
  <2>2. \A k \in 0..n : f[k] = g[k]
    BY <1>4, <1>5, <2>1 DEF Iterates
  <2>3. f = [k \in 0..n |-> f[k]]
    BY <1>4 DEF Iterates
  <2> QED BY <2>2, <2>3
<1>7. \A g : Own(g) => g[n] = f[n]
  <2> SUFFICES ASSUME NEW g, Own(g) PROVE g[n] = f[n]
    OBVIOUS
  <2>1. \A k \in 0..n : g[k] = IF k = 0 THEN 0 ELSE d(k) + Base * g[k - 1]
    OBVIOUS
  <2> HIDE DEF Own
  <2> DEFINE Bad == {k \in 0..n : g[k] # f[k]}
  <2>2. SUFFICES ASSUME Bad # {} PROVE FALSE
    <3>1. n \in 0..n
      BY <1>1
    <3> QED BY <3>1
  <2>3. PICK k \in Bad : \A j \in Bad : k <= j
    <3>1. Bad \in SUBSET Nat
      OBVIOUS
    <3> HIDE DEF Bad
    <3> QED BY <2>2, <3>1, FirstNumber
  <2>4. k \in 0..n /\ g[k] # f[k]
    OBVIOUS
  <2>5. k # 0
    BY <1>4, <2>1, <2>4 DEF Iterates
  <2>6. k \in 1..n /\ k - 1 \in 0..n /\ ~(k <= k - 1)
    BY <1>1, <2>4, <2>5
  <2>7. g[k - 1] = f[k - 1]
    BY <2>3, <2>6
  <2> QED BY <1>5, <2>1, <2>4, <2>5, <2>6, <2>7
<1>8. Number(bytes) = (CHOOSE g : Own(g))[n]
  BY DEF Number, d
<1>9. Number(bytes) = f[n]
  <2>1. Own(CHOOSE g : Own(g))
    <3> HIDE DEF Own
    <3> QED BY <1>6
  <2> HIDE DEF Own
  <2> QED BY <1>7, <1>8, <2>1
<1> QED BY <1>4, <1>9 DEF t

LEMMA NumberStep ==
  /\ Number(<<>>) = 0
  /\ \A s \in Seq(Byte), b \in Byte :
       Number(s) \in Int /\ Number(<<b>> \o s) = b.digit + Base * Number(s)
<1>1. Number(<<>>) = 0
  <2>1. <<>> \in Seq(Byte) /\ Len(<<>>) = 0
    OBVIOUS
  <2> QED BY <2>1, NumberIs DEF Iterates
<1>2. ASSUME NEW s \in Seq(Byte), NEW b \in Byte
      PROVE  Number(s) \in Int /\ Number(<<b>> \o s) = b.digit + Base * Number(s)
  <2> DEFINE c == <<b>> \o s
             n == Len(s)
  <2>1. /\ c \in Seq(Byte) /\ n \in Nat /\ Len(c) = n + 1 /\ c[1] = b
        /\ \A i \in 1..n : c[i + 1] = s[i]
    OBVIOUS
  <2>2. PICK f : Iterates(f, Int, 0, n, DigitSteps(s)) /\ Number(s) = f[n]
    BY NumberIs
  <2>3. PICK g : Iterates(g, Int, 0, n + 1, DigitSteps(c)) /\ Number(c) = g[n + 1]
    <3> HIDE DEF c
    <3> QED BY <2>1, NumberIs
  <2>4. \A k \in 1..n : \A x \in Int : DigitSteps(s)[k][x] = DigitSteps(c)[k][x]
    <3> TAKE k \in 1..n
    <3>1. k \in 1..(n + 1) /\ n + 1 - k \in 1..n /\ (n + 1) + 1 - k = (n + 1 - k) + 1
      BY <2>1
    <3>2. c[(n + 1) + 1 - k] = s[n + 1 - k]
      BY <2>1, <3>1
    <3> HIDE DEF c
    <3> QED BY <2>1, <3>1, <3>2 DEF DigitSteps
  <2>5. f[n] = g[n]
    <3> HIDE DEF c, n
    <3>1. n \in Nat /\ n + 1 \in Nat /\ n <= n /\ n <= n + 1
      BY <2>1
    <3> DEFINE Z == Int
    <3>2. /\ Iterates(f, Z, 0, n, DigitSteps(s)) /\ Iterates(g, Z, 0, n + 1, DigitSteps(c))
          /\ \A k \in 1..n : \A x \in Z : DigitSteps(s)[k][x] = DigitSteps(c)[k][x]
      BY <2>2, <2>3, <2>4
    <3> HIDE DEF Z
    <3> QED BY <3>1, <3>2, IterationsAgree
  <2>6. f[n] \in Int /\ n + 1 \in 1..(n + 1)
    BY <2>1, <2>2 DEF Iterates
  <2>7. g[n + 1] = DigitSteps(c)[n + 1][g[n]]
    <3>1. g[n + 1] = DigitSteps(c)[n + 1][g[(n + 1) - 1]]
      BY <2>3, <2>6 DEF Iterates
    <3>2. (n + 1) - 1 = n
      BY <2>1
    <3> QED BY <3>1, <3>2
  <2>8. DigitSteps(c)[n + 1][g[n]] = c[1].digit + Base * g[n]
    <3>1. (n + 1) + 1 - (n + 1) = 1
      BY <2>1
    <3> HIDE DEF c, n
    <3> QED BY <2>1, <2>5, <2>6, <3>1 DEF DigitSteps
  <2> QED BY <2>1, <2>2, <2>3, <2>5, <2>6, <2>7, <2>8
<1> QED BY <1>1, <1>2

\* The bytes of one number: all but the last have the flag.
Coded(c, v) ==
  /\ c \in Seq(Byte) /\ Len(c) > 0
  /\ \A i \in 1..Len(c) : c[i].more = (i # Len(c))
  /\ Number(c) = v

LEMMA CodedStep ==
  ASSUME NEW v \in Nat \ {0}, NEW c,
         (c = <<>> /\ v \div Base = 0) \/ (v \div Base # 0 /\ Coded(c, v \div Base))
  PROVE  Coded(<<Digit(v)>> \o c, v)
<1>1. PICK q \in Nat, r \in 0..(Base - 1) :
        q = v \div Base /\ r = v % Base /\ v = Base * q + r /\ q < v
  BY Quotient
<1>2. PICK b : b = Digit(v) /\ b.digit = r /\ b.more = (q > 0) /\ b \in Byte
  <2>1. [digit |-> r, more |-> q > 0] \in Byte
    BY DEF Byte
  <2>2. Digit(v) = [digit |-> r, more |-> q > 0]
    BY <1>1 DEF Digit
  <2> QED BY <2>1, <2>2
<1>3. c \in Seq(Byte)
  <2>1. CASE c = <<>>
    BY <2>1
  <2>2. CASE Coded(c, v \div Base)
    BY <2>2 DEF Coded
  <2> QED BY <2>1, <2>2
<1> DEFINE d == <<b>> \o c
           n == Len(c)
<1>4. /\ d \in Seq(Byte) /\ n \in Nat /\ Len(d) = n + 1 /\ d[1] = b
      /\ \A i \in 1..n : d[i + 1] = c[i]
  BY <1>2, <1>3
<1>5. Number(d) = v
  <2>1. Number(d) = r + Base * Number(c)
    BY <1>2, <1>3, NumberStep
  <2>2. Number(c) = q
    BY <1>1, NumberStep DEF Coded
  <2> QED BY <1>1, <2>1, <2>2, TagConstants DEF TagConstants
<1> HIDE DEF d
<1>6. n = 0 <=> ~(q > 0)
  BY <1>1, <1>4 DEF Coded
<1>7. ASSUME NEW i \in 1..(n + 1) PROVE d[i].more = (i # n + 1)
  <2>1. CASE i = 1
    <3>1. (i # n + 1) = (q > 0)
      BY <1>4, <1>6, <2>1
    <3> QED BY <1>2, <1>4, <2>1, <3>1
  <2>2. CASE i # 1
    <3>1. i - 1 \in 1..n /\ (i - 1) + 1 = i /\ n # 0
      BY <1>4, <2>2
    <3>2. d[i] = c[i - 1]
      BY <1>4, <3>1
    <3>3. c[i - 1].more = (i - 1 # n)
      <4>1. Coded(c, v \div Base)
        BY <3>1
      <4> QED BY <3>1, <4>1 DEF Coded
    <3>4. (i - 1 # n) = (i # n + 1)
      BY <1>4
    <3> QED BY <3>2, <3>3, <3>4
  <2> QED BY <2>1, <2>2
<1>8. Coded(d, v)
  <2>1. Len(d) > 0
    BY <1>4
  <2>2. \A i \in 1..Len(d) : d[i].more = (i # Len(d))
    BY <1>4, <1>7
  <2> QED BY <1>4, <1>5, <2>1, <2>2 DEF Coded
<1> QED BY <1>2, <1>8 DEF d

LEMMA EncodeCoded == ASSUME NEW n \in Nat \ {0} PROVE Coded(VarintEncode(n), n)
<1>1. PICK f : /\ VarintEncode(n) = f[n]
               /\ \A v \in 0..n :
                    f[v] = IF v = 0 THEN <<>> ELSE <<Digit(v)>> \o f[v \div Base]
  BY EncodeIs
<1> DEFINE Bad == {v \in 1..n : ~Coded(f[v], v)}
<1>2. SUFFICES ASSUME Bad # {} PROVE FALSE
  <2>1. n \in 1..n
    OBVIOUS
  <2> QED BY <1>1, <2>1
<1>3. PICK v \in Bad : \A u \in Bad : v <= u
  <2>1. Bad \in SUBSET Nat
    OBVIOUS
  <2> HIDE DEF Bad
  <2> QED BY <1>2, <2>1, FirstNumber
<1>4. v \in 1..n /\ ~Coded(f[v], v)
  OBVIOUS
<1>5. PICK q \in Nat : q = v \div Base /\ q < v
  BY <1>4, Quotient
<1>6. f[v] = <<Digit(v)>> \o f[q]
  <2>1. v \in 0..n /\ v # 0
    BY <1>4
  <2> HIDE DEF Bad
  <2> QED BY <1>1, <1>5, <2>1
<1>7. PICK c : c = f[q]
  OBVIOUS
<1>8. (c = <<>> /\ v \div Base = 0) \/ (v \div Base # 0 /\ Coded(c, v \div Base))
  <2>1. CASE q = 0
    <3>1. 0 \in 0..n
      OBVIOUS
    <3> HIDE DEF Bad
    <3>2. f[0] = <<>>
      BY <1>1, <3>1
    <3>3. v \div Base = 0
      BY <1>5, <2>1
    <3>4. c = <<>>
      BY <1>7, <2>1, <3>2
    <3> QED BY <3>3, <3>4
  <2>2. CASE q # 0
    <3>1. q \in 1..n /\ ~(v <= q)
      BY <1>4, <1>5, <2>2
    <3>2. Coded(f[q], q)
      BY <1>3, <3>1
    <3> HIDE DEF Bad
    <3> QED BY <1>5, <1>7, <2>2, <3>2
  <2> QED BY <2>1, <2>2
<1>9. Coded(<<Digit(v)>> \o c, v)
  <2>1. v \in Nat \ {0}
    BY <1>4
  <2> HIDE DEF Bad
  <2> QED BY <1>8, <2>1, CodedStep
<1> QED BY <1>4, <1>6, <1>7, <1>9

LEMMA DecodeCoded ==
  ASSUME NEW v, NEW c, Coded(c, v), NEW rest \in Seq(Byte)
  PROVE  /\ VarintDecode(c \o rest) = v
         /\ SubSeq(c \o rest, FirstLength(c \o rest) + 1, Len(c \o rest)) = rest
<1> DEFINE bytes == c \o rest
           n == Len(c)
<1>1. /\ c \in Seq(Byte) /\ n \in Nat /\ n > 0
      /\ \A i \in 1..n : c[i].more = (i # n)
      /\ Number(c) = v
  BY DEF Coded
<1>2. /\ bytes \in Seq(Byte) /\ Len(bytes) = n + Len(rest) /\ Len(rest) \in Nat
      /\ DOMAIN bytes = 1..Len(bytes)
      /\ \A i \in 1..n : bytes[i] = c[i]
      /\ \A i \in 1..Len(rest) : bytes[n + i] = rest[i]
  BY <1>1
<1>3. FirstLength(bytes) = n
  <2> HIDE DEF bytes, n
  <2> DEFINE P(m) == ~bytes[m].more /\ \A i \in 1..(m - 1) : bytes[i].more
  <2>1. n \in DOMAIN bytes /\ n \in 1..n
    BY <1>1, <1>2
  <2>2. P(n)
    <3>1. bytes[n].more = FALSE
      BY <1>1, <1>2, <2>1
    <3>2. \A i \in 1..(n - 1) : i \in 1..n /\ i # n
      BY <1>1
    <3>3. \A i \in 1..(n - 1) : bytes[i].more = TRUE
      BY <1>1, <1>2, <3>2
    <3> QED BY <3>1, <3>3
  <2>3. ASSUME NEW m \in DOMAIN bytes, P(m) PROVE m = n
    <3>1. m \in Nat
      BY <1>2
    <3>2. ~(m < n)
      <4> SUFFICES ASSUME m < n PROVE FALSE
        OBVIOUS
      <4>1. m \in 1..n /\ m # n
        BY <1>1, <1>2, <3>1
      <4>2. bytes[m].more = TRUE
        BY <1>1, <1>2, <4>1
      <4> QED BY <2>3, <4>2
    <3>3. ~(n < m)
      <4> SUFFICES ASSUME n < m PROVE FALSE
        OBVIOUS
      <4>1. n \in 1..(m - 1)
        BY <1>1, <3>1
      <4>2. bytes[n].more = FALSE
        BY <1>1, <1>2, <2>1
      <4> QED BY <2>3, <4>1, <4>2
    <3> QED BY <1>1, <3>1, <3>2, <3>3
  <2>4. FirstLength(bytes) = CHOOSE m \in DOMAIN bytes : P(m)
    BY DEF FirstLength
  <2> HIDE DEF P
  <2> QED BY <2>1, <2>2, <2>3, <2>4
<1>4. SubSeq(bytes, 1, n) = c
  <2>1. /\ SubSeq(bytes, 1, n) \in Seq(Byte) /\ Len(SubSeq(bytes, 1, n)) = n
        /\ \A i \in 1..n : SubSeq(bytes, 1, n)[i] = c[i]
    <3>1. n <= Len(bytes)
      BY <1>1, <1>2
    <3> HIDE DEF bytes, n
    <3> QED BY <1>1, <1>2, <3>1
  <2> HIDE DEF bytes
  <2> QED BY <1>1, <2>1, SeqEqual
<1>5. SubSeq(bytes, n + 1, Len(bytes)) = rest
  <2> DEFINE s == SubSeq(bytes, n + 1, Len(bytes))
  <2>1. /\ s \in Seq(Byte) /\ Len(s) = Len(rest)
        /\ \A i \in 1..Len(rest) : s[i] = rest[i]
    <3> HIDE DEF bytes, n
    <3>1. n + 1 \in Nat /\ Len(bytes) - (n + 1) + 1 = Len(rest)
      BY <1>1, <1>2
    <3>2. s \in Seq(Byte) /\ Len(s) = Len(rest)
      BY <1>1, <1>2, <3>1
    <3>3. ASSUME NEW i \in 1..Len(rest) PROVE s[i] = rest[i]
      <4>1. s[i] = bytes[(n + 1) + i - 1] /\ (n + 1) + i - 1 = n + i
        BY <1>1, <1>2, <3>1
      <4> QED BY <1>2, <4>1
    <3> QED BY <3>2, <3>3
  <2> HIDE DEF s
  <2> QED BY <2>1, SeqEqual
<1> HIDE DEF bytes, n
<1>6. VarintDecode(bytes) = v
  BY <1>1, <1>3, <1>4 DEF VarintDecode
<1> QED BY <1>3, <1>5, <1>6 DEF bytes

\* A tag comes back as it was sent, whatever the numbers, if none of them is 0.
LEMMA TagRoundTrip ==
  ASSUME NEW seq \in Nat \ {0}, NEW time \in Nat \ {0}
  PROVE  /\ Serialize(seq, time) \in Seq(Byte)
         /\ Deserialize(Serialize(seq, time)) = [seq |-> seq, time |-> time]
<1> DEFINE s == VarintEncode(seq)
           t == VarintEncode(time)
<1>1. Coded(s, seq) /\ Coded(t, time)
  BY EncodeCoded
<1> HIDE DEF s, t
<1>2. s \in Seq(Byte) /\ t \in Seq(Byte) /\ <<>> \in Seq(Byte) /\ t \o <<>> = t
  BY <1>1 DEF Coded
<1>3. /\ VarintDecode(s \o t) = seq
      /\ SubSeq(s \o t, FirstLength(s \o t) + 1, Len(s \o t)) = t
  BY <1>1, <1>2, DecodeCoded
<1>4. VarintDecode(t) = time
  <2>1. VarintDecode(t \o <<>>) = time
    BY <1>1, <1>2, DecodeCoded
  <2> QED BY <1>2, <2>1
<1>5. Serialize(seq, time) = s \o t
  BY DEF Serialize, s, t
<1>6. PICK bytes : bytes = s \o t
  OBVIOUS
<1>7. Deserialize(bytes) = [seq |-> seq, time |-> time]
  BY <1>3, <1>4, <1>6, Zenon DEF Deserialize
<1> QED BY <1>2, <1>5, <1>6, <1>7
------------------------------------------------------------------------------
(* The session *)

\* Every packet in the network has the tag of a packet that was sent, at the time
\* that it was sent, and no tag has a 0.
MediaInv ==
  /\ now \in Times \cup {0} /\ m_seq \in 1..(MaxPackets + 1)
  /\ sent_at \in [Seqs -> Times \cup {0}]
  /\ \A s \in 1..(m_seq - 1) : sent_at[s] \in Times /\ sent_at[s] <= now
  /\ \A p \in media : \E s \in 1..(m_seq - 1) : p = [tag |-> Serialize(s, sent_at[s])]

\* The packets that the network has or the receiver has counted were all sent.
CountInv ==
  /\ IsFiniteSet(media) /\ m_readBytes \in Nat
  /\ Cardinality(media) + m_readBytes <= m_seq - 1

\* What the receiver has written down is about packets that were sent.
ReceiptInv ==
  /\ m_maxSeq \in 0..MaxPackets /\ m_receiptMillis \in Times \cup {0}
  /\ m_loss \in {<<>>} \cup (Nat \X Seqs)
  /\ received \in Seq(Seqs) /\ receiver_client \in Seq(Seqs)

\* The time of the last line is kept, and 0 stands for no line.
OwdInv ==
  /\ m_owd \in Seq([time : Times, owd : Nat, seq : Seqs])
  /\ \A i \in DOMAIN m_owd : m_owd[i].seq < m_seq
  /\ m_lastOutTime = IF m_owd = <<>> THEN 0 ELSE m_owd[Len(m_owd)].time
  /\ OwdTraced

\* No feedback is in the network before the session is started.
FeedbackInv ==
  /\ sender \in Phase /\ receiver \in Phase
  /\ over \in BOOLEAN /\ m_knowPeer \in BOOLEAN
  /\ feedback \subseteq Feedbacks
  /\ arrived \in Seq(Feedbacks)
  /\ sender_socket \in Seq(Feedbacks) /\ sender_client \in Seq(Feedbacks)
  /\ sender = "new" => feedback = {} /\ sender_socket = <<>>
  /\ FeedbackInOrder

LEMMA SerializeDomain ==
  ASSUME MediaInv, NEW s \in 1..(m_seq - 1)
  PROVE  /\ s \in Seqs /\ s \in Nat \ {0}
         /\ sent_at[s] \in Nat \ {0} /\ sent_at[s] \in Times
         /\ sent_at[s] <= now /\ now \in Nat
<1>1. MaxPackets \in Nat /\ Times \subseteq Nat \ {0}
  BY SessionConstants DEF SessionConstants
<1>2. now \in Nat /\ m_seq \in Nat /\ m_seq <= MaxPackets + 1
  BY <1>1 DEF MediaInv
<1>3. sent_at[s] \in Times /\ sent_at[s] <= now
  BY DEF MediaInv
<1>4. s \in Nat \ {0} /\ s \in Seqs
  BY <1>1, <1>2 DEF Seqs
<1> QED BY <1>1, <1>2, <1>3, <1>4

LEMMA MediaStep == ASSUME MediaInv, [Next]_vars PROVE MediaInv'
<1>0. MaxPackets \in Nat /\ Times \subseteq Nat \ {0}
  BY SessionConstants DEF SessionConstants
<1>1. CASE SendMedia
  <2>1. /\ now' \in Times /\ now' >= now /\ m_seq \in Seqs /\ m_seq' = m_seq + 1
        /\ media' = media \cup {[tag |-> Serialize(m_seq, now')]}
        /\ sent_at' = [sent_at EXCEPT ![m_seq] = now']
    BY <1>1 DEF SendMedia, Event
  <2>2. m_seq' \in 1..(MaxPackets + 1) /\ now \in Nat /\ now' \in Nat
    BY <1>0, <2>1 DEF MediaInv, Seqs
  <2>3. sent_at' \in [Seqs -> Times \cup {0}] /\ sent_at'[m_seq] = now'
    BY <2>1 DEF MediaInv
  <2>4. \A s \in 1..(m_seq' - 1) : s = m_seq \/ s \in 1..(m_seq - 1)
    BY <1>0, <2>1 DEF Seqs
  <2>5. \A s \in 1..(m_seq - 1) : /\ s \in 1..(m_seq' - 1) /\ sent_at'[s] = sent_at[s]
    BY <1>0, <2>1 DEF MediaInv, Seqs
  <2>6. ASSUME NEW s \in 1..(m_seq' - 1) PROVE sent_at'[s] \in Times /\ sent_at'[s] <= now'
    <3>1. CASE s = m_seq
      BY <2>1, <2>2, <2>3, <3>1
    <3>2. CASE s \in 1..(m_seq - 1)
      BY <1>0, <2>1, <2>2, <2>5, <3>2, SerializeDomain
    <3> QED BY <2>4, <3>1, <3>2
  <2>7. ASSUME NEW p \in media'
        PROVE  \E s \in 1..(m_seq' - 1) : p = [tag |-> Serialize(s, sent_at'[s])]
    <3>1. CASE p \in media
      <4>1. PICK s \in 1..(m_seq - 1) : p = [tag |-> Serialize(s, sent_at[s])]
        BY <3>1 DEF MediaInv
      <4> QED BY <2>5, <4>1
    <3>2. CASE p = [tag |-> Serialize(m_seq, now')]
      <4>1. m_seq \in 1..(m_seq' - 1)
        BY <1>0, <2>1 DEF Seqs
      <4> QED BY <2>3, <3>2, <4>1
    <3> QED BY <2>1, <3>1, <3>2
  <2> QED BY <2>1, <2>2, <2>3, <2>6, <2>7 DEF MediaInv
<1>2. CASE UNCHANGED mediaVars /\ (Event \/ UNCHANGED now)
  <2>1. now' \in Times \cup {0} /\ now' >= now /\ now \in Nat /\ now' \in Nat
    <3>1. now \in Nat /\ now \in Times \cup {0}
      BY <1>0 DEF MediaInv
    <3>2. CASE Event
      BY <1>0, <3>1, <3>2 DEF Event
    <3>3. CASE UNCHANGED now
      BY <3>1, <3>3
    <3> QED BY <1>2, <3>2, <3>3
  <2>2. m_seq' = m_seq /\ sent_at' = sent_at /\ media' = media
    BY <1>2 DEF mediaVars
  <2>3. \A s \in 1..(m_seq - 1) : sent_at[s] \in Times /\ sent_at[s] <= now'
    BY <2>1, SerializeDomain
  <2> QED BY <2>1, <2>2, <2>3 DEF MediaInv
<1>3. ASSUME NEW p \in media, ReceiverRecvPacket(p) PROVE MediaInv'
  <2>1. /\ now' \in Times /\ now' >= now /\ m_seq' = m_seq /\ sent_at' = sent_at
        /\ media' = media \ {p}
    BY <1>3 DEF ReceiverRecvPacket, Event
  <2>2. now \in Nat /\ now' \in Nat
    BY <1>0, <2>1 DEF MediaInv
  <2>3. \A s \in 1..(m_seq - 1) : sent_at[s] \in Times /\ sent_at[s] <= now'
    BY <2>1, <2>2, SerializeDomain
  <2> QED BY <2>1, <2>3 DEF MediaInv
<1>4. CASE StartSender \/ StopSender \/ StartReceiver \/ StopReceiver \/ CloseTrace
  BY <1>2, <1>4 DEF StartSender, StopSender, StartReceiver, StopReceiver, CloseTrace
<1>5. ASSUME NEW id \in Feedbacks, SendFeedback(id) \/ SenderRecvPacket(id)
      PROVE  MediaInv'
  BY <1>2, <1>5 DEF SendFeedback, SenderRecvPacket
<1>6. CASE UNCHANGED vars
  BY <1>2, <1>6 DEF vars
<1> QED BY <1>1, <1>3, <1>4, <1>5, <1>6 DEF Next

\* What the receiver reads from a packet is what the sender put there, and what it
\* does with it.
LEMMA PacketRead ==
  ASSUME MediaInv, NEW p \in media, ReceiverRecvPacket(p)
  PROVE  \E s \in 1..(m_seq - 1) :
           /\ OnReceiptPktInfo(now', s, now' - sent_at[s]) \/ UNCHANGED traceVars
           /\ receiver_client' \in {receiver_client, Append(receiver_client, s)}
           /\ s \in Seqs /\ s \in Nat \ {0} /\ now' \in Times /\ now' \in Nat
           /\ now' - sent_at[s] \in Nat
<1>1. PICK s \in 1..(m_seq - 1) : p = [tag |-> Serialize(s, sent_at[s])]
  BY DEF MediaInv
<1>2. /\ s \in Seqs /\ s \in Nat \ {0} /\ sent_at[s] \in Nat \ {0}
      /\ sent_at[s] <= now /\ now \in Nat
  BY SerializeDomain
<1>3. now' \in Times /\ now' >= now
  BY DEF ReceiverRecvPacket, Event
<1>4. now' \in Nat
  BY <1>3, SessionConstants DEF SessionConstants
<1>5. p.tag = Serialize(s, sent_at[s])
  BY <1>1
<1>6. Deserialize(p.tag) = [seq |-> s, time |-> sent_at[s]]
  BY <1>2, <1>5, TagRoundTrip
<1>7. Deserialize(p.tag).seq = s /\ Deserialize(p.tag).time = sent_at[s]
  BY <1>6
<1>8. OnReceiptPktInfo(now', s, now' - sent_at[s]) \/ UNCHANGED traceVars
  BY <1>7 DEF ReceiverRecvPacket
<1>9. receiver_client' \in {receiver_client, Append(receiver_client, s)}
  BY <1>7 DEF ReceiverRecvPacket
<1> QED BY <1>2, <1>3, <1>4, <1>8, <1>9

\* The steps that change what the receiver knows.
LEMMA ReceiverSteps ==
  ASSUME [Next]_vars
  PROVE  \/ SendMedia \/ CloseTrace
         \/ \E p \in media : ReceiverRecvPacket(p)
         \/ UNCHANGED <<mediaVars, receiverVars>>
<1>1. CASE StartSender \/ StopSender \/ StartReceiver \/ StopReceiver
  BY <1>1 DEF StartSender, StopSender, StartReceiver, StopReceiver
<1>2. ASSUME NEW id \in Feedbacks, SendFeedback(id) \/ SenderRecvPacket(id)
      PROVE  UNCHANGED <<mediaVars, receiverVars>>
  BY <1>2 DEF SendFeedback, SenderRecvPacket
<1>3. CASE UNCHANGED vars
  BY <1>3 DEF vars
<1> QED BY <1>1, <1>2, <1>3 DEF Next

\* Every step of a session is one of its trace, or leaves the trace alone.
LEMMA SessionTraceStep == MediaInv /\ [Next]_vars => [TraceNext]_traceVars
<1> SUFFICES ASSUME MediaInv, [Next]_vars PROVE [TraceNext]_traceVars
  OBVIOUS
<1>1. ASSUME NEW p \in media, ReceiverRecvPacket(p) PROVE [TraceNext]_traceVars
  <2>1. PICK s \in 1..(m_seq - 1) :
          /\ OnReceiptPktInfo(now', s, now' - sent_at[s]) \/ UNCHANGED traceVars
          /\ s \in Nat /\ now' \in Nat /\ now' - sent_at[s] \in Nat
    BY <1>1, PacketRead
  <2>2. PICK at \in Nat, owd \in Nat : at = now' /\ owd = now' - sent_at[s]
    BY <2>1
  <2>3. OnReceiptPktInfo(at, s, owd) \/ UNCHANGED traceVars
    BY <2>1, <2>2
  <2> QED BY <2>1, <2>3 DEF TraceNext
<1>2. CASE CloseTrace
  BY <1>2 DEF CloseTrace, TraceNext
<1>3. CASE UNCHANGED receiverVars
  BY <1>3 DEF receiverVars
<1>4. SendMedia => UNCHANGED receiverVars
  BY DEF SendMedia
<1> QED BY <1>1, <1>2, <1>3, <1>4, ReceiverSteps

LEMMA CountStep == ASSUME MediaInv, CountInv, [Next]_vars PROVE CountInv'
<1>1. CASE SendMedia
  <2>1. m_seq \in Nat /\ m_seq' = m_seq + 1 /\ m_readBytes' = m_readBytes
    BY <1>1, SessionConstants DEF SendMedia, receiverVars, MediaInv, SessionConstants
  <2>2. PICK p : media' = media \cup {p}
    BY <1>1 DEF SendMedia
  <2>3. /\ IsFiniteSet(media') /\ Cardinality(media) \in Nat /\ Cardinality(media') \in Nat
        /\ Cardinality(media') <= Cardinality(media) + 1
    <3>1. IsFiniteSet(media) /\ Cardinality(media) \in Nat
      BY FS_CardinalityType DEF CountInv
    <3>2. /\ IsFiniteSet(media \cup {p})
          /\ Cardinality(media \cup {p}) \in {Cardinality(media), Cardinality(media) + 1}
      BY <3>1, FS_AddElement
    <3> QED BY <2>2, <3>1, <3>2
  <2> QED BY <2>1, <2>3 DEF CountInv
<1>2. ASSUME NEW p \in media, ReceiverRecvPacket(p) PROVE CountInv'
  <2>1. media' = media \ {p} /\ m_seq' = m_seq
    BY <1>2 DEF ReceiverRecvPacket
  <2>2. m_readBytes' \in {m_readBytes, m_readBytes + 1}
    BY <1>2 DEF ReceiverRecvPacket
  <2>3. /\ IsFiniteSet(media') /\ Cardinality(media) \in Nat
        /\ Cardinality(media') = Cardinality(media) - 1
    BY <2>1, FS_RemoveElement, FS_CardinalityType DEF CountInv
  <2>4. Cardinality(media') \in Nat
    BY <2>3, FS_CardinalityType
  <2>5. m_seq \in Nat
    BY SessionConstants DEF MediaInv, SessionConstants
  <2> QED BY <2>1, <2>2, <2>3, <2>4, <2>5 DEF CountInv
<1>3. CASE CloseTrace
  BY <1>3 DEF CloseTrace, mediaVars, CountInv
<1>4. CASE UNCHANGED <<mediaVars, receiverVars>>
  BY <1>4 DEF mediaVars, receiverVars, CountInv
<1> QED BY <1>1, <1>2, <1>3, <1>4, ReceiverSteps

LEMMA ReceiptStep ==
  ASSUME MediaInv, MaxInv, ReceiptInv, [Next]_vars
  PROVE  ReceiptInv'
<1>0. MaxPackets \in Nat
  BY SessionConstants DEF SessionConstants
<1>1. ASSUME NEW p \in media, ReceiverRecvPacket(p) PROVE ReceiptInv'
  <2>1. PICK s \in 1..(m_seq - 1) :
          /\ OnReceiptPktInfo(now', s, now' - sent_at[s]) \/ UNCHANGED traceVars
          /\ receiver_client' \in {receiver_client, Append(receiver_client, s)}
          /\ s \in Seqs /\ now' \in Times
    BY <1>1, PacketRead
  <2>2. receiver_client' \in Seq(Seqs)
    BY <2>1 DEF ReceiptInv
  <2>3. m_receiptMillis' \in Times \cup {0}
    BY <1>1, <2>1 DEF ReceiverRecvPacket, ReceiptInv
  <2>4. CASE OnReceiptPktInfo(now', s, now' - sent_at[s])
    <3>1. received' \in Seq(Seqs) /\ m_loss' = m_loss
      BY <2>1, <2>4 DEF OnReceiptPktInfo, ReceiptInv
    <3>2. m_maxSeq' \in 0..MaxPackets
      BY <1>0, <2>1, <2>4 DEF OnReceiptPktInfo, TraceLoss, ReceiptInv, Seqs
    <3> QED BY <2>2, <2>3, <3>1, <3>2 DEF ReceiptInv
  <2>5. CASE UNCHANGED traceVars
    BY <2>2, <2>3, <2>5 DEF traceVars, lossVars, ReceiptInv
  <2> QED BY <2>1, <2>4, <2>5
<1>2. CASE CloseTrace
  <2>1. UNCHANGED <<m_maxSeq, received, receiver_client, m_receiptMillis>>
    BY <1>2 DEF CloseTrace, Close
  <2>2. m_loss' \in {<<>>} \cup (Nat \X Seqs)
    <3>1. m_maxSeq # 0 => m_maxSeq \in Seqs
      BY <1>0 DEF ReceiptInv, Seqs
    <3>2. m_lossPkts \in Nat
      BY DEF MaxInv
    <3> QED BY <1>2, <3>1, <3>2 DEF CloseTrace, Close, ReceiptInv
  <2> QED BY <2>1, <2>2 DEF ReceiptInv
<1>3. CASE UNCHANGED receiverVars
  BY <1>3 DEF receiverVars, traceVars, lossVars, ReceiptInv
<1>4. SendMedia => UNCHANGED receiverVars
  BY DEF SendMedia
<1> QED BY <1>1, <1>2, <1>3, <1>4, ReceiverSteps

LEMMA OwdStep == ASSUME MediaInv, OwdInv, [Next]_vars PROVE OwdInv'
<1> DEFINE Line == [time : Times, owd : Nat, seq : Seqs]
           n == Len(m_owd)
<1>0. /\ m_owd \in Seq(Line) /\ n \in Nat /\ DOMAIN m_owd = 1..n
      /\ m_seq \in Nat /\ Times \subseteq Nat \ {0}
      /\ \A i \in 1..n : m_owd[i] \in Line /\ m_owd[i].time \in Times /\ m_owd[i].seq \in Seqs
  <2>1. m_owd \in Seq(Line)
    BY DEF OwdInv
  <2>2. m_seq \in Nat /\ Times \subseteq Nat \ {0}
    BY SessionConstants DEF MediaInv, SessionConstants
  <2>3. \A e \in Line : e.time \in Times /\ e.seq \in Seqs
    OBVIOUS
  <2> HIDE DEF Line
  <2>4. n \in Nat /\ DOMAIN m_owd = 1..n /\ \A i \in 1..n : m_owd[i] \in Line
    BY <2>1
  <2> QED BY <2>1, <2>2, <2>3, <2>4
<1>1. CASE SendMedia
  <2>1. /\ m_seq' = m_seq + 1 /\ sent_at' = [sent_at EXCEPT ![m_seq] = now']
        /\ m_owd' = m_owd /\ m_lastOutTime' = m_lastOutTime
    BY <1>1 DEF SendMedia, receiverVars, traceVars
  <2>2. \A i \in DOMAIN m_owd : m_owd[i].seq < m_seq /\ m_owd[i].seq # m_seq
    BY <1>0 DEF OwdInv, Seqs
  <2>3. \A i \in DOMAIN m_owd : sent_at'[m_owd[i].seq] = sent_at[m_owd[i].seq]
    BY <1>0, <2>1, <2>2 DEF MediaInv
  <2>4. \A i \in DOMAIN m_owd : m_owd[i].seq < m_seq'
    BY <1>0, <2>1, <2>2 DEF Seqs
  <2>5. OwdTraced'
    BY <2>1, <2>3 DEF OwdInv, OwdTraced
  <2> QED BY <2>1, <2>4, <2>5 DEF OwdInv
<1>2. CASE UNCHANGED <<m_owd, m_lastOutTime, m_seq, sent_at>>
  BY <1>2 DEF OwdInv, OwdTraced
<1>3. ASSUME NEW p \in media, ReceiverRecvPacket(p) PROVE OwdInv'
  <2>1. PICK s \in 1..(m_seq - 1) :
          /\ OnReceiptPktInfo(now', s, now' - sent_at[s]) \/ UNCHANGED traceVars
          /\ s \in Seqs /\ s \in Nat /\ now' \in Times /\ now' - sent_at[s] \in Nat
    BY <1>3, PacketRead
  <2>2. m_seq' = m_seq /\ sent_at' = sent_at
    BY <1>3 DEF ReceiverRecvPacket
  <2>3. CASE UNCHANGED <<m_owd, m_lastOutTime>>
    BY <1>2, <2>2, <2>3
  <2>4. CASE UNCHANGED traceVars
    BY <2>3, <2>4 DEF traceVars
  <2>5. CASE OnReceiptPktInfo(now', s, now' - sent_at[s]) /\ ~UNCHANGED <<m_owd, m_lastOutTime>>
    <3>1. PICK line : line = [time |-> now', owd |-> now' - sent_at[s], seq |-> s]
      OBVIOUS
    <3>2. /\ line \in Line /\ line.time = now' /\ line.seq = s
          /\ line.owd = now' - sent_at[s]
      BY <2>1, <3>1
    <3>3. /\ m_owd' = Append(m_owd, line) /\ m_lastOutTime' = now'
          /\ m_lastOutTime = 0 \/ now' - m_lastOutTime >= OwdInterval
      BY <2>5, <3>1 DEF OnReceiptPktInfo, TraceOwd
    <3> HIDE DEF Line
    <3>4. /\ m_owd' \in Seq(Line) /\ Len(m_owd') = n + 1 /\ DOMAIN m_owd' = 1..(n + 1)
          /\ m_owd'[n + 1] = line /\ \A i \in 1..n : m_owd'[i] = m_owd[i]
          /\ m_owd' # <<>>
      BY <1>0, <3>2, <3>3
    <3>5. \A i \in 1..(n + 1) : i \in 1..n \/ i = n + 1
      BY <1>0
    <3>6. ASSUME NEW i \in DOMAIN m_owd'
          PROVE  /\ m_owd'[i].seq < m_seq'
                 /\ m_owd'[i].owd = m_owd'[i].time - sent_at'[m_owd'[i].seq]
      <4>1. CASE i \in 1..n
        BY <1>0, <2>2, <3>4, <4>1 DEF OwdInv, OwdTraced
      <4>2. CASE i = n + 1
        BY <1>0, <2>1, <2>2, <3>2, <3>4, <4>2
      <4> QED BY <3>4, <3>5, <4>1, <4>2
    <3>7. ASSUME NEW i \in DOMAIN m_owd', i > 1
          PROVE  m_owd'[i].time - m_owd'[i - 1].time >= OwdInterval
      <4>1. CASE i \in 1..n
        <5>1. i - 1 \in 1..n
          BY <1>0, <3>7, <4>1
        <5> QED BY <1>0, <3>4, <3>7, <4>1, <5>1 DEF OwdInv, OwdTraced
      <4>2. CASE i = n + 1
        <5>1. n \in 1..n /\ i - 1 = n /\ m_owd # <<>>
          BY <1>0, <3>7, <4>2
        <5>2. m_lastOutTime = m_owd[n].time /\ m_lastOutTime # 0
          BY <1>0, <5>1 DEF OwdInv
        <5> QED BY <3>2, <3>3, <3>4, <4>2, <5>1, <5>2
      <4> QED BY <3>4, <3>5, <4>1, <4>2
    <3>8. m_lastOutTime' = IF m_owd' = <<>> THEN 0 ELSE m_owd'[Len(m_owd')].time
      BY <3>2, <3>3, <3>4
    <3>9. OwdTraced'
      BY <3>6, <3>7 DEF OwdTraced
    <3> QED BY <3>4, <3>6, <3>8, <3>9 DEF OwdInv, Line
  <2> QED BY <2>1, <2>3, <2>4, <2>5
<1>4. CASE CloseTrace
  BY <1>2, <1>4 DEF CloseTrace, Close, mediaVars
<1>5. CASE UNCHANGED <<mediaVars, receiverVars>>
  BY <1>2, <1>5 DEF mediaVars, receiverVars, traceVars
<1> QED BY <1>1, <1>3, <1>4, <1>5, ReceiverSteps

LEMMA FeedbackStep == ASSUME FeedbackInv, [Next]_vars PROVE FeedbackInv'
<1>0. /\ sender_socket \in Seq(Feedbacks) /\ sender_client \in Seq(Feedbacks)
      /\ arrived \in Seq(Feedbacks) /\ feedback \subseteq Feedbacks
      /\ sender \in Phase /\ receiver \in Phase
      /\ over \in BOOLEAN /\ m_knowPeer \in BOOLEAN
      /\ sender_client \o sender_socket = arrived
      /\ sender = "new" => feedback = {} /\ sender_socket = <<>>
      /\ sender = "running" => sender_socket = <<>>
  BY DEF FeedbackInv, FeedbackInOrder
<1>1. ASSUME UNCHANGED <<feedback, senderVars>>, m_knowPeer' \in BOOLEAN, over' \in BOOLEAN,
             receiver' \in Phase,
             \/ sender' = sender
             \/ sender = "new" /\ sender' = "running"
             \/ sender' = "stopped"
      PROVE  FeedbackInv'
  <2>1. UNCHANGED <<feedback, sender_socket, sender_client, arrived>>
    BY <1>1 DEF senderVars
  <2>2. sender' \in Phase
    BY <1>0, <1>1 DEF Phase
  <2>3. FeedbackInOrder'
    BY <1>0, <1>1, <2>1 DEF FeedbackInOrder
  <2>4. sender' = "new" => feedback' = {} /\ sender_socket' = <<>>
    BY <1>0, <1>1, <2>1
  <2> QED BY <1>0, <1>1, <2>1, <2>2, <2>3, <2>4 DEF FeedbackInv
<1>2. ASSUME NEW id \in Feedbacks, SendFeedback(id) PROVE FeedbackInv'
  <2>1. /\ sender # "new" /\ feedback' = feedback \cup {id}
        /\ UNCHANGED <<sender, receiver, over, m_knowPeer,
                       sender_socket, sender_client, arrived>>
    BY <1>2 DEF SendFeedback, SessionStarted, appVars, receiverVars, senderVars
  <2> QED BY <1>0, <2>1 DEF FeedbackInv, FeedbackInOrder
<1>3. ASSUME NEW id \in Feedbacks, SenderRecvPacket(id) PROVE FeedbackInv'
  <2> DEFINE unread == Append(sender_socket, id)
  <2>1. /\ sender # "new" /\ feedback' = feedback \ {id} /\ arrived' = Append(arrived, id)
        /\ UNCHANGED <<sender, receiver, over, m_knowPeer>>
    BY <1>0, <1>3 DEF SenderRecvPacket, appVars, receiverVars
  <2>2. /\ sender_socket' \in Seq(Feedbacks) /\ sender_client' \in Seq(Feedbacks)
        /\ sender_client' \o sender_socket' = arrived'
        /\ sender = "running" => sender_socket' = <<>>
    <3>1. CASE sender = "running"
      <4>1. sender_client' = Append(sender_client, Head(unread)) /\ sender_socket' = Tail(unread)
        BY <1>3, <3>1 DEF SenderRecvPacket
      <4>2. unread = <<id>> /\ Head(unread) = id /\ Tail(unread) = <<>>
        BY <1>0, <3>1
      <4>3. sender_client' = Append(sender_client, id) /\ sender_socket' = <<>>
        BY <4>1, <4>2
      <4>4. sender_client = arrived
        BY <1>0, <3>1
      <4> QED BY <1>0, <2>1, <4>3, <4>4
    <3>2. CASE sender # "running"
      <4>1. sender_client' = sender_client /\ sender_socket' = Append(sender_socket, id)
        BY <1>3, <3>2 DEF SenderRecvPacket
      <4>2. sender_client \o Append(sender_socket, id) = Append(sender_client \o sender_socket, id)
        BY <1>0, AppendProperties, ConcatProperties, SeqEqual
      <4> QED BY <1>0, <2>1, <3>2, <4>1, <4>2
    <3> QED BY <3>1, <3>2
  <2> QED BY <1>0, <2>1, <2>2 DEF FeedbackInv, FeedbackInOrder
<1>4. CASE StartSender
  BY <1>0, <1>1, <1>4 DEF StartSender, receiverVars
<1>5. CASE StopSender
  BY <1>0, <1>1, <1>5 DEF StopSender, receiverVars
<1>6. CASE StartReceiver \/ StopReceiver
  BY <1>0, <1>1, <1>6 DEF StartReceiver, StopReceiver, receiverVars, Phase
<1>7. CASE CloseTrace \/ SendMedia \/ (\E p \in media : ReceiverRecvPacket(p)) \/ UNCHANGED vars
  BY <1>0, <1>1, <1>7
     DEF CloseTrace, SendMedia, ReceiverRecvPacket, vars, appVars, receiverVars
<1> QED BY <1>2, <1>3, <1>4, <1>5, <1>6, <1>7 DEF Next

SessionInv ==
  MediaInv /\ CountInv /\ ReceiptInv /\ OwdInv /\ FeedbackInv /\ TraceInv

LEMMA SessionInitial == Init => SessionInv
<1> SUFFICES ASSUME Init PROVE SessionInv
  OBVIOUS
<1>0. MaxPackets \in Nat /\ Times \subseteq Nat \ {0}
  BY SessionConstants DEF SessionConstants
<1>1. MediaInv
  BY <1>0 DEF Init, MediaInv
<1>2. CountInv
  BY FS_EmptySet DEF Init, CountInv
<1>3. ReceiptInv
  BY <1>0 DEF Init, TraceInit, ReceiptInv
<1>4. OwdInv
  BY DEF Init, TraceInit, OwdInv, OwdTraced
<1>5. FeedbackInv
  <2>1. <<>> \o <<>> = <<>> /\ <<>> \in Seq(Feedbacks)
    BY ConcatEmptySeq
  <2>2. FeedbackInOrder
    BY <2>1 DEF Init, FeedbackInOrder
  <2> QED BY <2>1, <2>2 DEF Init, Phase, FeedbackInv
<1>6. TraceInv
  BY TraceInitial DEF Init
<1> QED BY <1>1, <1>2, <1>3, <1>4, <1>5, <1>6 DEF SessionInv

LEMMA SessionStep == SessionInv /\ [Next]_vars => SessionInv'
BY MediaStep, CountStep, ReceiptStep, OwdStep, FeedbackStep, TraceStep, SessionTraceStep
   DEF SessionInv, TraceInv

LEMMA SessionInvariant == Spec => []SessionInv
BY SessionInitial, SessionStep, PTL DEF Spec

\* What a session does to the trace is what the trace expects: every packet is given
\* to it with a number and a delay that are not negative, since the tag comes back as
\* it was written (Serialize, Deserialize) and no packet comes before it was sent.
THEOREM SessionImplementsTrace == Spec => TraceSpec
<1>1. Init => TraceInit
  BY DEF Init
<1>2. SessionInv /\ [Next]_vars => [TraceNext]_traceVars
  BY SessionTraceStep DEF SessionInv
<1> QED BY <1>1, <1>2, SessionInvariant, PTL DEF Spec, TraceSpec

\* The state of a session is well-formed; the utilisation never counts more packets
\* than were sent (ReceiverRecvPacket).
THEOREM TypeCorrect == Spec => []TypeOK
<1>1. SessionInv => TypeOK
  <2> SUFFICES ASSUME SessionInv PROVE TypeOK
    OBVIOUS
  <2>0. MaxPackets \in Nat /\ Times \subseteq Nat \ {0}
    BY SessionConstants DEF SessionConstants
  <2>1. m_seq \in 1..(MaxPackets + 1) /\ now \in Times \cup {0}
    BY DEF SessionInv, MediaInv
  <2>2. media \subseteq [tag : Seq(Byte)]
    <3> SUFFICES ASSUME NEW p \in media PROVE p \in [tag : Seq(Byte)]
      OBVIOUS
    <3>1. PICK s \in 1..(m_seq - 1) : p = [tag |-> Serialize(s, sent_at[s])]
      BY DEF SessionInv, MediaInv
    <3>2. s \in Nat \ {0} /\ sent_at[s] \in Nat \ {0}
      BY SerializeDomain DEF SessionInv
    <3>3. Serialize(s, sent_at[s]) \in Seq(Byte)
      BY <3>2, TagRoundTrip
    <3> QED BY <3>1, <3>3
  <2>3. m_readBytes \in 0..MaxPackets
    <3>1. Cardinality(media) \in Nat
      BY FS_CardinalityType DEF SessionInv, CountInv
    <3> QED BY <2>0, <2>1, <3>1 DEF SessionInv, CountInv
  <2>4. m_expectSeq \in 1..(MaxPackets + 1) /\ m_lossPkts \in 0..MaxPackets
    <3>1. /\ m_maxSeq \in 0..MaxPackets /\ m_expectSeq = m_maxSeq + 1
          /\ m_lossPkts \in Nat /\ m_lossPkts <= m_maxSeq
      BY DEF SessionInv, TraceInv, MaxInv, BelowInv, ReceiptInv
    <3> QED BY <2>0, <3>1
  <2>5. m_lastOutTime \in Times \cup {0} /\ m_owd \in Seq([time : Times, owd : Nat, seq : Seqs])
    <3> DEFINE Line == [time : Times, owd : Nat, seq : Seqs]
    <3>1. /\ m_owd \in Seq(Line)
          /\ m_lastOutTime = IF m_owd = <<>> THEN 0 ELSE m_owd[Len(m_owd)].time
      BY DEF SessionInv, OwdInv
    <3>2. \A e \in Line : e.time \in Times
      OBVIOUS
    <3> HIDE DEF Line
    <3>3. m_owd # <<>> => m_owd[Len(m_owd)] \in Line
      BY <3>1
    <3> QED BY <3>1, <3>2, <3>3 DEF Line
  <2>6. /\ sent_at \in [Seqs -> Times \cup {0}]
        /\ m_maxSeq \in 0..MaxPackets /\ m_receiptMillis \in Times \cup {0}
        /\ m_loss \in {<<>>} \cup (Nat \X Seqs)
        /\ received \in Seq(Seqs) /\ receiver_client \in Seq(Seqs)
    BY DEF SessionInv, MediaInv, ReceiptInv
  <2>7. /\ sender \in Phase /\ receiver \in Phase /\ over \in BOOLEAN
        /\ feedback \subseteq Feedbacks /\ m_knowPeer \in BOOLEAN
        /\ sender_socket \in Seq(Feedbacks) /\ sender_client \in Seq(Feedbacks)
        /\ arrived \in Seq(Feedbacks)
    BY DEF SessionInv, FeedbackInv
  <2> QED BY <2>1, <2>2, <2>3, <2>4, <2>5, <2>6, <2>7 DEF TypeOK
<1> QED BY <1>1, SessionInvariant, PTL

\* Every line of the delay file has the delay that the packet really had, and the
\* lines are as far apart as the interval (TraceOwd, ReceiverRecvPacket).
THEOREM OwdCorrect == Spec => []OwdTraced
<1>1. SessionInv => OwdTraced
  BY DEF SessionInv, OwdInv
<1> QED BY <1>1, SessionInvariant, PTL

\* The feedback reaches the sender's client in order and without lag, though a call
\* of RecvPacket reads one packet only (SenderRecvPacket, StartSender).
THEOREM FeedbackCorrect == Spec => []FeedbackInOrder
<1>1. SessionInv => FeedbackInOrder
  BY DEF SessionInv, FeedbackInv
<1> QED BY <1>1, SessionInvariant, PTL
==============================================================================
