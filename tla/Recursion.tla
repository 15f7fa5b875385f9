------------------------------- MODULE Recursion ------------------------------
(***************************************************************************)
(* What the proofs need of the functions that the modules define by        *)
(* recursion over an interval: that they exist, and that they are what     *)
(* their definition says.  Every proof goes by the first number for which  *)
(* a statement would be false.                                             *)
(***************************************************************************)
EXTENDS Integers, WellFoundedInduction, TLAPS

\* A set of numbers that is not empty has a first one.
LEMMA FirstNumber ==
  ASSUME NEW S \in SUBSET Nat, S # {}
  PROVE  \E n \in S : \A m \in S : n <= m
<1>1. PICK n \in S : \A m \in S : ~(<<m, n>> \in OpToRel(<, Nat))
  BY WFMin, NatLessThanWellFounded
<1>2. ASSUME NEW m \in S, ~(n <= m) PROVE FALSE
  <2>1. m \in Nat /\ n \in Nat /\ m < n
    BY <1>2
  <2>2. <<m, n>> \in Nat \X Nat /\ <<m, n>>[1] < <<m, n>>[2]
    BY <2>1
  <2>3. <<m, n>> \in OpToRel(<, Nat)
    BY <2>2, ZenonT(20) DEF OpToRel
  <2> QED
    BY <1>1, <2>3
<1> QED
  BY <1>2

\* What holds at 0, and after every step at which it held before, holds everywhere.
LEMMA UpTo ==
  ASSUME NEW n \in Nat, NEW Good, 0 \in Good, \A i \in 1..n : i - 1 \in Good => i \in Good
  PROVE  \A i \in 0..n : i \in Good
<1> DEFINE Bad == {i \in 0..n : i \notin Good}
<1>1. SUFFICES ASSUME Bad # {} PROVE FALSE
  OBVIOUS
<1>2. PICK i \in Bad : \A k \in Bad : i <= k
  <2>1. Bad \in SUBSET Nat
    OBVIOUS
  <2> HIDE DEF Bad
  <2> QED BY <1>1, <2>1, FirstNumber
<1>3. i \in 0..n /\ i \notin Good
  OBVIOUS
<1>4. i \in 1..n /\ i - 1 \in 0..n /\ ~(i <= i - 1)
  BY <1>3
<1>5. i - 1 \in Good
  BY <1>2, <1>4
<1> QED BY <1>3, <1>4, <1>5

\* What the recursive functions of the program are: a step after a step.
StepFunctions(S, n) == [1..n -> [S -> S]]
Iterates(f, S, b, n, t) ==
  f \in [0..n -> S] /\ f[0] = b /\ \A i \in 1..n : f[i] = t[i][f[i - 1]]

LEMMA Iteration ==
  ASSUME NEW S, NEW b \in S, NEW n \in Nat, NEW t \in StepFunctions(S, n)
  PROVE  \E f : Iterates(f, S, b, n, t)
<1> USE DEF StepFunctions, Iterates
<1> DEFINE Bad == {m \in 0..n : ~\E f : Iterates(f, S, b, m, t)}
<1>1. SUFFICES ASSUME Bad # {} PROVE FALSE
  <2>1. n \in 0..n
    OBVIOUS
  <2> QED BY <2>1
<1>2. PICK m \in Bad : \A l \in Bad : m <= l
  <2>1. Bad \in SUBSET Nat
    OBVIOUS
  <2> HIDE DEF Bad
  <2> QED BY <1>1, <2>1, FirstNumber
<1>3. m \in 0..n /\ ~\E f : Iterates(f, S, b, m, t)
  OBVIOUS
<1>4. m # 0
  <2> SUFFICES ASSUME m = 0 PROVE FALSE
    OBVIOUS
  <2>1. Iterates([i \in 0..0 |-> b], S, b, 0, t)
    OBVIOUS
  <2> QED BY <1>3, <2>1
<1>5. m - 1 \in 0..n /\ ~(m <= m - 1) /\ m \in 1..n
  BY <1>3, <1>4
<1>6. PICK f : Iterates(f, S, b, m - 1, t)
  BY <1>2, <1>5
<1> DEFINE g == [i \in 0..m |-> IF i = m THEN t[m][f[m - 1]] ELSE f[i]]
<1>7. \A i \in 0..m : i = m \/ i \in 0..(m - 1)
  BY <1>3
<1>8. f[m - 1] \in S /\ t[m][f[m - 1]] \in S /\ \A i \in 0..(m - 1) : f[i] \in S
  <2>1. m - 1 \in 0..(m - 1)
    BY <1>3, <1>4
  <2> QED BY <1>5, <1>6, <2>1
<1>9. g \in [0..m -> S]
  BY <1>7, <1>8
<1>10. g[0] = b
  BY <1>3, <1>4, <1>6
<1>11. ASSUME NEW i \in 1..m PROVE g[i] = t[i][g[i - 1]]
  <2>1. i \in 0..m /\ i - 1 \in 0..m /\ i - 1 # m
    BY <1>3
  <2>2. g[i - 1] = f[i - 1]
    BY <2>1
  <2>3. CASE i = m
    BY <2>1, <2>2, <2>3
  <2>4. CASE i # m
    <3>1. i \in 1..(m - 1)
      BY <1>3, <2>4
    <3>2. f[i] = t[i][f[i - 1]]
      BY <1>6, <3>1
    <3> QED BY <2>1, <2>2, <2>4, <3>2
  <2> QED BY <2>3, <2>4
<1>12. Iterates(g, S, b, m, t)
  <2> HIDE DEF g
  <2> QED BY <1>9, <1>10, <1>11
<1> QED BY <1>3, <1>12

\* Two of them agree as long as their steps do.
LEMMA IterationsAgree ==
  ASSUME NEW S, NEW b, NEW m \in Nat, NEW n \in Nat, NEW t, NEW u, NEW f, NEW g,
         Iterates(f, S, b, m, t), Iterates(g, S, b, n, u),
         NEW j \in Nat, j <= m, j <= n,
         \A i \in 1..j : \A x \in S : t[i][x] = u[i][x]
  PROVE  f[j] = g[j]
<1> DEFINE Bad == {i \in 0..j : f[i] # g[i]}
<1>1. SUFFICES ASSUME Bad # {} PROVE FALSE
  <2>1. j \in 0..j
    OBVIOUS
  <2> QED BY <2>1
<1>2. PICK i \in Bad : \A k \in Bad : i <= k
  <2>1. Bad \in SUBSET Nat
    OBVIOUS
  <2> HIDE DEF Bad
  <2> QED BY <1>1, <2>1, FirstNumber
<1>3. i \in 0..j /\ f[i] # g[i]
  OBVIOUS
<1>4. i # 0
  BY <1>3 DEF Iterates
<1>5. i \in 1..j /\ i - 1 \in 0..j /\ ~(i <= i - 1) /\ i \in 1..m /\ i \in 1..n
      /\ i - 1 \in 0..m
  BY <1>3, <1>4
<1>6. f[i - 1] = g[i - 1] /\ f[i - 1] \in S
  BY <1>2, <1>5 DEF Iterates
<1>7. f[i] = t[i][f[i - 1]] /\ g[i] = u[i][g[i - 1]]
  BY <1>5 DEF Iterates
<1> QED BY <1>3, <1>5, <1>6, <1>7
==============================================================================
