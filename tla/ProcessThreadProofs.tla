------------------------- MODULE ProcessThreadProofs -------------------------
(***************************************************************************)
(* Theorems about ProcessThread for any modules, periods, delays, tasks    *)
(* and bounds.                                                             *)
(***************************************************************************)
EXTENDS ProcessThread, SequenceTheorems, FiniteSetTheorems, Recursion, TLAPS

------------------------------------------------------------------------------
(* Numbers *)

LEMMA MinIsFirst ==
  ASSUME NEW S \in SUBSET Nat, S # {}
  PROVE  Min(S) \in S /\ \A m \in S : Min(S) <= m
<1>1. \E n \in S : \A m \in S : n <= m
  BY FirstNumber
<1> QED
  BY <1>1 DEF Min

\* What is scheduled within the bounds is within MaxDue.
LEMMA DueBounds ==
  /\ MaxDue \in Nat /\ MaxTime \in Nat /\ MaxTime <= MaxDue
  /\ \A t \in 0..MaxTime : \A d \in Periods \cup Delays : t + d \in Timestamp
<1>1. PICK d \in Periods \cup Delays : d = Max(Periods \cup Delays) /\ \A e \in Periods \cup Delays : e <= d
  <2>1. \E d \in Periods \cup Delays : \A e \in Periods \cup Delays : d >= e
    BY ProcessThreadConstants
  <2> QED
    BY <2>1, ProcessThreadConstants DEF Max
<1>2. MaxDue = MaxTime + d /\ d \in Nat /\ MaxTime \in Nat /\ Periods \cup Delays \subseteq Nat
  BY <1>1, ProcessThreadConstants DEF MaxDue
<1> QED
  BY <1>1, <1>2 DEF Timestamp
------------------------------------------------------------------------------
(* Sequences: their elements, and whether one occurs twice *)

Distinct(s) == \A i, j \in DOMAIN s : s[i] = s[j] => i = j

LEMMA AppendFacts ==
  ASSUME NEW S, NEW s \in Seq(S), NEW x \in S
  PROVE  /\ Append(s, x) \in Seq(S)
         /\ ToSet(Append(s, x)) = ToSet(s) \cup {x}
         /\ Distinct(s) /\ x \notin ToSet(s) => Distinct(Append(s, x))
<1> DEFINE r == Append(s, x)
<1>1. PICK n \in Nat : n = Len(s)
  OBVIOUS
<1>2. /\ r \in Seq(S) /\ DOMAIN r = 1..(n + 1) /\ DOMAIN s = 1..n
      /\ \A i \in 1..n : r[i] = s[i]
      /\ r[n + 1] = x
  BY <1>1
<1> HIDE DEF r
<1>3. ToSet(r) = ToSet(s) \cup {x}
  <2>1. \A i \in 1..n : i \in 1..(n + 1)
    OBVIOUS
  <2>2. \A i \in 1..(n + 1) : i \in 1..n \/ i = n + 1
    OBVIOUS
  <2>3. n + 1 \in 1..(n + 1)
    OBVIOUS
  <2> QED
    BY <1>2, <2>1, <2>2, <2>3 DEF ToSet
<1>4. ASSUME Distinct(s), x \notin ToSet(s) PROVE Distinct(r)
  <2>1. \A i \in 1..n : s[i] # x
    BY <1>2, <1>4 DEF ToSet
  <2>2. \A i \in 1..(n + 1) : i \in 1..n \/ i = n + 1
    OBVIOUS
  <2> QED
    BY <1>2, <1>4, <2>1, <2>2 DEF Distinct
<1> QED
  BY <1>1, <1>2, <1>3, <1>4 DEF r

LEMMA ConcatFacts ==
  ASSUME NEW S, NEW s \in Seq(S), NEW t \in Seq(S)
  PROVE  /\ s \o t \in Seq(S)
         /\ ToSet(s \o t) = ToSet(s) \cup ToSet(t)
         /\ Distinct(s) /\ Distinct(t) /\ ToSet(s) \cap ToSet(t) = {} => Distinct(s \o t)
<1> DEFINE r == s \o t
<1>1. PICK m \in Nat, n \in Nat : m = Len(s) /\ n = Len(t)
  OBVIOUS
<1>2. /\ r \in Seq(S) /\ DOMAIN r = 1..(m + n) /\ DOMAIN s = 1..m /\ DOMAIN t = 1..n
      /\ \A i \in 1..(m + n) : r[i] = IF i <= m THEN s[i] ELSE t[i - m]
  BY <1>1, ConcatProperties
<1> HIDE DEF r
<1>3. /\ \A i \in 1..m : i \in 1..(m + n) /\ i <= m
      /\ \A i \in 1..n : m + i \in 1..(m + n) /\ ~(m + i <= m) /\ (m + i) - m = i
      /\ \A i \in 1..(m + n) : i <= m => i \in 1..m
      /\ \A i \in 1..(m + n) : ~(i <= m) => i - m \in 1..n
  OBVIOUS
<1>4. ToSet(r) = ToSet(s) \cup ToSet(t)
  <2>1. \A i \in 1..m : r[i] = s[i]
    BY <1>2, <1>3
  <2>2. \A i \in 1..n : r[m + i] = t[i]
    BY <1>2, <1>3
  <2>3. ToSet(s) \subseteq ToSet(r)
    BY <1>2, <1>3, <2>1 DEF ToSet
  <2>4. ToSet(t) \subseteq ToSet(r)
    BY <1>2, <1>3, <2>2 DEF ToSet
  <2>5. ToSet(r) \subseteq ToSet(s) \cup ToSet(t)
    <3>1. SUFFICES ASSUME NEW i \in 1..(m + n) PROVE r[i] \in ToSet(s) \cup ToSet(t)
      BY <1>2 DEF ToSet
    <3>2. CASE i <= m
      BY <1>2, <1>3, <3>2 DEF ToSet
    <3>3. CASE ~(i <= m)
      <4>1. i - m \in 1..n /\ r[i] = t[i - m]
        BY <1>2, <1>3, <3>3
      <4> QED
        BY <1>2, <4>1 DEF ToSet
    <3> QED
      BY <3>2, <3>3
  <2> QED
    BY <2>3, <2>4, <2>5
<1>5. ASSUME Distinct(s), Distinct(t), ToSet(s) \cap ToSet(t) = {} PROVE Distinct(r)
  <2>1. \A i \in 1..m, j \in 1..n : s[i] # t[j]
    BY <1>2, <1>5 DEF ToSet
  <2>2. ASSUME NEW i \in 1..(m + n), NEW j \in 1..(m + n), r[i] = r[j] PROVE i = j
    <3>1. CASE i <= m /\ j <= m
      BY <1>2, <1>3, <1>5, <2>2, <3>1 DEF Distinct
    <3>2. CASE ~(i <= m) /\ ~(j <= m)
      <4>1. t[i - m] = t[j - m] /\ i - m \in 1..n /\ j - m \in 1..n
        BY <1>2, <1>3, <2>2, <3>2
      <4>2. i - m = j - m
        BY <1>2, <1>5, <4>1 DEF Distinct
      <4> QED
        BY <4>2
    <3>3. CASE ~(i <= m <=> j <= m)
      BY <1>2, <1>3, <2>1, <2>2, <3>3
    <3> QED
      BY <3>1, <3>2, <3>3
  <2> QED
    BY <1>2, <2>2 DEF Distinct
<1> QED
  BY <1>1, <1>2, <1>4, <1>5 DEF r

LEMMA TailFacts ==
  ASSUME NEW S, NEW s \in Seq(S), s # <<>>
  PROVE  /\ Head(s) \in S /\ Tail(s) \in Seq(S)
         /\ ToSet(s) = {Head(s)} \cup ToSet(Tail(s))
         /\ Distinct(s) => Distinct(Tail(s)) /\ Head(s) \notin ToSet(Tail(s))
<1> DEFINE r == Tail(s)
<1>1. PICK n \in Nat : n + 1 = Len(s)
  <2>1. Len(s) - 1 \in Nat /\ (Len(s) - 1) + 1 = Len(s)
    <3>1. Len(s) \in Nat /\ Len(s) # 0
      BY EmptySeq
    <3> QED
      BY <3>1
  <2> QED
    BY <2>1
<1>2. /\ Head(s) \in S /\ Head(s) = s[1] /\ r \in Seq(S) /\ DOMAIN r = 1..n /\ DOMAIN s = 1..(n + 1)
      /\ \A i \in 1..n : r[i] = s[i + 1]
  BY <1>1, HeadTailProperties
<1> HIDE DEF r
<1>3. /\ \A i \in 1..n : i + 1 \in 1..(n + 1) /\ i + 1 # 1
      /\ \A i \in 1..(n + 1) : i # 1 => i - 1 \in 1..n /\ (i - 1) + 1 = i
      /\ 1 \in 1..(n + 1)
  OBVIOUS
<1>4. ToSet(s) = {s[1]} \cup ToSet(r)
  <2>1. ASSUME NEW i \in 1..(n + 1) PROVE s[i] \in {s[1]} \cup ToSet(r)
    <3>1. CASE i # 1
      <4>1. i - 1 \in 1..n /\ s[i] = r[i - 1]
        BY <1>2, <1>3, <3>1
      <4> QED
        BY <1>2, <4>1 DEF ToSet
    <3> QED
      BY <3>1
  <2>2. ASSUME NEW i \in 1..n PROVE r[i] \in ToSet(s)
    BY <1>2, <1>3 DEF ToSet
  <2>3. ToSet(s) \subseteq {s[1]} \cup ToSet(r)
    BY <1>2, <2>1 DEF ToSet
  <2>4. {s[1]} \cup ToSet(r) \subseteq ToSet(s)
    BY <1>2, <1>3, <2>2 DEF ToSet
  <2> QED
    BY <2>3, <2>4
<1>5. ASSUME Distinct(s) PROVE Distinct(r) /\ s[1] \notin ToSet(r)
  <2>1. ASSUME NEW i \in 1..n, NEW j \in 1..n, r[i] = r[j] PROVE i = j
    <3>1. i + 1 = j + 1
      BY <1>2, <1>3, <1>5, <2>1 DEF Distinct
    <3> QED
      BY <3>1
  <2>2. ASSUME NEW i \in 1..n PROVE s[1] # r[i]
    <3>1. i + 1 \in DOMAIN s /\ 1 \in DOMAIN s /\ i + 1 # 1 /\ r[i] = s[i + 1]
      BY <1>2, <1>3
    <3> QED
      BY <1>5, <3>1 DEF Distinct
  <2> QED
    BY <1>2, <2>1, <2>2 DEF Distinct, ToSet
<1> QED
  BY <1>1, <1>2, <1>4, <1>5 DEF r

\* Taking one occurrence out of a sequence.
LEMMA RemoveFacts ==
  ASSUME NEW S, NEW s \in Seq(S), NEW x, x \in ToSet(s)
  PROVE  /\ RemoveFirst(s, x) \in Seq(S)
         /\ ToSet(RemoveFirst(s, x)) \subseteq ToSet(s)
         /\ ToSet(s) \subseteq ToSet(RemoveFirst(s, x)) \cup {x}
         /\ Distinct(s) => Distinct(RemoveFirst(s, x)) /\ x \notin ToSet(RemoveFirst(s, x))
<1>1. PICK n \in Nat : n = Len(s)
  OBVIOUS
<1>2. DOMAIN s = 1..n /\ \A i \in 1..n : s[i] \in S
  BY <1>1
<1> DEFINE I == {i \in 1..n : s[i] = x}
<1>3. I # {} /\ I \subseteq Nat
  BY <1>2 DEF ToSet
<1>4. PICK k \in 1..n : s[k] = x /\ k = Min(I)
  BY <1>3, MinIsFirst
<1>5. RemoveFirst(s, x) = RemoveAt(s, k)
  BY <1>1, <1>3, <1>4 DEF RemoveFirst, SelectInSeq
<1>6. PICK a : a = SubSeq(s, 1, k - 1)
  OBVIOUS
<1>7. PICK b : b = SubSeq(s, k + 1, n)
  OBVIOUS
<1>8. a \in Seq(S) /\ DOMAIN a = 1..(k - 1) /\ \A i \in 1..(k - 1) : a[i] = s[i]
  <2>1. 1 \in Int /\ k - 1 \in Int /\ \A i \in 1..(k - 1) : s[i] \in S
    BY <1>2
  <2>2. /\ SubSeq(s, 1, k - 1) \in Seq(S)
        /\ Len(SubSeq(s, 1, k - 1)) = IF 1 <= k - 1 THEN (k - 1) - 1 + 1 ELSE 0
        /\ \A i \in 1..((k - 1) - 1 + 1) : SubSeq(s, 1, k - 1)[i] = s[1 + i - 1]
    BY <2>1, SubSeqProperties
  <2> QED
    BY <1>6, <2>2
<1>9. b \in Seq(S) /\ DOMAIN b = 1..(n - k) /\ \A i \in 1..(n - k) : b[i] = s[k + i]
  <2>1. k + 1 \in Int /\ n \in Int /\ \A i \in (k + 1)..n : s[i] \in S
    BY <1>2
  <2>2. /\ SubSeq(s, k + 1, n) \in Seq(S)
        /\ Len(SubSeq(s, k + 1, n)) = IF k + 1 <= n THEN n - (k + 1) + 1 ELSE 0
        /\ \A i \in 1..(n - (k + 1) + 1) : SubSeq(s, k + 1, n)[i] = s[(k + 1) + i - 1]
    BY <2>1, SubSeqProperties
  <2> QED
    BY <1>7, <2>2
<1>10. RemoveFirst(s, x) = a \o b
  BY <1>1, <1>5, <1>6, <1>7 DEF RemoveAt
<1>11. /\ a \o b \in Seq(S) /\ ToSet(a \o b) = ToSet(a) \cup ToSet(b)
       /\ Distinct(a) /\ Distinct(b) /\ ToSet(a) \cap ToSet(b) = {} => Distinct(a \o b)
  BY <1>8, <1>9, ConcatFacts
<1>12. /\ \A i \in 1..(k - 1) : i \in 1..n /\ i # k
       /\ \A i \in 1..(n - k) : k + i \in 1..n /\ k + i # k
       /\ \A i \in 1..n : i # k => i \in 1..(k - 1) \/ (i - k \in 1..(n - k) /\ k + (i - k) = i)
  OBVIOUS
<1>13. ToSet(a) \cup ToSet(b) \subseteq ToSet(s)
  <2>1. ToSet(a) \subseteq ToSet(s)
    BY <1>2, <1>8, <1>12 DEF ToSet
  <2>2. ToSet(b) \subseteq ToSet(s)
    BY <1>2, <1>9, <1>12 DEF ToSet
  <2> QED
    BY <2>1, <2>2
<1>14. ToSet(s) \subseteq ToSet(a) \cup ToSet(b) \cup {x}
  <2>1. SUFFICES ASSUME NEW i \in 1..n, i # k PROVE s[i] \in ToSet(a) \cup ToSet(b)
    BY <1>2, <1>4 DEF ToSet
  <2>2. CASE i \in 1..(k - 1)
    BY <1>8, <2>2 DEF ToSet
  <2>3. CASE i - k \in 1..(n - k) /\ k + (i - k) = i
    <3>1. b[i - k] = s[i]
      BY <1>9, <2>3
    <3> QED
      BY <1>9, <2>3, <3>1 DEF ToSet
  <2> QED
    BY <1>12, <2>1, <2>2, <2>3
<1>15. ASSUME Distinct(s)
       PROVE  /\ Distinct(a) /\ Distinct(b) /\ ToSet(a) \cap ToSet(b) = {}
              /\ x \notin ToSet(a) \cup ToSet(b)
  <2>1. \A i, j \in 1..n : s[i] = s[j] => i = j
    BY <1>2, <1>15 DEF Distinct
  <2>2. Distinct(a)
    BY <1>8, <1>12, <2>1 DEF Distinct
  <2>3. ASSUME NEW i \in 1..(n - k), NEW j \in 1..(n - k), b[i] = b[j] PROVE i = j
    <3>1. k + i = k + j
      BY <1>9, <1>12, <2>1, <2>3
    <3> QED
      BY <3>1
  <2>4. Distinct(b)
    BY <1>9, <2>3 DEF Distinct
  <2>5. ASSUME NEW i \in 1..(k - 1), NEW j \in 1..(n - k) PROVE a[i] # b[j]
    <3>1. i # k + j
      OBVIOUS
    <3> QED
      BY <1>8, <1>9, <1>12, <2>1, <3>1
  <2>6. \A i \in 1..(k - 1) : a[i] # x
    BY <1>4, <1>8, <1>12, <2>1
  <2>7. \A i \in 1..(n - k) : b[i] # x
    BY <1>4, <1>9, <1>12, <2>1
  <2> QED
    BY <1>8, <1>9, <2>2, <2>4, <2>5, <2>6, <2>7 DEF ToSet
<1> QED
  BY <1>10, <1>11, <1>13, <1>14, <1>15
LEMMA RemoveTyped == ASSUME NEW S, NEW s \in Seq(S), NEW x PROVE RemoveFirst(s, x) \in Seq(S)
<1>1. CASE x \in ToSet(s)
  BY <1>1, RemoveFacts
<1>2. CASE x \notin ToSet(s)
  <2>1. ~\E i \in 1..Len(s) : s[i] = x
    BY <1>2 DEF ToSet
  <2> QED
    BY <2>1 DEF RemoveFirst
<1> QED
  BY <1>1, <1>2

LEMMA RemoveKeeps ==
  ASSUME NEW S, NEW s \in Seq(S), NEW x
  PROVE  ToSet(s) \subseteq ToSet(RemoveFirst(s, x)) \cup {x}
<1>1. CASE x \in ToSet(s)
  BY <1>1, RemoveFacts
<1>2. CASE x \notin ToSet(s)
  <2>1. ~\E i \in 1..Len(s) : s[i] = x
    BY <1>2 DEF ToSet
  <2> QED
    BY <2>1 DEF RemoveFirst
<1> QED
  BY <1>1, <1>2
------------------------------------------------------------------------------
(* delayed_modules_ as a map from timestamps to lists of modules *)

IsMap(map) == DOMAIN map \subseteq Timestamp /\ map \in [DOMAIN map -> Seq(Modules)]
Scheduled(map) == {m \in Modules : \E k \in DOMAIN map : m \in ToSet(map[k])}
DistinctMap(map) ==
  /\ \A k \in DOMAIN map : Distinct(map[k])
  /\ \A k, l \in DOMAIN map : k # l => ToSet(map[k]) \cap ToSet(map[l]) = {}

LEMMA ElementsTyped == ASSUME NEW S, NEW s \in Seq(S) PROVE ToSet(s) \subseteq S
  BY DEF ToSet

LEMMA NoElements == ToSet(<<>>) = {} /\ Distinct(<<>>) /\ \A S : <<>> \in Seq(S)
  BY DEF ToSet, Distinct

LEMMA MapTyped ==
  ASSUME NEW map, IsMap(map)
  PROVE  /\ \A k \in DOMAIN map : map[k] \in Seq(Modules) /\ ToSet(map[k]) \subseteq Modules
         /\ \A at : ListAt(map, at) \in Seq(Modules) /\ ToSet(ListAt(map, at)) \subseteq Modules
         /\ DOMAIN map \subseteq Nat
  BY ElementsTyped, NoElements, DueBounds DEF IsMap, ListAt, Timestamp

LEMMA NoModulesFacts == IsMap(NoModules) /\ Scheduled(NoModules) = {} /\ DistinctMap(NoModules)
  BY DEF IsMap, Scheduled, DistinctMap, NoModules

\* Scheduling a module adds it, and nothing else, to the map.
LEMMA ScheduleFacts ==
  ASSUME NEW map, IsMap(map), NEW at \in Timestamp, NEW m \in Modules
  PROVE  /\ IsMap(Schedule(map, at, m))
         /\ DOMAIN Schedule(map, at, m) = DOMAIN map \cup {at}
         /\ \A x : x \in Scheduled(Schedule(map, at, m)) <=> x \in Scheduled(map) \cup {m}
         /\ DistinctMap(map) /\ m \notin Scheduled(map) => DistinctMap(Schedule(map, at, m))
<1> DEFINE r == Schedule(map, at, m)
           s == ListAt(map, at)
<1>1. s \in Seq(Modules) /\ ToSet(s) \subseteq Modules
  BY MapTyped
<1>2. /\ Append(s, m) \in Seq(Modules)
      /\ ToSet(Append(s, m)) = ToSet(s) \cup {m}
      /\ Distinct(s) /\ m \notin ToSet(s) => Distinct(Append(s, m))
  BY <1>1, AppendFacts
<1>3. /\ DOMAIN r = DOMAIN map \cup {at} /\ r[at] = Append(s, m)
      /\ \A k \in DOMAIN map : k # at => r[k] = map[k]
  BY DEF Schedule
<1>4. /\ at \in DOMAIN map => s = map[at]
      /\ at \notin DOMAIN map => s = <<>>
  BY DEF ListAt
<1> HIDE DEF r, s
<1>5. IsMap(r)
  <2>1. \A k \in DOMAIN r : r[k] \in Seq(Modules)
    BY <1>2, <1>3, MapTyped
  <2>2. r = [k \in DOMAIN r |-> r[k]]
    BY DEF r, Schedule
  <2>3. DOMAIN r \subseteq Timestamp
    BY <1>3 DEF IsMap
  <2> QED
    BY <2>1, <2>2, <2>3 DEF IsMap
<1>6. Scheduled(r) = Scheduled(map) \cup {m}
  <2>1. ASSUME NEW x \in Scheduled(r) PROVE x \in Scheduled(map) \cup {m}
    <3>1. PICK k \in DOMAIN r : x \in ToSet(r[k])
      BY DEF Scheduled
    <3>2. CASE k = at
      <4>1. x \in ToSet(s) \cup {m}
        BY <1>2, <1>3, <3>1, <3>2
      <4> QED
        BY <1>4, <4>1, NoElements DEF Scheduled
    <3>3. CASE k # at
      BY <1>3, <3>1, <3>3 DEF Scheduled
    <3> QED
      BY <3>2, <3>3
  <2>2. ASSUME NEW x \in Scheduled(map) PROVE x \in Scheduled(r)
    <3>1. PICK k \in DOMAIN map : x \in ToSet(map[k])
      BY DEF Scheduled
    <3>2. x \in ToSet(r[k]) /\ k \in DOMAIN r
      BY <1>2, <1>3, <1>4, <3>1
    <3> QED
      BY <3>2 DEF Scheduled
  <2>3. m \in Scheduled(r)
    BY <1>2, <1>3 DEF Scheduled
  <2> QED
    BY <2>1, <2>2, <2>3 DEF Scheduled
<1>7. ASSUME DistinctMap(map), m \notin Scheduled(map) PROVE DistinctMap(r)
  <2>1. \A k \in DOMAIN map : m \notin ToSet(map[k])
    BY <1>7 DEF Scheduled
  <2>2. Distinct(s) /\ m \notin ToSet(s)
    BY <1>4, <1>7, <2>1, NoElements DEF DistinctMap
  <2>3. ASSUME NEW k \in DOMAIN r PROVE Distinct(r[k])
    BY <1>2, <1>3, <1>7, <2>2 DEF DistinctMap
  <2>4. ASSUME NEW k \in DOMAIN map, k # at PROVE ToSet(r[k]) \cap ToSet(r[at]) = {}
    <3>1. ToSet(map[k]) \cap ToSet(s) = {}
      BY <1>4, <1>7, <2>4, NoElements DEF DistinctMap
    <3> QED
      BY <1>2, <1>3, <2>1, <2>4, <3>1
  <2>5. ASSUME NEW k \in DOMAIN map, NEW l \in DOMAIN map, k # at, l # at, k # l
        PROVE  ToSet(r[k]) \cap ToSet(r[l]) = {}
    BY <1>3, <1>7, <2>5 DEF DistinctMap
  <2> QED
    BY <1>3, <2>3, <2>4, <2>5 DEF DistinctMap
<1> QED
  BY <1>3, <1>5, <1>6, <1>7 DEF r

LEMMA ScheduledMore ==
  ASSUME NEW map, IsMap(map), NEW at \in Timestamp, NEW m \in Modules
  PROVE  Scheduled(Schedule(map, at, m)) = Scheduled(map) \cup {m}
  BY ScheduleFacts

\* Unscheduling takes one occurrence out, and so all there are if there is only one.
LEMMA UnscheduleFacts ==
  ASSUME NEW map, IsMap(map), NEW m \in Modules
  PROVE  /\ IsMap(Unschedule(map, m))
         /\ DOMAIN Unschedule(map, m) = DOMAIN map
         /\ Scheduled(Unschedule(map, m)) \subseteq Scheduled(map)
         /\ Scheduled(map) \subseteq Scheduled(Unschedule(map, m)) \cup {m}
         /\ DistinctMap(map) => /\ DistinctMap(Unschedule(map, m))
                                /\ m \notin Scheduled(Unschedule(map, m))
<1> DEFINE holding == {k \in DOMAIN map : m \in ToSet(map[k])}
<1>1. CASE holding = {}
  <2>1. Unschedule(map, m) = map /\ m \notin Scheduled(map)
    BY <1>1 DEF Unschedule, Scheduled
  <2> QED
    BY <2>1
<1>2. CASE holding # {}
  <2>1. holding \in SUBSET Nat
    BY MapTyped
  <2>2. PICK at \in holding : at = Min(holding)
    BY <1>2, <2>1, MinIsFirst
  <2> DEFINE r == Unschedule(map, m)
             s == RemoveFirst(map[at], m)
  <2>3. r = [map EXCEPT ![at] = s]
    BY <1>2, <2>2 DEF Unschedule
  <2>4. at \in DOMAIN map /\ m \in ToSet(map[at]) /\ map[at] \in Seq(Modules)
    BY MapTyped
  <2>5. /\ s \in Seq(Modules) /\ ToSet(s) \subseteq ToSet(map[at])
        /\ ToSet(map[at]) \subseteq ToSet(s) \cup {m}
        /\ Distinct(map[at]) => Distinct(s) /\ m \notin ToSet(s)
    BY <2>4, RemoveFacts
  <2> HIDE DEF holding, r, s
  <2>6. map = [k \in DOMAIN map |-> map[k]]
    BY DEF IsMap
  <2>7. DOMAIN r = DOMAIN map /\ r[at] = s /\ \A k \in DOMAIN map : k # at => r[k] = map[k]
    BY <2>3, <2>4, <2>6
  <2>8. IsMap(r)
    <3>1. \A k \in DOMAIN r : r[k] \in Seq(Modules)
      BY <2>5, <2>7, MapTyped
    <3>2. r = [k \in DOMAIN r |-> r[k]]
      BY <2>3
    <3> QED
      BY <2>7, <3>1, <3>2 DEF IsMap
  <2>9. \A k \in DOMAIN map : ToSet(r[k]) \subseteq ToSet(map[k]) /\ ToSet(map[k]) \subseteq ToSet(r[k]) \cup {m}
    BY <2>5, <2>7
  <2>10. Scheduled(r) \subseteq Scheduled(map) /\ Scheduled(map) \subseteq Scheduled(r) \cup {m}
    BY <2>7, <2>9 DEF Scheduled
  <2>11. ASSUME DistinctMap(map) PROVE DistinctMap(r) /\ m \notin Scheduled(r)
    <3>1. ASSUME NEW k \in DOMAIN r PROVE Distinct(r[k])
      BY <2>5, <2>7, <2>11 DEF DistinctMap
    <3>2. ASSUME NEW k \in DOMAIN map, NEW l \in DOMAIN map, k # l
          PROVE  ToSet(r[k]) \cap ToSet(r[l]) = {}
      BY <2>9, <2>11, <3>2 DEF DistinctMap
    <3>3. ASSUME NEW k \in DOMAIN r PROVE m \notin ToSet(r[k])
      <4>1. CASE k = at
        BY <2>4, <2>5, <2>7, <2>11, <4>1 DEF DistinctMap
      <4>2. CASE k # at
        BY <2>4, <2>7, <2>11, <4>2 DEF DistinctMap
      <4> QED
        BY <4>1, <4>2
    <3> QED
      BY <2>7, <3>1, <3>2, <3>3 DEF DistinctMap, Scheduled
  <2> QED
    BY <2>7, <2>8, <2>10, <2>11 DEF r
<1> QED
  BY <1>1, <1>2

\* What is left after the lists up to a time have been taken out.
LEMMA RestrictFacts ==
  ASSUME NEW map, IsMap(map), NEW K \in SUBSET DOMAIN map
  PROVE  /\ IsMap(Restrict(map, K)) /\ DOMAIN Restrict(map, K) = K
         /\ Scheduled(Restrict(map, K)) = {m \in Modules : \E k \in K : m \in ToSet(map[k])}
         /\ DistinctMap(map) => DistinctMap(Restrict(map, K))
<1>1. PICK r : r = Restrict(map, K)
  OBVIOUS
<1>2. r = [k \in K |-> map[k]] /\ DOMAIN r = K /\ \A k \in K : r[k] = map[k] /\ k \in DOMAIN map
  BY <1>1 DEF Restrict
<1>3. IsMap(r)
  BY <1>2, MapTyped DEF IsMap
<1>4. Scheduled(r) = {m \in Modules : \E k \in K : m \in ToSet(map[k])}
  BY <1>2 DEF Scheduled
<1>5. DistinctMap(map) => DistinctMap(r)
  BY <1>2 DEF DistinctMap
<1> QED
  BY <1>1, <1>2, <1>3, <1>4, <1>5

------------------------------------------------------------------------------
(* The modules of a map, list after list *)

Listing(b, map, n) ==
  b = [i \in 0..n |-> IF i = 0 THEN <<>> ELSE b[i - 1] \o ListAt(map, i - 1)]

LEMMA ListingUnfolds ==
  ASSUME NEW b, NEW map, NEW n \in Nat, Listing(b, map, n)
  PROVE  b[0] = <<>> /\ \A i \in 1..n : b[i] = b[i - 1] \o ListAt(map, i - 1)
<1>1. 0 \in 0..n /\ \A i \in 1..n : i \in 0..n /\ i # 0
  OBVIOUS
<1> QED
  BY <1>1 DEF Listing

LEMMA ListingExists ==
  ASSUME NEW map
  PROVE  \A n \in Nat : \E b : Listing(b, map, n)
<1> DEFINE Bad == {n \in Nat : ~\E b : Listing(b, map, n)}
<1>1. SUFFICES ASSUME Bad # {} PROVE FALSE
  OBVIOUS
<1>2. PICK n \in Bad : \A m \in Bad : n <= m
  BY <1>1, FirstNumber
<1>3. n \in Nat /\ ~\E b : Listing(b, map, n)
  OBVIOUS
<1>4. CASE n = 0
  <2> DEFINE b == [i \in 0..0 |-> <<>>]
  <2>1. b = [i \in 0..0 |-> IF i = 0 THEN <<>> ELSE b[i - 1] \o ListAt(map, i - 1)]
    OBVIOUS
  <2> HIDE DEF b
  <2> QED
    BY <1>3, <1>4, <2>1 DEF Listing
<1>5. CASE n # 0
  <2>1. n - 1 \in Nat /\ ~(n <= n - 1)
    BY <1>3, <1>5
  <2>2. PICK b : Listing(b, map, n - 1)
    BY <1>2, <2>1
  <2>3. b[0] = <<>> /\ \A i \in 1..(n - 1) : b[i] = b[i - 1] \o ListAt(map, i - 1)
    BY <2>1, <2>2, ListingUnfolds
  <2> DEFINE x == b[n - 1] \o ListAt(map, n - 1)
             g == [i \in 0..n |-> IF i = n THEN x ELSE b[i]]
             h == [i \in 0..n |-> IF i = 0 THEN <<>> ELSE g[i - 1] \o ListAt(map, i - 1)]
  <2>4. \A i \in 0..(n - 1) : i \in 0..n /\ i # n
    BY <1>3
  <2>5. \A i \in 0..(n - 1) : g[i] = b[i]
    BY <2>4
  <2>6. g[n] = x
    <3>1. n \in 0..n
      BY <1>3
    <3> HIDE DEF x
    <3> QED
      BY <3>1
  <2>7. ASSUME NEW i \in 0..n PROVE g[i] = h[i]
    <3>1. CASE i = 0
      <4>1. 0 \in 0..(n - 1)
        BY <2>1
      <4> QED
        BY <2>3, <2>5, <3>1, <4>1
    <3>2. CASE i \in 1..(n - 1)
      <4>1. i \in 0..(n - 1) /\ i - 1 \in 0..(n - 1) /\ i # 0
        BY <1>3, <3>2
      <4>2. h[i] = b[i - 1] \o ListAt(map, i - 1)
        BY <2>5, <4>1
      <4> QED
        BY <2>3, <2>5, <3>2, <4>1, <4>2
    <3>3. CASE i = n
      <4>1. n - 1 \in 0..(n - 1) /\ n # 0
        BY <1>3, <1>5
      <4> QED
        BY <2>5, <2>6, <3>3, <4>1
    <3> QED
      BY <1>3, <1>5, <3>1, <3>2, <3>3
  <2>8. g = h
    <3> HIDE DEF x
    <3> QED
      BY <2>7
  <2> HIDE DEF x, g
  <2> QED
    BY <1>3, <2>8 DEF Listing
<1> QED
  BY <1>4, <1>5

LEMMA ListedIs ==
  ASSUME NEW map, NEW last \in Nat
  PROVE  \E b : Listing(b, map, last + 1) /\ Listed(map, last) = b[last + 1]
<1> DEFINE b == CHOOSE b : Listing(b, map, last + 1)
<1>1. Listing(b, map, last + 1)
  BY ListingExists
<1>2. Listed(map, last) = b[last + 1]
  BY DEF Listed, Listing
<1> QED
  BY <1>1, <1>2

\* The modules scheduled before n.
Before(map, n) == {m \in Modules : \E k \in DOMAIN map : k < n /\ m \in ToSet(map[k])}

\* One more list.
LEMMA BeforeNext ==
  ASSUME NEW map, IsMap(map), NEW n \in Nat
  PROVE  /\ Before(map, n + 1) = Before(map, n) \cup ToSet(ListAt(map, n))
         /\ DistinctMap(map) => /\ Distinct(ListAt(map, n))
                                /\ Before(map, n) \cap ToSet(ListAt(map, n)) = {}
<1>1. DOMAIN map \subseteq Nat /\ ToSet(ListAt(map, n)) \subseteq Modules
  BY MapTyped
<1>2. \A k \in DOMAIN map : k < n + 1 <=> k < n \/ k = n
  BY <1>1
<1>3. \A k \in DOMAIN map : k < n => k # n
  BY <1>1
<1>4. CASE n \in DOMAIN map
  <2>1. ListAt(map, n) = map[n]
    BY <1>4 DEF ListAt
  <2>2. Before(map, n + 1) = Before(map, n) \cup ToSet(map[n])
    BY <1>1, <1>2, <1>4, <2>1 DEF Before
  <2>3. DistinctMap(map) => Distinct(map[n]) /\ Before(map, n) \cap ToSet(map[n]) = {}
    BY <1>3, <1>4 DEF DistinctMap, Before
  <2> QED
    BY <2>1, <2>2, <2>3
<1>5. CASE n \notin DOMAIN map
  <2>1. ListAt(map, n) = <<>>
    BY <1>5 DEF ListAt
  <2>2. Before(map, n + 1) = Before(map, n)
    BY <1>2, <1>5 DEF Before
  <2> QED
    BY <2>1, <2>2, NoElements
<1> QED
  BY <1>4, <1>5

LEMMA ListedFacts ==
  ASSUME NEW map, IsMap(map), NEW last \in Nat
  PROVE  /\ Listed(map, last) \in Seq(Modules)
         /\ ToSet(Listed(map, last)) = Before(map, last + 1)
         /\ DistinctMap(map) => Distinct(Listed(map, last))
<1>1. PICK n \in Nat : n = last + 1
  OBVIOUS
<1>2. PICK b : Listing(b, map, n) /\ Listed(map, last) = b[n]
  BY <1>1, ListedIs
<1> DEFINE Good(i) == /\ b[i] \in Seq(Modules)
                      /\ ToSet(b[i]) = Before(map, i)
                      /\ DistinctMap(map) => Distinct(b[i])
           Bad == {i \in Nat : i <= n /\ ~Good(i)}
<1>3. ASSUME Bad # {} PROVE FALSE
  <2>1. PICK i \in Bad : \A l \in Bad : i <= l
    BY <1>3, FirstNumber
  <2>2. i \in Nat /\ i <= n /\ ~Good(i)
    OBVIOUS
  <2>3. i # 0
    <3>1. Before(map, 0) = {}
      BY MapTyped DEF Before
    <3>2. b[0] = <<>>
      BY <1>2, ListingUnfolds
    <3>3. Good(0)
      BY <3>1, <3>2, NoElements
    <3> QED
      BY <2>2, <3>3
  <2>4. PICK j \in Nat : i = j + 1 /\ ~(i <= j) /\ j <= n /\ i \in 1..n
    <3>1. i - 1 \in Nat /\ i = (i - 1) + 1 /\ ~(i <= i - 1) /\ i - 1 <= n /\ i \in 1..n
      BY <2>2, <2>3
    <3> QED
      BY <3>1
  <2>5. Good(j)
    BY <2>1, <2>4
  <2>6. b[i] = b[j] \o ListAt(map, j)
    <3>1. i - 1 = j
      BY <2>4
    <3>2. b[i] = b[i - 1] \o ListAt(map, i - 1)
      BY <1>2, <2>4, ListingUnfolds
    <3> QED
      BY <3>1, <3>2
  <2>7. ListAt(map, j) \in Seq(Modules)
    BY MapTyped
  <2>8. /\ Before(map, i) = Before(map, j) \cup ToSet(ListAt(map, j))
        /\ DistinctMap(map) => /\ Distinct(ListAt(map, j))
                               /\ Before(map, j) \cap ToSet(ListAt(map, j)) = {}
    BY <2>4, BeforeNext
  <2>9. PICK s \in Seq(Modules), t \in Seq(Modules) : s = b[j] /\ t = ListAt(map, j)
    BY <2>5, <2>7
  <2>10. /\ s \o t \in Seq(Modules)
         /\ ToSet(s \o t) = ToSet(s) \cup ToSet(t)
         /\ Distinct(s) /\ Distinct(t) /\ ToSet(s) \cap ToSet(t) = {} => Distinct(s \o t)
    BY ConcatFacts
  <2>11. Good(i)
    BY <2>5, <2>6, <2>8, <2>9, <2>10
  <2> QED
    BY <2>2, <2>11
<1>4. Good(n)
  <2>1. n \notin Bad
    BY <1>3
  <2>2. n \in Nat /\ n <= n
    OBVIOUS
  <2> QED
    BY <2>1, <2>2
<1> QED
  BY <1>1, <1>2, <1>4

\* RunReady takes out what is scheduled up to now and leaves the rest ...
LEMMA TakeFacts ==
  ASSUME NEW map, IsMap(map), NEW t \in Nat, NEW rest,
         rest = Restrict(map, {k \in DOMAIN map : k > t})
  PROVE  /\ IsMap(rest) /\ DOMAIN rest = {k \in DOMAIN map : k > t}
         /\ Listed(map, t) \in Seq(Modules)
         /\ Scheduled(map) = ToSet(Listed(map, t)) \cup Scheduled(rest)
         /\ DistinctMap(map) => /\ DistinctMap(rest) /\ Distinct(Listed(map, t))
                                /\ ToSet(Listed(map, t)) \cap Scheduled(rest) = {}
<1> DEFINE K == {k \in DOMAIN map : k > t}
<1>1. /\ IsMap(rest) /\ DOMAIN rest = K
      /\ Scheduled(rest) = {m \in Modules : \E k \in K : m \in ToSet(map[k])}
      /\ DistinctMap(map) => DistinctMap(rest)
  BY RestrictFacts
<1>2. /\ Listed(map, t) \in Seq(Modules)
      /\ ToSet(Listed(map, t)) = Before(map, t + 1)
      /\ DistinctMap(map) => Distinct(Listed(map, t))
  BY ListedFacts
<1>3. DOMAIN map \subseteq Nat
  BY MapTyped
<1>4. \A k \in DOMAIN map : k > t \/ k < t + 1
  BY <1>3
<1>5. Scheduled(map) = Before(map, t + 1) \cup Scheduled(rest)
  BY <1>1, <1>4 DEF Scheduled, Before
<1>6. ASSUME DistinctMap(map) PROVE Before(map, t + 1) \cap Scheduled(rest) = {}
  <2>1. \A k, l \in DOMAIN map : k < t + 1 /\ l > t => k # l
    BY <1>3
  <2> QED
    BY <1>1, <1>6, <2>1 DEF Before, DistinctMap
<1> QED
  BY <1>1, <1>2, <1>5, <1>6

\* ... and Stop takes all of it.
LEMMA TakeAll ==
  ASSUME NEW map, IsMap(map)
  PROVE  /\ Listed(map, MaxDue) \in Seq(Modules)
         /\ ToSet(Listed(map, MaxDue)) = Scheduled(map)
         /\ DistinctMap(map) => Distinct(Listed(map, MaxDue))
<1>1. \A k \in DOMAIN map : k < MaxDue + 1
  BY DueBounds DEF IsMap, Timestamp
<1>2. Before(map, MaxDue + 1) = Scheduled(map)
  BY <1>1 DEF Before, Scheduled
<1> QED
  BY <1>2, DueBounds, ListedFacts

------------------------------------------------------------------------------
(* Types *)

\* A module is being processed at the step of RunReady that processes it; Start, which
\* a queue, a task or a Process calls, has modules in hand only while it is at work.
ControlInv ==
  /\ pc = "process" <=> current # None
  /\ in_start => pc \in {"idle", "process", "task"}
  /\ starting # <<>> => in_start
  /\ ready_modules # <<>> => pc \in {"modules", "process"}

TypeInv == TypeOK /\ ControlInv

LEMMA FirstKeyFacts ==
  ASSUME NEW map, IsMap(map)
  PROVE  FirstKey(map) \in 0..PlusInfinity /\ \A k \in DOMAIN map : FirstKey(map) <= k
<1>1. DOMAIN map \cup {PlusInfinity} \in SUBSET (0..PlusInfinity) /\ 0..PlusInfinity \subseteq Nat
  BY DueBounds DEF IsMap, Timestamp, PlusInfinity
<1>2. DOMAIN map \cup {PlusInfinity} \in SUBSET Nat /\ DOMAIN map \cup {PlusInfinity} # {}
  BY <1>1
<1>3. /\ FirstKey(map) \in DOMAIN map \cup {PlusInfinity}
      /\ \A k \in DOMAIN map \cup {PlusInfinity} : FirstKey(map) <= k
  BY <1>2, MinIsFirst DEF FirstKey
<1> QED
  BY <1>1, <1>3

LEMMA FirstDueFacts ==
  ASSUME TypeOK
  PROVE  /\ FirstDue \in 0..PlusInfinity /\ \A t \in delayed_tasks : FirstDue <= due[t]
         /\ FirstDue <= now => FirstDelayed \in delayed_tasks
<1> DEFINE D == {due[t] : t \in delayed_tasks}
<1>1. D \subseteq Timestamp
  BY DEF TypeOK
<1>2. D \cup {PlusInfinity} \in SUBSET (0..PlusInfinity) /\ 0..PlusInfinity \subseteq Nat
  BY <1>1, DueBounds DEF Timestamp, PlusInfinity
<1>3. D \cup {PlusInfinity} \in SUBSET Nat /\ D \cup {PlusInfinity} # {}
  BY <1>2
<1>4. FirstDue \in D \cup {PlusInfinity} /\ \A d \in D \cup {PlusInfinity} : FirstDue <= d
  BY <1>3, MinIsFirst DEF FirstDue
<1>5. ASSUME FirstDue <= now PROVE FirstDelayed \in delayed_tasks
  <2>1. FirstDue # PlusInfinity
    BY <1>5, DueBounds DEF TypeOK, PlusInfinity
  <2>2. {t \in delayed_tasks : due[t] = FirstDue} # {}
    BY <1>4, <2>1
  <2>3. {t \in delayed_tasks : due[t] = FirstDue} \in SUBSET Nat
    BY ProcessThreadConstants DEF TypeOK, Task
  <2> QED
    BY <2>2, <2>3, MinIsFirst DEF FirstDelayed
<1> QED
  BY <1>2, <1>4, <1>5

LEMMA EarlierFacts ==
  ASSUME NEW a \in Int, NEW b \in Int
  PROVE  Earlier(a, b) \in {a, b} /\ Earlier(a, b) <= a /\ Earlier(a, b) <= b
  BY DEF Earlier

LEMMA TypedLists ==
  ASSUME TypeOK
  PROVE  /\ IsMap(delayed_modules)
         /\ ready_modules \in Seq(Modules) /\ stopped_modules \in Seq(Modules)
         /\ starting \in Seq(Modules) /\ queue \in Seq(Task)
         /\ now \in 0..MaxTime /\ now \in Nat /\ now <= MaxDue
         /\ \A d \in Periods \cup Delays : now + d \in Timestamp
  BY DueBounds, ProcessThreadConstants DEF TypeOK, IsMap

LEMMA TypeStep == ASSUME TypeInv, [Next]_vars PROVE TypeInv'
<1> USE DEF TypeInv, ControlInv
<1>0. /\ IsMap(delayed_modules)
      /\ ready_modules \in Seq(Modules) /\ stopped_modules \in Seq(Modules)
      /\ starting \in Seq(Modules) /\ queue \in Seq(Task)
      /\ now \in 0..MaxTime /\ now \in Nat /\ now <= MaxDue
      /\ \A d \in Periods \cup Delays : now + d \in Timestamp
      /\ next_run_time \in MinusInfinity..PlusInfinity /\ MaxDue \in Nat /\ MaxTime \in Nat
      /\ \A S : <<>> \in Seq(S)
  BY TypedLists, DueBounds, NoElements DEF TypeOK
<1>1. CASE RunReady
  <2>1. IsMap(delayed_modules') /\ ready_modules' \in Seq(Modules)
    BY <1>0, <1>1, TakeFacts DEF RunReady
  <2> QED
    BY <1>1, <2>1 DEF RunReady, TypeOK, IsMap, taskVars
<1>2. CASE Process
  <2>1. Head(ready_modules) \in Modules /\ Tail(ready_modules) \in Seq(Modules)
    BY <1>0, <1>2, TailFacts DEF Process
  <2> QED
    BY <1>2, <2>1, ProcessThreadConstants DEF Process, TypeOK, taskVars
<1>3. ASSUME NEW p \in Periods, ProcessReturns(p) PROVE TypeInv'
  <2>1. now + p \in Timestamp /\ current \in Modules
    BY <1>0, <1>3 DEF ProcessReturns, TypeOK
  <2>2. IsMap(delayed_modules')
    BY <1>0, <1>3, <2>1, ScheduleFacts DEF ProcessReturns
  <2> QED
    BY <1>3, <2>2 DEF ProcessReturns, TypeOK, IsMap, taskVars
<1>4. CASE AllProcessed
  BY <1>4 DEF AllProcessed, TypeOK, moduleVars, taskVars
<1>5. CASE MoveDue
  <2>1. FirstDelayed \in delayed_tasks /\ FirstDelayed \in Task
    BY <1>5, FirstDueFacts DEF MoveDue, TypeOK
  <2>2. Append(queue, FirstDelayed) \in Seq(Task)
    BY <1>0, <2>1
  <2> QED
    BY <1>5, <2>1, <2>2 DEF MoveDue, TypeOK, moduleVars
<1>6. CASE AllMoved
  BY <1>6 DEF AllMoved, TypeOK, moduleVars, taskVars
<1>7. CASE RunTask
  <2>1. Tail(queue) \in Seq(Task)
    BY <1>0, <1>7, HeadTailProperties DEF RunTask
  <2> QED
    BY <1>7, <2>1 DEF RunTask, TypeOK, moduleVars
<1>8. CASE TaskReturns
  BY <1>8 DEF TaskReturns, TypeOK, moduleVars, taskVars
<1>9. CASE RunReadyReturns
  <2>1. FirstKey(delayed_modules) \in 0..PlusInfinity /\ FirstDue \in 0..PlusInfinity
    BY <1>0, FirstKeyFacts, FirstDueFacts
  <2>2. Earlier(FirstKey(delayed_modules), FirstDue) \in MinusInfinity..PlusInfinity
    BY <1>0, <2>1 DEF Earlier, MinusInfinity, PlusInfinity
  <2> QED
    BY <1>9, <2>2 DEF RunReadyReturns, TypeOK, moduleVars, taskVars
<1>10. CASE StartReturns
  <2>1. next_run_time' \in MinusInfinity..PlusInfinity
    <3>1. FirstKey(delayed_modules) \in 0..PlusInfinity
      BY <1>0, FirstKeyFacts
    <3> QED
      BY <1>0, <1>10, <3>1 DEF StartReturns, MinusInfinity, PlusInfinity
  <2> QED
    BY <1>10, <2>1 DEF StartReturns, TypeOK, taskVars
<1>11. ASSUME NEW p \in Periods, StartModule(p) PROVE TypeInv'
  <2>1. Head(starting) \in Modules /\ Tail(starting) \in Seq(Modules)
    BY <1>0, <1>11, TailFacts DEF StartModule
  <2>2. now + p \in Timestamp
    BY <1>0
  <2>3. IsMap(delayed_modules')
    BY <1>0, <1>11, <2>1, <2>2, ScheduleFacts DEF StartModule
  <2> QED
    BY <1>11, <2>1, <2>3 DEF StartModule, TypeOK, IsMap, taskVars
<1>12. CASE TimePasses
  <2>1. now' \in 0..MaxTime
    BY <1>0, <1>12 DEF TimePasses
  <2> QED
    BY <1>12, <2>1 DEF TimePasses, TypeOK, moduleVars, taskVars
<1>13. CASE PostTask
  <2>1. posted + 1 \in Task /\ posted + 1 \in 0..NumTasks /\ now \in Timestamp
    <3>1. posted \in 0..NumTasks /\ posted < NumTasks
      BY <1>13 DEF PostTask, TypeOK
    <3>2. now \in Timestamp
      BY <1>0 DEF Timestamp
    <3> QED
      BY <3>1, <3>2, ProcessThreadConstants DEF Task
  <2>2. queue' \in Seq(Task)
    BY <1>0, <1>13, <2>1 DEF PostTask
  <2>3. due' \in [Task -> Timestamp]
    BY <1>13, <2>1 DEF PostTask, TypeOK
  <2>4. next_run_time' \in MinusInfinity..PlusInfinity
    BY <1>0, <1>13 DEF PostTask, MinusInfinity, PlusInfinity
  <2> QED
    BY <1>13, <2>1, <2>2, <2>3, <2>4 DEF PostTask, TypeOK, moduleVars
<1>14. ASSUME NEW d \in Delays, PostDelayedTask(d) PROVE TypeInv'
  <2>1. posted + 1 \in Task /\ posted + 1 \in 0..NumTasks /\ now + d \in Timestamp
    <3>1. now + d \in Timestamp
      BY <1>0
    <3>2. posted + 1 \in Task /\ posted + 1 \in 0..NumTasks
      <4>1. posted \in 0..NumTasks /\ posted < NumTasks
        BY <1>14 DEF PostDelayedTask, TypeOK
      <4> QED
        BY <4>1, ProcessThreadConstants DEF Task
    <3> QED
      BY <3>1, <3>2
  <2>2. due' \in [Task -> Timestamp] /\ delayed_tasks' \subseteq Task
    BY <1>14, <2>1 DEF PostDelayedTask, TypeOK
  <2>3. next_run_time' \in MinusInfinity..PlusInfinity
    BY <1>0, <1>14, <2>1 DEF PostDelayedTask, Earlier, MinusInfinity, PlusInfinity, Timestamp
  <2> QED
    BY <1>14, <2>1, <2>2, <2>3 DEF PostDelayedTask, TypeOK, moduleVars
<1>15. CASE Start
  BY <1>0, <1>15 DEF Start, Calls, TypeOK, taskVars
<1>16. CASE Stop
  <2>1. Listed(delayed_modules, MaxDue) \in Seq(Modules)
    BY <1>0, TakeAll
  <2>2. stopped_modules' \in Seq(Modules)
    BY <1>0, <1>16, <2>1, ConcatFacts DEF Stop
  <2>3. IsMap(delayed_modules')
    BY <1>16, NoModulesFacts DEF Stop
  <2> QED
    BY <1>16, <2>2, <2>3 DEF Stop, Calls, TypeOK, IsMap, taskVars
<1>17. ASSUME NEW m \in Modules, DeRegisterModule(m) PROVE TypeInv'
  <2>1. IsMap(delayed_modules') /\ stopped_modules' \in Seq(Modules)
    <3>1. CASE running
      BY <1>0, <1>17, <3>1, UnscheduleFacts DEF DeRegisterModule
    <3>2. CASE ~running
      <4>1. RemoveFirst(stopped_modules, m) \in Seq(Modules)
        BY <1>0, RemoveTyped
      <4> QED
        BY <1>0, <1>17, <3>2, <4>1 DEF DeRegisterModule
    <3> QED
      BY <3>1, <3>2
  <2>2. registered' \subseteq Modules /\ missed' \in [Modules -> Nat]
    <3>1. registered' \subseteq Modules /\ missed \in [Modules -> Nat]
      BY <1>17 DEF DeRegisterModule, TypeOK
    <3>2. CASE running
      BY <1>17, <3>1, <3>2 DEF DeRegisterModule, LooksFor
    <3>3. CASE ~running
      BY <1>17, <3>1, <3>3 DEF DeRegisterModule, LooksFor
    <3> QED
      BY <3>2, <3>3
  <2> QED
    BY <1>17, <2>1, <2>2 DEF DeRegisterModule, Calls, TypeOK, IsMap, taskVars
<1>18. ASSUME NEW m \in Modules, NEW p \in Periods, WakeUp(m, p) PROVE TypeInv'
  <2>1. now + p \in Timestamp /\ IsMap(Unschedule(delayed_modules, m))
    BY <1>0, UnscheduleFacts
  <2>2. IsMap(delayed_modules')
    BY <1>18, <2>1, ScheduleFacts DEF WakeUp
  <2>3. next_run_time' \in MinusInfinity..PlusInfinity
    BY <1>0, <1>18, <2>1 DEF WakeUp, Earlier, MinusInfinity, PlusInfinity, Timestamp
  <2>4. missed' \in [Modules -> Nat]
    BY <1>18 DEF WakeUp, LooksFor, TypeOK
  <2> QED
    BY <1>18, <2>2, <2>3, <2>4 DEF WakeUp, Calls, TypeOK, IsMap, taskVars
<1>19. ASSUME NEW m \in Modules, NEW p \in Periods, RegisterModule(m, p) PROVE TypeInv'
  <2>1. now + p \in Timestamp
    BY <1>0
  <2>2. registered' \subseteq Modules
    BY <1>19 DEF RegisterModule, TypeOK
  <2>3. /\ IsMap(delayed_modules') /\ stopped_modules' \in Seq(Modules)
        /\ next_run_time' \in MinusInfinity..PlusInfinity
    <3>1. CASE running
      <4>1. IsMap(delayed_modules') /\ stopped_modules' \in Seq(Modules)
        <5>1. IsMap(Schedule(delayed_modules, now + p, m))
          BY <1>0, <2>1, ScheduleFacts
        <5> QED
          BY <1>0, <1>19, <3>1, <5>1 DEF RegisterModule
      <4>2. next_run_time' \in MinusInfinity..PlusInfinity
        BY <1>0, <1>19, <2>1, <3>1 DEF RegisterModule, Earlier, MinusInfinity, PlusInfinity, Timestamp
      <4> QED
        BY <4>1, <4>2
    <3>2. CASE ~running
      BY <1>0, <1>19, <3>2, AppendFacts DEF RegisterModule
    <3> QED
      BY <3>1, <3>2
  <2> QED
    BY <1>19, <2>2, <2>3 DEF RegisterModule, Calls, TypeOK, IsMap, taskVars
<1>20. CASE UNCHANGED vars
  BY <1>20 DEF vars, moduleVars, taskVars, TypeOK
<1> QED
  BY <1>1, <1>2, <1>3, <1>4, <1>5, <1>6, <1>7, <1>8, <1>9, <1>10, <1>11, <1>12, <1>13,
     <1>14, <1>15, <1>16, <1>17, <1>18, <1>19, <1>20 DEF Next, RunReadySteps, StartSteps

LEMMA InitTyped == Init => TypeInv
<1> SUFFICES ASSUME Init PROVE TypeInv
  OBVIOUS
<1>1. \A S : <<>> \in Seq(S)
  BY NoElements
<1>2. 0 \in Timestamp /\ PlusInfinity \in MinusInfinity..PlusInfinity
  BY DueBounds DEF Timestamp, PlusInfinity, MinusInfinity
<1>3. /\ now \in 0..MaxTime /\ posted \in 0..NumTasks /\ due \in [Task -> Timestamp]
      /\ next_run_time \in MinusInfinity..PlusInfinity
  BY <1>2, ProcessThreadConstants DEF Init
<1>4. IsMap(delayed_modules)
  BY NoModulesFacts DEF Init
<1> QED
  BY <1>1, <1>3, <1>4 DEF Init, TypeInv, TypeOK, ControlInv, IsMap

\* The variables stay within their types: in particular every timestamp in the maps
\* and in next_run_time_ is within the bounds, and the lists hold modules only.
THEOREM TypeCorrect == Spec => []TypeOK
<1>1. TypeInv => TypeOK
  BY DEF TypeInv
<1> QED
  BY <1>1, InitTyped, TypeStep, PTL DEF Spec

------------------------------------------------------------------------------
(* The next run time *)

\* Every key of delayed_modules_ is provided for, also one whose list has become empty;
\* Start begins, and stays, without delayed tasks.
KeysProvided ==
  pc = "idle" /\ ~in_start =>
    /\ queue # <<>> => next_run_time <= now
    /\ \A k \in DOMAIN delayed_modules : next_run_time <= k
    /\ \A t \in delayed_tasks : next_run_time <= due[t]
NoneDelayedInStart == in_start => delayed_tasks = {}

ProvidedInv == KeysProvided /\ NoneDelayedInStart

LEMMA EarlierKeeps ==
  ASSUME NEW a \in Int, NEW b \in Int
  PROVE  /\ Earlier(a, b) <= b
         /\ \A c \in Int : a <= c => Earlier(a, b) <= c
  BY DEF Earlier

LEMMA ProvidedStep ==
  ASSUME "StartWithDelayed" \notin Uses, TypeInv, ProvidedInv, [Next]_vars
  PROVE  ProvidedInv'
<1> USE DEF ProvidedInv, KeysProvided, NoneDelayedInStart
<1>0. /\ IsMap(delayed_modules) /\ now \in 0..MaxTime /\ now \in Nat /\ DOMAIN delayed_modules \subseteq Nat
      /\ \A d \in Periods \cup Delays : now + d \in Timestamp /\ now + d \in Nat
      /\ next_run_time \in Int /\ due \in [Task -> Timestamp] /\ delayed_tasks \subseteq Task
      /\ \A t \in Task : due[t] \in Nat
      /\ MinusInfinity <= now
  BY TypedLists, MapTyped, DueBounds DEF TypeInv, TypeOK, MinusInfinity, PlusInfinity, Timestamp
<1>1. CASE RunReady \/ Process \/ AllProcessed \/ MoveDue \/ AllMoved \/ RunTask \/ TaskReturns
  BY <1>1 DEF RunReady, Process, AllProcessed, MoveDue, AllMoved, RunTask, TaskReturns, moduleVars,
              taskVars, TypeInv, ControlInv
<1>2. ASSUME NEW p \in Periods, ProcessReturns(p) PROVE ProvidedInv'
  BY <1>2 DEF ProcessReturns
<1>3. CASE RunReadyReturns
  <2>1. /\ next_run_time' = Earlier(FirstKey(delayed_modules), FirstDue) /\ queue = <<>>
        /\ UNCHANGED <<now, delayed_modules, delayed_tasks, due, queue, in_start>>
        /\ pc = "tasks"
    BY <1>3 DEF RunReadyReturns, moduleVars, taskVars
  <2>2. /\ FirstKey(delayed_modules) \in Int /\ \A k \in DOMAIN delayed_modules : FirstKey(delayed_modules) <= k
        /\ FirstDue \in Int /\ \A t \in delayed_tasks : FirstDue <= due[t]
    BY <1>0, FirstKeyFacts, FirstDueFacts, DueBounds DEF TypeInv, PlusInfinity
  <2>3. PICK e \in Int : e = next_run_time' /\ e <= FirstKey(delayed_modules) /\ e <= FirstDue
    BY <2>1, <2>2, EarlierFacts
  <2>4. ASSUME NEW k \in DOMAIN delayed_modules PROVE e <= k
    BY <1>0, <2>2, <2>3
  <2>5. ASSUME NEW t \in delayed_tasks PROVE e <= due[t]
    BY <1>0, <2>2, <2>3
  <2>6. ~in_start
    BY <2>1 DEF TypeInv, ControlInv
  <2> QED
    BY <2>1, <2>3, <2>4, <2>5, <2>6
<1>4. CASE StartReturns
  <2>1. /\ next_run_time' = IF queue # <<>> THEN MinusInfinity ELSE FirstKey(delayed_modules)
        /\ UNCHANGED <<now, delayed_modules, delayed_tasks, due, queue>> /\ delayed_tasks = {}
        /\ in_start' = FALSE
    BY <1>4 DEF StartReturns, taskVars
  <2>2. FirstKey(delayed_modules) \in Int /\ \A k \in DOMAIN delayed_modules : FirstKey(delayed_modules) <= k
    BY <1>0, FirstKeyFacts, DueBounds DEF PlusInfinity
  <2>3. \A k \in DOMAIN delayed_modules : MinusInfinity <= k
    BY <1>0 DEF MinusInfinity
  <2> QED
    BY <1>0, <2>1, <2>2, <2>3
<1>5. ASSUME NEW p \in Periods, StartModule(p) PROVE ProvidedInv'
  BY <1>5 DEF StartModule, taskVars
<1>6. CASE TimePasses
  <2>1. now' = now + 1 /\ UNCHANGED <<next_run_time, pc, delayed_modules, in_start, queue, delayed_tasks, due>>
    BY <1>6 DEF TimePasses, moduleVars, taskVars
  <2> QED
    BY <1>0, <2>1
<1>7. CASE PostTask
  <2>1. /\ next_run_time' = MinusInfinity /\ UNCHANGED <<now, pc, delayed_modules, in_start, delayed_tasks>>
        /\ due' = [due EXCEPT ![posted + 1] = now]
    BY <1>7 DEF PostTask, moduleVars
  <2>2. \A k \in DOMAIN delayed_modules : MinusInfinity <= k
    BY <1>0 DEF MinusInfinity
  <2>3. \A t \in delayed_tasks : MinusInfinity <= due'[t]
    BY <1>0, <2>1 DEF MinusInfinity
  <2> QED
    BY <1>0, <2>1, <2>2, <2>3
<1>8. ASSUME NEW d \in Delays, PostDelayedTask(d) PROVE ProvidedInv'
  <2>1. /\ ~in_start /\ next_run_time' = Earlier(next_run_time, now + d)
        /\ UNCHANGED <<now, pc, delayed_modules, in_start, queue>>
        /\ due' = [due EXCEPT ![posted + 1] = now + d]
        /\ delayed_tasks' = delayed_tasks \cup {posted + 1}
    BY <1>8 DEF PostDelayedTask, moduleVars
  <2>2. now + d \in Nat
    BY <1>0
  <2>3. PICK e \in Int : e = next_run_time' /\ e <= next_run_time /\ e <= now + d
    BY <1>0, <2>1, <2>2, EarlierFacts
  <2>4. \A t \in delayed_tasks' : due'[t] = IF t = posted + 1 THEN now + d ELSE due[t]
    <3>1. posted + 1 \in Task
      <4>1. posted \in 0..NumTasks /\ posted < NumTasks
        BY <1>8 DEF PostDelayedTask, TypeInv, TypeOK
      <4> QED
        BY <4>1, ProcessThreadConstants DEF Task
    <3> QED
      BY <1>0, <2>1, <3>1
  <2>5. ASSUME pc = "idle" PROVE \A t \in delayed_tasks' : e <= due'[t]
    BY <1>0, <2>1, <2>2, <2>3, <2>4, <2>5
  <2>6. ASSUME pc = "idle"
        PROVE  (queue # <<>> => e <= now) /\ \A k \in DOMAIN delayed_modules : e <= k
    BY <1>0, <2>1, <2>2, <2>3, <2>6
  <2> QED
    BY <2>1, <2>3, <2>5, <2>6
<1>9. CASE Start
  BY <1>9 DEF Start, taskVars
<1>10. CASE Stop
  BY <1>10, NoModulesFacts DEF Stop, taskVars, NoModules
<1>11. ASSUME NEW m \in Modules, DeRegisterModule(m) PROVE ProvidedInv'
  <2>1. DOMAIN delayed_modules' = DOMAIN delayed_modules
    BY <1>0, <1>11, UnscheduleFacts DEF DeRegisterModule
  <2> QED
    BY <1>11, <2>1 DEF DeRegisterModule, taskVars
<1>12. ASSUME NEW m \in Modules, NEW p \in Periods, WakeUp(m, p) PROVE ProvidedInv'
  <2>1. now + p \in Timestamp /\ now + p \in Nat
    BY <1>0
  <2>2. DOMAIN delayed_modules' = DOMAIN delayed_modules \cup {now + p}
    <3>1. PICK u : /\ u = Unschedule(delayed_modules, m)
                   /\ IsMap(u) /\ DOMAIN u = DOMAIN delayed_modules
      BY <1>0, UnscheduleFacts
    <3>2. PICK at \in Timestamp : at = now + p
      BY <2>1
    <3>3. DOMAIN Schedule(u, at, m) = DOMAIN u \cup {at}
      BY <3>1 DEF Schedule
    <3> QED
      BY <1>12, <3>1, <3>2, <3>3 DEF WakeUp
  <2>3. UNCHANGED <<now, pc, in_start, queue, delayed_tasks, due>> /\ next_run_time' = Earlier(next_run_time, now + p)
    BY <1>12 DEF WakeUp, taskVars
  <2> QED
    BY <1>0, <2>1, <2>2, <2>3, EarlierKeeps
<1>13. ASSUME NEW m \in Modules, NEW p \in Periods, RegisterModule(m, p) PROVE ProvidedInv'
  <2>1. CASE running
    <3>1. now + p \in Timestamp /\ now + p \in Nat
      BY <1>0
    <3>2. DOMAIN delayed_modules' = DOMAIN delayed_modules \cup {now + p}
      <4>1. DOMAIN Schedule(delayed_modules, now + p, m) = DOMAIN delayed_modules \cup {now + p}
        BY <1>0, <3>1, ScheduleFacts
      <4> QED
        BY <1>13, <2>1, <4>1 DEF RegisterModule
    <3>3. UNCHANGED <<now, pc, in_start, queue, delayed_tasks, due>> /\ next_run_time' = Earlier(next_run_time, now + p)
      BY <1>13, <2>1 DEF RegisterModule, taskVars
    <3> QED
      BY <1>0, <3>1, <3>2, <3>3, EarlierKeeps
  <2>2. CASE ~running
    BY <1>13, <2>2 DEF RegisterModule, taskVars
  <2> QED
    BY <2>1, <2>2
<1>14. CASE UNCHANGED vars
  BY <1>14 DEF vars, moduleVars, taskVars
<1> QED
  BY <1>1, <1>2, <1>3, <1>4, <1>5, <1>6, <1>7, <1>8, <1>9, <1>10, <1>11, <1>12, <1>13, <1>14
     DEF Next, RunReadySteps, StartSteps

\* As long as nobody starts the thread while delayed tasks wait, the controller always
\* finds a next run time that is late for no module and no task, whatever Process, tasks
\* and owners do: Start, Stop, WakeUp, registration and posting, also from Process itself.
\* (With such a Start it does not hold: the run ProcessThread_start.)
THEOREM ProvidedCorrect == "StartWithDelayed" \notin Uses /\ Spec => []NextRunTimeProvided
<1> SUFFICES ASSUME "StartWithDelayed" \notin Uses PROVE Spec => []NextRunTimeProvided
  OBVIOUS
<1>1. Init => ProvidedInv
  <2> SUFFICES ASSUME Init PROVE ProvidedInv
    OBVIOUS
  <2>1. queue = <<>> /\ DOMAIN delayed_modules = {} /\ delayed_tasks = {}
    BY DEF Init, NoModules
  <2> QED
    BY <2>1 DEF ProvidedInv, KeysProvided, NoneDelayedInStart
<1>2. ProvidedInv => NextRunTimeProvided
  BY DEF ProvidedInv, KeysProvided, NextRunTimeProvided, Entries
<1>3. TypeInv /\ ProvidedInv /\ [Next]_vars => ProvidedInv'
  BY ProvidedStep
<1> QED
  BY <1>1, <1>2, <1>3, InitTyped, TypeStep, PTL DEF Spec

------------------------------------------------------------------------------
(* Where the modules are *)

\* A step that does nothing to the modules.
ModulesIdle ==
  /\ \/ AllProcessed \/ MoveDue \/ AllMoved \/ RunTask \/ TaskReturns \/ RunReadyReturns
     \/ TimePasses \/ PostTask \/ (\E d \in Delays : PostDelayedTask(d)) \/ StartReturns
     \/ UNCHANGED vars
  /\ UNCHANGED <<running, stopped_modules, delayed_modules, ready_modules, current,
                 starting, registered, missed>>

LEMMA ModuleSteps ==
  ASSUME [Next]_vars
  PROVE  \/ ModulesIdle
         \/ RunReady \/ Process \/ Start \/ Stop
         \/ \E p \in Periods : ProcessReturns(p) \/ StartModule(p)
         \/ \E m \in Modules : \/ DeRegisterModule(m)
                               \/ \E p \in Periods : WakeUp(m, p) \/ RegisterModule(m, p)
<1>1. CASE \/ AllProcessed \/ MoveDue \/ AllMoved \/ RunTask \/ TaskReturns \/ RunReadyReturns
           \/ TimePasses \/ PostTask \/ StartReturns \/ UNCHANGED vars
  BY <1>1 DEF ModulesIdle, AllProcessed, MoveDue, AllMoved, RunTask, TaskReturns, RunReadyReturns,
              TimePasses, PostTask, StartReturns, vars, moduleVars
<1>2. ASSUME NEW d \in Delays, PostDelayedTask(d) PROVE ModulesIdle
  BY <1>2 DEF ModulesIdle, PostDelayedTask, moduleVars
<1> QED
  BY <1>1, <1>2 DEF Next, RunReadySteps, StartSteps

\* What the steps do to the set of scheduled modules.
LEMMA WakeUpFacts ==
  ASSUME TypeInv, NEW m \in Modules, NEW p \in Periods,
         delayed_modules' = Schedule(Unschedule(delayed_modules, m), now + p, m)
  PROVE  /\ Scheduled(delayed_modules') = Scheduled(delayed_modules) \cup {m}
         /\ DistinctMap(delayed_modules) => DistinctMap(delayed_modules')
<1>1. IsMap(delayed_modules) /\ now + p \in Timestamp
  BY TypedLists DEF TypeInv
<1>2. PICK u : /\ u = Unschedule(delayed_modules, m) /\ IsMap(u)
               /\ Scheduled(u) \subseteq Scheduled(delayed_modules)
               /\ Scheduled(delayed_modules) \subseteq Scheduled(u) \cup {m}
               /\ DistinctMap(delayed_modules) => DistinctMap(u) /\ m \notin Scheduled(u)
  BY <1>1, UnscheduleFacts
<1>3. PICK at \in Timestamp : at = now + p
  BY <1>1
<1>4. Scheduled(Schedule(u, at, m)) = Scheduled(u) \cup {m}
  BY <1>2, ScheduledMore
<1>5. DistinctMap(u) /\ m \notin Scheduled(u) => DistinctMap(Schedule(u, at, m))
  BY <1>2, ScheduleFacts
<1> QED
  BY <1>2, <1>3, <1>4, <1>5

LEMMA ScheduleAt ==
  ASSUME TypeInv, NEW m \in Modules, NEW p \in Periods,
         delayed_modules' = Schedule(delayed_modules, now + p, m)
  PROVE  /\ Scheduled(delayed_modules') = Scheduled(delayed_modules) \cup {m}
         /\ DistinctMap(delayed_modules) /\ m \notin Scheduled(delayed_modules)
              => DistinctMap(delayed_modules')
<1>1. IsMap(delayed_modules) /\ now + p \in Timestamp
  BY TypedLists DEF TypeInv
<1>2. PICK at \in Timestamp : at = now + p
  BY <1>1
<1>3. Scheduled(Schedule(delayed_modules, at, m)) = Scheduled(delayed_modules) \cup {m}
  BY <1>1, ScheduledMore
<1>4. ASSUME DistinctMap(delayed_modules), m \notin Scheduled(delayed_modules)
      PROVE  DistinctMap(Schedule(delayed_modules, at, m))
  BY <1>1, <1>4, ScheduleFacts
<1> QED
  BY <1>2, <1>3, <1>4

\* The modules that are somewhere.
Kept ==
  Scheduled(delayed_modules) \cup ToSet(ready_modules) \cup ToSet(stopped_modules)
    \cup ToSet(starting) \cup {current}

KeptInv == registered \subseteq Kept

LEMMA KeptStep == ASSUME TypeInv, KeptInv, [Next]_vars PROVE KeptInv'
<1> USE DEF KeptInv, Kept
<1>0. /\ IsMap(delayed_modules) /\ registered \subseteq Modules /\ None \notin Modules
      /\ ready_modules \in Seq(Modules) /\ stopped_modules \in Seq(Modules)
      /\ starting \in Seq(Modules) /\ now \in Nat /\ ToSet(<<>>) = {}
      /\ pc = "process" <=> current # None
      /\ starting # <<>> => in_start
      /\ ready_modules # <<>> => pc \in {"modules", "process"}
  BY TypedLists, NoElements, ProcessThreadConstants DEF TypeInv, TypeOK, ControlInv
<1>1. CASE ModulesIdle
  BY <1>1 DEF ModulesIdle
<1>2. CASE RunReady
  <2>1. ToSet(ready_modules) = {}
    BY <1>0, <1>2 DEF RunReady
  <2>2. Scheduled(delayed_modules) = ToSet(ready_modules') \cup Scheduled(delayed_modules')
    BY <1>0, <1>2, TakeFacts DEF RunReady
  <2> QED
    BY <1>2, <2>1, <2>2 DEF RunReady
<1>3. CASE Process
  <2>1. ToSet(ready_modules) = {current'} \cup ToSet(ready_modules')
    BY <1>0, <1>3, TailFacts DEF Process
  <2>2. current = None
    BY <1>0, <1>3 DEF Process
  <2> QED
    BY <1>0, <1>3, <2>1, <2>2 DEF Process
<1>4. CASE Start
  <2>1. ToSet(starting) = {}
    BY <1>0, <1>4 DEF Start, Calls
  <2> QED
    BY <1>4, <2>1 DEF Start
<1>5. CASE Stop
  <2>1. /\ Listed(delayed_modules, MaxDue) \in Seq(Modules)
        /\ ToSet(Listed(delayed_modules, MaxDue)) = Scheduled(delayed_modules)
    BY <1>0, TakeAll
  <2>2. ToSet(stopped_modules') = ToSet(stopped_modules) \cup Scheduled(delayed_modules)
    BY <1>0, <1>5, <2>1, ConcatFacts DEF Stop
  <2> QED
    BY <1>5, <2>2 DEF Stop
<1>6. ASSUME NEW p \in Periods, ProcessReturns(p) PROVE KeptInv'
  <2>1. current \in Modules
    BY <1>0, <1>6 DEF ProcessReturns, TypeInv, TypeOK
  <2>2. Scheduled(delayed_modules') = Scheduled(delayed_modules) \cup {current}
    BY <1>6, <2>1, ScheduleAt DEF ProcessReturns
  <2> QED
    BY <1>6, <2>2 DEF ProcessReturns
<1>7. ASSUME NEW p \in Periods, StartModule(p) PROVE KeptInv'
  <2>1. PICK h \in Modules : h = Head(starting) /\ ToSet(starting) = {h} \cup ToSet(starting')
    BY <1>0, <1>7, TailFacts DEF StartModule
  <2>2. Scheduled(delayed_modules') = Scheduled(delayed_modules) \cup {h}
    BY <1>7, <2>1, ScheduleAt DEF StartModule
  <2> QED
    BY <1>7, <2>1, <2>2 DEF StartModule
<1>8. ASSUME NEW m \in Modules, DeRegisterModule(m) PROVE KeptInv'
  <2>1. UNCHANGED <<ready_modules, starting, current>> /\ registered' = registered \ {m}
    BY <1>8 DEF DeRegisterModule
  <2>2. CASE running
    <3>1. /\ Scheduled(delayed_modules) \subseteq Scheduled(delayed_modules') \cup {m}
          /\ stopped_modules' = stopped_modules
      BY <1>0, <1>8, <2>2, UnscheduleFacts DEF DeRegisterModule
    <3> QED
      BY <2>1, <3>1
  <2>3. CASE ~running
    <3>1. ToSet(stopped_modules) \subseteq ToSet(RemoveFirst(stopped_modules, m)) \cup {m}
      BY <1>0, RemoveKeeps
    <3>2. stopped_modules' = RemoveFirst(stopped_modules, m) /\ delayed_modules' = delayed_modules
      BY <1>8, <2>3 DEF DeRegisterModule
    <3> QED
      BY <2>1, <3>1, <3>2
  <2> QED
    BY <2>2, <2>3
<1>9. ASSUME NEW m \in Modules, NEW p \in Periods, WakeUp(m, p) PROVE KeptInv'
  <2>1. Scheduled(delayed_modules') = Scheduled(delayed_modules) \cup {m}
    BY <1>9, WakeUpFacts DEF WakeUp
  <2> QED
    BY <1>9, <2>1 DEF WakeUp
<1>10. ASSUME NEW m \in Modules, NEW p \in Periods, RegisterModule(m, p) PROVE KeptInv'
  <2>1. UNCHANGED <<ready_modules, starting, current>> /\ registered' = registered \cup {m}
    BY <1>10 DEF RegisterModule
  <2>2. CASE running
    <3>1. /\ Scheduled(delayed_modules') = Scheduled(delayed_modules) \cup {m}
          /\ stopped_modules' = stopped_modules
      BY <1>10, <2>2, ScheduleAt DEF RegisterModule
    <3> QED
      BY <2>1, <3>1
  <2>3. CASE ~running
    <3>1. /\ ToSet(stopped_modules') = ToSet(stopped_modules) \cup {m}
          /\ delayed_modules' = delayed_modules
      <4>1. ToSet(Append(stopped_modules, m)) = ToSet(stopped_modules) \cup {m}
        BY <1>0, AppendFacts
      <4> QED
        BY <1>10, <2>3, <4>1 DEF RegisterModule
    <3> QED
      BY <2>1, <3>1
  <2> QED
    BY <2>2, <2>3
<1> HIDE DEF KeptInv, Kept
<1> QED
  BY <1>1, <1>2, <1>3, <1>4, <1>5, <1>6, <1>7, <1>8, <1>9, <1>10, ModuleSteps

\* A module's places tell whether it is somewhere.
LEMMA SomePlace ==
  ASSUME NEW m
  PROVE  /\ \A name, list : In(m, name, list) # {} <=> m \in ToSet(list)
         /\ m \in Modules => ({f \in Entries : delayed_modules[f[1]][f[2]] = m} # {}
                               <=> m \in Scheduled(delayed_modules))
<1>1. ASSUME NEW name, NEW list PROVE In(m, name, list) # {} <=> m \in ToSet(list)
  BY DEF In, ToSet
<1>2. ASSUME NEW f \in Entries, delayed_modules[f[1]][f[2]] = m, m \in Modules
      PROVE  m \in Scheduled(delayed_modules)
  BY <1>2 DEF Entries, Scheduled, ToSet
<1>3. ASSUME m \in Scheduled(delayed_modules)
      PROVE  \E f \in Entries : delayed_modules[f[1]][f[2]] = m
  <2>1. PICK k \in DOMAIN delayed_modules : m \in ToSet(delayed_modules[k])
    BY <1>3 DEF Scheduled
  <2>2. PICK i \in DOMAIN delayed_modules[k] : delayed_modules[k][i] = m
    BY <2>1 DEF ToSet
  <2>3. <<k, i>> \in Entries
    BY DEF Entries
  <2> QED
    BY <2>2, <2>3
<1> QED
  BY <1>1, <1>2, <1>3

\* No use of the thread forgets a registered module, not even calls from Process or a
\* WakeUp while it is stopped: it is scheduled, in the hands of RunReady or Start, or stopped.
THEOREM KeptCorrect == Spec => []RegisteredModuleIsKept
<1>1. Init => KeptInv
  BY DEF Init, KeptInv
<1>2. ASSUME TypeInv, KeptInv PROVE RegisteredModuleIsKept
  <2>1. SUFFICES ASSUME NEW m \in registered PROVE Places(m) # {}
    BY DEF RegisteredModuleIsKept
  <2>2. m \in Modules
    BY <1>2 DEF TypeInv, TypeOK
  <2>3. m \in Kept
    BY <1>2 DEF KeptInv
  <2>4. CASE m \in Scheduled(delayed_modules)
    <3>1. PICK f \in Entries : delayed_modules[f[1]][f[2]] = m
      BY <2>2, <2>4, SomePlace
    <3> QED
      BY <3>1 DEF Places
  <2>5. CASE m \in ToSet(ready_modules) \cup ToSet(stopped_modules) \cup ToSet(starting)
    BY <2>5, SomePlace DEF Places
  <2>6. CASE m = current
    BY <2>6 DEF Places
  <2> QED
    BY <2>3, <2>4, <2>5, <2>6 DEF Kept
<1> QED
  BY <1>1, <1>2, KeptStep, InitTyped, TypeStep, PTL DEF Spec

\* Without calls from Process and without WakeUp while it is stopped, the thread has each
\* registered module once, and no other: in stopped_modules_ before it is started; once
\* it is started in delayed_modules_, or on its way there from Start or RunReady.
OnceInv ==
  /\ DistinctMap(delayed_modules)
  /\ Distinct(ready_modules) /\ Distinct(stopped_modules) /\ Distinct(starting)
  /\ Scheduled(delayed_modules) \cap ToSet(ready_modules) = {}
  /\ Scheduled(delayed_modules) \cap ToSet(starting) = {}
  /\ current \notin Scheduled(delayed_modules) \cup ToSet(ready_modules)
  /\ running => ToSet(stopped_modules) = {}
  /\ ~running => /\ Scheduled(delayed_modules) = {} /\ ToSet(ready_modules) = {}
                 /\ ToSet(starting) = {} /\ current = None
  /\ in_start => pc # "process"
  /\ registered = Kept \ {None}

LEMMA OnceStep == ASSUME Uses = {}, TypeInv, OnceInv, [Next]_vars PROVE OnceInv'
<1> USE DEF OnceInv, Kept
<1>0. /\ IsMap(delayed_modules) /\ registered \subseteq Modules /\ None \notin Modules
      /\ ready_modules \in Seq(Modules) /\ stopped_modules \in Seq(Modules)
      /\ starting \in Seq(Modules) /\ now \in Nat /\ ToSet(<<>>) = {} /\ Distinct(<<>>)
      /\ pc = "process" <=> current # None
      /\ starting # <<>> => in_start
      /\ ready_modules # <<>> => pc \in {"modules", "process"}
      /\ in_start => pc \in {"idle", "task"}
      /\ Calls => pc \in {"idle", "task"} /\ ~in_start
  BY TypedLists, NoElements, ProcessThreadConstants DEF TypeInv, TypeOK, ControlInv, Calls
<1>a. ASSUME ~in_start PROVE ToSet(starting) = {}
  BY <1>0, <1>a
<1>b. ASSUME pc \in {"idle", "task"} PROVE ToSet(ready_modules) = {} /\ current = None
  BY <1>0, <1>b
<1>c. /\ Scheduled(delayed_modules) \subseteq Modules /\ ToSet(ready_modules) \subseteq Modules
      /\ ToSet(stopped_modules) \subseteq Modules /\ ToSet(starting) \subseteq Modules
  BY <1>0, ElementsTyped DEF Scheduled
<1>1. CASE ModulesIdle
  <2>1. UNCHANGED <<running, stopped_modules, delayed_modules, ready_modules, current,
                    starting, registered>>
    BY <1>1 DEF ModulesIdle
  <2>2. in_start' => pc' # "process"
    BY <1>0, <1>1 DEF ModulesIdle, AllProcessed, MoveDue, AllMoved, RunTask, TaskReturns,
      RunReadyReturns, TimePasses, PostTask, PostDelayedTask, StartReturns, vars, moduleVars
  <2> QED
    BY <2>1, <2>2
<1>2. CASE RunReady
  <2>1. /\ ToSet(ready_modules) = {} /\ ToSet(starting) = {} /\ current = None
        /\ UNCHANGED <<running, stopped_modules, current, in_start, starting, registered>>
        /\ ~in_start
    BY <1>2, <1>a, <1>b DEF RunReady
  <2>2. /\ Scheduled(delayed_modules) = ToSet(ready_modules') \cup Scheduled(delayed_modules')
        /\ DistinctMap(delayed_modules') /\ Distinct(ready_modules')
        /\ ToSet(ready_modules') \cap Scheduled(delayed_modules') = {}
    <3>1. PICK rest : /\ rest = Restrict(delayed_modules, {k \in DOMAIN delayed_modules : k > now})
                      /\ delayed_modules' = rest
      BY <1>2 DEF RunReady
    <3>2. ready_modules' = Listed(delayed_modules, now)
      BY <1>2 DEF RunReady
    <3>3. Scheduled(delayed_modules) = ToSet(Listed(delayed_modules, now)) \cup Scheduled(rest)
      BY <1>0, <3>1, TakeFacts
    <3>4. /\ DistinctMap(rest) /\ Distinct(Listed(delayed_modules, now))
          /\ ToSet(Listed(delayed_modules, now)) \cap Scheduled(rest) = {}
      BY <1>0, <3>1, TakeFacts
    <3> QED
      BY <3>1, <3>2, <3>3, <3>4
  <2> QED
    BY <1>0, <1>c, <2>1, <2>2
<1>3. CASE Process
  <2>1. /\ ToSet(ready_modules) = {current'} \cup ToSet(ready_modules')
        /\ Distinct(ready_modules') /\ current' \notin ToSet(ready_modules')
    BY <1>0, <1>3, TailFacts DEF Process
  <2>2. current = None /\ ~in_start
    BY <1>0, <1>3 DEF Process
  <2>3. UNCHANGED <<running, stopped_modules, delayed_modules, in_start, starting, registered>>
    BY <1>3 DEF Process
  <2> QED
    BY <1>0, <1>c, <2>1, <2>2, <2>3
<1>4. CASE Start
  <2>1. /\ ToSet(ready_modules) = {} /\ ToSet(starting) = {} /\ current = None
        /\ pc' = pc /\ pc # "process"
    BY <1>0, <1>4, <1>a, <1>b DEF Start
  <2>2. /\ ~running /\ running' /\ starting' = stopped_modules /\ stopped_modules' = <<>>
        /\ UNCHANGED <<delayed_modules, ready_modules, current, registered>>
    BY <1>4 DEF Start
  <2> QED
    BY <1>0, <2>1, <2>2
<1>5. CASE Stop
  <2>1. /\ Listed(delayed_modules, MaxDue) \in Seq(Modules)
        /\ ToSet(Listed(delayed_modules, MaxDue)) = Scheduled(delayed_modules)
        /\ Distinct(Listed(delayed_modules, MaxDue))
    BY <1>0, TakeAll
  <2>2. /\ ToSet(stopped_modules') = ToSet(stopped_modules) \cup Scheduled(delayed_modules)
        /\ ToSet(stopped_modules) \cap Scheduled(delayed_modules) = {} => Distinct(stopped_modules')
    BY <1>0, <1>5, <2>1, ConcatFacts DEF Stop
  <2>3. /\ ToSet(ready_modules) = {} /\ ToSet(starting) = {} /\ current = None
        /\ pc' = pc /\ pc # "process"
    BY <1>0, <1>5, <1>a, <1>b DEF Stop
  <2>4. /\ ~running' /\ Scheduled(delayed_modules') = {} /\ DistinctMap(delayed_modules')
        /\ UNCHANGED <<ready_modules, current, starting, registered, in_start>>
    BY <1>5, NoModulesFacts DEF Stop
  <2> QED
    BY <2>2, <2>3, <2>4
<1>6. ASSUME NEW p \in Periods, ProcessReturns(p) PROVE OnceInv'
  <2>1. current \in Modules /\ current # None
    BY <1>0, <1>6 DEF ProcessReturns, TypeInv, TypeOK
  <2>2. /\ Scheduled(delayed_modules') = Scheduled(delayed_modules) \cup {current}
        /\ DistinctMap(delayed_modules')
    BY <1>6, <2>1, ScheduleAt DEF ProcessReturns
  <2>3. /\ ToSet(starting) = {} /\ current' = None /\ ~in_start
        /\ UNCHANGED <<running, stopped_modules, ready_modules, in_start, starting, registered>>
    BY <1>6, <1>a DEF ProcessReturns
  <2> QED
    BY <1>0, <1>c, <2>1, <2>2, <2>3
<1>7. ASSUME NEW p \in Periods, StartModule(p) PROVE OnceInv'
  <2>1. PICK h \in Modules : /\ h = Head(starting) /\ ToSet(starting) = {h} \cup ToSet(starting')
                             /\ Distinct(starting') /\ h \notin ToSet(starting')
    BY <1>0, <1>7, TailFacts DEF StartModule
  <2>2. /\ Scheduled(delayed_modules') = Scheduled(delayed_modules) \cup {h}
        /\ DistinctMap(delayed_modules')
    BY <1>7, <2>1, ScheduleAt DEF StartModule
  <2>3. /\ ToSet(ready_modules) = {} /\ current = None
        /\ UNCHANGED <<pc, running, stopped_modules, ready_modules, current, in_start, registered>>
    BY <1>0, <1>7, <1>b DEF StartModule
  <2> QED
    BY <1>0, <2>1, <2>2, <2>3
<1>8. ASSUME NEW m \in Modules, DeRegisterModule(m) PROVE OnceInv'
  <2>1. /\ ToSet(ready_modules) = {} /\ ToSet(starting) = {} /\ current = None
        /\ registered' = registered \ {m} /\ m \in registered
        /\ UNCHANGED <<pc, running, ready_modules, current, starting, in_start>>
    BY <1>0, <1>8, <1>a, <1>b DEF DeRegisterModule
  <2>2. CASE running
    <3>1. /\ Scheduled(delayed_modules) \subseteq Scheduled(delayed_modules') \cup {m}
          /\ Scheduled(delayed_modules') \subseteq Scheduled(delayed_modules) \ {m}
          /\ DistinctMap(delayed_modules')
          /\ stopped_modules' = stopped_modules
      BY <1>0, <1>8, <2>2, UnscheduleFacts DEF DeRegisterModule
    <3> QED
      BY <1>0, <2>1, <2>2, <3>1
  <2>3. CASE ~running
    <3>1. m \in ToSet(stopped_modules)
      BY <1>0, <2>1, <2>3
    <3>2. /\ ToSet(stopped_modules) \subseteq ToSet(RemoveFirst(stopped_modules, m)) \cup {m}
          /\ ToSet(RemoveFirst(stopped_modules, m)) \subseteq ToSet(stopped_modules) \ {m}
          /\ Distinct(RemoveFirst(stopped_modules, m))
      BY <1>0, <3>1, RemoveFacts
    <3>3. stopped_modules' = RemoveFirst(stopped_modules, m) /\ delayed_modules' = delayed_modules
      BY <1>8, <2>3 DEF DeRegisterModule
    <3> QED
      BY <1>0, <2>1, <2>3, <3>2, <3>3
  <2> QED
    BY <2>2, <2>3
<1>9. ASSUME NEW m \in Modules, NEW p \in Periods, WakeUp(m, p) PROVE OnceInv'
  <2>1. /\ ToSet(ready_modules) = {} /\ ToSet(starting) = {} /\ current = None
        /\ running /\ m \in registered
        /\ UNCHANGED <<pc, running, stopped_modules, ready_modules, current, starting, in_start, registered>>
    BY <1>0, <1>9, <1>a, <1>b DEF WakeUp
  <2>2. m \in Scheduled(delayed_modules)
    BY <1>0, <2>1
  <2>3. Scheduled(delayed_modules') = Scheduled(delayed_modules) /\ DistinctMap(delayed_modules')
    BY <1>9, <2>2, WakeUpFacts DEF WakeUp
  <2> QED
    BY <2>1, <2>3
<1>10. ASSUME NEW m \in Modules, NEW p \in Periods, RegisterModule(m, p) PROVE OnceInv'
  <2>1. /\ ToSet(ready_modules) = {} /\ ToSet(starting) = {} /\ current = None
        /\ registered' = registered \cup {m} /\ m \notin registered
        /\ UNCHANGED <<pc, running, ready_modules, current, starting, in_start>>
    BY <1>0, <1>10, <1>a, <1>b DEF RegisterModule
  <2>2. m \notin Scheduled(delayed_modules) \cup ToSet(stopped_modules) /\ m # None
    BY <1>0, <2>1
  <2>3. CASE running
    <3>1. /\ Scheduled(delayed_modules') = Scheduled(delayed_modules) \cup {m}
          /\ DistinctMap(delayed_modules')
          /\ stopped_modules' = stopped_modules
      BY <1>10, <2>2, <2>3, ScheduleAt DEF RegisterModule
    <3> QED
      BY <1>0, <2>1, <2>2, <2>3, <3>1
  <2>4. CASE ~running
    <3>1. /\ ToSet(Append(stopped_modules, m)) = ToSet(stopped_modules) \cup {m}
          /\ Distinct(Append(stopped_modules, m))
      BY <1>0, <2>2, AppendFacts
    <3>2. stopped_modules' = Append(stopped_modules, m) /\ delayed_modules' = delayed_modules
      BY <1>10, <2>4 DEF RegisterModule
    <3> QED
      BY <1>0, <2>1, <2>2, <2>4, <3>1, <3>2
  <2> QED
    BY <2>3, <2>4
<1> HIDE DEF OnceInv, Kept
<1> QED
  BY <1>1, <1>2, <1>3, <1>4, <1>5, <1>6, <1>7, <1>8, <1>9, <1>10, ModuleSteps

LEMMA OnceInit == Init => OnceInv
<1> SUFFICES ASSUME Init PROVE OnceInv
  OBVIOUS
<1>1. /\ Scheduled(delayed_modules) = {} /\ DistinctMap(delayed_modules)
      /\ ToSet(<<>>) = {} /\ Distinct(<<>>)
  BY NoModulesFacts, NoElements DEF Init
<1> QED
  BY <1>1 DEF Init, OnceInv, Kept

\* If Process does not call back and nobody wakes a module of a stopped thread, Process
\* is called only while the thread is started, and only of a module that is registered.
THEOREM StartedCorrect == Uses = {} /\ Spec => []ProcessOnlyWhileStarted
<1> SUFFICES ASSUME Uses = {} PROVE Spec => []ProcessOnlyWhileStarted
  OBVIOUS
<1>1. TypeInv /\ OnceInv /\ [Next]_vars => OnceInv'
  BY OnceStep
<1>2. ASSUME TypeInv, OnceInv PROVE ProcessOnlyWhileStarted
  <2>1. SUFFICES ASSUME pc = "process" PROVE running /\ current \in registered
    BY DEF ProcessOnlyWhileStarted
  <2>2. current # None
    BY <1>2, <2>1 DEF TypeInv, ControlInv
  <2> QED
    BY <1>2, <2>2 DEF OnceInv, Kept
<1> QED
  BY <1>1, <1>2, OnceInit, InitTyped, TypeStep, PTL DEF Spec
------------------------------------------------------------------------------
(* How often a module occurs: in a sequence, and in delayed_modules_ *)

\* Two sets of which one is the other's image are of one size.
LEMMA SameSize ==
  ASSUME NEW P, IsFiniteSet(P), NEW f, DOMAIN f = P, f = [x \in P |-> f[x]],
         \A x, y \in P : f[x] = f[y] => x = y
  PROVE  /\ IsFiniteSet({f[x] : x \in P})
         /\ Cardinality({f[x] : x \in P}) = Cardinality(P)
<1> DEFINE Q == {f[x] : x \in P}
<1>1. f \in Bijection(P, Q)
  BY DEF Bijection, Injection, Surjection, IsInjective
<1> QED
  BY <1>1, FS_Bijection DEF ExistsBijection

LEMMA SizeOfBoth ==
  ASSUME NEW P, IsFiniteSet(P), NEW Q, IsFiniteSet(Q), P \cap Q = {}
  PROVE  /\ IsFiniteSet(P \cup Q)
         /\ Cardinality(P \cup Q) = Cardinality(P) + Cardinality(Q)
<1>1. Cardinality(P) \in Nat /\ Cardinality(Q) \in Nat
  BY FS_CardinalityType
<1>2. /\ IsFiniteSet(P \cup Q)
      /\ Cardinality(P \cup Q) = Cardinality(P) + Cardinality(Q) - Cardinality(P \cap Q)
  BY FS_Union
<1>3. Cardinality(P \cap Q) = 0
  BY FS_EmptySet
<1> QED
  BY <1>1, <1>2, <1>3

Positions(s, m) == {j \in DOMAIN s : s[j] = m}
Count(s, m) == Cardinality(Positions(s, m))

LEMMA CountTyped ==
  ASSUME NEW S, NEW s \in Seq(S), NEW m
  PROVE  IsFiniteSet(Positions(s, m)) /\ Count(s, m) \in Nat
<1>1. IsFiniteSet(1..Len(s)) /\ DOMAIN s = 1..Len(s)
  BY FS_Interval
<1>2. Positions(s, m) \in SUBSET (1..Len(s))
  BY <1>1 DEF Positions
<1>3. IsFiniteSet(Positions(s, m))
  BY <1>1, <1>2, FS_Subset
<1> QED
  BY <1>3, FS_CardinalityType DEF Count

LEMMA CountNone == ASSUME NEW s, NEW m, m \notin ToSet(s) PROVE Count(s, m) = 0
<1>1. Positions(s, m) = {}
  BY DEF Positions, ToSet
<1> QED
  BY <1>1, FS_EmptySet DEF Count

LEMMA CountOne == ASSUME NEW x, NEW m PROVE Count(<<x>>, m) = IF x = m THEN 1 ELSE 0
<1>1. DOMAIN <<x>> = {1} /\ <<x>>[1] = x
  OBVIOUS
<1>2. Positions(<<x>>, m) = IF x = m THEN {1} ELSE {}
  BY <1>1 DEF Positions
<1> QED
  BY <1>2, FS_Singleton, FS_EmptySet DEF Count

LEMMA CountConcat ==
  ASSUME NEW S, NEW s \in Seq(S), NEW t \in Seq(S), NEW m
  PROVE  Count(s \o t, m) = Count(s, m) + Count(t, m)
<1> DEFINE n == Len(s)
           P == Positions(t, m)
           f == [j \in P |-> n + j]
           Q == {f[j] : j \in P}
<1>1. /\ n \in Nat /\ Len(t) \in Nat /\ DOMAIN s = 1..n /\ DOMAIN t = 1..Len(t)
      /\ s \o t \in Seq(S) /\ DOMAIN (s \o t) = 1..(n + Len(t))
      /\ \A i \in 1..(n + Len(t)) : (s \o t)[i] = IF i <= n THEN s[i] ELSE t[i - n]
  BY ConcatProperties
<1>2. IsFiniteSet(P) /\ P \subseteq 1..Len(t) /\ IsFiniteSet(Positions(s, m)) /\ Positions(s, m) \subseteq 1..n
  BY <1>1, CountTyped DEF Positions
<1>3. \A i, j \in P : f[i] = f[j] => i = j
  BY <1>1, <1>2
<1>4. IsFiniteSet(Q) /\ Cardinality(Q) = Cardinality(P)
  <2> HIDE DEF P
  <2>1. DOMAIN f = P /\ f = [j \in P |-> f[j]]
    OBVIOUS
  <2> HIDE DEF f
  <2> QED
    BY <1>2, <1>3, <2>1, SameSize
<1>5. Positions(s, m) \cap Q = {}
  <2>1. \A j \in P : n + j \notin 1..n
    BY <1>1, <1>2
  <2> QED
    BY <1>2, <2>1
<1>6. Positions(s \o t, m) = Positions(s, m) \cup Q
  <2>1. ASSUME NEW i \in 1..(n + Len(t)), (s \o t)[i] = m PROVE i \in Positions(s, m) \cup Q
    <3>1. CASE i <= n
      BY <1>1, <2>1, <3>1 DEF Positions
    <3>2. CASE ~(i <= n)
      <4>1. i - n \in 1..Len(t) /\ t[i - n] = m /\ n + (i - n) = i
        BY <1>1, <2>1, <3>2
      <4>2. i - n \in P
        BY <1>1, <4>1 DEF Positions
      <4>3. f[i - n] = i
        BY <4>1, <4>2
      <4> QED
        BY <4>2, <4>3
    <3> QED
      BY <3>1, <3>2
  <2>2. ASSUME NEW i \in Positions(s, m) PROVE i \in 1..(n + Len(t)) /\ (s \o t)[i] = m
    <3>1. i \in 1..n /\ s[i] = m
      BY <1>1 DEF Positions
    <3>2. i \in 1..(n + Len(t)) /\ i <= n
      BY <1>1, <3>1
    <3> QED
      BY <1>1, <3>1, <3>2
  <2>3. ASSUME NEW j \in P PROVE n + j \in 1..(n + Len(t)) /\ (s \o t)[n + j] = m
    <3>1. j \in 1..Len(t) /\ t[j] = m
      BY <1>1 DEF Positions
    <3>2. n + j \in 1..(n + Len(t)) /\ ~(n + j <= n) /\ (n + j) - n = j
      BY <1>1, <3>1
    <3> QED
      BY <1>1, <3>1, <3>2
  <2>4. Q \subseteq Positions(s \o t, m)
    BY <1>1, <2>3 DEF Positions
  <2>5. Positions(s, m) \subseteq Positions(s \o t, m)
    BY <1>1, <2>2 DEF Positions
  <2>6. Positions(s \o t, m) \subseteq Positions(s, m) \cup Q
    <3>1. SUFFICES ASSUME NEW i \in Positions(s \o t, m) PROVE i \in Positions(s, m) \cup Q
      OBVIOUS
    <3>2. i \in 1..(n + Len(t)) /\ (s \o t)[i] = m
      BY <1>1 DEF Positions
    <3> HIDE DEF Q
    <3> QED
      BY <2>1, <3>2
  <2> QED
    BY <2>4, <2>5, <2>6
<1> HIDE DEF Q
<1>7. Cardinality(Positions(s, m) \cup Q) = Cardinality(Positions(s, m)) + Cardinality(Q)
  BY <1>2, <1>4, <1>5, SizeOfBoth
<1> QED
  BY <1>4, <1>6, <1>7 DEF Count

LEMMA CountAppend ==
  ASSUME NEW S, NEW s \in Seq(S), NEW x \in S, NEW m
  PROVE  Count(Append(s, x), m) = Count(s, m) + (IF x = m THEN 1 ELSE 0)
<1>1. Append(s, x) = s \o <<x>> /\ <<x>> \in Seq(S)
  OBVIOUS
<1>2. Count(s \o <<x>>, m) = Count(s, m) + Count(<<x>>, m)
  BY <1>1, CountConcat
<1> QED
  BY <1>1, <1>2, CountOne

LEMMA CountTail ==
  ASSUME NEW S, NEW s \in Seq(S), s # <<>>, NEW m
  PROVE  Count(s, m) = Count(Tail(s), m) + (IF Head(s) = m THEN 1 ELSE 0)
<1>1. /\ Head(s) \in S /\ Tail(s) \in Seq(S) /\ <<Head(s)>> \in Seq(S)
      /\ s = <<Head(s)>> \o Tail(s)
  OBVIOUS
<1>2. Count(<<Head(s)>> \o Tail(s), m) = Count(<<Head(s)>>, m) + Count(Tail(s), m)
  BY <1>1, CountConcat
<1>3. Count(Tail(s), m) \in Nat
  BY <1>1, CountTyped
<1>4. Count(<<Head(s)>>, m) = IF Head(s) = m THEN 1 ELSE 0
  BY CountOne
<1>5. Count(s, m) = Count(<<Head(s)>>, m) + Count(Tail(s), m)
  BY <1>1, <1>2
<1> QED
  BY <1>3, <1>4, <1>5

LEMMA CountRemove ==
  ASSUME NEW S, NEW s \in Seq(S), NEW x, NEW m
  PROVE  Count(s, m) = Count(RemoveFirst(s, x), m) + (IF x = m /\ x \in ToSet(s) THEN 1 ELSE 0)
<1>1. CASE x \notin ToSet(s)
  <2>1. ~\E i \in 1..Len(s) : s[i] = x
    BY <1>1 DEF ToSet
  <2>2. RemoveFirst(s, x) = s
    BY <2>1 DEF RemoveFirst
  <2> QED
    BY <1>1, <2>2, CountTyped
<1>2. CASE x \in ToSet(s)
  <2>1. PICK n \in Nat : n = Len(s) /\ DOMAIN s = 1..n
    OBVIOUS
  <2> DEFINE I == {i \in 1..n : s[i] = x}
  <2>2. I # {} /\ I \subseteq Nat
    BY <1>2, <2>1 DEF ToSet
  <2>3. PICK k \in 1..n : s[k] = x /\ k = Min(I)
    BY <2>2, MinIsFirst
  <2>4. RemoveFirst(s, x) = RemoveAt(s, k)
    BY <2>1, <2>2, <2>3 DEF RemoveFirst, SelectInSeq
  <2>5. PICK a, b : a = SubSeq(s, 1, k - 1) /\ b = SubSeq(s, k + 1, n)
    OBVIOUS
  <2>6. RemoveFirst(s, x) = a \o b
    BY <2>1, <2>4, <2>5 DEF RemoveAt
  <2>7. a \in Seq(S) /\ Len(a) = k - 1 /\ \A i \in 1..(k - 1) : a[i] = s[i]
    <3>1. 1 \in Int /\ k - 1 \in Int /\ \A i \in 1..(k - 1) : s[i] \in S
      BY <2>1
    <3>2. /\ SubSeq(s, 1, k - 1) \in Seq(S)
          /\ Len(SubSeq(s, 1, k - 1)) = IF 1 <= k - 1 THEN (k - 1) - 1 + 1 ELSE 0
          /\ \A i \in 1..((k - 1) - 1 + 1) : SubSeq(s, 1, k - 1)[i] = s[1 + i - 1]
      BY <3>1, SubSeqProperties
    <3> QED
      BY <2>5, <3>2
  <2>8. b \in Seq(S) /\ Len(b) = n - k /\ \A i \in 1..(n - k) : b[i] = s[k + i]
    <3>1. k + 1 \in Int /\ n \in Int /\ \A i \in (k + 1)..n : s[i] \in S
      BY <2>1
    <3>2. /\ SubSeq(s, k + 1, n) \in Seq(S)
          /\ Len(SubSeq(s, k + 1, n)) = IF k + 1 <= n THEN n - (k + 1) + 1 ELSE 0
          /\ \A i \in 1..(n - (k + 1) + 1) : SubSeq(s, k + 1, n)[i] = s[(k + 1) + i - 1]
      BY <3>1, SubSeqProperties
    <3> QED
      BY <2>5, <3>2
  <2>12. PICK c : /\ c = Append(a, x) /\ c \in Seq(S) /\ Len(c) = k
                  /\ \A i \in 1..k : c[i] = s[i]
    <3>1. x \in S /\ (k - 1) + 1 = k
      BY <2>1, <2>3
    <3>2. /\ Append(a, x) \in Seq(S) /\ Len(Append(a, x)) = k /\ Append(a, x)[k] = x
          /\ \A i \in 1..(k - 1) : Append(a, x)[i] = a[i]
      BY <2>7, <3>1, AppendProperties
    <3>3. \A i \in 1..k : i \in 1..(k - 1) \/ i = k
      BY <2>3
    <3> QED
      BY <2>3, <2>7, <3>2, <3>3
  <2>13. s = c \o b
    <3>1. k + (n - k) = n
      BY <2>1, <2>3
    <3>2. /\ c \o b \in Seq(S) /\ Len(c \o b) = n
          /\ \A i \in 1..n : (c \o b)[i] = IF i <= k THEN c[i] ELSE b[i - k]
      <4>1. /\ c \o b \in Seq(S) /\ Len(c \o b) = Len(c) + Len(b)
            /\ \A i \in 1..(Len(c) + Len(b)) :
                 (c \o b)[i] = IF i <= Len(c) THEN c[i] ELSE b[i - Len(c)]
        <5>1. b \in Seq(S) /\ c \in Seq(S)
          BY <2>8, <2>12
        <5> QED
          BY <5>1, ConcatProperties
      <4> QED
        BY <2>8, <2>12, <3>1, <4>1
    <3>3. \A i \in 1..n : i <= k => i \in 1..k
      BY <2>3
    <3>4. \A i \in 1..n : ~(i <= k) => i - k \in 1..(n - k) /\ k + (i - k) = i
      BY <2>1, <2>3
    <3>5. ASSUME NEW i \in 1..n PROVE (c \o b)[i] = s[i]
      <4>1. CASE i <= k
        BY <2>12, <3>2, <3>3, <4>1
      <4>2. CASE ~(i <= k)
        <5>1. (c \o b)[i] = b[i - k] /\ b[i - k] = s[k + (i - k)] /\ k + (i - k) = i
          BY <2>8, <3>2, <3>4, <4>2
        <5> QED
          BY <5>1
      <4> QED
        BY <4>1, <4>2
    <3> QED
      BY <2>1, <3>2, <3>5, SeqEqual
  <2>14. x \in S
    BY <2>1, <2>3
  <2>9. Count(s, m) = Count(a, m) + (IF x = m THEN 1 ELSE 0) + Count(b, m)
    <3>1. Count(c, m) = Count(a, m) + (IF x = m THEN 1 ELSE 0)
      BY <2>7, <2>12, <2>14, CountAppend
    <3>2. Count(c \o b, m) = Count(c, m) + Count(b, m)
      BY <2>8, <2>12, CountConcat
    <3> QED
      BY <2>13, <3>1, <3>2
  <2>10. Count(a \o b, m) = Count(a, m) + Count(b, m)
    BY <2>7, <2>8, CountConcat
  <2>11. Count(a, m) \in Nat /\ Count(b, m) \in Nat
    BY <2>7, <2>8, CountTyped
  <2> QED
    BY <1>2, <2>6, <2>9, <2>10, <2>11
<1> QED
  BY <1>1, <1>2

\* The entries of a module in a map, by the key of the list and the position in it.
EntriesOf(map, m) ==
  {e \in Nat \X Nat : e[2] \in Positions(ListAt(map, e[1]), m)}
Under(map, m, K) == {e \in EntriesOf(map, m) : e[1] \in K}
Size(map, m, K) == Cardinality(Under(map, m, K))

\* The entries under one key are the occurrences in its list.
LEMMA SizeOfKey ==
  ASSUME NEW map, IsMap(map), NEW m, NEW k \in Nat
  PROVE  IsFiniteSet(Under(map, m, {k})) /\ Size(map, m, {k}) = Count(ListAt(map, k), m)
<1> DEFINE P == Positions(ListAt(map, k), m)
           f == [j \in P |-> <<k, j>>]
<1>1. ListAt(map, k) \in Seq(Modules)
  BY MapTyped
<1>2. IsFiniteSet(P) /\ P \subseteq Nat
  <2>1. DOMAIN ListAt(map, k) \subseteq Nat
    BY <1>1
  <2> QED
    BY <1>1, <2>1, CountTyped DEF Positions
<1>3. Under(map, m, {k}) = {f[j] : j \in P}
  <2>1. ASSUME NEW j \in P PROVE <<k, j>> \in Under(map, m, {k})
    BY <1>2 DEF Under, EntriesOf
  <2>2. ASSUME NEW e \in Under(map, m, {k}) PROVE e[2] \in P /\ e = <<k, e[2]>>
    BY DEF Under, EntriesOf
  <2> HIDE DEF P
  <2> QED
    BY <2>1, <2>2
<1>4. IsFiniteSet({f[j] : j \in P}) /\ Cardinality({f[j] : j \in P}) = Cardinality(P)
  <2> HIDE DEF P
  <2>1. DOMAIN f = P /\ f = [j \in P |-> f[j]] /\ \A i, j \in P : f[i] = f[j] => i = j
    OBVIOUS
  <2> HIDE DEF f
  <2> QED
    BY <1>2, <2>1, SameSize
<1> QED
  BY <1>3, <1>4 DEF Size, Count

LEMMA SizeOfNone ==
  ASSUME NEW map, NEW m
  PROVE  IsFiniteSet(Under(map, m, {})) /\ Size(map, m, {}) = 0
<1>1. Under(map, m, {}) = {}
  BY DEF Under
<1> QED
  BY <1>1, FS_EmptySet DEF Size

\* Lists that are the same have the same entries.
LEMMA SameEntries ==
  ASSUME NEW map, NEW other, NEW m, NEW K, \A k \in K : ListAt(map, k) = ListAt(other, k)
  PROVE  Under(map, m, K) = Under(other, m, K) /\ Size(map, m, K) = Size(other, m, K)
BY DEF Under, EntriesOf, Size

\* There are finitely many entries.
LEMMA SizeTyped ==
  ASSUME NEW map, IsMap(map), NEW m, NEW K
  PROVE  IsFiniteSet(Under(map, m, K)) /\ Size(map, m, K) \in Nat
<1> DEFINE Upto == {n \in Nat : IsFiniteSet(Under(map, m, 0..(n - 1)))}
<1>1. MaxDue + 1 \in Nat /\ (MaxDue + 1) - 1 = MaxDue /\ 0..(0 - 1) = {}
  BY DueBounds
<1>2. ASSUME NEW n \in 1..(MaxDue + 1), n - 1 \in Upto PROVE n \in Upto
  <2>1. n \in Nat /\ n - 1 \in Nat /\ 0..(n - 1) = 0..((n - 1) - 1) \cup {n - 1}
    BY <1>1
  <2>2. Under(map, m, 0..(n - 1)) = Under(map, m, 0..((n - 1) - 1)) \cup Under(map, m, {n - 1})
    BY <2>1 DEF Under
  <2>3. IsFiniteSet(Under(map, m, {n - 1})) /\ IsFiniteSet(Under(map, m, 0..((n - 1) - 1)))
    BY <1>2, <2>1, SizeOfKey
  <2>4. IsFiniteSet(Under(map, m, 0..(n - 1)))
    <3>1. PICK P, Q : P = Under(map, m, 0..((n - 1) - 1)) /\ Q = Under(map, m, {n - 1})
      OBVIOUS
    <3>2. IsFiniteSet(P \cup Q)
      BY <2>3, <3>1, FS_Union
    <3> QED
      BY <2>2, <3>1, <3>2
  <2> QED
    BY <2>1, <2>4
<1>3. 0 \in Upto
  BY <1>1, SizeOfNone
<1>4. MaxDue + 1 \in Upto
  <2> HIDE DEF Upto
  <2>1. \A n \in 0..(MaxDue + 1) : n \in Upto
    BY <1>1, <1>2, <1>3, UpTo
  <2> QED
    BY <1>1, <2>1
<1>5. IsFiniteSet(Under(map, m, Timestamp))
  BY <1>1, <1>4 DEF Timestamp
<1>6. Under(map, m, K) \in SUBSET Under(map, m, Timestamp)
  <2>1. SUFFICES ASSUME NEW e \in Under(map, m, K) PROVE e[1] \in Timestamp
    BY DEF Under
  <2>2. e[2] \in Positions(ListAt(map, e[1]), m)
    BY DEF Under, EntriesOf
  <2>3. CASE e[1] \notin DOMAIN map
    BY <2>2, <2>3 DEF ListAt, Positions
  <2> QED
    BY <2>3 DEF IsMap
<1>7. IsFiniteSet(Under(map, m, K))
  BY <1>5, <1>6, FS_Subset
<1> QED
  BY <1>7, FS_CardinalityType DEF Size

LEMMA SizeOfKeys ==
  ASSUME NEW map, IsMap(map), NEW m, NEW K, NEW L, K \cap L = {}
  PROVE  Size(map, m, K \cup L) = Size(map, m, K) + Size(map, m, L)
<1>1. /\ Under(map, m, K \cup L) = Under(map, m, K) \cup Under(map, m, L)
      /\ Under(map, m, K) \cap Under(map, m, L) = {}
  BY DEF Under
<1> QED
  BY <1>1, SizeTyped, SizeOfBoth DEF Size

Total(map, m) == Size(map, m, Nat)

\* The lists but one are the same.
LEMMA OneListChanges ==
  ASSUME NEW map, IsMap(map), NEW other, IsMap(other), NEW m, NEW at \in Nat,
         \A k \in Nat \ {at} : ListAt(map, k) = ListAt(other, k)
  PROVE  Total(other, m) + Count(ListAt(map, at), m) = Total(map, m) + Count(ListAt(other, at), m)
<1>1. Nat = (Nat \ {at}) \cup {at} /\ (Nat \ {at}) \cap {at} = {}
  OBVIOUS
<1>2. /\ Total(map, m) = Size(map, m, Nat \ {at}) + Size(map, m, {at})
      /\ Total(other, m) = Size(other, m, Nat \ {at}) + Size(other, m, {at})
  <2>1. PICK K, L : K = Nat \ {at} /\ L = {at}
    OBVIOUS
  <2>2. Nat = K \cup L /\ K \cap L = {}
    BY <1>1, <2>1
  <2>3. /\ Size(map, m, K \cup L) = Size(map, m, K) + Size(map, m, L)
        /\ Size(other, m, K \cup L) = Size(other, m, K) + Size(other, m, L)
    BY <2>2, SizeOfKeys
  <2> QED
    BY <2>1, <2>2, <2>3 DEF Total
<1>3. Size(map, m, Nat \ {at}) = Size(other, m, Nat \ {at})
  BY SameEntries
<1>4. /\ Size(map, m, {at}) = Count(ListAt(map, at), m)
      /\ Size(other, m, {at}) = Count(ListAt(other, at), m)
  BY SizeOfKey
<1>5. /\ Size(map, m, Nat \ {at}) \in Nat /\ Size(map, m, {at}) \in Nat
      /\ Size(other, m, {at}) \in Nat
  BY SizeTyped
<1> QED
  BY <1>2, <1>3, <1>4, <1>5

LEMMA TotalOfSchedule ==
  ASSUME NEW map, IsMap(map), NEW at \in Timestamp, NEW x \in Modules, NEW m
  PROVE  Total(Schedule(map, at, x), m) = Total(map, m) + (IF x = m THEN 1 ELSE 0)
<1> DEFINE r == Schedule(map, at, x)
<1>1. IsMap(r) /\ at \in Nat
  <2>1. IsMap(r)
    BY ScheduleFacts
  <2>2. at \in Nat
    BY DueBounds DEF Timestamp
  <2> QED
    BY <2>1, <2>2
<1>2. /\ ListAt(r, at) = Append(ListAt(map, at), x)
      /\ \A k \in Nat \ {at} : ListAt(map, k) = ListAt(r, k)
  BY DEF Schedule, ListAt
<1> HIDE DEF r
<1>3. Total(r, m) + Count(ListAt(map, at), m) = Total(map, m) + Count(ListAt(r, at), m)
  <2>1. IsMap(r) /\ at \in Nat /\ \A k \in Nat \ {at} : ListAt(map, k) = ListAt(r, k)
    BY <1>1, <1>2
  <2> QED
    BY <2>1, OneListChanges
<1>4. ListAt(map, at) \in Seq(Modules)
  BY MapTyped
<1>5. /\ Count(ListAt(r, at), m) = Count(ListAt(map, at), m) + (IF x = m THEN 1 ELSE 0)
      /\ Count(ListAt(map, at), m) \in Nat
  BY <1>2, <1>4, CountAppend, CountTyped
<1>6. Total(r, m) \in Nat /\ Total(map, m) \in Nat
  BY <1>1, SizeTyped DEF Total
<1> QED
  BY <1>3, <1>5, <1>6 DEF r

LEMMA TotalOfUnschedule ==
  ASSUME NEW map, IsMap(map), NEW x \in Modules, NEW m
  PROVE  Total(map, m) = Total(Unschedule(map, x), m)
                           + (IF x = m /\ Holds(map, x) THEN 1 ELSE 0)
<1> DEFINE holding == {k \in DOMAIN map : x \in ToSet(map[k])}
<1>0. Total(map, m) \in Nat
  BY SizeTyped DEF Total
<1>1. CASE holding = {}
  <2>1. Unschedule(map, x) = map /\ ~Holds(map, x)
    BY <1>1 DEF Unschedule, Holds
  <2> QED
    BY <1>0, <2>1
<1>2. CASE holding # {}
  <2>1. holding \in SUBSET Nat /\ Holds(map, x)
    BY <1>2, MapTyped DEF Holds
  <2>2. PICK at \in holding : at = Min(holding)
    BY <1>2, <2>1, MinIsFirst
  <2>3. at \in DOMAIN map /\ x \in ToSet(map[at]) /\ map[at] \in Seq(Modules) /\ at \in Nat
    BY MapTyped
  <2> DEFINE r == Unschedule(map, x)
  <2>4. r = [map EXCEPT ![at] = RemoveFirst(map[at], x)]
    BY <1>2, <2>2 DEF Unschedule
  <2>5. map = [k \in DOMAIN map |-> map[k]]
    BY DEF IsMap
  <2>6. IsMap(r)
    BY UnscheduleFacts
  <2> HIDE DEF r, holding
  <2>7. /\ ListAt(r, at) = RemoveFirst(map[at], x) /\ ListAt(map, at) = map[at]
        /\ \A k \in Nat \ {at} : ListAt(map, k) = ListAt(r, k)
    BY <2>3, <2>4, <2>5 DEF ListAt
  <2>8. Total(r, m) + Count(map[at], m) = Total(map, m) + Count(RemoveFirst(map[at], x), m)
    BY <2>3, <2>6, <2>7, OneListChanges
  <2>9. Count(map[at], m) = Count(RemoveFirst(map[at], x), m) + (IF x = m THEN 1 ELSE 0)
    BY <2>3, CountRemove
  <2>10. Count(RemoveFirst(map[at], x), m) \in Nat /\ Total(r, m) \in Nat
    <3>1. RemoveFirst(map[at], x) \in Seq(Modules)
      BY <2>3, RemoveTyped
    <3> QED
      BY <2>6, <3>1, CountTyped, SizeTyped DEF Total
  <2> QED
    BY <1>0, <2>1, <2>8, <2>9, <2>10 DEF r
<1> QED
  BY <1>1, <1>2

\* RunReady takes out some of the occurrences and leaves the others ...
LEMMA TotalOfTake ==
  ASSUME NEW map, IsMap(map), NEW t \in Nat, NEW rest,
         rest = Restrict(map, {k \in DOMAIN map : k > t}), NEW m
  PROVE  Total(map, m) = Count(Listed(map, t), m) + Total(rest, m)
<1>1. IsMap(rest) /\ DOMAIN rest = {k \in DOMAIN map : k > t} /\ DOMAIN map \subseteq Nat
  BY TakeFacts, MapTyped
<1>2. PICK n \in Nat : n = t + 1 /\ n - 1 = t
  OBVIOUS
<1>3. PICK b : Listing(b, map, n) /\ Listed(map, t) = b[n]
  BY <1>2, ListedIs
<1>4. b[0] = <<>> /\ \A i \in 1..n : b[i] = b[i - 1] \o ListAt(map, i - 1)
  BY <1>3, ListingUnfolds
<1> DEFINE Good == {i \in Nat : b[i] \in Seq(Modules) /\ Count(b[i], m) = Size(map, m, 0..(i - 1))}
<1>5. 0 \in Good
  <2>1. 0..(0 - 1) = {} /\ <<>> \in Seq(Modules)
    OBVIOUS
  <2>2. Count(<<>>, m) = 0
    BY NoElements, CountNone
  <2> QED
    BY <1>4, <2>1, <2>2, SizeOfNone
<1>6. ASSUME NEW i \in 1..n, i - 1 \in Good PROVE i \in Good
  <2>1. PICK j \in Nat : j = i - 1 /\ i \in Nat
    BY <1>6
  <2>2. /\ b[j] \in Seq(Modules) /\ Count(b[j], m) = Size(map, m, 0..(j - 1))
        /\ b[i] = b[j] \o ListAt(map, j)
    BY <1>4, <1>6, <2>1
  <2>3. ListAt(map, j) \in Seq(Modules)
    BY MapTyped
  <2>4. PICK u \in Seq(Modules), v \in Seq(Modules) : u = b[j] /\ v = ListAt(map, j)
    BY <2>2, <2>3
  <2>5. Count(u \o v, m) = Count(u, m) + Count(v, m) /\ u \o v \in Seq(Modules)
    BY CountConcat
  <2>6. Size(map, m, 0..j) = Size(map, m, 0..(j - 1)) + Size(map, m, {j})
    <3>1. PICK K, L : K = 0..(j - 1) /\ L = {j}
      OBVIOUS
    <3>2. K \cup L = 0..j /\ K \cap L = {}
      BY <3>1
    <3> QED
      BY <3>1, <3>2, SizeOfKeys
  <2>7. Size(map, m, {j}) = Count(v, m)
    BY <2>4, SizeOfKey
  <2>8. Count(b[i], m) = Size(map, m, 0..j) /\ b[i] \in Seq(Modules)
    BY <2>2, <2>4, <2>5, <2>6, <2>7
  <2> QED
    BY <2>1, <2>8
<1>7. Count(Listed(map, t), m) = Size(map, m, 0..t)
  <2> HIDE DEF Good
  <2>1. \A i \in 0..n : i \in Good
    BY <1>5, <1>6, UpTo
  <2>2. n \in Good
    BY <2>1
  <2> QED
    BY <1>2, <1>3, <2>2 DEF Good
<1>8. PICK K, L : K = 0..t /\ L = {k \in Nat : k > t}
  OBVIOUS
<1>9. Nat = K \cup L /\ K \cap L = {}
  BY <1>8
<1>10. /\ Size(map, m, K \cup L) = Size(map, m, K) + Size(map, m, L)
       /\ Size(rest, m, K \cup L) = Size(rest, m, K) + Size(rest, m, L)
  BY <1>1, <1>9, SizeOfKeys
<1>11. Size(map, m, L) = Size(rest, m, L)
  <2>1. ASSUME NEW k \in L PROVE ListAt(map, k) = ListAt(rest, k)
    <3>1. k \in DOMAIN rest <=> k \in DOMAIN map
      BY <1>1, <1>8
    <3>2. k \in DOMAIN rest => rest[k] = map[k]
      BY <1>1 DEF Restrict
    <3> QED
      BY <3>1, <3>2 DEF ListAt
  <2> QED
    BY <2>1, SameEntries
<1>12. Size(rest, m, K) = 0
  <2>1. ASSUME NEW k \in K PROVE Positions(ListAt(rest, k), m) = {}
    <3>1. k \notin DOMAIN rest
      BY <1>1, <1>8
    <3> QED
      BY <3>1 DEF ListAt, Positions
  <2>2. Under(rest, m, K) = {}
    BY <2>1 DEF Under, EntriesOf
  <2> QED
    BY <2>2, FS_EmptySet DEF Size
<1>13. Size(map, m, K) \in Nat /\ Size(map, m, L) \in Nat
  BY SizeTyped
<1>14. /\ Total(map, m) = Size(map, m, K \cup L) /\ Total(rest, m) = Size(rest, m, K \cup L)
       /\ Count(Listed(map, t), m) = Size(map, m, K)
  BY <1>7, <1>8, <1>9 DEF Total
<1> QED
  BY <1>10, <1>11, <1>12, <1>13, <1>14

LEMMA TotalOfEmpty == ASSUME NEW map, DOMAIN map = {}, NEW m PROVE Total(map, m) = 0
<1>1. \A k : Positions(ListAt(map, k), m) = {}
  BY DEF ListAt, Positions
<1>2. Under(map, m, Nat) = {}
  BY <1>1 DEF Under, EntriesOf
<1> QED
  BY <1>2, FS_EmptySet DEF Total, Size

\* ... and Stop takes all of them.
LEMMA TotalOfAll ==
  ASSUME NEW map, IsMap(map), NEW m PROVE Count(Listed(map, MaxDue), m) = Total(map, m)
<1>1. MaxDue \in Nat /\ {k \in DOMAIN map : k > MaxDue} = {}
  BY DueBounds DEF IsMap, Timestamp
<1>2. PICK rest : rest = Restrict(map, {k \in DOMAIN map : k > MaxDue})
  OBVIOUS
<1>3. DOMAIN rest = {}
  BY <1>1, <1>2 DEF Restrict
<1>4. Total(map, m) = Count(Listed(map, MaxDue), m) + Total(rest, m) /\ Total(rest, m) = 0
  BY <1>1, <1>2, <1>3, TotalOfTake, TotalOfEmpty
<1>5. Listed(map, MaxDue) \in Seq(Modules)
  BY TakeAll
<1>6. Count(Listed(map, MaxDue), m) \in Nat
  BY <1>5, CountTyped
<1> QED
  BY <1>4, <1>6
------------------------------------------------------------------------------
(* The places of a module *)

Tally(m) ==
  Total(delayed_modules, m) + Count(ready_modules, m) + Count(stopped_modules, m)
    + Count(starting, m) + (IF current = m THEN 1 ELSE 0)

TallyInv ==
  \A m \in Modules : Tally(m) = missed[m] + (IF m \in registered THEN 1 ELSE 0)

LEMMA TallyTyped ==
  ASSUME TypeInv, NEW m
  PROVE  /\ Total(delayed_modules, m) \in Nat /\ Count(ready_modules, m) \in Nat
         /\ Count(stopped_modules, m) \in Nat /\ Count(starting, m) \in Nat
<1>1. IsMap(delayed_modules)
  BY TypedLists DEF TypeInv
<1>2. Total(delayed_modules, m) \in Nat
  BY <1>1, SizeTyped DEF Total
<1>3. ready_modules \in Seq(Modules) /\ stopped_modules \in Seq(Modules) /\ starting \in Seq(Modules)
  BY TypedLists DEF TypeInv
<1> QED
  BY <1>2, <1>3, CountTyped

LEMMA CountEmpty == ASSUME NEW m PROVE Count(<<>>, m) = 0
  BY NoElements, CountNone

LEMMA TallyStep == ASSUME TypeInv, TallyInv, [Next]_vars PROVE TallyInv'
<1> DEFINE Known(x) == missed[x] + (IF x \in registered THEN 1 ELSE 0)
<1>a. SUFFICES ASSUME NEW x \in Modules PROVE Tally(x)' = Known(x)'
  BY DEF TallyInv
<1>0. /\ IsMap(delayed_modules) /\ registered \subseteq Modules /\ None \notin Modules
      /\ ready_modules \in Seq(Modules) /\ stopped_modules \in Seq(Modules)
      /\ starting \in Seq(Modules) /\ now \in Nat
      /\ \A d \in Periods \cup Delays : now + d \in Timestamp
      /\ missed \in [Modules -> Nat]
      /\ pc = "process" <=> current # None
      /\ starting # <<>> => in_start
      /\ ready_modules # <<>> => pc \in {"modules", "process"}
  BY TypedLists, ProcessThreadConstants DEF TypeInv, TypeOK, ControlInv
<1>b. Tally(x) = Known(x)
  BY DEF TallyInv
<1>c. /\ Total(delayed_modules, x) \in Nat /\ Count(ready_modules, x) \in Nat
      /\ Count(stopped_modules, x) \in Nat /\ Count(starting, x) \in Nat
      /\ Count(<<>>, x) = 0 /\ x # None /\ missed[x] \in Nat
  BY <1>0, TallyTyped, CountEmpty
<1> USE DEF Tally
<1>1. CASE ModulesIdle
  BY <1>1, <1>b DEF ModulesIdle
<1>2. CASE RunReady
  <2>1. ready_modules = <<>>
    BY <1>0, <1>2 DEF RunReady
  <2>2. Total(delayed_modules, x) = Count(ready_modules', x) + Total(delayed_modules', x)
    <3>1. PICK rest : rest = Restrict(delayed_modules, {k \in DOMAIN delayed_modules : k > now})
      OBVIOUS
    <3>3. IsMap(delayed_modules) /\ now \in Nat
      BY <1>0
    <3>2. Total(delayed_modules, x) = Count(Listed(delayed_modules, now), x) + Total(rest, x)
      BY <3>1, <3>3, TotalOfTake
    <3> QED
      BY <1>2, <3>1, <3>2 DEF RunReady
  <2>3. Count(ready_modules', x) \in Nat /\ Total(delayed_modules', x) \in Nat
    <3>1. TypeInv'
      BY TypeStep
    <3>2. IsMap(delayed_modules') /\ ready_modules' \in Seq(Modules)
      BY <3>1 DEF TypeInv, TypeOK, IsMap
    <3> QED
      BY <3>2, SizeTyped, CountTyped DEF Total
  <2>4. UNCHANGED <<stopped_modules, current, starting, registered, missed>>
    BY <1>2 DEF RunReady
  <2> QED
    BY <1>b, <1>c, <2>1, <2>2, <2>3, <2>4
<1>3. CASE Process
  <2>1. ready_modules # <<>> /\ ready_modules' = Tail(ready_modules) /\ current' = Head(ready_modules)
        /\ UNCHANGED <<delayed_modules, stopped_modules, starting, registered, missed>>
    BY <1>3 DEF Process
  <2>2. current = None
    BY <1>0, <1>3 DEF Process
  <2>3. Count(ready_modules, x) = Count(ready_modules', x) + (IF current' = x THEN 1 ELSE 0)
    BY <1>0, <2>1, CountTail
  <2>4. Count(ready_modules', x) \in Nat
    <3>1. Tail(ready_modules) \in Seq(Modules)
      BY <1>0, <2>1, TailFacts
    <3> QED
      BY <2>1, <3>1, CountTyped
  <2> QED
    BY <1>b, <1>c, <2>1, <2>2, <2>3, <2>4
<1>4. CASE Start
  <2>1. starting = <<>>
    BY <1>0, <1>4 DEF Start, Calls
  <2>2. /\ starting' = stopped_modules /\ stopped_modules' = <<>>
        /\ UNCHANGED <<delayed_modules, ready_modules, current, registered, missed>>
    BY <1>4 DEF Start
  <2> QED
    BY <1>b, <1>c, <2>1, <2>2
<1>5. CASE Stop
  <2>1. PICK all \in Seq(Modules) : all = Listed(delayed_modules, MaxDue)
    BY <1>0, TakeAll
  <2>2. Count(stopped_modules \o all, x) = Count(stopped_modules, x) + Count(all, x)
    BY <1>0, CountConcat
  <2>3. Count(all, x) = Total(delayed_modules, x)
    BY <1>0, <2>1, TotalOfAll
  <2>4. Total(NoModules, x) = 0
    <3>1. DOMAIN NoModules = {}
      BY DEF NoModules
    <3> QED
      BY <3>1, TotalOfEmpty
  <2>5. /\ stopped_modules' = stopped_modules \o all /\ delayed_modules' = NoModules
        /\ UNCHANGED <<ready_modules, current, starting, registered, missed>>
    BY <1>5, <2>1 DEF Stop
  <2> QED
    BY <1>b, <1>c, <2>2, <2>3, <2>4, <2>5
\* A step that schedules a module.
<1>d. ASSUME NEW p \in Periods, NEW m \in Modules
      PROVE  Total(Schedule(delayed_modules, now + p, m), x)
               = Total(delayed_modules, x) + (IF m = x THEN 1 ELSE 0)
  BY <1>0, TotalOfSchedule
<1>6. ASSUME NEW p \in Periods, ProcessReturns(p) PROVE Tally(x)' = Known(x)'
  <2>1. current \in Modules
    BY <1>0, <1>6 DEF ProcessReturns, TypeInv, TypeOK
  <2>2. /\ delayed_modules' = Schedule(delayed_modules, now + p, current) /\ current' = None
        /\ UNCHANGED <<ready_modules, stopped_modules, starting, registered, missed>>
    BY <1>6 DEF ProcessReturns
  <2> QED
    BY <1>b, <1>c, <1>d, <2>1, <2>2
<1>7. ASSUME NEW p \in Periods, StartModule(p) PROVE Tally(x)' = Known(x)'
  <2>1. /\ starting # <<>> /\ starting' = Tail(starting)
        /\ delayed_modules' = Schedule(delayed_modules, now + p, Head(starting))
        /\ UNCHANGED <<ready_modules, stopped_modules, current, registered, missed>>
    BY <1>7 DEF StartModule
  <2>2. Head(starting) \in Modules /\ Tail(starting) \in Seq(Modules)
    BY <1>0, <2>1, TailFacts
  <2>3. Count(starting, x) = Count(starting', x) + (IF Head(starting) = x THEN 1 ELSE 0)
    BY <1>0, <2>1, CountTail
  <2>4. Count(starting', x) \in Nat
    BY <2>1, <2>2, CountTyped
  <2>5. Total(delayed_modules', x) = Total(delayed_modules, x) + (IF Head(starting) = x THEN 1 ELSE 0)
    BY <1>d, <2>1, <2>2
  <2>6. Total(delayed_modules', x) + Count(starting', x) = Total(delayed_modules, x) + Count(starting, x)
    BY <1>c, <2>3, <2>4, <2>5
  <2>7. Total(delayed_modules', x) \in Nat
    BY <1>c, <2>5
  <2>8. Known(x)' = Known(x)
    BY <2>1
  <2>9. Tally(x)' = Total(delayed_modules', x) + Count(ready_modules, x) + Count(stopped_modules, x)
                      + Count(starting', x) + (IF current = x THEN 1 ELSE 0)
    BY <2>1
  <2>10. Tally(x)' = Tally(x)
    <3>1. PICK r \in Nat : r = Count(ready_modules, x) + Count(stopped_modules, x)
                              + (IF current = x THEN 1 ELSE 0)
      BY <1>c
    <3>2. Tally(x) = Total(delayed_modules, x) + Count(starting, x) + r
      BY <1>c, <3>1
    <3>3. Tally(x)' = Total(delayed_modules', x) + Count(starting', x) + r
      BY <1>c, <2>4, <2>7, <2>9, <3>1
    <3> QED
      BY <2>6, <3>2, <3>3
  <2> QED
    BY <1>b, <2>8, <2>10
\* A module that is looked for is found, and has one place less, or missed.
<1>8. ASSUME NEW m \in Modules, DeRegisterModule(m) PROVE Tally(x)' = Known(x)'
  <2>1. /\ m \in registered /\ registered' = registered \ {m}
        /\ UNCHANGED <<ready_modules, current, starting>>
    BY <1>8 DEF DeRegisterModule
  <2>2. CASE running
    <3>1. /\ delayed_modules' = Unschedule(delayed_modules, m) /\ stopped_modules' = stopped_modules
          /\ missed' = IF Holds(delayed_modules, m) THEN missed ELSE [missed EXCEPT ![m] = @ + 1]
      BY <1>8, <2>2 DEF DeRegisterModule, LooksFor
    <3>2. Total(delayed_modules, x) = Total(delayed_modules', x)
                        + (IF m = x /\ Holds(delayed_modules, m) THEN 1 ELSE 0)
      BY <1>0, <3>1, TotalOfUnschedule
    <3>3. Total(delayed_modules', x) \in Nat
      BY <1>0, <3>1, UnscheduleFacts, SizeTyped DEF Total
    <3>4. missed'[x] = missed[x] + (IF m = x /\ ~Holds(delayed_modules, m) THEN 1 ELSE 0)
      BY <1>0, <1>c, <3>1
    <3>5. UNCHANGED <<ready_modules, current, starting, stopped_modules>>
      BY <2>1, <3>1
    <3>8. missed'[x] \in Nat
      BY <1>c, <3>4
    <3>6. CASE m = x
      <4>1. x \in registered /\ x \notin registered'
        BY <2>1, <3>6
      <4>2. Total(delayed_modules, x) + missed'[x] = Total(delayed_modules', x) + missed[x] + 1
        BY <1>c, <3>2, <3>3, <3>4, <3>6, <3>8
      <4>3. PICK r \in Nat : r = Count(stopped_modules, x) + Count(ready_modules, x)
                                + Count(starting, x) + (IF current = x THEN 1 ELSE 0)
        BY <1>c
      <4>4. Tally(x) = Total(delayed_modules, x) + r /\ Tally(x)' = Total(delayed_modules', x) + r
        <5>1. Tally(x) = Total(delayed_modules, x) + r
          BY <1>c, <4>3
        <5>2. Tally(x)' = Total(delayed_modules', x) + r
          <6>1. Tally(x)' = Total(delayed_modules', x) + Count(ready_modules, x)
                  + Count(stopped_modules, x) + Count(starting, x)
                  + (IF current = x THEN 1 ELSE 0)
            BY <3>5
          <6> QED
            BY <1>c, <3>3, <4>3, <6>1
        <5> QED
          BY <5>1, <5>2
      <4>5. Total(delayed_modules, x) + r = missed[x] + 1
        BY <1>b, <1>c, <4>1, <4>4
      <4>6. Total(delayed_modules', x) + r = missed'[x]
        <5>1. Total(delayed_modules, x) \in Nat /\ missed[x] \in Nat
          BY <1>c
        <5>2. Total(delayed_modules, x) = missed[x] + 1 - r
          BY <4>5, <5>1
        <5>3. Total(delayed_modules', x) = Total(delayed_modules, x) + missed'[x] - missed[x] - 1
          BY <3>3, <3>8, <4>2, <5>1
        <5> QED
          BY <3>8, <5>1, <5>2, <5>3
      <4> QED
        BY <3>8, <4>1, <4>4, <4>6
    <3>7. CASE m # x
      <4>1. x \in registered' <=> x \in registered
        BY <2>1, <3>7
      <4>2. missed'[x] = missed[x] /\ Total(delayed_modules', x) = Total(delayed_modules, x)
        BY <1>c, <3>2, <3>3, <3>4, <3>7
      <4> QED
        BY <1>b, <1>c, <3>5, <4>1, <4>2
    <3> QED
      BY <3>6, <3>7
  <2>3. CASE ~running
    <3>1. /\ stopped_modules' = RemoveFirst(stopped_modules, m) /\ delayed_modules' = delayed_modules
          /\ missed' = IF m \in ToSet(stopped_modules) THEN missed ELSE [missed EXCEPT ![m] = @ + 1]
      BY <1>8, <2>3 DEF DeRegisterModule, LooksFor
    <3>2. Count(stopped_modules, x) = Count(stopped_modules', x)
                        + (IF m = x /\ m \in ToSet(stopped_modules) THEN 1 ELSE 0)
      BY <1>0, <3>1, CountRemove
    <3>3. Count(stopped_modules', x) \in Nat
      BY <1>0, <3>1, RemoveTyped, CountTyped
    <3>4. missed'[x] = missed[x] + (IF m = x /\ m \notin ToSet(stopped_modules) THEN 1 ELSE 0)
      BY <1>0, <1>c, <3>1
    <3>5. UNCHANGED <<ready_modules, current, starting, delayed_modules>>
      BY <2>1, <3>1
    <3>8. missed'[x] \in Nat
      BY <1>c, <3>4
    <3>6. CASE m = x
      <4>1. x \in registered /\ x \notin registered'
        BY <2>1, <3>6
      <4>2. Count(stopped_modules, x) + missed'[x] = Count(stopped_modules', x) + missed[x] + 1
        BY <1>c, <3>2, <3>3, <3>4, <3>6, <3>8
      <4>3. PICK r \in Nat : r = Total(delayed_modules, x) + Count(ready_modules, x)
                                + Count(starting, x) + (IF current = x THEN 1 ELSE 0)
        BY <1>c
      <4>4. Tally(x) = Count(stopped_modules, x) + r /\ Tally(x)' = Count(stopped_modules', x) + r
        BY <1>c, <3>3, <3>5, <4>3
      <4>5. Count(stopped_modules, x) + r = missed[x] + 1
        BY <1>b, <1>c, <4>1, <4>4
      <4>6. Count(stopped_modules', x) + r = missed'[x]
        <5>1. Count(stopped_modules, x) \in Nat /\ missed[x] \in Nat
          BY <1>c
        <5>2. Count(stopped_modules, x) = missed[x] + 1 - r
          BY <4>5, <5>1
        <5>3. Count(stopped_modules', x) = Count(stopped_modules, x) + missed'[x] - missed[x] - 1
          BY <3>3, <3>8, <4>2, <5>1
        <5> QED
          BY <3>8, <5>1, <5>2, <5>3
      <4> QED
        BY <3>8, <4>1, <4>4, <4>6
    <3>7. CASE m # x
      <4>1. x \in registered' <=> x \in registered
        BY <2>1, <3>7
      <4>2. missed'[x] = missed[x] /\ Count(stopped_modules', x) = Count(stopped_modules, x)
        BY <1>c, <3>2, <3>3, <3>4, <3>7
      <4> QED
        BY <1>b, <1>c, <3>5, <4>1, <4>2
    <3> QED
      BY <3>6, <3>7
  <2> QED
    BY <2>2, <2>3
<1>9. ASSUME NEW m \in Modules, NEW p \in Periods, WakeUp(m, p) PROVE Tally(x)' = Known(x)'
  <2>1. PICK u : u = Unschedule(delayed_modules, m) /\ IsMap(u)
    BY <1>0, UnscheduleFacts
  <2>2. /\ delayed_modules' = Schedule(u, now + p, m)
        /\ missed' = IF Holds(delayed_modules, m) THEN missed ELSE [missed EXCEPT ![m] = @ + 1]
        /\ UNCHANGED <<ready_modules, stopped_modules, current, starting, registered>>
    BY <1>9, <2>1 DEF WakeUp, LooksFor
  <2>3. Total(delayed_modules, x) = Total(u, x)
                        + (IF m = x /\ Holds(delayed_modules, m) THEN 1 ELSE 0)
    BY <1>0, <2>1, TotalOfUnschedule
  <2>4. Total(delayed_modules', x) = Total(u, x) + (IF m = x THEN 1 ELSE 0)
    BY <1>0, <2>1, <2>2, TotalOfSchedule
  <2>5. Total(u, x) \in Nat
    BY <2>1, SizeTyped DEF Total
  <2>6. missed'[x] = missed[x] + (IF m = x /\ ~Holds(delayed_modules, m) THEN 1 ELSE 0)
    BY <1>0, <1>c, <2>2
  <2> QED
    BY <1>b, <1>c, <2>2, <2>3, <2>4, <2>5, <2>6
<1>10. ASSUME NEW m \in Modules, NEW p \in Periods, RegisterModule(m, p) PROVE Tally(x)' = Known(x)'
  <2>1. /\ m \notin registered /\ registered' = registered \cup {m}
        /\ UNCHANGED <<ready_modules, current, starting, missed>>
    BY <1>10 DEF RegisterModule
  <2>2. CASE running
    <3>1. /\ delayed_modules' = Schedule(delayed_modules, now + p, m)
          /\ stopped_modules' = stopped_modules
      BY <1>10, <2>2 DEF RegisterModule
    <3> QED
      BY <1>b, <1>c, <1>d, <2>1, <3>1
  <2>3. CASE ~running
    <3>1. /\ stopped_modules' = Append(stopped_modules, m)
          /\ delayed_modules' = delayed_modules
      BY <1>10, <2>3 DEF RegisterModule
    <3>2. Count(stopped_modules', x) = Count(stopped_modules, x) + (IF m = x THEN 1 ELSE 0)
      BY <1>0, <3>1, CountAppend
    <3> QED
      BY <1>b, <1>c, <2>1, <3>1, <3>2
  <2> QED
    BY <2>2, <2>3
<1> HIDE DEF Tally, Known
<1> QED
  BY <1>1, <1>2, <1>3, <1>4, <1>5, <1>6, <1>7, <1>8, <1>9, <1>10, ModuleSteps

LEMMA TallyInit == ASSUME Init PROVE TallyInv
<1>1. SUFFICES ASSUME NEW x \in Modules PROVE Tally(x) = missed[x] + (IF x \in registered THEN 1 ELSE 0)
  BY DEF TallyInv
<1>2. Total(delayed_modules, x) = 0
  <2>1. DOMAIN delayed_modules = {}
    BY DEF Init, NoModules
  <2> QED
    BY <2>1, TotalOfEmpty
<1>3. Count(<<>>, x) = 0
  BY CountEmpty
<1>4. x # None
  BY ProcessThreadConstants
<1>5. missed[x] = 0 /\ x \notin registered /\ current = None
      /\ ready_modules = <<>> /\ stopped_modules = <<>> /\ starting = <<>>
  BY DEF Init
<1> QED
  BY <1>2, <1>3, <1>4, <1>5 DEF Tally

\* The places of a module in one list are as many as its occurrences there.
LEMMA InCount ==
  ASSUME NEW S, NEW s \in Seq(S), NEW m, NEW name
  PROVE  IsFiniteSet(In(m, name, s)) /\ Cardinality(In(m, name, s)) = Count(s, m)
<1> DEFINE P == Positions(s, m)
           f == [j \in P |-> <<name, j>>]
<1>1. In(m, name, s) = {f[j] : j \in P}
  BY DEF In, Positions
<1>2. IsFiniteSet(P)
  BY CountTyped
<1>3. IsFiniteSet({f[j] : j \in P}) /\ Cardinality({f[j] : j \in P}) = Cardinality(P)
  <2> HIDE DEF P
  <2>1. DOMAIN f = P /\ f = [j \in P |-> f[j]] /\ \A i, j \in P : f[i] = f[j] => i = j
    OBVIOUS
  <2> HIDE DEF f
  <2> QED
    BY <1>2, <2>1, SameSize
<1> QED
  BY <1>1, <1>3 DEF Count

DelayedPlaces(m) ==
  {<<"delayed", e[1], e[2]>> : e \in {f \in Entries : delayed_modules[f[1]][f[2]] = m}}

LEMMA DelayedCount ==
  ASSUME IsMap(delayed_modules), NEW m
  PROVE  IsFiniteSet(DelayedPlaces(m))
         /\ Cardinality(DelayedPlaces(m)) = Total(delayed_modules, m)
<1> DEFINE P == {f \in Entries : delayed_modules[f[1]][f[2]] = m}
           g == [e \in P |-> <<"delayed", e[1], e[2]>>]
<1>1. P = Under(delayed_modules, m, Nat)
  <2>1. DOMAIN delayed_modules \subseteq Nat
        /\ \A k \in DOMAIN delayed_modules : DOMAIN delayed_modules[k] \subseteq Nat
    <3>1. \A k \in DOMAIN delayed_modules : delayed_modules[k] \in Seq(Modules)
      BY DEF IsMap
    <3>2. \A k \in DOMAIN delayed_modules : DOMAIN delayed_modules[k] = 1..Len(delayed_modules[k])
      BY <3>1
    <3> QED
      BY <3>2, MapTyped
  <2>2. ASSUME NEW e \in P PROVE e \in Under(delayed_modules, m, Nat)
    <3>1. PICK k \in DOMAIN delayed_modules : e \in {k} \X DOMAIN delayed_modules[k]
      BY DEF Entries
    <3>2. e \in Nat \X Nat /\ e[1] = k /\ e[2] \in DOMAIN delayed_modules[k]
      BY <2>1, <3>1
    <3>3. delayed_modules[k][e[2]] = m /\ ListAt(delayed_modules, e[1]) = delayed_modules[k]
      BY <3>2 DEF ListAt
    <3> QED
      BY <3>2, <3>3 DEF Under, EntriesOf, Positions
  <2>3. ASSUME NEW e \in Under(delayed_modules, m, Nat) PROVE e \in P
    <3>1. e \in Nat \X Nat /\ e[2] \in DOMAIN ListAt(delayed_modules, e[1])
          /\ ListAt(delayed_modules, e[1])[e[2]] = m
      BY DEF Under, EntriesOf, Positions
    <3>2. e[1] \in DOMAIN delayed_modules
      BY <3>1 DEF ListAt
    <3>3. ListAt(delayed_modules, e[1]) = delayed_modules[e[1]]
      BY <3>2 DEF ListAt
    <3>4. e = <<e[1], e[2]>> /\ e \in {e[1]} \X DOMAIN delayed_modules[e[1]]
      BY <3>1, <3>3
    <3>5. e \in Entries
      BY <3>2, <3>4 DEF Entries
    <3> QED
      BY <3>1, <3>3, <3>5
  <2> HIDE DEF P
  <2> QED
    BY <2>2, <2>3
<1>2. IsFiniteSet(P)
  BY <1>1, SizeTyped
<1>3. P \subseteq Nat \X Nat
  BY <1>1 DEF Under, EntriesOf
<1>4. DelayedPlaces(m) = {g[e] : e \in P}
  BY DEF DelayedPlaces
<1>5. IsFiniteSet({g[e] : e \in P}) /\ Cardinality({g[e] : e \in P}) = Cardinality(P)
  <2> HIDE DEF P
  <2>1. DOMAIN g = P /\ g = [e \in P |-> g[e]]
    OBVIOUS
  <2>2. ASSUME NEW d \in P, NEW e \in P, g[d] = g[e] PROVE d = e
    <3>1. d[1] = e[1] /\ d[2] = e[2] /\ d \in Nat \X Nat /\ e \in Nat \X Nat
      BY <1>3, <2>2
    <3> QED
      BY <3>1
  <2> HIDE DEF g
  <2> QED
    BY <1>2, <2>1, <2>2, SameSize
<1> QED
  BY <1>1, <1>4, <1>5 DEF Total, Size

\* What the lemmas above count are the places of the property.
LEMMA PlacesTally ==
  ASSUME TypeInv, NEW m
  PROVE  Cardinality(Places(m)) = Tally(m)
<1> DEFINE D == DelayedPlaces(m)
           R == In(m, "ready", ready_modules)
           S == In(m, "stopped", stopped_modules)
           T == In(m, "starting", starting)
           C == IF current = m THEN {<<"current">>} ELSE {}
<1>1. Places(m) = D \cup (R \cup (S \cup (T \cup C)))
  BY DEF Places, DelayedPlaces
<1>2. IsFiniteSet(D) /\ Cardinality(D) = Total(delayed_modules, m)
  BY TypedLists, DelayedCount DEF TypeInv
<1>3. /\ IsFiniteSet(R) /\ Cardinality(R) = Count(ready_modules, m)
      /\ IsFiniteSet(S) /\ Cardinality(S) = Count(stopped_modules, m)
      /\ IsFiniteSet(T) /\ Cardinality(T) = Count(starting, m)
  <2>1. ready_modules \in Seq(Modules) /\ stopped_modules \in Seq(Modules) /\ starting \in Seq(Modules)
    BY TypedLists DEF TypeInv
  <2> QED
    BY <2>1, InCount
<1>4. IsFiniteSet(C) /\ Cardinality(C) = IF current = m THEN 1 ELSE 0
  BY FS_Singleton, FS_EmptySet
<1>5. /\ \A e \in D : e[1] = "delayed" /\ DOMAIN e = 1..3
      /\ \A e \in R : e[1] = "ready" /\ DOMAIN e = 1..2
      /\ \A e \in S : e[1] = "stopped" /\ DOMAIN e = 1..2
      /\ \A e \in T : e[1] = "starting" /\ DOMAIN e = 1..2
      /\ \A e \in C : e[1] = "current" /\ DOMAIN e = 1..1
  BY DEF DelayedPlaces, In
<1> HIDE DEF D, R, S, T, C
<1>6. IsFiniteSet(T \cup C) /\ Cardinality(T \cup C) = Cardinality(T) + Cardinality(C)
  <2>1. T \cap C = {}
    BY <1>5
  <2> QED
    BY <1>3, <1>4, <2>1, SizeOfBoth
<1>7. /\ IsFiniteSet(S \cup (T \cup C))
      /\ Cardinality(S \cup (T \cup C)) = Cardinality(S) + Cardinality(T \cup C)
  <2>1. S \cap (T \cup C) = {}
    BY <1>5
  <2> QED
    BY <1>3, <1>6, <2>1, SizeOfBoth
<1>8. /\ IsFiniteSet(R \cup (S \cup (T \cup C)))
      /\ Cardinality(R \cup (S \cup (T \cup C))) = Cardinality(R) + Cardinality(S \cup (T \cup C))
  <2>1. R \cap (S \cup (T \cup C)) = {}
    BY <1>5
  <2> QED
    BY <1>3, <1>7, <2>1, SizeOfBoth
<1>9. Cardinality(Places(m)) = Cardinality(D) + Cardinality(R \cup (S \cup (T \cup C)))
  <2>1. D \cap (R \cup (S \cup (T \cup C))) = {}
    BY <1>5
  <2> QED
    BY <1>1, <1>2, <1>8, <2>1, SizeOfBoth
<1> QED
  BY <1>2, <1>3, <1>4, <1>6, <1>7, <1>8, <1>9, TallyTyped DEF Tally

\* However modules are registered, woken, processed, started, stopped and deregistered,
\* in whatever state and by whomever, a module has the places it should have and one
\* more for each look for it that finds nothing, of WakeUp or DeRegisterModule.
THEOREM PlacesCorrect == Spec => []PlacesAddUp
<1>1. Init => TypeInv /\ TallyInv
  BY InitTyped, TallyInit
<1>2. (TypeInv /\ TallyInv) /\ [Next]_vars => (TypeInv /\ TallyInv)'
  BY TypeStep, TallyStep
<1>3. TypeInv /\ TallyInv => PlacesAddUp
  BY PlacesTally DEF TallyInv, PlacesAddUp
<1> QED
  BY <1>1, <1>2, <1>3, PTL DEF Spec
==============================================================================
