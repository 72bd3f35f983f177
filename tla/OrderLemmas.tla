------------------------------ MODULE OrderLemmas ------------------------------
(***************************************************************************)
(* Facts about numbers that the proofs of several components rest on: the  *)
(* largest of a finite set, induction over an interval, and functions on an*)
(* interval that are defined by recursion.  The induction is over sets, not*)
(* over predicates: a proof applies it to the set of the numbers of which  *)
(* its claim is true.                                                      *)
(***************************************************************************)
EXTENDS Naturals, FiniteSetTheorems, TLAPS

\* A finite set of natural numbers has a largest element: counting, for each
\* element, the smaller ones is an injection into 0 .. Cardinality(S) - 1.
LEMMA LargestElement ==
    ASSUME NEW S \in SUBSET Nat, IsFiniteSet(S), S # {}
    PROVE  \E x \in S : \A y \in S : y <= x
<1>. DEFINE n == Cardinality(S)
            Below(x) == {y \in S : y < x}
            rank == [x \in S |-> Cardinality(Below(x))]
<1>1. n \in Nat /\ n # 0
  BY FS_CardinalityType, FS_EmptySet
<1>2. \A x \in S : IsFiniteSet(Below(x)) /\ Cardinality(Below(x)) \in Nat
  BY FS_Subset, FS_CardinalityType
<1>3. ASSUME NEW x \in S
      PROVE  Cardinality(Below(x)) < n
  <2>1. Below(x) \in SUBSET S /\ x \notin Below(x)
    OBVIOUS
  <2>2. Cardinality(Below(x)) <= n /\ Cardinality(Below(x)) # n
    BY <2>1, FS_Subset
  <2>. QED BY <1>1, <1>2, <2>2
<1>4. ASSUME NEW x \in S, NEW y \in S, x < y
      PROVE  Cardinality(Below(x)) < Cardinality(Below(y))
  <2>1. Below(x) \in SUBSET Below(y) /\ x \in Below(y) /\ x \notin Below(x)
    <3>1. x \in Nat /\ y \in Nat /\ S \subseteq Nat
      OBVIOUS
    <3>2. \A z \in Nat : z < x => z < y
      BY <1>4, <3>1
    <3>3. \A z \in Below(x) : z \in Below(y)
      BY <3>1, <3>2
    <3>4. x \in Below(y)
      BY <1>4
    <3>5. x \notin Below(x)
      BY <3>1
    <3>6. Below(x) \subseteq Below(y)
      BY <3>3
    <3>. QED BY <3>4, <3>5, <3>6
  <2>2. /\ Cardinality(Below(x)) <= Cardinality(Below(y))
        /\ Cardinality(Below(x)) # Cardinality(Below(y))
    BY <1>2, <2>1, FS_Subset
  <2>. QED BY <1>2, <2>2
<1>5. rank \in Injection(S, 0 .. n - 1)
  <2>1. rank \in [S -> 0 .. n - 1]
    BY <1>1, <1>2, <1>3
  <2>2. ASSUME NEW x \in S, NEW y \in S, rank[x] = rank[y]
        PROVE  x = y
    <3>1. CASE x < y
      BY <1>2, <1>4, <2>2, <3>1
    <3>2. CASE y < x
      BY <1>2, <1>4, <2>2, <3>2
    <3>. QED BY <3>1, <3>2
  <2>. QED BY <2>1, <2>2 DEF Injection, IsInjective
<1>6. IsFiniteSet(0 .. n - 1) /\ Cardinality(0 .. n - 1) = n
  BY <1>1, FS_Interval
<1>7. rank \in Surjection(S, 0 .. n - 1)
  BY <1>5, <1>6, FS_Injection
<1>8. PICK x \in S : Cardinality(Below(x)) = n - 1
  <2>1. n - 1 \in 0 .. n - 1
    BY <1>1
  <2>2. \E x \in S : rank[x] = n - 1
    BY <1>7, <2>1 DEF Surjection
  <2>. QED BY <2>2
<1>9. S \ {x} = Below(x)
  <2>1. IsFiniteSet(S \ {x}) /\ Cardinality(S \ {x}) = n - 1
    BY FS_RemoveElement
  <2>2. Below(x) \in SUBSET (S \ {x})
    OBVIOUS
  <2>. QED BY <1>8, <2>1, <2>2, FS_Subset
<1>. QED BY <1>9

\* Induction from 0 to n, where each number but the last leads to the next.
LEMMA IntervalInduction ==
    ASSUME NEW n \in Nat, NEW S, 0 \in S, \A m \in 0 .. n - 1 : m \in S => m + 1 \in S
    PROVE  \A m \in 0 .. n : m \in S
<1>. DEFINE T == {m \in 0 .. n : \A k \in 0 .. m : k \in S}
<1>1. T \in SUBSET Nat /\ IsFiniteSet(T)
  <2>1. IsFiniteSet(0 .. n) /\ T \subseteq 0 .. n
    BY FS_Interval
  <2>. QED BY <2>1, FS_Subset
<1>2. 0 \in T
  OBVIOUS
<1>3. PICK t \in T : \A m \in T : m <= t
  <2>. HIDE DEF T
  <2>. QED BY <1>1, <1>2, LargestElement
<1>4. t = n
  <2>1. SUFFICES ASSUME t # n PROVE FALSE
    OBVIOUS
  <2>2. t \in 0 .. n - 1 /\ t + 1 \in 0 .. n
    BY <2>1
  <2>3. t + 1 \in S
    BY <2>2
  <2>4. \A k \in 0 .. t + 1 : k \in 0 .. t \/ k = t + 1
    BY <2>2
  <2>5. t + 1 \in T
    BY <2>2, <2>3, <2>4
  <2>. QED BY <1>3, <2>2, <2>5
<1>. QED BY <1>4

\* Induction from 1 to n, where each number follows from all that are smaller.
LEMMA StrongInduction ==
    ASSUME NEW n \in Nat, NEW S, \A i \in 1 .. n : (\A j \in 1 .. i - 1 : j \in S) => i \in S
    PROVE  \A i \in 1 .. n : i \in S
<1>. DEFINE T == {m \in 0 .. n : \A i \in 1 .. m : i \in S}
<1>1. 0 \in T
  OBVIOUS
<1>2. ASSUME NEW m \in 0 .. n - 1, m \in T
      PROVE  m + 1 \in T
  <2>1. m + 1 \in 1 .. n /\ m + 1 \in 0 .. n /\ (m + 1) - 1 = m
    OBVIOUS
  <2>2. m + 1 \in S
    BY <1>2, <2>1
  <2>3. \A i \in 1 .. m + 1 : i \in 1 .. m \/ i = m + 1
    OBVIOUS
  <2>. QED BY <1>2, <2>1, <2>2, <2>3
<1>3. n \in T
  <2>. HIDE DEF T
  <2>. QED BY <1>1, <1>2, IntervalInduction
<1>. QED BY <1>3

\* The function on 1 .. n that is defined by recursion along link: where link[i]
\* is a number its value is the value there, and elsewhere the one base gives.
Follows(g, n, base, link) ==
    /\ g = [i \in 1 .. n |-> g[i]]
    /\ \A i \in 1 .. n : g[i] = IF link[i] = 0 THEN base[i] ELSE g[link[i]]

\* It exists when every link leads to a smaller number.
LEMMA LinkedFunction ==
    ASSUME NEW n \in Nat, NEW base, NEW link \in [1 .. n -> 0 .. n],
           \A i \in 1 .. n : link[i] < i
    PROVE  \E g : Follows(g, n, base, link)
<1>. DEFINE S == {m \in 0 .. n :
                    \E g : g = [i \in 1 .. m |-> IF link[i] = 0 THEN base[i] ELSE g[link[i]]]}
<1>1. 0 \in S
  <2>. DEFINE g == [i \in 1 .. 0 |-> 0]
  <2>1. g = [i \in 1 .. 0 |-> IF link[i] = 0 THEN base[i] ELSE g[link[i]]]
    OBVIOUS
  <2>. HIDE DEF g
  <2>2. \E f : f = [i \in 1 .. 0 |-> IF link[i] = 0 THEN base[i] ELSE f[link[i]]]
    BY <2>1
  <2>3. 0 \in 0 .. n
    OBVIOUS
  <2>. QED BY <2>2, <2>3
<1>2. ASSUME NEW m \in 0 .. n - 1, m \in S
      PROVE  m + 1 \in S
  <2>1. PICK g : g = [i \in 1 .. m |-> IF link[i] = 0 THEN base[i] ELSE g[link[i]]]
    BY <1>2
  <2>2. m + 1 \in 1 .. n /\ \A i \in 1 .. m + 1 : i \in 1 .. m \/ i = m + 1
    OBVIOUS
  <2>. DEFINE last == IF link[m + 1] = 0 THEN base[m + 1] ELSE g[link[m + 1]]
              h == [i \in 1 .. m + 1 |-> IF i = m + 1 THEN last ELSE g[i]]
  <2>3. ASSUME NEW i \in 1 .. m + 1
        PROVE  h[i] = IF link[i] = 0 THEN base[i] ELSE h[link[i]]
    <3>1. i \in 1 .. n /\ link[i] \in 0 .. n /\ link[i] < i
      BY <2>2
    <3>2. link[i] # 0 => link[i] \in 1 .. m /\ link[i] # m + 1 /\ link[i] \in 1 .. m + 1
      BY <3>1
    <3>3. link[i] # 0 => h[link[i]] = g[link[i]]
      BY <3>2
    <3>4. CASE i = m + 1
      BY <3>3, <3>4
    <3>5. CASE i \in 1 .. m /\ i # m + 1
      <4>1. g[i] = IF link[i] = 0 THEN base[i] ELSE g[link[i]]
        BY <2>1, <3>5
      <4>. QED BY <3>3, <3>5, <4>1
    <3>. QED BY <2>2, <3>4, <3>5
  <2>4. h = [i \in 1 .. m + 1 |-> IF link[i] = 0 THEN base[i] ELSE h[link[i]]]
    <3>1. h = [i \in 1 .. m + 1 |-> h[i]]
      OBVIOUS
    <3>. HIDE DEF h
    <3>. QED BY <2>3, <3>1
  <2>5. \E f : f = [i \in 1 .. m + 1 |-> IF link[i] = 0 THEN base[i] ELSE f[link[i]]]
    BY <2>4
  <2>. QED BY <2>5
<1>3. n \in S
  <2>1. \A m \in 0 .. n - 1 : m \in S => m + 1 \in S
    BY <1>2
  <2>. HIDE DEF S
  <2>2. \A m \in 0 .. n : m \in S
    BY <1>1, <2>1, n \in Nat, IntervalInduction
  <2>. QED BY <2>2
<1>4. PICK g : g = [i \in 1 .. n |-> IF link[i] = 0 THEN base[i] ELSE g[link[i]]]
  BY <1>3
<1>5. \A i \in 1 .. n : g[i] = IF link[i] = 0 THEN base[i] ELSE g[link[i]]
  BY <1>4
<1>6. g = [i \in 1 .. n |-> g[i]]
  BY <1>4
<1>. QED BY <1>5, <1>6 DEF Follows
================================================================================
