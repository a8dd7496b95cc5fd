------------------------------ MODULE SumLemmas ------------------------------
(***************************************************************************)
(* What a sum is, and what becomes of it when a value changes: the books   *)
(* of the stock and of the pallets are sums.  Each is proved by the least  *)
(* number that would be an exception.                                      *)
(***************************************************************************)
EXTENDS Sums, FiniteSetTheorems, WellFoundedInduction, TLAPS

(* A set of numbers has a least one. *)
LEMMA LeastNat ==
  ASSUME NEW T, T \subseteq Nat, T # {}
  PROVE  \E x \in T : \A y \in T : x <= y
<1> DEFINE Less == {ss \in Nat \X Nat : ss[1] < ss[2]}
<1>1. IsWellFoundedOn(Less, Nat)
  BY NatLessThanWellFounded DEF OpToRel
<1> HIDE DEF Less
<1>2. \E x \in T : \A y \in T : ~ (<<y, x>> \in Less)
  BY <1>1, WFMin
<1>3. ASSUME NEW x \in T, NEW y \in T, ~ (<<y, x>> \in Less) PROVE x <= y
  <2>1. <<y, x>> \in Nat \X Nat /\ <<y, x>>[1] = y /\ <<y, x>>[2] = x
    OBVIOUS
  <2>2. ~ (y < x)
    BY <1>3, <2>1 DEF Less
  <2> QED
    BY <2>2
<1> QED
  BY <1>2, <1>3

(* A set with 0, and with the next of each of its numbers up to n, has them all. *)
LEMMA UpTo ==
  ASSUME NEW S, NEW n \in Nat, 0 \in S, \A k \in 0..(n - 1) : k \in S => k + 1 \in S
  PROVE  0..n \subseteq S
<1> DEFINE Missing == 0..n \ S
<1>1. SUFFICES ASSUME Missing # {} PROVE FALSE
  OBVIOUS
<1>2. Missing \subseteq Nat
  OBVIOUS
<1>3. PICK k \in Missing : \A m \in Missing : k <= m
  BY <1>1, <1>2, LeastNat
<1>4. k \in 0..n /\ k # 0
  BY <1>3
<1>5. k - 1 \in 0..(n - 1) /\ k - 1 \in S
  BY <1>3, <1>4
<1> QED
  BY <1>3, <1>4, <1>5

(* The function of partial sums that SumTo's recursion defines. *)
Partial(f, g, n) == f = [i \in 0..n |-> IF i = 0 THEN 0 ELSE f[i - 1] + g[i]]

LEMMA PartialExists ==
  ASSUME NEW g, NEW n \in Nat
  PROVE  \E f : Partial(f, g, n)
<1> DEFINE S == {k \in 0..n : \E f : Partial(f, g, k)}
<1>1. 0 \in S
  <2>1. Partial([i \in 0..0 |-> 0], g, 0)
    BY DEF Partial
  <2> QED
    BY <2>1
<1>2. ASSUME NEW k \in 0..(n - 1), k \in S PROVE k + 1 \in S
  <2>1. PICK f : Partial(f, g, k)
    BY <1>2
  <2>2. Partial([i \in 0..(k + 1) |-> IF i = k + 1 THEN f[k] + g[k + 1] ELSE f[i]], g, k + 1)
    BY <2>1 DEF Partial
  <2> QED
    BY <2>2
<1> HIDE DEF S
<1>3. n \in S
  BY <1>1, <1>2, UpTo
<1> QED
  BY <1>3 DEF S

LEMMA SumIsPartial ==
  ASSUME NEW g, NEW n \in Nat
  PROVE  \E f : Partial(f, g, n) /\ SumTo(g, n) = f[n]
BY PartialExists DEF SumTo, Partial

(* Partial sums of the same values are the same. *)
LEMMA PartialSame ==
  ASSUME NEW g, NEW h, NEW n \in Nat, NEW a, NEW b,
         Partial(a, g, n), Partial(b, h, n), \A i \in 1..n : g[i] = h[i]
  PROVE  \A i \in 0..n : a[i] = b[i]
<1> DEFINE S == {k \in 0..n : a[k] = b[k]}
<1>1. 0 \in S
  BY DEF Partial
<1>2. ASSUME NEW k \in 0..(n - 1), k \in S PROVE k + 1 \in S
  <2>1. k + 1 \in 1..n
    OBVIOUS
  <2>2. a[k + 1] = a[k] + g[k + 1] /\ b[k + 1] = b[k] + h[k + 1]
    BY <2>1 DEF Partial
  <2> QED
    BY <1>2, <2>1, <2>2
<1> HIDE DEF S
<1>3. 0..n \subseteq S
  BY <1>1, <1>2, UpTo
<1> QED
  BY <1>3 DEF S

LEMMA PartialUnique ==
  ASSUME NEW g, NEW n \in Nat, NEW a, NEW b, Partial(a, g, n), Partial(b, g, n)
  PROVE  a[n] = b[n]
<1> DEFINE h == [i \in 1..n |-> g[i]]
<1>1. Partial(b, h, n) /\ \A i \in 1..n : g[i] = h[i]
  BY DEF Partial
<1> HIDE DEF h
<1> QED
  BY <1>1, PartialSame

LEMMA SumSame ==
  ASSUME NEW g, NEW h, NEW n \in Nat, \A i \in 1..n : g[i] = h[i]
  PROVE  SumTo(g, n) = SumTo(h, n)
BY SumIsPartial, PartialSame

LEMMA SumNone == \A g : SumTo(g, 0) = 0
BY SumIsPartial DEF Partial

LEMMA SumNext ==
  ASSUME NEW g, NEW n \in Nat
  PROVE  SumTo(g, n + 1) = SumTo(g, n) + g[n + 1]
<1> DEFINE m == n + 1
<1>1. m \in Nat /\ n \in 0..m /\ m \in 0..m /\ m # 0 /\ m - 1 = n
  OBVIOUS
<1> HIDE DEF m
<1>2. PICK a : Partial(a, g, n) /\ SumTo(g, n) = a[n]
  BY SumIsPartial
<1>3. PICK b : Partial(b, g, m) /\ SumTo(g, m) = b[m]
  BY <1>1, SumIsPartial
<1>4. a[n] = b[n]
  <2> DEFINE c == [i \in 0..n |-> b[i]]
  <2>1. Partial(c, g, n)
    BY <1>1, <1>3 DEF Partial, m
  <2>2. c[n] = b[n]
    OBVIOUS
  <2> HIDE DEF c
  <2> QED
    BY <1>2, <2>1, <2>2, PartialUnique
<1>5. b[m] = b[n] + g[m]
  BY <1>1, <1>3 DEF Partial
<1>6. SumTo(g, m) = SumTo(g, n) + g[m]
  BY <1>2, <1>3, <1>4, <1>5
<1> QED
  BY <1>6 DEF m

(* A sum of integers is one. *)
LEMMA SumInt ==
  ASSUME NEW g, NEW n \in Nat, \A i \in 1..n : g[i] \in Int
  PROVE  SumTo(g, n) \in Int
<1> DEFINE S == {k \in 0..n : SumTo(g, k) \in Int}
<1>1. 0 \in S
  BY SumNone
<1>2. ASSUME NEW k \in 0..(n - 1), k \in S PROVE k + 1 \in S
  BY <1>2, SumNext
<1> HIDE DEF S
<1>3. n \in S
  BY <1>1, <1>2, UpTo
<1> QED
  BY <1>3 DEF S

(* A sum whose values are all 0, but for one at most, is that one. *)
LEMMA SumOne ==
  ASSUME NEW g, NEW n \in Nat, NEW j \in 1..n, \A i \in 1..n : g[i] \in Int /\ (i # j => g[i] = 0)
  PROVE  SumTo(g, n) = g[j]
<1> DEFINE S == {k \in 0..n : SumTo(g, k) = IF j <= k THEN g[j] ELSE 0}
<1>1. 0 \in S
  BY SumNone
<1>2. ASSUME NEW k \in 0..(n - 1), k \in S PROVE k + 1 \in S
  BY <1>2, SumNext
<1> HIDE DEF S
<1>3. n \in S
  BY <1>1, <1>2, UpTo
<1> QED
  BY <1>3 DEF S

LEMMA SumZero ==
  ASSUME NEW g, NEW n \in Nat, \A i \in 1..n : g[i] = 0
  PROVE  SumTo(g, n) = 0
<1> DEFINE S == {k \in 0..n : SumTo(g, k) = 0}
<1>1. 0 \in S
  BY SumNone
<1>2. ASSUME NEW k \in 0..(n - 1), k \in S PROVE k + 1 \in S
  BY <1>2, SumNext
<1> HIDE DEF S
<1>3. n \in S
  BY <1>1, <1>2, UpTo
<1> QED
  BY <1>3 DEF S

(* The sum of sums. *)
LEMMA SumPlus ==
  ASSUME NEW g, NEW d, NEW h, NEW n \in Nat,
         \A i \in 1..n : g[i] \in Int /\ d[i] \in Int /\ h[i] = g[i] + d[i]
  PROVE  SumTo(h, n) = SumTo(g, n) + SumTo(d, n)
<1> DEFINE S == {k \in 0..n : SumTo(h, k) = SumTo(g, k) + SumTo(d, k)}
<1>1. 0 \in S
  BY SumNone
<1>2. ASSUME NEW k \in 0..(n - 1), k \in S PROVE k + 1 \in S
  <2>1. SumTo(g, k) \in Int /\ SumTo(d, k) \in Int
    BY SumInt
  <2> QED
    BY <1>2, <2>1, SumNext
<1> HIDE DEF S
<1>3. 0..n \subseteq S
  BY <1>1, <1>2, UpTo
<1> QED
  BY <1>3 DEF S

(* One value changes. *)
LEMMA SumChange ==
  ASSUME NEW g, NEW h, NEW n \in Nat, NEW j \in 1..n,
         \A i \in 1..n : g[i] \in Int /\ h[i] \in Int /\ (i # j => h[i] = g[i])
  PROVE  SumTo(h, n) = SumTo(g, n) + (h[j] - g[j])
<1> DEFINE d == [i \in 1..n |-> h[i] - g[i]]
<1>1. \A i \in 1..n : d[i] \in Int /\ h[i] = g[i] + d[i] /\ (i # j => d[i] = 0)
  OBVIOUS
<1>2. d[j] = h[j] - g[j]
  OBVIOUS
<1> HIDE DEF d
<1>3. SumTo(h, n) = SumTo(g, n) + SumTo(d, n)
  BY <1>1, SumPlus
<1>4. SumTo(d, n) = d[j]
  BY <1>1, SumOne
<1> QED
  BY <1>2, <1>3, <1>4

(* A sum of values that are all alike, but for one. *)
LEMMA SumAllBut ==
  ASSUME NEW g, NEW n \in Nat, NEW j \in 1..n, NEW c \in Int,
         \A i \in 1..n : i # j => g[i] = c, g[j] \in Int
  PROVE  SumTo(g, n) = c * (n - 1) + g[j]
<1> PICK v \in Int : v = g[j]
  OBVIOUS
<1> PICK m \in Int : m = n - 1
  OBVIOUS
<1> DEFINE S == {k \in 0..n : SumTo(g, k) = c * k + (IF j <= k THEN v - c ELSE 0)}
<1>1. 0 \in S
  BY SumNone
<1>2. ASSUME NEW k \in 0..(n - 1), k \in S PROVE k + 1 \in S
  <2>1. SumTo(g, k + 1) = SumTo(g, k) + (IF k + 1 = j THEN v ELSE c)
    BY SumNext
  <2>2. c * (k + 1) = c * k + c /\ c * k \in Int
    OBVIOUS
  <2> QED
    BY <1>2, <2>1, <2>2
<1> HIDE DEF S
<1>3. n \in S
  BY <1>1, <1>2, UpTo
<1>4. c * m = c * n - c /\ c * m \in Int /\ c * n \in Int
  OBVIOUS
<1> QED
  BY <1>3, <1>4 DEF S

(* The numbering of a set that SumOver sums by. *)
Nth(S) == CHOOSE e \in [1..Cardinality(S) -> S] : \A i, j \in 1..Cardinality(S) : e[i] = e[j] => i = j

LEMMA Numbering ==
  ASSUME NEW S, IsFiniteSet(S)
  PROVE  /\ Cardinality(S) \in Nat /\ Nth(S) \in [1..Cardinality(S) -> S]
         /\ \A i, j \in 1..Cardinality(S) : Nth(S)[i] = Nth(S)[j] => i = j
         /\ \A d \in S : \E i \in 1..Cardinality(S) : Nth(S)[i] = d
<1>1. Cardinality(S) \in Nat /\ ExistsBijection(1..Cardinality(S), S)
  BY FS_CardinalityType
<1>2. \E e \in [1..Cardinality(S) -> S] : \A i, j \in 1..Cardinality(S) : e[i] = e[j] => i = j
  BY <1>1 DEF ExistsBijection, Bijection, Injection, IsInjective
<1>3. /\ Nth(S) \in [1..Cardinality(S) -> S]
      /\ \A i, j \in 1..Cardinality(S) : Nth(S)[i] = Nth(S)[j] => i = j
  BY <1>2 DEF Nth
<1>4. Nth(S) \in Injection(1..Cardinality(S), S)
  BY <1>3 DEF Injection, IsInjective
<1>5. Cardinality(1..Cardinality(S)) = Cardinality(S)
  BY <1>1, FS_Interval
<1>6. Nth(S) \in Surjection(1..Cardinality(S), S)
  BY <1>4, <1>5, FS_Injection
<1> QED
  BY <1>1, <1>3, <1>6 DEF Surjection

(* The sum over a set of values that are all alike, but for one. *)
LEMMA SumOverAllBut ==
  ASSUME NEW S, IsFiniteSet(S), NEW g, NEW l \in S, NEW c \in Int,
         \A d \in S : d # l => g[d] = c, g[l] \in Int
  PROVE  SumOver(g, S) = c * (Cardinality(S) - 1) + g[l]
<1>1. PICK n : n = Cardinality(S)
  OBVIOUS
<1>2. /\ n \in Nat /\ Nth(S) \in [1..n -> S]
      /\ \A i, j \in 1..n : Nth(S)[i] = Nth(S)[j] => i = j
      /\ \A d \in S : \E i \in 1..n : Nth(S)[i] = d
  BY <1>1, Numbering
<1>3. PICK j \in 1..n : Nth(S)[j] = l
  BY <1>2
<1> DEFINE h == [i \in 1..n |-> g[Nth(S)[i]]]
<1>4. h[j] = g[l] /\ h[j] \in Int /\ \A i \in 1..n : i # j => h[i] = c
  BY <1>1, <1>2, <1>3
<1>5. SumOver(g, S) = SumTo(h, n)
  BY <1>1 DEF SumOver, Nth
<1> HIDE DEF h
<1>6. SumTo(h, n) = c * (n - 1) + h[j]
  BY <1>1, <1>2, <1>3, <1>4, SumAllBut
<1> QED
  BY <1>1, <1>4, <1>5, <1>6
====
