---------------------- MODULE BalanceSubmissionProofs ----------------------
(***************************************************************************)
(* Proofs about BalanceSubmission, for any sources, packages and captures: *)
(* what an accepted package publishes, what an assembly reports, and what  *)
(* the comparison of sources and the rebuilt inventory say of the folders. *)
(***************************************************************************)
EXTENDS BalanceSubmission, FiniteSetTheorems, WellFoundedInduction, TLAPS

-----------------------------------------------------------------------------
(* Numbers and finite sets.                                                *)

(* A set of naturals with an element has a least one.                      *)
LEMMA LeastNatural ==
  ASSUME NEW S \in SUBSET Nat, S # {}
  PROVE  \E x \in S : \A y \in S : x <= y
<1> DEFINE Less == OpToRel(<, Nat)
<1>1. IsWellFoundedOn(Less, Nat)
  BY NatLessThanWellFounded
<1>2. Less = {pair \in Nat \X Nat : pair[1] < pair[2]}
  BY DEF OpToRel
<1> HIDE DEF Less
<1>3. PICK x \in S : \A y \in S : ~(<< y, x >> \in Less)
  BY <1>1, WFMin
<1>4. ASSUME NEW y \in S PROVE x <= y
  <2>1. x \in Nat /\ y \in Nat
    OBVIOUS
  <2>2. y < x => << y, x >> \in Less
    BY <1>2, <2>1
  <2> QED
    BY <1>3, <2>1, <2>2
<1> QED
  BY <1>4

LEMMA ImageIsFinite ==
  ASSUME NEW S, IsFiniteSet(S), NEW f
  PROVE  IsFiniteSet({f[x] : x \in S})
<1> DEFINE T == {f[x] : x \in S}
           g == [x \in S |-> f[x]]
<1>1. g \in Surjection(S, T)
  BY DEF Surjection
<1> HIDE DEF g, T
<1>2. IsFiniteSet(T)
  BY <1>1, FS_Surjection
<1> QED
  BY <1>2 DEF T

(* So has a finite set of integers: remove an element, and compare it with *)
(* the least of the others.                                                *)
LEMMA LeastInteger ==
  ASSUME NEW S \in SUBSET Int, S # {}, IsFiniteSet(S)
  PROVE  \E x \in S : \A y \in S : x <= y
<1> DEFINE Least(T) == \E x \in T : \A y \in T : x <= y
           Bad == {T \in SUBSET Int : T # {} /\ IsFiniteSet(T) /\ ~Least(T)}
           sizes == {Cardinality(T) : T \in Bad}
<1>1. Bad = {}
  <2> SUFFICES ASSUME Bad # {} PROVE FALSE
    OBVIOUS
  <2>1. sizes \in SUBSET Nat /\ sizes # {}
    BY FS_CardinalityType
  <2> HIDE DEF Bad
  <2>2. PICK n \in sizes : \A m \in sizes : n <= m
    <3> HIDE DEF sizes
    <3> QED
      BY <2>1, LeastNatural
  <2>3. PICK T \in Bad : n = Cardinality(T)
    BY <2>2
  <2>4. T \in SUBSET Int /\ T # {} /\ IsFiniteSet(T) /\ ~Least(T)
    BY <2>3 DEF Bad
  <2>5. PICK x \in T : TRUE
    BY <2>4
  <2> DEFINE U == T \ {x}
  <2>6. IsFiniteSet(U) /\ Cardinality(U) = n - 1 /\ n \in Nat
    BY <2>3, <2>4, <2>5, FS_RemoveElement, FS_CardinalityType
  <2>7. U \notin Bad
    <3> SUFFICES ASSUME U \in Bad PROVE FALSE
      OBVIOUS
    <3>1. n <= Cardinality(U)
      BY <2>2
    <3> QED
      BY <2>6, <3>1
  <2>8. U # {}
    BY <2>4, <2>5
  <2>9. Least(U)
    BY <2>4, <2>6, <2>7, <2>8 DEF Bad
  <2>10. PICK m \in U : \A y \in U : m <= y
    BY <2>9
  <2>11. x \in Int /\ m \in Int /\ m \in T /\ \A y \in T : y = x \/ m <= y
    BY <2>4, <2>5, <2>10
  <2>12. CASE x <= m
    <3>1. \A y \in T : x <= y
      BY <2>4, <2>11, <2>12
    <3> QED
      BY <2>4, <2>5, <3>1
  <2>13. CASE ~(x <= m)
    <3>1. \A y \in T : m <= y
      BY <2>4, <2>11, <2>13
    <3> QED
      BY <2>4, <2>11, <3>1
  <2> QED
    BY <2>12, <2>13
<1> QED
  BY <1>1

LEMMA OneElement ==
  ASSUME NEW S, IsFiniteSet(S), Cardinality(S) = 1
  PROVE  \E x : S = {x}
BY FS_Singleton

Distinct(f, n) == \A i, j \in 1 .. n : f[i] = f[j] => i = j

DistinctRows(r, m) == \A i, j \in 1 .. m : r[i].row = r[j].row => i = j

(* The elements of a list with no repetition are as many as its places.    *)
LEMMA PlacesCount ==
  ASSUME NEW n \in Nat, NEW f, Distinct(f, n)
  PROVE  IsFiniteSet({f[i] : i \in 1 .. n}) /\ Cardinality({f[i] : i \in 1 .. n}) = n
<1> USE DEF Distinct
<1> DEFINE N == 1 .. n
           T == {f[i] : i \in N}
           g == [i \in N |-> f[i]]
<1>1. 1 \in Int /\ n \in Int /\ n - 1 + 1 = n /\ (1 > n => n = 0)
  OBVIOUS
<1>2. IsFiniteSet(N) /\ Cardinality(N) = IF 1 > n THEN 0 ELSE n - 1 + 1
  BY <1>1, FS_Interval
<1>3. IsFiniteSet(N) /\ Cardinality(N) = n
  BY <1>1, <1>2
<1>4. \A i, j \in N : f[i] = f[j] => i = j
  OBVIOUS
<1> HIDE DEF N
<1>5. g \in Bijection(N, T)
  BY <1>4 DEF Bijection, Injection, Surjection, IsInjective
<1> HIDE DEF g, T
<1>6. IsFiniteSet(T) /\ Cardinality(T) = Cardinality(N)
  BY <1>3, <1>5, FS_Bijection DEF ExistsBijection
<1> QED
  BY <1>3, <1>6 DEF T, N

-----------------------------------------------------------------------------
(* Sorted: a finite set has a listing in the order of its keys.            *)

LEMMA GreatestKey ==
  ASSUME NEW S, IsFiniteSet(S), S # {}, NEW key, \A x \in S : key[x] \in Nat
  PROVE  \E x \in S : \A y \in S : key[y] <= key[x]
<1> DEFINE Above(x) == {y \in S : key[y] > key[x]}
           Counts == {n \in Nat : \E x \in S : Cardinality(Above(x)) = n}
<1>1. \A x \in S : IsFiniteSet(Above(x)) /\ Cardinality(Above(x)) \in Nat
  BY FS_Subset, FS_CardinalityType
<1>2. Counts \in SUBSET Nat /\ Counts # {}
  <2>1. PICK x \in S : TRUE
    OBVIOUS
  <2>2. Cardinality(Above(x)) \in Counts
    BY <1>1, <2>1
  <2> QED
    BY <2>2
<1>3. /\ \A n \in Counts : \E x \in S : Cardinality(Above(x)) = n
      /\ \A x \in S : Cardinality(Above(x)) \in Counts
  BY <1>1
<1> HIDE DEF Counts
<1>4. PICK n \in Counts : \A m \in Counts : n <= m
  BY <1>2, LeastNatural
<1>5. PICK x \in S : Cardinality(Above(x)) = n
  BY <1>3, <1>4
<1>6. ASSUME NEW y \in S, key[y] > key[x] PROVE FALSE
  <2>1. key[y] \in Nat /\ key[x] \in Nat
    OBVIOUS
  <2>2. Above(y) \subseteq Above(x) \ {y} /\ y \in Above(x)
    <3>1. ASSUME NEW z \in S, key[z] > key[y] PROVE key[z] > key[x] /\ z # y
      <4>1. key[z] \in Nat
        OBVIOUS
      <4> QED
        BY <1>6, <2>1, <3>1, <4>1
    <3>2. y \in Above(x)
      BY <1>6
    <3> QED
      BY <3>1, <3>2
  <2> HIDE DEF Above
  <2>3. /\ IsFiniteSet(Above(x) \ {y})
        /\ Cardinality(Above(x) \ {y}) = Cardinality(Above(x)) - 1
    BY <1>1, <2>2, FS_RemoveElement
  <2>4. Cardinality(Above(y)) <= Cardinality(Above(x) \ {y})
    BY <2>2, <2>3, FS_Subset
  <2>5. Cardinality(Above(y)) \in Nat /\ Cardinality(Above(x)) \in Nat
    BY <1>1
  <2>6. Cardinality(Above(y)) \in Counts
    BY <1>3
  <2>7. n <= Cardinality(Above(y))
    BY <1>4, <2>6
  <2> QED
    BY <1>5, <2>3, <2>4, <2>5, <2>7
<1>7. \A y \in S : key[y] <= key[x]
  BY <1>6
<1> QED
  BY <1>7

Lists(q, S, key) ==
  /\ q \in [1 .. Cardinality(S) -> S]
  /\ S \subseteq Range_(q)
  /\ \A i, j \in DOMAIN q : key[q[i]] < key[q[j]] => i < j

LEMMA ListedWithGreatest ==
  ASSUME NEW S, IsFiniteSet(S), NEW x \in S, NEW key, \A y \in S : key[y] \in Nat,
         \A y \in S : key[y] <= key[x], NEW q, Lists(q, S \ {x}, key)
  PROVE  \E p : Lists(p, S, key)
<1> DEFINE n == Cardinality(S)
           p == [i \in 1 .. n |-> IF i = n THEN x ELSE q[i]]
<1>1. n \in Nat \ {0} /\ Cardinality(S \ {x}) = n - 1
  <2>1. n \in Nat /\ Cardinality(S \ {x}) = n - 1 /\ Cardinality(S \ {x}) \in Nat
    BY FS_RemoveElement, FS_CardinalityType
  <2> QED
    BY <2>1
<1> HIDE DEF n
<1>2. q \in [1 .. n - 1 -> S \ {x}] /\ DOMAIN q = 1 .. n - 1
  BY <1>1 DEF Lists
<1>3. \A i \in 1 .. n : i = n \/ i \in 1 .. n - 1
  BY <1>1
<1>4. \A i \in 1 .. n - 1 : i \in 1 .. n /\ i # n /\ p[i] = q[i] /\ i < n
  BY <1>1
<1>5. p[n] = x /\ n \in 1 .. n /\ DOMAIN p = 1 .. n
  BY <1>1
<1> HIDE DEF p
<1>6. p \in [1 .. n -> S]
  <2>1. \A i \in 1 .. n : p[i] \in S
    BY <1>2, <1>3, <1>4, <1>5
  <2>2. p = [i \in 1 .. n |-> p[i]]
    BY DEF p
  <2> QED
    BY <2>1, <2>2
<1>7. S \subseteq Range_(p)
  <2> SUFFICES ASSUME NEW y \in S PROVE \E i \in 1 .. n : p[i] = y
    BY <1>5 DEF Range_
  <2>1. CASE y = x
    BY <1>5, <2>1
  <2>2. CASE y # x
    <3>1. PICK i \in 1 .. n - 1 : q[i] = y
      BY <1>2, <2>2 DEF Lists, Range_
    <3> QED
      BY <1>4, <3>1
  <2> QED
    BY <2>1, <2>2
<1>8. ASSUME NEW i \in 1 .. n, NEW j \in 1 .. n, key[p[i]] < key[p[j]]
      PROVE  i < j
  <2>1. p[i] \in S /\ p[j] \in S
    BY <1>6
  <2>2. i # n
    <3> SUFFICES ASSUME i = n PROVE FALSE
      OBVIOUS
    <3>1. key[p[j]] <= key[x] /\ key[x] < key[p[j]] /\ key[x] \in Nat /\ key[p[j]] \in Nat
      BY <1>5, <1>8, <2>1
    <3> QED
      BY <3>1
  <2>3. i \in 1 .. n - 1
    BY <1>3, <2>2
  <2>4. CASE j = n
    BY <1>4, <2>3, <2>4
  <2>5. CASE j \in 1 .. n - 1
    <3>1. key[q[i]] < key[q[j]]
      BY <1>4, <1>8, <2>3, <2>5
    <3> QED
      BY <1>2, <2>3, <2>5, <3>1 DEF Lists
  <2> QED
    BY <1>3, <2>4, <2>5
<1> QED
  BY <1>5, <1>6, <1>7, <1>8 DEF Lists, n

LEMMA ListingExists ==
  ASSUME NEW S, IsFiniteSet(S), NEW key, \A x \in S : key[x] \in Nat
  PROVE  \E q : Lists(q, S, key)
<1> DEFINE Unlisted(T) == ~\E q : Lists(q, T, key)
           Bad == {n \in Nat : \E T \in SUBSET S : Cardinality(T) = n /\ Unlisted(T)}
<1> SUFFICES ASSUME Unlisted(S) PROVE FALSE
  OBVIOUS
<1>1. /\ Bad \in SUBSET Nat
      /\ \A n \in Bad : \E T \in SUBSET S : Cardinality(T) = n /\ Unlisted(T)
      /\ \A T \in SUBSET S : Unlisted(T) => Cardinality(T) \in Bad
  <2>1. \A T \in SUBSET S : Cardinality(T) \in Nat
    BY FS_Subset, FS_CardinalityType
  <2> HIDE DEF Unlisted
  <2> QED
    BY <2>1
<1>2. Bad # {}
  BY <1>1
<1> HIDE DEF Bad
<1>3. PICK n \in Bad : \A m \in Bad : n <= m
  BY <1>1, <1>2, LeastNatural
<1>4. PICK T \in SUBSET S : Cardinality(T) = n /\ Unlisted(T)
  BY <1>1, <1>3
<1>5. IsFiniteSet(T) /\ n \in Nat
  BY <1>1, <1>3, FS_Subset
<1>6. T # {}
  <2> SUFFICES ASSUME T = {} PROVE FALSE
    OBVIOUS
  <2>1. Cardinality(T) = 0
    BY FS_EmptySet
  <2> DEFINE q == [i \in 1 .. 0 |-> i]
  <2>2. Lists(q, T, key)
    BY <2>1 DEF Lists, Range_
  <2> QED
    BY <1>4, <2>2
<1>7. PICK x \in T : \A y \in T : key[y] <= key[x]
  <2>1. \A y \in T : key[y] \in Nat
    BY <1>4
  <2> QED
    BY <1>5, <1>6, <2>1, GreatestKey
<1>8. T \ {x} \in SUBSET S /\ Cardinality(T \ {x}) = n - 1
  BY <1>4, <1>5, FS_RemoveElement
<1>9. ~Unlisted(T \ {x})
  <2>1. n - 1 \notin Bad
    BY <1>1, <1>3, <1>5
  <2> HIDE DEF Unlisted
  <2> QED
    BY <1>1, <1>8, <2>1
<1>10. PICK q : Lists(q, T \ {x}, key)
  BY <1>9
<1>11. \A y \in T : key[y] \in Nat
  BY <1>4
<1>12. \E p : Lists(p, T, key)
  BY <1>5, <1>7, <1>10, <1>11, ListedWithGreatest
<1> QED
  BY <1>4, <1>12

LEMMA SortedLists ==
  ASSUME NEW S, IsFiniteSet(S), NEW key, \A x \in S : key[x] \in Nat
  PROVE  /\ Sorted(S, key) \in Seq(S) /\ Range_(Sorted(S, key)) = S
         /\ IsFiniteSet(DOMAIN Sorted(S, key))
<1> DEFINE q == Sorted(S, key)
<1>1. \E p \in [1 .. Cardinality(S) -> S] :
        /\ S \subseteq Range_(p)
        /\ \A i, j \in DOMAIN p : key[p[i]] < key[p[j]] => i < j
  BY ListingExists DEF Lists
<1>2. q \in [1 .. Cardinality(S) -> S] /\ S \subseteq Range_(q)
  BY <1>1 DEF Sorted
<1> HIDE DEF q
<1>3. Cardinality(S) \in Nat
  BY FS_CardinalityType
<1>4. IsFiniteSet(1 .. Cardinality(S))
  BY <1>3, FS_Interval
<1>5. q \in Seq(S) /\ Range_(q) = S
  BY <1>2, <1>3 DEF Range_
<1>6. IsFiniteSet(DOMAIN q)
  BY <1>2, <1>4
<1> QED
  BY <1>5, <1>6 DEF q

-----------------------------------------------------------------------------
(* FlattenSeq: the function it is computed with, and what it joins.        *)

(* Induction over the places of a list, for a set of places.               *)
LEMMA UpTo ==
  ASSUME NEW n \in Nat, NEW G, n > 0 => 1 \in G,
         \A i \in 1 .. n : i \in G /\ i < n => i + 1 \in G
  PROVE  1 .. n \subseteq G
<1> DEFINE Bad == {i \in 1 .. n : i \notin G}
<1> SUFFICES ASSUME Bad # {} PROVE FALSE
  OBVIOUS
<1>1. Bad \in SUBSET Nat
  OBVIOUS
<1>2. PICK i \in Bad : \A j \in Bad : i <= j
  BY <1>1, LeastNatural
<1>3. i \in 1 .. n /\ i \notin G /\ i # 1
  BY <1>2
<1>4. i - 1 \in 1 .. n /\ i - 1 < n /\ (i - 1) + 1 = i
  BY <1>3
<1>5. i - 1 \notin Bad
  BY <1>2, <1>4
<1> QED
  BY <1>3, <1>4, <1>5

Joins(v, f, n) == f = [i \in 1 .. n |-> IF i = 1 THEN v[i] ELSE f[i - 1] \o v[i]]

LEMMA JoinsExist ==
  ASSUME NEW v, NEW n \in Nat
  PROVE  \E f : Joins(v, f, n)
<1> DEFINE G == {m \in 1 .. n : \E f : Joins(v, f, m)}
<1>1. Joins(v, [i \in 1 .. 1 |-> v[i]], 1)
  BY DEF Joins
<1>2. ASSUME NEW m \in 1 .. n, m < n, NEW f, Joins(v, f, m) PROVE \E g : Joins(v, g, m + 1)
  <2> DEFINE g == [i \in 1 .. m + 1 |-> IF i = m + 1 THEN f[m] \o v[i] ELSE f[i]]
  <2>1. \A i \in 1 .. m + 1 : i = m + 1 \/ i \in 1 .. m
    OBVIOUS
  <2>2. \A i \in 1 .. m : g[i] = f[i] /\ f[i] = IF i = 1 THEN v[i] ELSE f[i - 1] \o v[i]
    <3>1. \A i \in 1 .. m : f[i] = IF i = 1 THEN v[i] ELSE f[i - 1] \o v[i]
      BY <1>2, Zenon DEF Joins
    <3>2. \A i \in 1 .. m : i \in 1 .. m + 1 /\ i # m + 1
      OBVIOUS
    <3> QED
      BY <3>1, <3>2, Zenon
  <2>3. g[m + 1] = f[m] \o v[m + 1] /\ m + 1 # 1 /\ g[(m + 1) - 1] = f[m]
    <3>1. m \in Nat /\ m + 1 \in 1 .. m + 1 /\ m + 1 # 1 /\ (m + 1) - 1 = m /\ m \in 1 .. m
      OBVIOUS
    <3>2. g[m] = f[m]
      BY <2>2, <3>1
    <3>3. g[m + 1] = f[m] \o v[m + 1]
      BY <3>1, Zenon
    <3> QED
      BY <3>1, <3>2, <3>3, Zenon
  <2>4. g = [i \in 1 .. m + 1 |-> g[i]]
    OBVIOUS
  <2> HIDE DEF g
  <2>5. ASSUME NEW i \in 1 .. m + 1 PROVE g[i] = IF i = 1 THEN v[i] ELSE g[i - 1] \o v[i]
    <3>1. CASE i = m + 1
      BY <2>3, <3>1
    <3>2. CASE i \in 1 .. m
      <4>1. i # 1 => i - 1 \in 1 .. m
        BY <3>2
      <4> QED
        BY <2>2, <3>2, <4>1
    <3> QED
      BY <2>1, <3>1, <3>2
  <2>6. Joins(v, g, m + 1)
    BY <2>4, <2>5, Zenon DEF Joins
  <2> QED
    BY <2>6
<1>3. CASE n = 0
  <2>1. Joins(v, [i \in 1 .. 0 |-> v[i]], 0)
    BY DEF Joins
  <2> QED
    BY <1>3, <2>1
<1>4. CASE n > 0
  <2>1. 1 \in G
    BY <1>1, <1>4
  <2>2. ASSUME NEW m \in 1 .. n, m \in G, m < n PROVE m + 1 \in G
    <3>1. m + 1 \in 1 .. n
      BY <2>2
    <3>2. PICK f : Joins(v, f, m)
      BY <2>2
    <3> QED
      BY <1>2, <2>2, <3>1, <3>2
  <2> HIDE DEF G
  <2>3. 1 .. n \subseteq G
    BY <2>1, <2>2, UpTo
  <2>4. n \in G
    BY <1>4, <2>3
  <2> QED
    BY <2>4 DEF G
<1> QED
  BY <1>3, <1>4

LEMMA FlattenJoins ==
  ASSUME NEW v, Len(v) \in Nat, Len(v) # 0
  PROVE  \E f : Joins(v, f, Len(v)) /\ FlattenSeq(v) = f[Len(v)]
<1> DEFINE f == CHOOSE g : Joins(v, g, Len(v))
<1>1. Joins(v, f, Len(v))
  BY JoinsExist
<1>2. FlattenSeq(v) = f[Len(v)]
  BY DEF FlattenSeq, Joins
<1> QED
  BY <1>1, <1>2

LEMMA FlattenEmpty ==
  ASSUME NEW v, Len(v) = 0
  PROVE  FlattenSeq(v) = v
BY DEF FlattenSeq

(* How the joined lists grow.                                              *)
LEMMA JoinStep ==
  ASSUME NEW v, NEW n \in Nat, NEW f, Joins(v, f, n), n > 0
  PROVE  /\ f[1] = v[1]
         /\ \A i \in 1 .. n : i < n => f[i + 1] = f[i] \o v[i + 1]
<1>1. \A i \in 1 .. n : f[i] = IF i = 1 THEN v[i] ELSE f[i - 1] \o v[i]
  BY Zenon DEF Joins
<1>2. 1 \in 1 .. n
  OBVIOUS
<1>3. ASSUME NEW i \in 1 .. n, i < n PROVE f[i + 1] = f[i] \o v[i + 1]
  <2>1. i + 1 \in 1 .. n /\ i + 1 # 1 /\ (i + 1) - 1 = i
    BY <1>3
  <2> QED
    BY <1>1, <2>1
<1> QED
  BY <1>1, <1>2, <1>3

LEMMA ConcatRange ==
  ASSUME NEW S, NEW s \in Seq(S), NEW t \in Seq(S)
  PROVE  s \o t \in Seq(S) /\ Range_(s \o t) = Range_(s) \cup Range_(t)
<1>1. /\ s \o t \in Seq(S) /\ Len(s \o t) = Len(s) + Len(t)
      /\ \A i \in 1 .. Len(s) : (s \o t)[i] = s[i]
      /\ \A i \in 1 .. Len(t) : (s \o t)[Len(s) + i] = t[i]
  OBVIOUS
<1>2. /\ DOMAIN s = 1 .. Len(s) /\ DOMAIN t = 1 .. Len(t) /\ DOMAIN (s \o t) = 1 .. Len(s \o t)
      /\ Len(s) \in Nat /\ Len(t) \in Nat
  OBVIOUS
<1> DEFINE w == s \o t
<1>3. ASSUME NEW i \in DOMAIN w PROVE w[i] \in Range_(s) \cup Range_(t)
  <2>1. CASE i \in 1 .. Len(s)
    BY <1>1, <1>2, <2>1 DEF Range_
  <2>2. CASE i \notin 1 .. Len(s)
    <3>1. i - Len(s) \in 1 .. Len(t) /\ Len(s) + (i - Len(s)) = i
      BY <1>1, <1>2, <2>2
    <3>2. w[i] = t[i - Len(s)]
      BY <1>1, <3>1
    <3> QED
      BY <1>2, <3>1, <3>2 DEF Range_
  <2> QED
    BY <2>1, <2>2
<1>4. ASSUME NEW i \in DOMAIN s PROVE s[i] \in Range_(w)
  <2>1. i \in DOMAIN w /\ w[i] = s[i]
    BY <1>1, <1>2
  <2> HIDE DEF w
  <2> QED
    BY <2>1 DEF Range_
<1>5. ASSUME NEW i \in DOMAIN t PROVE t[i] \in Range_(w)
  <2>1. Len(s) + i \in DOMAIN w /\ w[Len(s) + i] = t[i]
    BY <1>1, <1>2
  <2> HIDE DEF w
  <2> QED
    BY <2>1 DEF Range_
<1>6. w \in Seq(S)
  BY <1>1
<1> HIDE DEF w
<1>7. Range_(w) = Range_(s) \cup Range_(t)
  BY <1>3, <1>4, <1>5 DEF Range_
<1> QED
  BY <1>6, <1>7 DEF w

(* A joined list holds the elements of the lists it joins.                 *)
LEMMA FlattenRange ==
  ASSUME NEW S, NEW v \in Seq(Seq(S))
  PROVE  /\ FlattenSeq(v) \in Seq(S)
         /\ \A e : e \in Range_(FlattenSeq(v)) <=> \E i \in DOMAIN v : e \in Range_(v[i])
<1> DEFINE n == Len(v)
<1>1. n \in Nat /\ DOMAIN v = 1 .. n /\ \A i \in 1 .. n : v[i] \in Seq(S)
  OBVIOUS
<1>2. CASE n = 0
  <2>1. v = << >> /\ FlattenSeq(v) = << >> /\ DOMAIN v = {}
    BY <1>2, FlattenEmpty
  <2>2. FlattenSeq(v) \in Seq(S) /\ Range_(FlattenSeq(v)) = {}
    <3>1. << >> \in Seq(S)
      OBVIOUS
    <3>2. Range_(<< >>) = {}
      BY DEF Range_
    <3> QED
      BY <2>1, <3>1, <3>2, Zenon
  <2> QED
    BY <2>1, <2>2
<1>3. CASE n # 0
  <2>1. PICK f : Joins(v, f, n) /\ FlattenSeq(v) = f[n]
    BY <1>1, <1>3, FlattenJoins
  <2> HIDE DEF n
  <2>2. f[1] = v[1] /\ \A i \in 1 .. n : i < n => f[i + 1] = f[i] \o v[i + 1]
    <3>1. n > 0
      BY <1>1, <1>3
    <3> QED
      BY <1>1, <2>1, <3>1, JoinStep, Zenon
  <2> DEFINE Joined(i) == \A e : e \in Range_(f[i]) <=> \E j \in 1 .. i : e \in Range_(v[j])
             G == {i \in 1 .. n : f[i] \in Seq(S) /\ Joined(i)}
  <2>3. 1 \in G
    <3>1. 1 \in 1 .. n
      BY <1>1, <1>3
    <3>2. Joined(1)
      BY <2>2
    <3> QED
      BY <1>1, <2>2, <3>1, <3>2
  <2>4. ASSUME NEW i \in 1 .. n, i \in G, i < n PROVE i + 1 \in G
    <3>0. i + 1 \in 1 .. n
      BY <1>1, <2>4
    <3>1. i + 1 \in 1 .. n /\ f[i + 1] = f[i] \o v[i + 1]
      BY <2>2, <2>4, <3>0, Zenon
    <3>2. f[i + 1] \in Seq(S) /\ Range_(f[i + 1]) = Range_(f[i]) \cup Range_(v[i + 1])
      BY <1>1, <2>4, <3>1, ConcatRange
    <3>3. \A j : j \in 1 .. i + 1 <=> j \in 1 .. i \/ j = i + 1
      BY <2>4
    <3>4. ASSUME NEW e PROVE e \in Range_(f[i + 1]) <=> \E j \in 1 .. i + 1 : e \in Range_(v[j])
      <4>1. e \in Range_(f[i]) <=> \E j \in 1 .. i : e \in Range_(v[j])
        BY <2>4
      <4> QED
        BY <3>2, <3>3, <4>1
    <3>5. Joined(i + 1)
      BY <3>4
    <3> QED
      BY <3>1, <3>2, <3>5
  <2> HIDE DEF G
  <2>5. 1 .. n \subseteq G
    BY <1>1, <2>3, <2>4, UpTo
  <2>6. n \in G
    BY <1>1, <1>3, <2>5
  <2>7. f[n] \in Seq(S) /\ Joined(n)
    BY <2>6 DEF G
  <2> QED
    BY <1>1, <2>1, <2>7
<1> QED
  BY <1>2, <1>3

(* Lists of one element each are joined place by place.                    *)
Singles(v, e, n) ==
  /\ DOMAIN v = 1 .. n /\ Len(v) = n /\ v = [i \in 1 .. n |-> v[i]]
  /\ \A i \in 1 .. n : v[i] = << e[i] >>

LEMMA FlattenSingles ==
  ASSUME NEW n \in Nat, NEW v, NEW e, Singles(v, e, n)
  PROVE  FlattenSeq(v) = [i \in 1 .. n |-> e[i]]
<1> USE DEF Singles
<1> DEFINE Up(i) == [j \in 1 .. i |-> e[j]]
           S == {e[i] : i \in 1 .. n}
<1>1. CASE n = 0
  <2>1. FlattenSeq(v) = v /\ 1 .. n = {}
    BY <1>1, FlattenEmpty
  <2> QED
    BY <2>1
<1>2. CASE n # 0
  <2>1. PICK f : Joins(v, f, n) /\ FlattenSeq(v) = f[n]
    BY <1>2, FlattenJoins
  <2>2. f[1] = v[1] /\ \A i \in 1 .. n : i < n => f[i + 1] = f[i] \o v[i + 1]
    <3>1. n \in Nat /\ n > 0 /\ Joins(v, f, n)
      BY <1>2, <2>1
    <3> HIDE DEF Up, S
    <3> QED
      BY <3>1, JoinStep, Zenon
  <2> DEFINE G == {i \in 1 .. n : f[i] = Up(i)}
  <2>3. 1 \in G
    <3>1. 1 \in 1 .. n /\ v[1] = << e[1] >>
      BY <1>2
    <3>2. << e[1] >> = Up(1)
      OBVIOUS
    <3> QED
      BY <2>2, <3>1, <3>2, Zenon
  <2>4. ASSUME NEW i \in 1 .. n, i \in G, i < n PROVE i + 1 \in G
    <3>0. i + 1 \in 1 .. n /\ i \in Nat
      BY <2>4
    <3>1. i + 1 \in 1 .. n /\ f[i + 1] = Up(i) \o << e[i + 1] >>
      <4>1. f[i] = Up(i) /\ v[i + 1] = << e[i + 1] >>
        BY <2>4, <3>0, Zenon
      <4> QED
        BY <2>2, <2>4, <3>0, <4>1, Zenon
    <3>2. Up(i) \in Seq(S) /\ Len(Up(i)) = i /\ e[i + 1] \in S /\ i \in Nat
      <4>1. \A j \in 1 .. i : e[j] \in S
        BY <2>4
      <4>2. e[i + 1] \in S
        BY <3>0
      <4> HIDE DEF S
      <4>3. Up(i) \in [1 .. i -> S]
        BY <4>1
      <4>4. Up(i) \in Seq(S)
        BY <3>0, <4>3
      <4>5. Len(Up(i)) = i
        BY <3>0, <4>4
      <4> QED
        BY <3>0, <4>2, <4>4, <4>5
    <3>3. \A j \in 1 .. i : Up(i)[j] = e[j]
      OBVIOUS
    <3> HIDE DEF Up, S
    <3>4. DOMAIN (Up(i) \o << e[i + 1] >>) = 1 .. i + 1
      BY <3>2
    <3>5. ASSUME NEW j \in 1 .. i + 1 PROVE (Up(i) \o << e[i + 1] >>)[j] = e[j]
      <4>1. CASE j \in 1 .. i
        BY <3>2, <3>3, <4>1
      <4>2. CASE j = i + 1
        BY <3>2, <4>2
      <4> QED
        BY <3>2, <4>1, <4>2
    <3>6. Up(i) \o << e[i + 1] >> \in Seq(S)
      BY <3>2
    <3> DEFINE w == Up(i) \o << e[i + 1] >>
    <3>7. w = [j \in 1 .. i + 1 |-> w[j]]
      BY <3>4, <3>6
    <3>8. \A j \in 1 .. i + 1 : w[j] = e[j]
      BY <3>5
    <3> HIDE DEF w
    <3>9. w = Up(i + 1)
      BY <3>7, <3>8, Zenon DEF Up
    <3> QED
      BY <3>1, <3>9 DEF w
  <2> HIDE DEF G
  <2>5. 1 .. n \subseteq G
    BY <1>2, <2>3, <2>4, UpTo
  <2>6. n \in G
    BY <1>2, <2>5
  <2> QED
    BY <2>1, <2>6 DEF G
<1> QED
  BY <1>1, <1>2

NoRepeats(s) == \A i, j \in DOMAIN s : s[i] = s[j] => i = j

(* A list of lists that share no element has no repetition.                *)
LEMMA FlattenDistinct ==
  ASSUME NEW S, NEW v \in Seq(Seq(S)), \A i \in DOMAIN v : NoRepeats(v[i]),
         \A i, j \in DOMAIN v : i # j => Range_(v[i]) \cap Range_(v[j]) = {}
  PROVE  NoRepeats(FlattenSeq(v))
<1> DEFINE n == Len(v)
<1>1. n \in Nat /\ DOMAIN v = 1 .. n /\ \A i \in 1 .. n : v[i] \in Seq(S)
  OBVIOUS
<1>2. CASE n = 0
  <2>1. v = << >> /\ FlattenSeq(v) = << >> /\ DOMAIN v = {}
    BY <1>2, FlattenEmpty
  <2> QED
    BY <2>1 DEF NoRepeats
<1>3. CASE n # 0
  <2>1. PICK f : Joins(v, f, n) /\ FlattenSeq(v) = f[n]
    BY <1>1, <1>3, FlattenJoins
  <2> HIDE DEF n
  <2>2. f[1] = v[1] /\ \A i \in 1 .. n : i < n => f[i + 1] = f[i] \o v[i + 1]
    <3>1. n > 0
      BY <1>1, <1>3
    <3> QED
      BY <1>1, <2>1, <3>1, JoinStep, Zenon
  <2> DEFINE Joined(i) == \A e \in Range_(f[i]) : \E j \in 1 .. i : e \in Range_(v[j])
             G == {i \in 1 .. n : f[i] \in Seq(S) /\ Joined(i) /\ NoRepeats(f[i])}
  <2>3. 1 \in G
    <3>1. 1 \in 1 .. n
      BY <1>1, <1>3
    <3>2. Joined(1) /\ NoRepeats(v[1])
      BY <1>1, <2>2, <3>1
    <3> QED
      BY <1>1, <2>2, <3>1, <3>2
  <2>4. ASSUME NEW i \in 1 .. n, i \in G, i < n PROVE i + 1 \in G
    <3>0. i + 1 \in 1 .. n
      BY <1>1, <2>4
    <3>1. i + 1 \in 1 .. n /\ f[i + 1] = f[i] \o v[i + 1]
      BY <2>2, <2>4, <3>0, Zenon
    <3>2. f[i + 1] \in Seq(S) /\ Range_(f[i + 1]) = Range_(f[i]) \cup Range_(v[i + 1])
      BY <1>1, <2>4, <3>1, ConcatRange
    <3>3. i + 1 \in 1 .. i + 1 /\ \A j \in 1 .. i : j \in 1 .. i + 1 /\ j \in 1 .. n /\ j # i + 1
      BY <1>1, <2>4
    <3>4. Joined(i + 1)
      BY <2>4, <3>2, <3>3
    <3>5. Range_(f[i]) \cap Range_(v[i + 1]) = {}
      <4> SUFFICES ASSUME NEW e \in Range_(f[i]), e \in Range_(v[i + 1]) PROVE FALSE
        OBVIOUS
      <4>1. PICK j \in 1 .. i : e \in Range_(v[j])
        BY <2>4
      <4>2. Range_(v[j]) \cap Range_(v[i + 1]) = {}
        BY <1>1, <3>1, <3>3
      <4> QED
        BY <4>1, <4>2
    <3>6. NoRepeats(f[i]) /\ NoRepeats(v[i + 1]) /\ f[i] \in Seq(S) /\ v[i + 1] \in Seq(S)
      BY <1>1, <2>4, <3>1
    <3> DEFINE s == f[i]
               t == v[i + 1]
               w == s \o t
    <3>7. w = f[i + 1] /\ s \in Seq(S) /\ t \in Seq(S) /\ NoRepeats(s) /\ NoRepeats(t)
          /\ Range_(s) \cap Range_(t) = {}
      BY <3>1, <3>5, <3>6
    <3> HIDE DEF s, t
    <3>8. NoRepeats(w)
      <4>1. /\ DOMAIN w = 1 .. Len(s) + Len(t) /\ Len(s) \in Nat /\ Len(t) \in Nat
            /\ DOMAIN s = 1 .. Len(s) /\ DOMAIN t = 1 .. Len(t)
            /\ \A k \in 1 .. Len(s) : w[k] = s[k]
            /\ \A k \in 1 .. Len(t) : w[Len(s) + k] = t[k]
        BY <3>7
      <4> HIDE DEF w
      <4>2. \A k \in DOMAIN w : k \in DOMAIN s \/ (k - Len(s) \in DOMAIN t /\ Len(s) + (k - Len(s)) = k)
        BY <4>1
      <4>3. \A k \in DOMAIN s : w[k] = s[k] /\ s[k] \in Range_(s)
        BY <4>1 DEF Range_
      <4>4. \A k \in DOMAIN w : k - Len(s) \in DOMAIN t => w[k] = t[k - Len(s)] /\ w[k] \in Range_(t)
        <5> SUFFICES ASSUME NEW k \in DOMAIN w, k - Len(s) \in DOMAIN t
                     PROVE w[k] = t[k - Len(s)] /\ w[k] \in Range_(t)
          OBVIOUS
        <5>1. Len(s) + (k - Len(s)) = k
          BY <4>1
        <5>2. w[k] = t[k - Len(s)]
          BY <4>1, <5>1
        <5> QED
          BY <5>2 DEF Range_
      <4> SUFFICES ASSUME NEW h \in DOMAIN w, NEW k \in DOMAIN w, w[h] = w[k] PROVE h = k
        BY DEF NoRepeats
      <4>5. CASE h \in DOMAIN s /\ k \in DOMAIN s
        BY <3>7, <4>3, <4>5 DEF NoRepeats
      <4>6. CASE h - Len(s) \in DOMAIN t /\ k - Len(s) \in DOMAIN t
        <5>1. h - Len(s) = k - Len(s)
          BY <3>7, <4>4, <4>6 DEF NoRepeats
        <5> QED
          BY <4>1, <5>1
      <4>7. CASE h \in DOMAIN s /\ k - Len(s) \in DOMAIN t
        BY <3>7, <4>3, <4>4, <4>7
      <4>8. CASE k \in DOMAIN s /\ h - Len(s) \in DOMAIN t
        BY <3>7, <4>3, <4>4, <4>8
      <4> QED
        BY <4>2, <4>5, <4>6, <4>7, <4>8
    <3> HIDE DEF w
    <3> QED
      BY <3>1, <3>2, <3>4, <3>7, <3>8
  <2> HIDE DEF G
  <2>5. 1 .. n \subseteq G
    BY <1>1, <2>3, <2>4, UpTo
  <2>6. n \in G
    BY <1>1, <1>3, <2>5
  <2> QED
    BY <2>1, <2>6 DEF G
<1> QED
  BY <1>2, <1>3

-----------------------------------------------------------------------------
(* The folders: what the last command of a source left in its folder.      *)

FolderFields ==
  {"snapshots", "references", "inventory", "summary", "issues", "conflicts", "by"}
IsFolder(f) == f = [n \in FolderFields |-> f[n]]

Unpublished(f) == f.snapshots = << >> /\ f.references = << >> /\ f.inventory = << >>
Refused(f) ==
  /\ Unpublished(f) /\ f.issues # << >>
  /\ f.summary = << [blocked |-> TRUE, ready |-> FALSE] >>
Interrupted(f) == Unpublished(f) /\ f.issues = << >> /\ f.summary = << >>

Balances(rows) ==
  merge_balance_snapshots([i \in DOMAIN rows.balances |-> balance_snapshot_from_row(rows.balances[i])])
References(rows) ==
  merge_balance_references([i \in DOMAIN rows.references |-> balance_reference_from_row(rows.references[i])])
Locations(rows) ==
  [i \in DOMAIN rows.inventory |-> location_inventory_record_from_row(rows.inventory[i])]

Publishes(f, v) ==
  /\ v.issues = {}
  /\ f.snapshots = << Balances(v.rows) >>
  /\ f.references = << References(v.rows) >>
  /\ f.inventory = IF v.rows.inventory = << >> THEN << >> ELSE << Locations(v.rows) >>
  /\ f.summary = << [blocked |-> FALSE, ready |-> TRUE] >> /\ f.issues = << >>

SubmittedFolder(f, p, s) ==
  /\ f.by = "submit"
  /\ \/ Refused(f)
     \/ Interrupted(f)
     \/ p.root # "missing" /\ Publishes(f, validate_balance_submission(p, s))

AssembledFolder(f, captures) ==
  /\ f.by = "assemble"
  /\ f.snapshots = << merge_balance_snapshot_rows(captures).rows >>
  /\ f.references = << merge_balance_reference_rows(captures).rows >>
  /\ f.inventory = << MergedInventory(captures) >>
  /\ f.conflicts = << merge_balance_snapshot_rows(captures).issues
                        \cup merge_balance_reference_rows(captures).issues >>

(* What writing the status of a submission leaves of a folder.             *)
StatusWritten(h, g, issues) ==
  /\ IsFolder(h) /\ h.by = g.by /\ h.snapshots = g.snapshots
  /\ h.references = g.references /\ h.inventory = g.inventory
  /\ h.issues = (IF issues = {} THEN << >> ELSE << issues >>)
  /\ h.summary = << [blocked |-> issues # {}, ready |-> issues = {}] >>

LEMMA SubmittedIs ==
  ASSUME NEW f, IsFolder(f), NEW p, NEW s
  PROVE  IsFolder(Submitted(f, p, s)) /\ SubmittedFolder(Submitted(f, p, s), p, s)
<1> DEFINE v == validate_balance_submission(p, s)
           cleared == [clear_generated_balance_outputs(f) EXCEPT !.by = "submit"]
           written(g, issues) == write_status_artifacts(g, issues)
<1>1. IsFolder(cleared) /\ Interrupted(cleared) /\ cleared.by = "submit"
  <2>1. /\ IsFolder(clear_generated_balance_outputs(f))
        /\ Interrupted(clear_generated_balance_outputs(f))
    BY DEF IsFolder, FolderFields, Interrupted, Unpublished, clear_generated_balance_outputs
  <2> QED
    BY <2>1 DEF IsFolder, FolderFields, Interrupted, Unpublished
<1>2. Submitted(f, p, s) =
        IF p.root = "missing"
        THEN written(cleared, {Issue("", 0, "missing_submission_root")})
        ELSE IF v.issues # {} THEN written(cleared, v.issues)
        ELSE IF MaterializationRaises(v.rows) THEN cleared
        ELSE written(MaterializedInto(cleared, v.rows), {})
  BY DEF Submitted
<1> HIDE DEF v, cleared
<1>3. ASSUME NEW g, IsFolder(g), NEW issues PROVE StatusWritten(written(g, issues), g, issues)
  <2> DEFINE i == IF issues = {} THEN << >> ELSE << issues >>
             t == << [blocked |-> issues # {}, ready |-> issues = {}] >>
  <2>1. written(g, issues) = [g EXCEPT !.issues = i, !.summary = t]
    BY DEF write_status_artifacts
  <2> HIDE DEF i, t, written
  <2>2. /\ IsFolder(written(g, issues)) /\ written(g, issues).by = g.by
        /\ written(g, issues).snapshots = g.snapshots
        /\ written(g, issues).references = g.references
        /\ written(g, issues).inventory = g.inventory
        /\ written(g, issues).issues = i /\ written(g, issues).summary = t
    BY <1>3, <2>1 DEF IsFolder, FolderFields
  <2> QED
    BY <2>2, Zenon DEF i, t, StatusWritten
<1> HIDE DEF written
<1>4. ASSUME NEW issues, issues # {}
      PROVE  IsFolder(written(cleared, issues)) /\ SubmittedFolder(written(cleared, issues), p, s)
  <2> DEFINE g == written(cleared, issues)
  <2>1. StatusWritten(g, cleared, issues)
    BY <1>1, <1>3
  <2> HIDE DEF g
  <2>2. (issues # {}) = TRUE /\ (issues = {}) = FALSE
    BY <1>4
  <2>3. /\ IsFolder(g) /\ g.by = cleared.by /\ g.snapshots = cleared.snapshots
        /\ g.references = cleared.references /\ g.inventory = cleared.inventory
        /\ g.issues = << issues >> /\ g.summary = << [blocked |-> TRUE, ready |-> FALSE] >>
    BY <2>1, <2>2 DEF StatusWritten
  <2>4. << issues >> # << >>
    OBVIOUS
  <2>5. Refused(g)
    BY <1>1, <2>3, <2>4 DEF Refused, Interrupted, Unpublished
  <2>6. SubmittedFolder(g, p, s)
    BY <1>1, <2>3, <2>5 DEF SubmittedFolder
  <2> QED
    BY <2>3, <2>6 DEF g
<1>5. ASSUME p.root # "missing", v.issues = {}
      PROVE  LET g == written(MaterializedInto(cleared, v.rows), {})
             IN  IsFolder(g) /\ SubmittedFolder(g, p, s)
  <2> DEFINE m == MaterializedInto(cleared, v.rows)
             l == IF v.rows.inventory = << >> THEN << >> ELSE << Locations(v.rows) >>
             g == written(m, {})
  <2>1. m = [cleared EXCEPT !.snapshots = << Balances(v.rows) >>,
                            !.references = << References(v.rows) >>, !.inventory = l]
    BY DEF MaterializedInto, Balances, References, Locations
  <2> HIDE DEF l, m
  <2>2. /\ IsFolder(m) /\ m.by = "submit" /\ m.snapshots = << Balances(v.rows) >>
        /\ m.references = << References(v.rows) >> /\ m.inventory = l
    BY <1>1, <2>1 DEF IsFolder, FolderFields
  <2>3. StatusWritten(g, m, {})
    BY <1>3, <2>2
  <2> HIDE DEF g
  <2>4. /\ IsFolder(g) /\ g.by = "submit" /\ g.snapshots = << Balances(v.rows) >>
        /\ g.references = << References(v.rows) >> /\ g.inventory = l
    BY <2>2, <2>3, Zenon DEF StatusWritten
  <2>5. g.summary = << [blocked |-> FALSE, ready |-> TRUE] >> /\ g.issues = << >>
    <3>1. ({} # {}) = FALSE /\ ({} = {}) = TRUE
      OBVIOUS
    <3> QED
      BY <2>3, <3>1 DEF StatusWritten
  <2>6. Publishes(g, v)
    BY <1>5, <2>4, <2>5, Zenon DEF Publishes, l
  <2>7. SubmittedFolder(g, p, s)
    BY <1>5, <2>4, <2>6 DEF SubmittedFolder, v
  <2> QED
    BY <2>4, <2>7 DEF g, m
<1>6. {Issue("", 0, "missing_submission_root")} # {}
  OBVIOUS
<1>7. SubmittedFolder(cleared, p, s)
  BY <1>1 DEF SubmittedFolder
<1>8. CASE p.root = "missing"
  BY <1>2, <1>4, <1>6, <1>8, Zenon
<1>9. CASE p.root # "missing" /\ v.issues # {}
  BY <1>2, <1>4, <1>9, Zenon
<1>10. CASE p.root # "missing" /\ v.issues = {}
  BY <1>1, <1>2, <1>5, <1>7, <1>10, Zenon
<1> QED
  BY <1>8, <1>9, <1>10

LEMMA AssembledIs ==
  ASSUME NEW f, IsFolder(f), NEW captures
  PROVE  IsFolder(Assembled(f, captures)) /\ AssembledFolder(Assembled(f, captures), captures)
<1> DEFINE b == << merge_balance_snapshot_rows(captures).rows >>
           r == << merge_balance_reference_rows(captures).rows >>
           i == << MergedInventory(captures) >>
           c == << merge_balance_snapshot_rows(captures).issues
                     \cup merge_balance_reference_rows(captures).issues >>
           g == Assembled(f, captures)
<1>1. g = [f EXCEPT !.snapshots = b, !.references = r, !.inventory = i, !.conflicts = c,
                    !.by = "assemble"]
  BY DEF Assembled
<1> HIDE DEF b, r, i, c, g
<1>2. /\ IsFolder(g) /\ g.snapshots = b /\ g.references = r /\ g.inventory = i
      /\ g.conflicts = c /\ g.by = "assemble"
  BY <1>1 DEF IsFolder, FolderFields
<1> QED
  BY <1>2, Zenon DEF AssembledFolder, b, r, i, c, g

FolderIs(s) ==
  /\ IsFolder(folder[s])
  /\ \/ folder[s] = EmptyFolder
     \/ \E d \in Submissions : d[1] = s /\ d[2] = package[s] /\ SubmittedFolder(folder[s], package[s], s)
     \/ \E d \in Assemblies : d[1] = s /\ AssembledFolder(folder[s], d[2])

FoldersInv ==
  /\ folder = [s \in Sources |-> folder[s]]
  /\ package = [s \in Sources |-> package[s]]
  /\ \A s \in Sources : FolderIs(s)
  /\ \A s \in Sources : JustSubmitted(s) => folder[s].by = "submit"
  /\ last = << "check" >> => sidecars.result = build_cross_source_corroboration
  /\ last = << "rebuild" >> => aggregate = summarize_location_inventory(collect_evidence_rows)

(* What is compared and summed up is what the folders hold.                *)
LEMMA SameCorroboration ==
  ASSUME UNCHANGED folder
  PROVE  build_cross_source_corroboration' = build_cross_source_corroboration
BY DEF build_cross_source_corroboration, IdentityGroups, Comparable, eligible_identities,
    high_confidence_rows, group_by_source, PairAssertions, JoinRows, balances_for_identity,
    EligibleLocation, IdentityIssues, DuplicateIssues, LowConfidence, AmbiguousIdentity,
    InventoryOf, SnapshotsOf

LEMMA SameEvidence ==
  ASSUME UNCHANGED folder
  PROVE  summarize_location_inventory(collect_evidence_rows)'
           = summarize_location_inventory(collect_evidence_rows)
BY DEF summarize_location_inventory, collect_evidence_rows, InventoryOf

LEMMA FoldersInit ==
  ASSUME Init
  PROVE  FoldersInv
<1>1. IsFolder(EmptyFolder)
  BY DEF IsFolder, FolderFields, EmptyFolder
<1>2. \A s \in Sources : FolderIs(s)
  BY <1>1 DEF Init, FolderIs
<1>3. last = << "none" >>
  BY DEF Init
<1>4. \A s \in Sources : ~JustSubmitted(s)
  BY <1>3 DEF JustSubmitted
<1>5. last # << "check" >> /\ last # << "rebuild" >>
  BY <1>3
<1>6. folder = [s \in Sources |-> folder[s]] /\ package = [s \in Sources |-> package[s]]
  BY DEF Init
<1> QED
  BY <1>2, <1>4, <1>5, <1>6 DEF FoldersInv

LEMMA FoldersStep ==
  ASSUME FoldersInv, [Next]_vars
  PROVE  FoldersInv'
<1>1. /\ folder = [s \in Sources |-> folder[s]]
      /\ package = [s \in Sources |-> package[s]]
      /\ \A s \in Sources : FolderIs(s)
  BY DEF FoldersInv
<1>2. CASE UNCHANGED vars
  <2>1. UNCHANGED << folder, package, sidecars, aggregate, last >>
    BY <1>2 DEF vars
  <2>2. \A s \in Sources : FolderIs(s)'
    BY <1>1, <2>1 DEF FolderIs
  <2>3. \A s \in Sources : JustSubmitted(s)' => folder'[s].by = "submit"
    BY <2>1 DEF FoldersInv, JustSubmitted
  <2>4. last' = << "check" >> => sidecars'.result = build_cross_source_corroboration'
    BY <2>1, SameCorroboration DEF FoldersInv
  <2>5. last' = << "rebuild" >> => aggregate' = summarize_location_inventory(collect_evidence_rows)'
    BY <2>1, SameEvidence DEF FoldersInv
  <2> QED
    BY <1>1, <2>1, <2>2, <2>3, <2>4, <2>5 DEF FoldersInv
<1>3. ASSUME NEW d \in Submissions, SubmitBalances(d[1], d[2]) PROVE FoldersInv'
  <2>1. /\ d[1] \in Sources
        /\ folder' = [folder EXCEPT ![d[1]] = Submitted(folder[d[1]], d[2], d[1])]
        /\ package' = [package EXCEPT ![d[1]] = d[2]] /\ last' = << "submit", d[1] >>
    BY <1>3, SourcesAssumption DEF SubmitBalances, Command
  <2>2. /\ folder'[d[1]] = Submitted(folder[d[1]], d[2], d[1]) /\ package'[d[1]] = d[2]
        /\ \A s \in Sources : s # d[1] => folder'[s] = folder[s] /\ package'[s] = package[s]
    BY <1>1, <2>1
  <2>3. IsFolder(folder'[d[1]]) /\ SubmittedFolder(folder'[d[1]], package'[d[1]], d[1])
    <3>1. IsFolder(folder[d[1]])
      BY <1>1, <2>1 DEF FolderIs
    <3> QED
      BY <2>2, <3>1, SubmittedIs
  <2>4. ASSUME NEW s \in Sources PROVE FolderIs(s)'
    <3>1. CASE s = d[1]
      <4>1. \E e \in Submissions : /\ e[1] = s /\ e[2] = package'[s]
                                   /\ SubmittedFolder(folder'[s], package'[s], s)
        BY <2>2, <2>3, <3>1
      <4> QED
        BY <2>3, <3>1, <4>1 DEF FolderIs
    <3>2. CASE s # d[1]
      <4>1. folder'[s] = folder[s] /\ package'[s] = package[s] /\ FolderIs(s)
        BY <1>1, <2>2, <3>2
      <4> QED
        BY <4>1 DEF FolderIs
    <3> QED
      BY <3>1, <3>2
  <2>5. ASSUME NEW s \in Sources, JustSubmitted(s)' PROVE folder'[s].by = "submit"
    <3>1. s = d[1]
      BY <2>1, <2>5 DEF JustSubmitted
    <3> QED
      BY <2>3, <3>1 DEF SubmittedFolder
  <2>6. last' # << "check" >> /\ last' # << "rebuild" >>
    BY <2>1
  <2>7. folder' = [s \in Sources |-> folder'[s]] /\ package' = [s \in Sources |-> package'[s]]
    BY <1>1, <2>1
  <2> QED
    BY <2>4, <2>5, <2>6, <2>7 DEF FoldersInv
<1>4. ASSUME NEW d \in Assemblies, AssembleSource(d[1], d[2]) PROVE FoldersInv'
  <2>1. /\ d[1] \in Sources
        /\ folder' = [folder EXCEPT ![d[1]] = Assembled(folder[d[1]], d[2])]
        /\ package' = package /\ last' = << "assemble", d[1] >>
    BY <1>4, SourcesAssumption DEF AssembleSource, Command
  <2>2. /\ folder'[d[1]] = Assembled(folder[d[1]], d[2])
        /\ \A s \in Sources : s # d[1] => folder'[s] = folder[s]
    BY <1>1, <2>1
  <2>3. IsFolder(folder'[d[1]]) /\ AssembledFolder(folder'[d[1]], d[2])
    <3>1. IsFolder(folder[d[1]])
      BY <1>1, <2>1 DEF FolderIs
    <3> QED
      BY <2>2, <3>1, AssembledIs
  <2>4. ASSUME NEW s \in Sources PROVE FolderIs(s)'
    <3>1. CASE s = d[1]
      <4>1. \E e \in Assemblies : e[1] = s /\ AssembledFolder(folder'[s], e[2])
        BY <2>3, <3>1
      <4> QED
        BY <2>3, <3>1, <4>1 DEF FolderIs
    <3>2. CASE s # d[1]
      <4>1. folder'[s] = folder[s] /\ package'[s] = package[s] /\ FolderIs(s)
        BY <1>1, <2>1, <2>2, <3>2
      <4> QED
        BY <4>1 DEF FolderIs
    <3> QED
      BY <3>1, <3>2
  <2>5. \A s \in Sources : ~JustSubmitted(s)'
    BY <2>1 DEF JustSubmitted
  <2>6. last' # << "check" >> /\ last' # << "rebuild" >>
    BY <2>1
  <2>7. folder' = [s \in Sources |-> folder'[s]] /\ package' = [s \in Sources |-> package'[s]]
    BY <1>1, <2>1
  <2> QED
    BY <2>4, <2>5, <2>6, <2>7 DEF FoldersInv
<1>5. ASSUME CorroborateSources \/ RebuildLocationInventory PROVE FoldersInv'
  <2>1. folder' = folder /\ package' = package
    BY <1>5 DEF CorroborateSources, RebuildLocationInventory
  <2>2. \A s \in Sources : FolderIs(s)'
    BY <1>1, <2>1 DEF FolderIs
  <2>3. /\ last' \in {<< "check" >>, << "rebuild" >>}
        /\ last' = << "check" >> => sidecars'.result = build_cross_source_corroboration
        /\ last' = << "rebuild" >> => aggregate' = summarize_location_inventory(collect_evidence_rows)
    <3>1. CASE CorroborateSources
      <4>1. last' = << "check" >> /\ sidecars'.result = build_cross_source_corroboration
        BY <3>1 DEF CorroborateSources, Command
      <4> QED
        BY <4>1
    <3>2. CASE RebuildLocationInventory
      <4>1. /\ last' = << "rebuild" >>
            /\ aggregate' = summarize_location_inventory(collect_evidence_rows)
        BY <3>2, Zenon DEF RebuildLocationInventory, Command
      <4> QED
        BY <4>1
    <3> QED
      BY <1>5, <3>1, <3>2
  <2>4. \A s \in Sources : ~JustSubmitted(s)'
    BY <2>3 DEF JustSubmitted
  <2>5. /\ last' = << "check" >> => sidecars'.result = build_cross_source_corroboration'
        /\ last' = << "rebuild" >> =>
              aggregate' = summarize_location_inventory(collect_evidence_rows)'
    BY <2>1, <2>3, SameCorroboration, SameEvidence
  <2> QED
    BY <1>1, <2>1, <2>2, <2>4, <2>5 DEF FoldersInv
<1>6. CASE Next
  BY <1>3, <1>4, <1>5, <1>6 DEF Next
<1> QED
  BY <1>2, <1>6

(* Folders at every state.                                                 *)
THEOREM FoldersInductive == Spec => []FoldersInv
<1>1. FoldersInv /\ [Next]_vars => FoldersInv'
  BY FoldersStep
<1> QED
  BY <1>1, FoldersInit, PTL DEF Spec

-----------------------------------------------------------------------------
(* Assembly: what is reported of two captures that disagree.               *)

LEMMA ConflictIsIssue ==
  ASSUME NEW items, NEW keyOf, NEW x \in items, NEW y \in items,
         keyOf[x] = keyOf[y], x.quantity # y.quantity
  PROVE  keyOf[x] \in conflict_issues(items, keyOf)
BY DEF conflict_issues, balance_conflict_key

LEMMA ConflictsOfAssembly ==
  ASSUME FoldersInv
  PROVE  ConflictsReported
<1> SUFFICES ASSUME NEW s \in Sources, folder[s].by = "assemble"
             PROVE  /\ \A x, y \in SnapshotsOf(s) : x.target = y.target =>
                        x = y \/ << x.target >> \in folder[s].conflicts[1]
                    /\ \A x, y \in ReferencesOf(s) :
                        /\ x # y /\ x.target = y.target /\ x.kind = y.kind
                        /\ x.observed = y.observed /\ x.reviewed = y.reviewed
                        => << x.target, x.kind, x.observed, x.reviewed >> \in folder[s].conflicts[1]
  BY DEF ConflictsReported
<1>1. PICK d \in Assemblies : AssembledFolder(folder[s], d[2])
  <2>1. FolderIs(s) /\ EmptyFolder.by # "assemble"
    BY DEF FoldersInv, EmptyFolder
  <2> QED
    BY <2>1 DEF FolderIs, SubmittedFolder
<1> DEFINE captures == d[2]
           B == UNION {captures[c].snapshots : c \in DOMAIN captures}
           R == UNION {captures[c].references : c \in DOMAIN captures}
           bkey == [x \in B |-> << balance_snapshot_semantic_key(x) >>]
           rkey == [x \in R |-> balance_reference_semantic_key(x)]
<1>2. /\ SnapshotsOf(s) = B /\ ReferencesOf(s) = R
      /\ folder[s].conflicts[1] = conflict_issues(B, bkey) \cup conflict_issues(R, rkey)
  BY <1>1 DEF AssembledFolder, SnapshotsOf, ReferencesOf, merge_balance_snapshot_rows,
    merge_balance_reference_rows
<1>3. /\ \A x \in B : x = [target |-> x.target, quantity |-> x.quantity]
      /\ \A r \in R : r = [target |-> r.target, quantity |-> r.quantity, kind |-> r.kind,
                           observed |-> r.observed, reviewed |-> r.reviewed]
  <2>1. \A c \in DOMAIN captures : captures[c] \in Range_(d[2])
    BY DEF Range_
  <2>2. ASSUME NEW c \in Range_(d[2])
        PROVE  /\ \A x \in c.snapshots : x = [target |-> x.target, quantity |-> x.quantity]
               /\ \A r \in c.references :
                    r = [target |-> r.target, quantity |-> r.quantity, kind |-> r.kind,
                         observed |-> r.observed, reviewed |-> r.reviewed]
    BY CapturesAssumption, Zenon
  <2>3. ASSUME NEW x \in B PROVE x = [target |-> x.target, quantity |-> x.quantity]
    <3>1. PICK c \in DOMAIN captures : x \in captures[c].snapshots
      OBVIOUS
    <3> QED
      BY <2>1, <2>2, <3>1, Zenon
  <2>4. ASSUME NEW r \in R
        PROVE  r = [target |-> r.target, quantity |-> r.quantity, kind |-> r.kind,
                    observed |-> r.observed, reviewed |-> r.reviewed]
    <3>1. PICK c \in DOMAIN captures : r \in captures[c].references
      OBVIOUS
    <3> QED
      BY <2>1, <2>2, <3>1, Zenon
  <2> QED
    BY <2>3, <2>4, Zenon
<1>4. /\ \A x \in B : bkey[x] = << x.target >>
      /\ \A r \in R : rkey[r] = << r.target, r.kind, r.observed, r.reviewed >>
  BY DEF balance_snapshot_semantic_key, balance_reference_semantic_key
<1> HIDE DEF B, R, bkey, rkey
<1>5. ASSUME NEW x \in B, NEW y \in B, x.target = y.target, x # y
      PROVE  << x.target >> \in conflict_issues(B, bkey)
  <2>1. x.quantity # y.quantity
    BY <1>3, <1>5
  <2>2. bkey[x] = bkey[y] /\ bkey[x] = << x.target >>
    BY <1>4, <1>5
  <2> QED
    BY <2>1, <2>2, ConflictIsIssue
<1>6. ASSUME NEW x \in R, NEW y \in R, x # y, x.target = y.target, x.kind = y.kind,
             x.observed = y.observed, x.reviewed = y.reviewed
      PROVE  << x.target, x.kind, x.observed, x.reviewed >> \in conflict_issues(R, rkey)
  <2>1. x.quantity # y.quantity
    BY <1>3, <1>6
  <2>2. rkey[x] = rkey[y] /\ rkey[x] = << x.target, x.kind, x.observed, x.reviewed >>
    BY <1>4, <1>6
  <2> QED
    BY <2>1, <2>2, ConflictIsIssue
<1> QED
  BY <1>2, <1>5, <1>6

(* Two captures of a source that give one target two balances, or one      *)
(* observation two quantities, are reported with the dataset               *)
(* merge_balance_snapshot_rows and merge_balance_reference_rows assemble   *)
(* of them, whatever the captures hold.                                    *)
THEOREM AssemblyReportsConflicts == Spec => []ConflictsReported
BY FoldersInductive, ConflictsOfAssembly, PTL

-----------------------------------------------------------------------------
(* Validation: a package without an issue is read in full.                 *)

LEMMA NoIssue ==
  ASSUME NEW condition \in BOOLEAN, NEW kind, When(condition, kind) = {}
  PROVE  ~condition
BY DEF When

LEMMA CellRead ==
  ASSUME NEW text, NEW values, NEW kind, text # "", Cell(text, values, kind).issues = {}
  PROVE  Cell(text, values, kind).value = values[text] /\ values[text] # << >>
<1>1. When(text # "" /\ values[text] = << >>, kind) = {}
  BY DEF Cell
<1>2. ~(text # "" /\ values[text] = << >>)
  BY <1>1, NoIssue
<1> QED
  BY <1>2 DEF Cell

LEMMA PrecisionRead ==
  ASSUME NEW text, text # "", parse_submission_precision(text).issues = {}
  PROVE  parse_submission_precision(text).value = << text >>
<1>1. When(text # "" /\ text \notin {"date", "timestamp"}, "invalid_precision") = {}
  BY DEF parse_submission_precision
<1>2. text \in {"date", "timestamp"}
  BY <1>1, NoIssue
<1> QED
  BY <1>2 DEF parse_submission_precision

LEMMA TimeRead ==
  ASSUME NEW text, NEW precision, text # "", precision # << >>,
         parse_submission_temporal_value(text, precision).issues = {}
  PROVE  parse_submission_temporal_value(text, precision).value # << >>
<1>1. parse_submission_temporal_value(text, precision)
        = Cell(text, Times[precision[1]], "invalid_timestamp")
  BY DEF parse_submission_temporal_value
<1>2. Cell(text, Times[precision[1]], "invalid_timestamp").issues = {}
  BY <1>1
<1>3. Cell(text, Times[precision[1]], "invalid_timestamp").value = Times[precision[1]][text]
      /\ Times[precision[1]][text] # << >>
  BY <1>2, CellRead, Zenon
<1> QED
  BY <1>1, <1>3

LEMMA Filled ==
  ASSUME NEW row, NEW fields, NEW source, RowIssues(row, fields, source) = {}
  PROVE  /\ \A f \in fields : row[f] # ""
         /\ "source" \in fields => row["source"] = source
<1>1. /\ When(Unfilled(row, fields), "missing_required_value") = {}
      /\ When(row.source \notin {"", source}, "source_mismatch") = {}
  BY DEF RowIssues
<1>2. ~Unfilled(row, fields) /\ row.source \in {"", source}
  BY <1>1, NoIssue DEF Unfilled
<1> QED
  BY <1>2 DEF Unfilled

RowRead(x, row, source) ==
  /\ x.source = source /\ x.account = row.account /\ x.wallet = row.wallet
  /\ x.instrument = row.instrument /\ row.instrument # ""
  /\ row.quantity # "" /\ Decimals[row.quantity] # << >>
  /\ x.quantity = Decimals[row.quantity][1]

LEMMA BalanceRead ==
  ASSUME NEW row, NEW source, validate_balance_like_row(row, source).issues = {}
  PROVE  LET parsed == validate_balance_like_row(row, source).parsed
         IN  parsed = << parsed[1] >> /\ RowRead(parsed[1], row, source)
<1> DEFINE quantity == parse_submission_quantity(row.quantity)
           precision == parse_submission_precision(row.precision)
           at == parse_submission_temporal_value(row.at, precision.value)
           faults == RowIssues(row, BalanceFields, source)
           x == [source |-> row.source, account |-> row.account, wallet |-> row.wallet,
                 instrument |-> row.instrument, quantity |-> quantity.value[1],
                 at |-> at.value[1], precision |-> precision.value[1], kind |-> row.kind]
           parsed == validate_balance_like_row(row, source).parsed
<1>1. /\ faults = {} /\ quantity.issues = {} /\ precision.issues = {} /\ at.issues = {}
      /\ parsed = IF faults # {} \/ << >> \in {quantity.value, precision.value, at.value}
                  THEN << >> ELSE << x >>
  BY DEF validate_balance_like_row
<1> HIDE DEF faults, parsed
<1>2. /\ row.source = source /\ row.quantity # "" /\ row.precision # "" /\ row.at # ""
      /\ row.instrument # ""
  <2>1. /\ \A f \in BalanceFields : row[f] # ""
        /\ "source" \in BalanceFields => row["source"] = source
    BY <1>1, Filled DEF faults
  <2> QED
    BY <2>1 DEF BalanceFields, Names
<1>3. quantity.value = Decimals[row.quantity] /\ Decimals[row.quantity] # << >>
  BY <1>1, <1>2, CellRead DEF parse_submission_quantity
<1> HIDE DEF quantity
<1>4. precision.value # << >>
  <2>1. precision.value = << row.precision >>
    BY <1>1, <1>2, PrecisionRead
  <2> QED
    BY <2>1
<1> HIDE DEF precision
<1>5. at.value # << >>
  BY <1>1, <1>2, <1>4, TimeRead
<1> HIDE DEF at
<1>6. parsed = << x >>
  BY <1>1, <1>3, <1>4, <1>5
<1>7. RowRead(x, row, source)
  BY <1>2, <1>3 DEF RowRead
<1> HIDE DEF x
<1>8. parsed[1] = x
  BY <1>6
<1> QED
  BY <1>6, <1>7, <1>8 DEF parsed

LEMMA ReferenceRead ==
  ASSUME NEW row, NEW source, validate_balance_reference_row(row, source).issues = {}
  PROVE  LET parsed == validate_balance_reference_row(row, source).parsed
             base == validate_balance_like_row(row, source)
         IN  /\ base.issues = {} /\ parsed = << parsed[1] >> /\ parsed[1].row = base.parsed[1]
<1> DEFINE base == validate_balance_like_row(row, source)
           precision == parse_submission_precision(row.observed_precision)
           observed == parse_submission_temporal_value(row.observed_at, precision.value)
           reviewed == parse_submission_reviewed_at(row.reviewed_at)
           faults == When(Unfilled(row, ReferenceFields), "missing_required_value")
            \cup When(row.reference_kind \notin BalanceReferenceKinds \cup {""}, "invalid_reference_kind")
            \cup When(row.reference_kind \in BalanceReferenceKinds \ {"operator_assertion"},
                      "unsupported_reference_kind")
           x == [row |-> base.parsed[1], reference_kind |-> row.reference_kind,
                 observed |-> << observed.value[1], precision.value[1] >>,
                 reviewed |-> << row.reviewed_by, reviewed.value[1] >>]
           parsed == validate_balance_reference_row(row, source).parsed
<1>1. /\ faults = {} /\ base.issues = {} /\ precision.issues = {} /\ observed.issues = {}
      /\ reviewed.issues = {}
      /\ parsed = IF \/ faults # {}
                     \/ << >> \in {base.parsed, precision.value, observed.value, reviewed.value}
                  THEN << >> ELSE << x >>
  BY DEF validate_balance_reference_row
<1> HIDE DEF parsed
<1>2. row.observed_precision # "" /\ row.observed_at # "" /\ row.reviewed_at # ""
  <2>1. When(Unfilled(row, ReferenceFields), "missing_required_value") = {}
    BY <1>1
  <2>2. ~Unfilled(row, ReferenceFields)
    BY <2>1, NoIssue DEF Unfilled
  <2> QED
    BY <2>2 DEF Unfilled, ReferenceFields
<1> HIDE DEF faults
<1>3. base.parsed # << >>
  <2>1. base.parsed = << base.parsed[1] >>
    BY <1>1, BalanceRead
  <2> QED
    BY <2>1
<1>4. precision.value # << >>
  <2>1. precision.value = << row.observed_precision >>
    BY <1>1, <1>2, PrecisionRead
  <2> QED
    BY <2>1
<1>5. reviewed.value # << >>
  <2>1. reviewed = Cell(row.reviewed_at, Times["timestamp"], "invalid_timestamp")
    BY DEF parse_submission_reviewed_at
  <2>2. Cell(row.reviewed_at, Times["timestamp"], "invalid_timestamp").issues = {}
    BY <1>1, <2>1
  <2>3. /\ Cell(row.reviewed_at, Times["timestamp"], "invalid_timestamp").value = Times["timestamp"][row.reviewed_at]
        /\ Times["timestamp"][row.reviewed_at] # << >>
    BY <1>2, <2>2, CellRead, Zenon
  <2> QED
    BY <2>1, <2>3
<1> HIDE DEF precision, reviewed
<1>6. observed.value # << >>
  BY <1>1, <1>2, <1>4, TimeRead
<1> HIDE DEF observed, base
<1>7. parsed = << x >>
  BY <1>1, <1>3, <1>4, <1>5, <1>6
<1>8. x.row = base.parsed[1]
  OBVIOUS
<1> HIDE DEF x
<1>9. parsed[1] = x
  BY <1>7
<1> QED
  BY <1>1, <1>7, <1>8, <1>9 DEF parsed, base

LEMMA LocationRead ==
  ASSUME NEW row, NEW source, validate_location_inventory_row(row, source).issues = {}
  PROVE  validate_location_inventory_row(row, source).parsed = << row >> /\ row.source = source
<1> DEFINE faults == RowIssues(row, LocationFields, source)
           nameless == faults = {} /\ Nameless(row)
<1>1. faults = {} /\ When(nameless, "invalid_location_parts") = {}
  BY DEF validate_location_inventory_row
<1>2. ~nameless
  BY <1>1, NoIssue DEF Nameless
<1>3. validate_location_inventory_row(row, source).parsed = IF faults # {} \/ nameless THEN << >> ELSE << row >>
  BY DEF validate_location_inventory_row
<1>4. "source" \in LocationFields => row["source"] = source
  BY <1>1, Filled
<1>5. row.source = source
  BY <1>4 DEF LocationFields, Names
<1> HIDE DEF nameless, faults
<1> QED
  BY <1>1, <1>2, <1>3, <1>5

(* A file without an issue is parsed row by row.                           *)
ReadAs(rows, results, e) ==
  /\ rows \in Seq(Range_(rows)) /\ results = [i \in DOMAIN rows |-> results[i]]
  /\ \A i \in DOMAIN rows : results[i].issues = {} => results[i].parsed = << e[i] >>

LEMMA RowsParsed ==
  ASSUME NEW rows, NEW results, NEW e, ReadAs(rows, results, e),
         NEW name, ValidatedIssues(name, results) = {}
  PROVE  /\ \A i \in DOMAIN rows : results[i].issues = {}
         /\ ParsedRows(results) = [i \in 1 .. Len(rows) |-> e[i]]
<1> DEFINE n == Len(rows)
           v == [i \in DOMAIN results |-> results[i].parsed]
<1> USE DEF ReadAs
<1>1. n \in Nat /\ DOMAIN rows = 1 .. n /\ DOMAIN results = 1 .. n
  OBVIOUS
<1>2. ASSUME NEW i \in DOMAIN rows PROVE results[i].issues = {}
  <2> SUFFICES ASSUME NEW k \in results[i].issues PROVE FALSE
    OBVIOUS
  <2> HIDE DEF v
  <2>1. i \in DOMAIN results
    BY <1>1
  <2>2. Issue(name, i + 1, k) \in ValidatedIssues(name, results)
    BY <2>1 DEF ValidatedIssues
  <2> QED
    BY <2>2
<1>3. \A i \in 1 .. n : v[i] = << e[i] >>
  BY <1>1, <1>2
<1>4. DOMAIN v = 1 .. n /\ v = [i \in 1 .. n |-> v[i]]
  BY <1>1
<1>5. v = [i \in 1 .. n |-> << e[i] >>]
  BY <1>3, <1>4
<1> HIDE DEF v
<1>6. Len(v) = n
  <2>1. v \in Seq({<< e[i] >> : i \in 1 .. n})
    BY <1>1, <1>5
  <2> QED
    BY <1>1, <1>4, <2>1
<1> HIDE DEF n
<1>7. FlattenSeq(v) = [i \in 1 .. n |-> e[i]]
  <2>1. Singles(v, e, n)
    BY <1>3, <1>4, <1>6 DEF Singles
  <2> QED
    BY <1>1, <2>1, FlattenSingles
<1> QED
  BY <1>2, <1>7 DEF ParsedRows, v, n

IsPackage(p) ==
  /\ \A file \in {p.snapshots, p.references, p.inventory} :
        /\ file.state \in {"ok", "missing", "bad_header"}
        /\ file.state = "ok" => file.rows \in Seq(Range_(file.rows))
  /\ p.snapshots.state = "ok" => \A r \in Range_(p.snapshots.rows) :
        r.instrument \in {""} \cup DOMAIN Symbol /\ r.quantity \in {""} \cup DOMAIN Decimals

LEMMA Packages ==
  ASSUME NEW d \in Submissions, d[2].root # "missing"
  PROVE  IsPackage(d[2])
BY PackagesAssumption, Zenon DEF IsPackage

LEMMA RowsAreLists ==
  ASSUME NEW file, file.state = "ok" => file.rows \in Seq(Range_(file.rows))
  PROVE  read_rows(file) \in Seq(Range_(read_rows(file)))
<1>1. << >> \in Seq(Range_(<< >>))
  OBVIOUS
<1> QED
  BY <1>1 DEF read_rows

BalanceOf(p, s, i) == validate_balance_like_row(p.snapshots.rows[i], s).parsed[1]
ReferenceOf(p, s, i) == validate_balance_reference_row(p.references.rows[i], s).parsed[1]
ReferredBalance(p, s, i) == validate_balance_like_row(p.references.rows[i], s).parsed[1]

FilesRead(p) ==
  /\ p.snapshots.state = "ok" /\ p.references.state = "ok"
  /\ Len(p.snapshots.rows) \in Nat /\ DOMAIN p.snapshots.rows = 1 .. Len(p.snapshots.rows)
  /\ Len(p.references.rows) \in Nat /\ DOMAIN p.references.rows = 1 .. Len(p.references.rows)
  /\ read_rows(p.inventory) \in Seq(Range_(read_rows(p.inventory)))

RowsRead(p, s, rows) ==
  /\ rows.balances = [i \in 1 .. Len(p.snapshots.rows) |-> BalanceOf(p, s, i)]
  /\ rows.references = [i \in 1 .. Len(p.references.rows) |-> ReferenceOf(p, s, i)]
  /\ rows.inventory = read_rows(p.inventory)
  /\ \A i \in 1 .. Len(p.snapshots.rows) :
        RowRead(BalanceOf(p, s, i), p.snapshots.rows[i], s)
  /\ \A i \in 1 .. Len(p.references.rows) : ReferenceOf(p, s, i).row = ReferredBalance(p, s, i)
  /\ \A i \in DOMAIN read_rows(p.inventory) : read_rows(p.inventory)[i].source = s

RowsAgree(rows) ==
  /\ collect_location_inventory_conflicts(rows.inventory) = {}
  /\ collect_balance_reference_mismatches(rows.balances, rows.references) = {}

LEMMA PackageRead ==
  ASSUME NEW p, IsPackage(p), NEW s, validate_balance_submission(p, s).issues = {}
  PROVE  LET rows == validate_balance_submission(p, s).rows
         IN  FilesRead(p) /\ RowsRead(p, s, rows) /\ RowsAgree(rows)
<1> DEFINE rows == read_rows(p.snapshots)
           refs == read_rows(p.references)
           locs == read_rows(p.inventory)
           balances == [i \in DOMAIN rows |-> validate_balance_like_row(rows[i], s)]
           references == [i \in DOMAIN refs |-> validate_balance_reference_row(refs[i], s)]
           inventory == [i \in DOMAIN locs |-> validate_location_inventory_row(locs[i], s)]
           parsed == [balances |-> ParsedRows(balances), references |-> ParsedRows(references),
                      inventory |-> ParsedRows(inventory)]
           v == validate_balance_submission(p, s)
<1>1. /\ v.rows = parsed
      /\ read_issues("balance_snapshots.csv", p.snapshots, TRUE) = {}
      /\ read_issues("balance_references.csv", p.references, TRUE) = {}
      /\ ValidatedIssues("balance_snapshots.csv", balances) = {}
      /\ ValidatedIssues("balance_references.csv", references) = {}
      /\ ValidatedIssues("location_inventory.csv", inventory) = {}
      /\ collect_location_inventory_conflicts(parsed.inventory) = {}
      /\ p.snapshots.state = "ok" /\ p.references.state = "ok" =>
            collect_balance_reference_mismatches(parsed.balances, parsed.references) = {}
  BY DEF validate_balance_submission
<1> HIDE DEF v
<1>2. /\ p.snapshots.state = "ok" /\ rows = p.snapshots.rows
      /\ p.references.state = "ok" /\ refs = p.references.rows
  <2>1. /\ p.snapshots.state \in {"ok", "missing", "bad_header"}
        /\ p.references.state \in {"ok", "missing", "bad_header"}
    BY DEF IsPackage
  <2>2. /\ read_issues("balance_snapshots.csv", p.snapshots, TRUE) = {}
        /\ read_issues("balance_references.csv", p.references, TRUE) = {}
    BY <1>1
  <2>3. p.snapshots.state = "ok" /\ rows = p.snapshots.rows
    BY <2>1, <2>2 DEF read_issues, read_rows
  <2>4. p.references.state = "ok" /\ refs = p.references.rows
    BY <2>1, <2>2 DEF read_issues, read_rows
  <2> QED
    BY <2>3, <2>4
<1>3. rows \in Seq(Range_(rows)) /\ refs \in Seq(Range_(refs)) /\ locs \in Seq(Range_(locs))
  <2>1. /\ p.snapshots.state = "ok" => p.snapshots.rows \in Seq(Range_(p.snapshots.rows))
        /\ p.references.state = "ok" => p.references.rows \in Seq(Range_(p.references.rows))
        /\ p.inventory.state = "ok" => p.inventory.rows \in Seq(Range_(p.inventory.rows))
    BY DEF IsPackage
  <2> QED
    BY <2>1, RowsAreLists
<1>4. FilesRead(p)
  BY <1>2, <1>3 DEF FilesRead
<1> DEFINE b == [i \in DOMAIN rows |-> validate_balance_like_row(rows[i], s).parsed[1]]
           r == [i \in DOMAIN refs |-> validate_balance_reference_row(refs[i], s).parsed[1]]
<1>5. \A i \in DOMAIN rows : balances[i].issues = {} => balances[i].parsed = << b[i] >>
  BY BalanceRead
<1>6. \A i \in DOMAIN refs : references[i].issues = {} => references[i].parsed = << r[i] >>
  BY ReferenceRead
<1>7. \A i \in DOMAIN locs : inventory[i].issues = {} => inventory[i].parsed = << locs[i] >>
  BY LocationRead
<1>8. /\ balances = [i \in DOMAIN rows |-> balances[i]]
      /\ references = [i \in DOMAIN refs |-> references[i]]
      /\ inventory = [i \in DOMAIN locs |-> inventory[i]]
  OBVIOUS
<1>9. /\ \A i \in DOMAIN rows : balances[i] = validate_balance_like_row(rows[i], s)
      /\ \A i \in DOMAIN refs : references[i] = validate_balance_reference_row(refs[i], s)
      /\ \A i \in DOMAIN locs : inventory[i] = validate_location_inventory_row(locs[i], s)
  OBVIOUS
<1>10. /\ \A i \in DOMAIN rows : b[i] = BalanceOf(p, s, i)
       /\ \A i \in DOMAIN refs : r[i] = ReferenceOf(p, s, i)
  BY <1>2 DEF BalanceOf, ReferenceOf
<1> HIDE DEF balances, references, inventory, b, r, rows, refs, locs
<1>11. /\ \A i \in DOMAIN rows : balances[i].issues = {}
       /\ ParsedRows(balances) = [i \in 1 .. Len(rows) |-> b[i]]
  <2>1. ReadAs(rows, balances, b)
    BY <1>3, <1>5, <1>8 DEF ReadAs
  <2> QED
    BY <1>1, <2>1, RowsParsed
<1>12. /\ \A i \in DOMAIN refs : references[i].issues = {}
       /\ ParsedRows(references) = [i \in 1 .. Len(refs) |-> r[i]]
  <2>1. ReadAs(refs, references, r)
    BY <1>3, <1>6, <1>8 DEF ReadAs
  <2> QED
    BY <1>1, <2>1, RowsParsed
<1>13. /\ \A i \in DOMAIN locs : inventory[i].issues = {}
       /\ ParsedRows(inventory) = [i \in 1 .. Len(locs) |-> locs[i]]
  <2>1. ReadAs(locs, inventory, locs)
    BY <1>3, <1>7, <1>8 DEF ReadAs
  <2> QED
    BY <1>1, <2>1, RowsParsed
<1>14. /\ v.rows.balances = ParsedRows(balances) /\ v.rows.references = ParsedRows(references)
       /\ v.rows.inventory = ParsedRows(inventory)
  BY <1>1
<1>15. /\ DOMAIN rows = 1 .. Len(rows) /\ DOMAIN refs = 1 .. Len(refs)
       /\ locs = [i \in 1 .. Len(locs) |-> locs[i]]
  BY <1>3
<1>16. /\ v.rows.balances = [i \in 1 .. Len(p.snapshots.rows) |-> BalanceOf(p, s, i)]
       /\ v.rows.references = [i \in 1 .. Len(p.references.rows) |-> ReferenceOf(p, s, i)]
       /\ v.rows.inventory = locs
  BY <1>2, <1>10, <1>11, <1>12, <1>13, <1>14, <1>15
<1>17. \A i \in 1 .. Len(p.snapshots.rows) : RowRead(BalanceOf(p, s, i), p.snapshots.rows[i], s)
  <2> SUFFICES ASSUME NEW i \in DOMAIN rows PROVE RowRead(BalanceOf(p, s, i), rows[i], s)
    BY <1>2, <1>15
  <2>1. validate_balance_like_row(rows[i], s).issues = {}
    BY <1>9, <1>11
  <2> QED
    BY <1>2, <2>1, BalanceRead DEF BalanceOf
<1>18. \A i \in 1 .. Len(p.references.rows) : ReferenceOf(p, s, i).row = ReferredBalance(p, s, i)
  <2> SUFFICES ASSUME NEW i \in DOMAIN refs PROVE ReferenceOf(p, s, i).row = ReferredBalance(p, s, i)
    BY <1>2, <1>15
  <2>1. validate_balance_reference_row(refs[i], s).issues = {}
    BY <1>9, <1>12
  <2> QED
    BY <1>2, <2>1, ReferenceRead DEF ReferenceOf, ReferredBalance
<1>19. \A i \in DOMAIN locs : locs[i].source = s
  <2> SUFFICES ASSUME NEW i \in DOMAIN locs PROVE locs[i].source = s
    OBVIOUS
  <2>1. validate_location_inventory_row(locs[i], s).issues = {}
    BY <1>9, <1>13
  <2> QED
    BY <2>1, LocationRead
<1>20. RowsRead(p, s, v.rows)
  BY <1>16, <1>17, <1>18, <1>19 DEF RowsRead, locs
<1>21. RowsAgree(v.rows)
  BY <1>1, <1>2 DEF RowsAgree
<1> QED
  BY <1>4, <1>20, <1>21 DEF v

-----------------------------------------------------------------------------
(* Submission: what an accepted package publishes.                         *)

LEMMA SubmittedBy ==
  ASSUME FoldersInv, NEW s \in Sources, JustSubmitted(s)
  PROVE  \E d \in Submissions : /\ d[2] = package[s]
                                /\ SubmittedFolder(folder[s], package[s], s)
<1>1. FolderIs(s) /\ folder[s].by = "submit"
  BY DEF FoldersInv
<1>2. EmptyFolder.by # "submit"
  BY DEF EmptyFolder
<1> QED
  BY <1>1, <1>2 DEF FolderIs, AssembledFolder

(* An accepted package has been read in full and is in the folder.         *)
AcceptedAs(s, rows) ==
  /\ FilesRead(package[s]) /\ RowsRead(package[s], s, rows) /\ RowsAgree(rows)
  /\ IsPackage(package[s])
  /\ SnapshotsOf(s) = Balances(rows) /\ ReferencesOf(s) = References(rows)
  /\ InventoryOf(s) = Locations(rows)

LEMMA PublishedIs ==
  ASSUME NEW s, NEW d \in Submissions, d[2] = package[s], package[s].root # "missing",
         Publishes(folder[s], validate_balance_submission(package[s], s))
  PROVE  AcceptedAs(s, validate_balance_submission(package[s], s).rows)
<1> DEFINE p == package[s]
           v == validate_balance_submission(p, s)
<1>1. IsPackage(p)
  BY Packages
<1>2. v.issues = {}
  BY DEF Publishes
<1>3. FilesRead(p) /\ RowsRead(p, s, v.rows) /\ RowsAgree(v.rows)
  BY <1>1, <1>2, PackageRead
<1> HIDE DEF v
<1>4. /\ folder[s].snapshots = << Balances(v.rows) >>
      /\ folder[s].references = << References(v.rows) >>
      /\ folder[s].inventory = IF v.rows.inventory = << >> THEN << >> ELSE << Locations(v.rows) >>
  BY Zenon DEF Publishes, v
<1>5. SnapshotsOf(s) = Balances(v.rows) /\ ReferencesOf(s) = References(v.rows)
  BY <1>4 DEF SnapshotsOf, ReferencesOf
<1>6. InventoryOf(s) = Locations(v.rows)
  <2>1. CASE v.rows.inventory = << >>
    <3>1. Locations(v.rows) = << >>
      BY <2>1 DEF Locations
    <3> QED
      BY <1>4, <2>1, <3>1 DEF InventoryOf
  <2>2. CASE v.rows.inventory # << >>
    BY <1>4, <2>2 DEF InventoryOf
  <2> QED
    BY <2>1, <2>2
<1> QED
  BY <1>1, <1>3, <1>5, <1>6 DEF AcceptedAs, v

LEMMA AcceptedIs ==
  ASSUME FoldersInv, NEW s \in Sources, Accepted(s)
  PROVE  \E rows : AcceptedAs(s, rows)
<1>1. JustSubmitted(s) /\ folder[s].summary # << >> /\ folder[s].summary[1].ready
  BY DEF Accepted
<1>2. PICK d \in Submissions : d[2] = package[s] /\ SubmittedFolder(folder[s], package[s], s)
  BY <1>1, SubmittedBy
<1>3. ~Refused(folder[s]) /\ ~Interrupted(folder[s])
  BY <1>1 DEF Refused, Interrupted
<1>4. package[s].root # "missing" /\ Publishes(folder[s], validate_balance_submission(package[s], s))
  BY <1>2, <1>3 DEF SubmittedFolder
<1> QED
  BY <1>2, <1>4, PublishedIs

LEMMA SummaryHolds ==
  ASSUME FoldersInv
  PROVE  SummaryIsOfFolder
<1> SUFFICES ASSUME NEW s \in Sources, JustSubmitted(s)
             PROVE  LET f == folder[s]
                        ready == f.summary # << >> /\ f.summary[1].ready
                    IN  /\ ready <=> f.snapshots # << >>
                        /\ ready <=> f.references # << >>
                        /\ f.inventory # << >> => ready
                        /\ f.issues # << >> <=> f.summary # << >> /\ f.summary[1].blocked
  BY DEF SummaryIsOfFolder
<1> DEFINE f == folder[s]
<1>1. SubmittedFolder(f, package[s], s)
  BY SubmittedBy
<1> HIDE DEF f
<1>2. CASE Refused(f)
  BY <1>2 DEF Refused, Unpublished, f
<1>3. CASE Interrupted(f)
  BY <1>3 DEF Interrupted, Unpublished, f
<1>4. CASE Publishes(f, validate_balance_submission(package[s], s))
  <2>1. /\ f.snapshots # << >> /\ f.references # << >> /\ f.issues = << >>
        /\ f.summary = << [blocked |-> FALSE, ready |-> TRUE] >>
    BY <1>4 DEF Publishes
  <2> QED
    BY <2>1 DEF f
<1> QED
  BY <1>1, <1>2, <1>3, <1>4 DEF SubmittedFolder

LEMMA ListLength ==
  ASSUME NEW n \in Nat, NEW f, f = [i \in 1 .. n |-> f[i]]
  PROVE  Len(f) = n /\ DOMAIN f = 1 .. n
<1>1. DOMAIN f = 1 .. n
  OBVIOUS
<1> DEFINE S == {f[i] : i \in 1 .. n}
<1>2. \A i \in 1 .. n : f[i] \in S
  OBVIOUS
<1> HIDE DEF S
<1>3. f \in [1 .. n -> S]
  BY <1>2
<1>4. f \in Seq(S)
  BY <1>3
<1> QED
  BY <1>1, <1>4

(* No row of a list whose keys differ is given up.                         *)
Places(f, n) == {f[i] : i \in 1 .. n}
IsList(f, n) == f = [i \in 1 .. n |-> f[i]] /\ Len(f) = n

LEMMA AllKept ==
  ASSUME NEW n \in Nat, NEW items, IsList(items, n), NEW keys, Distinct(keys, n)
  PROVE  LastOfKeys(items, keys) = Places(items, n)
<1> USE DEF IsList, Places
<1>1. {j \in DOMAIN items : \A k \in (j + 1) .. Len(items) : keys[k] # keys[j]} = 1 .. n
  <2>1. ASSUME NEW j \in 1 .. n, NEW k \in (j + 1) .. n PROVE keys[k] # keys[j]
    <3>1. k \in 1 .. n /\ k # j
      BY <2>1
    <3> QED
      BY <3>1 DEF Distinct
  <2>2. DOMAIN items = 1 .. n
    OBVIOUS
  <2> QED
    BY <2>1, <2>2
<1> QED
  BY <1>1 DEF LastOfKeys

(* Where no row is repeated, each balance has a reference and back.        *)
RowsAccepted(b, r, n, m) ==
  /\ DOMAIN b = 1 .. n /\ DOMAIN r = 1 .. m /\ Distinct(b, n) /\ DistinctRows(r, m)
  /\ collect_balance_reference_mismatches(b, r) = {}
RowsMatched(b, r, n, m) ==
  /\ \A i \in 1 .. n : \E j \in 1 .. m : r[j].row = b[i]
  /\ \A j \in 1 .. m : \E i \in 1 .. n : r[j].row = b[i]

LEMMA MatchedRows ==
  ASSUME NEW n \in Nat, NEW m \in Nat, NEW b, NEW r, RowsAccepted(b, r, n, m)
  PROVE  RowsMatched(b, r, n, m)
<1> USE DEF RowsAccepted, RowsMatched
<1> DEFINE of(row) == Cardinality({i \in DOMAIN b : b[i] = row})
           for(row) == Cardinality({i \in DOMAIN r : r[i].row = row})
           Unreferred == {row \in Range_(b) : of(row) = 1 /\ for(row) = 0}
           Orphans == {x.row : x \in {y \in Range_(r) : for(y.row) = 1 /\ of(y.row) = 0}}
<1>0. /\ \A i, j \in 1 .. n : b[i] = b[j] => i = j
      /\ \A i, j \in 1 .. m : r[i].row = r[j].row => i = j
  BY DEF Distinct, DistinctRows
<1>1. /\ \A row \in Unreferred : FALSE
      /\ \A row \in Orphans : FALSE
  <2>1. /\ {Issue("balance_snapshots.csv", 0, "missing_matching_reference") : row \in Unreferred} = {}
        /\ {Issue("balance_references.csv", 0, "orphan_reference") : row \in Orphans} = {}
    BY DEF collect_balance_reference_mismatches
  <2> HIDE DEF Unreferred, Orphans
  <2> QED
    BY <2>1
<1>2. ASSUME NEW i \in 1 .. n, \A j \in 1 .. m : r[j].row # b[i] PROVE FALSE
  <2>1. {k \in DOMAIN b : b[k] = b[i]} = {i} /\ {k \in DOMAIN r : r[k].row = b[i]} = {}
    BY <1>0, <1>2
  <2>2. of(b[i]) = 1 /\ for(b[i]) = 0
    BY <2>1, FS_Singleton, FS_EmptySet
  <2> HIDE DEF of, for
  <2> QED
    BY <1>1, <2>2 DEF Range_
<1>3. ASSUME NEW j \in 1 .. m, \A i \in 1 .. n : r[j].row # b[i] PROVE FALSE
  <2>1. {k \in DOMAIN r : r[k].row = r[j].row} = {j} /\ {k \in DOMAIN b : b[k] = r[j].row} = {}
    BY <1>0, <1>3
  <2>2. for(r[j].row) = 1 /\ of(r[j].row) = 0
    BY <2>1, FS_Singleton, FS_EmptySet
  <2>3. r[j] \in Range_(r)
    BY DEF Range_
  <2> HIDE DEF of, for
  <2> QED
    BY <1>1, <2>2, <2>3
<1> QED
  BY <1>2, <1>3

(* The rows of a package that does not name one target in two spellings.   *)
LEMMA TargetsDiffer ==
  ASSUME NEW s, NEW rows, AcceptedAs(s, rows), ~Respelled(s)
  PROVE  /\ \A i, j \in 1 .. Len(package[s].snapshots.rows) :
            BalanceTarget(BalanceOf(package[s], s, i)) = BalanceTarget(BalanceOf(package[s], s, j))
            => i = j
         /\ \A i, j \in 1 .. Len(package[s].references.rows) :
            BalanceTarget(ReferredBalance(package[s], s, i))
              = BalanceTarget(ReferredBalance(package[s], s, j))
            => i = j
<1> DEFINE p == package[s]
<1>1. /\ DOMAIN p.snapshots.rows = 1 .. Len(p.snapshots.rows)
      /\ DOMAIN p.references.rows = 1 .. Len(p.references.rows)
      /\ read_rows(p.snapshots) = p.snapshots.rows /\ read_rows(p.references) = p.references.rows
  BY DEF AcceptedAs, FilesRead, read_rows
<1> QED
  BY <1>1 DEF Respelled, RespelledRows, BalanceOf, ReferredBalance

(* Balances and references, place by place, of rows that correspond.       *)
Corresponds(n, m, b, r, x, y) ==
  /\ RowsAccepted(b, r, n, m)
  /\ Distinct(x, n) /\ Distinct(y, m)
  /\ \A i, j \in 1 .. m : y[i].target = y[j].target => i = j
  /\ \A i \in 1 .. n : x[i].target = BalanceTarget(b[i]) /\ x[i].quantity = b[i].quantity
  /\ \A i \in 1 .. m : y[i].target = BalanceTarget(r[i].row) /\ y[i].quantity = r[i].row.quantity

Pairs(X, Y, n, m) ==
  /\ Cardinality(X) = n /\ Cardinality(Y) = m
  /\ \A x \in X : Cardinality({y \in Y : y.target = x.target /\ y.quantity = x.quantity}) = 1
  /\ \A y \in Y : \E x \in X : y.target = x.target /\ y.quantity = x.quantity

LEMMA PairedPlaces ==
  ASSUME NEW n \in Nat, NEW m \in Nat, NEW b, NEW r, NEW x, NEW y, Corresponds(n, m, b, r, x, y),
         NEW X, X = Places(x, n), NEW Y, Y = Places(y, m)
  PROVE  Pairs(X, Y, n, m)
<1> USE DEF Places
<1>1. Cardinality(X) = n /\ Cardinality(Y) = m
  <2>1. Distinct(x, n) /\ Distinct(y, m)
    BY DEF Corresponds
  <2>2. Cardinality({x[i] : i \in 1 .. n}) = n
    BY <2>1, PlacesCount
  <2>3. Cardinality({y[i] : i \in 1 .. m}) = m
    BY <2>1, PlacesCount
  <2> QED
    BY <2>2, <2>3
<1>2. /\ \A i \in 1 .. n : \E j \in 1 .. m : r[j].row = b[i]
      /\ \A j \in 1 .. m : \E i \in 1 .. n : r[j].row = b[i]
  <2>1. RowsMatched(b, r, n, m)
    BY MatchedRows DEF Corresponds
  <2> QED
    BY <2>1 DEF RowsMatched
<1>3. /\ \A i, j \in 1 .. m : y[i].target = y[j].target => i = j
      /\ \A i \in 1 .. n : x[i].target = BalanceTarget(b[i]) /\ x[i].quantity = b[i].quantity
      /\ \A i \in 1 .. m : y[i].target = BalanceTarget(r[i].row) /\ y[i].quantity = r[i].row.quantity
  BY DEF Corresponds
<1>4. ASSUME NEW z \in X
      PROVE  Cardinality({q \in Y : q.target = z.target /\ q.quantity = z.quantity}) = 1
  <2>1. PICK i \in 1 .. n : z = x[i]
    OBVIOUS
  <2>2. PICK j \in 1 .. m : r[j].row = b[i]
    BY <1>2
  <2>3. y[j].target = z.target /\ y[j].quantity = z.quantity
    BY <1>3, <2>1, <2>2
  <2>4. {q \in Y : q.target = z.target /\ q.quantity = z.quantity} = {y[j]}
    BY <1>3, <2>3
  <2> QED
    BY <2>4, FS_Singleton
<1>5. ASSUME NEW q \in Y
      PROVE  \E z \in X : q.target = z.target /\ q.quantity = z.quantity
  <2>1. PICK j \in 1 .. m : q = y[j]
    OBVIOUS
  <2>2. PICK i \in 1 .. n : r[j].row = b[i]
    BY <1>2
  <2>3. q.target = x[i].target /\ q.quantity = x[i].quantity
    BY <1>3, <2>1, <2>2
  <2> QED
    BY <2>3
<1> QED
  BY <1>1, <1>4, <1>5 DEF Pairs

LEMMA AcceptedPairs ==
  ASSUME NEW s, NEW rows, AcceptedAs(s, rows), ~Respelled(s)
  PROVE  PackageIsPaired(s)
<1> DEFINE p == package[s]
           n == Len(p.snapshots.rows)
           m == Len(p.references.rows)
           b == [i \in 1 .. n |-> BalanceOf(p, s, i)]
           r == [i \in 1 .. m |-> ReferenceOf(p, s, i)]
           x == [i \in 1 .. n |-> balance_snapshot_from_row(b[i])]
           y == [i \in 1 .. m |-> balance_reference_from_row(r[i])]
<1>1. n \in Nat /\ m \in Nat
  BY DEF AcceptedAs, FilesRead
<1>2. rows.balances = b /\ rows.references = r
  BY DEF AcceptedAs, RowsRead
<1>3. /\ \A i \in 1 .. m : r[i].row = ReferredBalance(p, s, i)
      /\ \A i \in 1 .. n : b[i] = BalanceOf(p, s, i)
  BY DEF AcceptedAs, RowsRead
<1>4. /\ \A i, j \in 1 .. n : BalanceTarget(b[i]) = BalanceTarget(b[j]) => i = j
      /\ \A i, j \in 1 .. m : BalanceTarget(r[i].row) = BalanceTarget(r[j].row) => i = j
  <2> HIDE DEF b, r
  <2> QED
    BY <1>3, TargetsDiffer
<1> DEFINE xkeys == [i \in 1 .. n |-> balance_snapshot_semantic_key(x[i])]
           ykeys == [i \in 1 .. m |-> balance_reference_semantic_key(y[i])]
<1>5. /\ SnapshotsOf(s) = LastOfKeys(x, xkeys)
      /\ ReferencesOf(s) = LastOfKeys(y, ykeys)
  <2>1. SnapshotsOf(s) = Balances(rows) /\ ReferencesOf(s) = References(rows)
    BY DEF AcceptedAs
  <2>2. DOMAIN b = 1 .. n /\ DOMAIN r = 1 .. m
    OBVIOUS
  <2>3. [i \in DOMAIN rows.balances |-> balance_snapshot_from_row(rows.balances[i])] = x
    BY <1>2, <2>2, Zenon
  <2>4. [i \in DOMAIN rows.references |-> balance_reference_from_row(rows.references[i])] = y
    BY <1>2, <2>2, Zenon
  <2> HIDE DEF x, y, b, r
  <2>5. Balances(rows) = merge_balance_snapshots(x) /\ References(rows) = merge_balance_references(y)
    BY <2>3, <2>4 DEF Balances, References
  <2>6. DOMAIN x = 1 .. n /\ DOMAIN y = 1 .. m
    BY DEF x, y
  <2> QED
    BY <2>1, <2>5, <2>6 DEF merge_balance_snapshots, merge_balance_references
<1>6. /\ \A i \in 1 .. n : x[i].target = BalanceTarget(b[i]) /\ x[i].quantity = b[i].quantity
      /\ \A i \in 1 .. m : y[i].target = BalanceTarget(r[i].row) /\ y[i].quantity = r[i].row.quantity
  <2> HIDE DEF b, r
  <2> QED
    BY DEF balance_snapshot_from_row, balance_reference_from_row
<1>7. /\ x = [i \in 1 .. n |-> x[i]] /\ y = [i \in 1 .. m |-> y[i]]
      /\ DOMAIN b = 1 .. n /\ DOMAIN r = 1 .. m
      /\ \A i \in 1 .. n : xkeys[i] = x[i].target
      /\ \A i \in 1 .. m : ykeys[i][1] = y[i].target
  <2> HIDE DEF b, r
  <2>1. /\ x = [i \in 1 .. n |-> x[i]] /\ y = [i \in 1 .. m |-> y[i]]
    OBVIOUS
  <2> HIDE DEF x, y
  <2>2. /\ \A i \in 1 .. n : xkeys[i] = x[i].target
        /\ \A i \in 1 .. m : ykeys[i][1] = y[i].target
    BY DEF balance_snapshot_semantic_key, balance_reference_semantic_key
  <2> QED
    BY <2>1, <2>2 DEF b, r
<1>8. collect_balance_reference_mismatches(b, r) = {}
  <2> HIDE DEF b, r
  <2> QED
    BY <1>2 DEF AcceptedAs, RowsAgree
<1> HIDE DEF n, m, b, r, x, y, xkeys, ykeys
<1>9. /\ \A i, j \in 1 .. n : x[i].target = x[j].target => i = j
      /\ \A i, j \in 1 .. m : y[i].target = y[j].target => i = j
      /\ Distinct(xkeys, n) /\ Distinct(ykeys, m) /\ Distinct(x, n) /\ Distinct(y, m)
      /\ Distinct(b, n) /\ DistinctRows(r, m)
  BY <1>4, <1>6, <1>7 DEF Distinct, DistinctRows
<1>10. Len(x) = n /\ Len(y) = m
  <2>1. Len(x) = n
    BY <1>1, <1>7, ListLength
  <2>2. Len(y) = m
    BY <1>1, <1>7, ListLength
  <2> QED
    BY <2>1, <2>2
<1>11. SnapshotsOf(s) = Places(x, n) /\ ReferencesOf(s) = Places(y, m)
  <2>0. IsList(x, n) /\ IsList(y, m)
    BY <1>7, <1>10 DEF IsList
  <2>1. LastOfKeys(x, xkeys) = Places(x, n)
    BY <1>1, <1>9, <2>0, AllKept
  <2>2. LastOfKeys(y, ykeys) = Places(y, m)
    BY <1>1, <1>9, <2>0, AllKept
  <2> QED
    BY <1>5, <2>1, <2>2
<1>12. Corresponds(n, m, b, r, x, y)
  BY <1>6, <1>7, <1>8, <1>9 DEF Corresponds, RowsAccepted
<1>13. Pairs(SnapshotsOf(s), ReferencesOf(s), n, m)
  BY <1>1, <1>11, <1>12, PairedPlaces, Zenon
<1> QED
  BY <1>13 DEF PackageIsPaired, Pairs, n, m

(* A package submit_balances accepts is published in pairs, one balance    *)
(* and one operator reference of it for each row, unless it names one      *)
(* target in two spellings; and the summary it leaves is true of the       *)
(* folder.                                                                 *)
THEOREM SubmissionsHold == Spec => []SubmissionHolds
<1>1. FoldersInv => SubmissionHolds
  <2> SUFFICES ASSUME FoldersInv PROVE SubmissionHolds
    OBVIOUS
  <2>1. SummaryIsOfFolder
    BY SummaryHolds
  <2>2. AcceptedIsPaired
    BY AcceptedIs, AcceptedPairs DEF AcceptedIsPaired
  <2> QED
    BY <2>1, <2>2 DEF SubmissionHolds
<1> QED
  BY <1>1, FoldersInductive, PTL

-----------------------------------------------------------------------------
(* What the folders hold: lists of locations, and balances of the source.  *)

SnapshotsTyped(s) ==
  /\ IsFiniteSet(SnapshotsOf(s))
  /\ \A x \in SnapshotsOf(s) :
      x.target.source = s /\ x.quantity \in Int /\ x.target.instrument.venue \in Nat
InventoryTyped(s) ==
  /\ InventoryOf(s) \in Seq(Range_(InventoryOf(s)))
  /\ IsFiniteSet(DOMAIN InventoryOf(s))

LEMMA ListDomain ==
  ASSUME NEW S, NEW f \in Seq(S)
  PROVE  IsFiniteSet(DOMAIN f)
<1>1. DOMAIN f = 1 .. Len(f) /\ 1 \in Int /\ Len(f) \in Int
  OBVIOUS
<1> QED
  BY <1>1, FS_Interval

LEMMA MergedTyped ==
  ASSUME NEW d \in Assemblies
  PROVE  /\ MergedInventory(d[2]) \in Seq(Range_(MergedInventory(d[2])))
         /\ IsFiniteSet(DOMAIN MergedInventory(d[2]))
<1> DEFINE captures == d[2]
           of(c) == {[r EXCEPT !.capture = c] : r \in captures[c].inventory}
           rows == UNION {of(c) : c \in DOMAIN captures}
           key == [r \in rows |-> 2 * r.capture + KindRank(r.kind)]
<1>1. captures \in Seq(Range_(captures)) /\ DOMAIN captures \subseteq Nat
  <2>1. captures \in Seq(Range_(captures))
    BY CapturesAssumption
  <2> QED
    BY <2>1
<1>2. ASSUME NEW c \in DOMAIN captures
      PROVE  /\ IsFiniteSet(captures[c].inventory)
             /\ \A r \in captures[c].inventory : "capture" \in DOMAIN r
  <2>1. captures[c] \in Range_(d[2])
    BY DEF Range_
  <2> QED
    BY <2>1, CapturesAssumption, Zenon
<1>3. \A c \in DOMAIN captures : IsFiniteSet(of(c))
  <2> SUFFICES ASSUME NEW c \in DOMAIN captures PROVE IsFiniteSet(of(c))
    OBVIOUS
  <2> DEFINE I == captures[c].inventory
             f == [r \in I |-> [r EXCEPT !.capture = c]]
  <2>1. IsFiniteSet(I)
    BY <1>2
  <2> HIDE DEF I
  <2>2. of(c) = {f[r] : r \in I}
    BY DEF I
  <2> HIDE DEF f, of
  <2> QED
    BY <2>1, <2>2, ImageIsFinite
<1>4. IsFiniteSet(rows)
  <2> DEFINE p == [c \in DOMAIN captures |-> of(c)]
  <2>1. IsFiniteSet(DOMAIN captures)
    BY <1>1, ListDomain
  <2> HIDE DEF of, captures
  <2>2. {of(c) : c \in DOMAIN captures} = {p[c] : c \in DOMAIN captures}
    OBVIOUS
  <2> HIDE DEF p
  <2>3. IsFiniteSet({of(c) : c \in DOMAIN captures})
    BY <2>1, <2>2, ImageIsFinite
  <2> QED
    BY <1>3, <2>3, FS_UNION
<1>5. \A r \in rows : key[r] \in Nat
  <2> SUFFICES ASSUME NEW r \in rows PROVE key[r] \in Nat
    OBVIOUS
  <2>1. PICK c \in DOMAIN captures : r \in of(c)
    OBVIOUS
  <2>2. PICK q \in captures[c].inventory : r = [q EXCEPT !.capture = c]
    BY <2>1
  <2>3. r.capture = c /\ c \in Nat
    BY <1>1, <1>2, <2>2
  <2>4. key[r] = 2 * r.capture + KindRank(r.kind)
    OBVIOUS
  <2>5. KindRank(r.kind) \in Nat
    BY DEF KindRank
  <2> QED
    BY <2>3, <2>4, <2>5
<1>6. MergedInventory(captures) = Sorted(rows, key)
  BY Zenon DEF MergedInventory
<1> HIDE DEF rows, key
<1>7. Sorted(rows, key) \in Seq(rows) /\ Range_(Sorted(rows, key)) = rows
      /\ IsFiniteSet(DOMAIN Sorted(rows, key))
  BY <1>4, <1>5, SortedLists
<1> QED
  BY <1>6, <1>7

LEMMA AcceptedTyped ==
  ASSUME NEW s, NEW rows, AcceptedAs(s, rows)
  PROVE  InventoryTyped(s) /\ SnapshotsTyped(s)
<1> DEFINE p == package[s]
           n == Len(p.snapshots.rows)
<1>1. InventoryTyped(s)
  <2> DEFINE l == read_rows(p.inventory)
             k == [i \in DOMAIN l |-> location_inventory_record_from_row(l[i])]
  <2>1. InventoryOf(s) = k
    BY DEF AcceptedAs, RowsRead, Locations
  <2>2. l \in Seq(Range_(l))
    BY DEF AcceptedAs, FilesRead
  <2> HIDE DEF l
  <2>3. DOMAIN l = 1 .. Len(l) /\ Len(l) \in Nat
    BY <2>2
  <2>4. DOMAIN k = 1 .. Len(l)
    BY <2>3
  <2>5. \A i \in DOMAIN k : k[i] \in Range_(k)
    BY DEF Range_
  <2> DEFINE S == Range_(k)
  <2>6. k = [i \in 1 .. Len(l) |-> k[i]]
    BY <2>3
  <2> HIDE DEF k, S
  <2>7. \A i \in 1 .. Len(l) : k[i] \in S
    BY <2>4, <2>5 DEF S
  <2>8. k \in [1 .. Len(l) -> S]
    BY <2>6, <2>7
  <2>9. k \in Seq(S)
    BY <2>3, <2>8
  <2> QED
    BY <2>1, <2>9, ListDomain DEF InventoryTyped, S
<1>2. IsFiniteSet(SnapshotsOf(s))
  <2> DEFINE y == [i \in DOMAIN rows.balances |-> balance_snapshot_from_row(rows.balances[i])]
             S == {y[i] : i \in 1 .. n}
  <2>1. SnapshotsOf(s) = merge_balance_snapshots(y) /\ DOMAIN y = 1 .. n /\ n \in Nat
    BY DEF AcceptedAs, RowsRead, Balances, FilesRead
  <2> HIDE DEF y
  <2>2. IsFiniteSet(1 .. n)
    BY <2>1, FS_Interval
  <2>3. IsFiniteSet(S)
    BY <2>2, ImageIsFinite
  <2>4. SnapshotsOf(s) \subseteq S
    BY <2>1 DEF merge_balance_snapshots, LastOfKeys
  <2> QED
    BY <2>3, <2>4, FS_Subset
<1>3. ASSUME NEW x \in SnapshotsOf(s)
      PROVE  x.target.source = s /\ x.quantity \in Int /\ x.target.instrument.venue \in Nat
  <2>1. PICK i \in 1 .. n : x = balance_snapshot_from_row(BalanceOf(p, s, i))
    <3> DEFINE b == [i \in 1 .. n |-> BalanceOf(p, s, i)]
               y == [i \in 1 .. n |-> balance_snapshot_from_row(b[i])]
    <3>1. rows.balances = b /\ SnapshotsOf(s) = Balances(rows) /\ DOMAIN b = 1 .. n
      BY DEF AcceptedAs, RowsRead
    <3>2. \A i \in 1 .. n : b[i] = BalanceOf(p, s, i)
      OBVIOUS
    <3> HIDE DEF b
    <3>3. Balances(rows) = merge_balance_snapshots(y)
      BY <3>1 DEF Balances
    <3>4. DOMAIN y = 1 .. n /\ \A i \in 1 .. n : y[i] = balance_snapshot_from_row(b[i])
      OBVIOUS
    <3> HIDE DEF y
    <3>5. \E i \in 1 .. n : x = y[i]
      BY <3>1, <3>3, <3>4 DEF merge_balance_snapshots, LastOfKeys
    <3> QED
      BY <3>2, <3>4, <3>5
  <2> DEFINE z == BalanceOf(p, s, i)
             r == p.snapshots.rows[i]
  <2>2. /\ z.source = s /\ z.instrument = r.instrument /\ r.instrument # "" /\ r.quantity # ""
        /\ Decimals[r.quantity] # << >> /\ z.quantity = Decimals[r.quantity][1]
    BY DEF AcceptedAs, RowsRead, RowRead
  <2>3. r \in Range_(p.snapshots.rows)
    BY DEF AcceptedAs, FilesRead, Range_
  <2>4. r.instrument \in DOMAIN Symbol /\ r.quantity \in DOMAIN Decimals
    BY <2>2, <2>3 DEF AcceptedAs, IsPackage, FilesRead
  <2>5. Symbol[r.instrument].venue \in Nat /\ Decimals[r.quantity] \in Seq(Int)
    BY <2>4, ValuesAssumption
  <2>6. Decimals[r.quantity][1] \in Int
    <3> DEFINE q == Decimals[r.quantity]
    <3>1. q \in Seq(Int) /\ q # << >>
      BY <2>2, <2>5
    <3> HIDE DEF q
    <3>2. q[1] \in Int
      BY <3>1
    <3> QED
      BY <3>2 DEF q
  <2> HIDE DEF z, r
  <2>7. /\ x.target.source = z.source /\ x.quantity = z.quantity
        /\ x.target.instrument = Symbol[z.instrument]
    BY <2>1 DEF balance_snapshot_from_row, BalanceTarget, z
  <2> QED
    BY <2>2, <2>5, <2>6, <2>7
<1> QED
  BY <1>1, <1>2, <1>3 DEF SnapshotsTyped

LEMMA FoldersTyped ==
  ASSUME FoldersInv, NEW s \in Sources
  PROVE  InventoryTyped(s) /\ SnapshotsTyped(s)
<1> DEFINE Nothing == SnapshotsOf(s) = {} /\ InventoryOf(s) = << >>
<1>1. FolderIs(s)
  BY DEF FoldersInv
<1>2. ASSUME Nothing PROVE InventoryTyped(s) /\ SnapshotsTyped(s)
  <2>1. << >> \in Seq(Range_(<< >>))
    OBVIOUS
  <2> QED
    BY <1>2, <2>1, ListDomain, FS_EmptySet DEF InventoryTyped, SnapshotsTyped
<1>3. CASE folder[s] = EmptyFolder
  <2>1. Nothing
    BY <1>3 DEF EmptyFolder, SnapshotsOf, InventoryOf
  <2> QED
    BY <1>2, <2>1
<1>4. ASSUME NEW d \in Submissions, d[2] = package[s], SubmittedFolder(folder[s], package[s], s)
      PROVE  InventoryTyped(s) /\ SnapshotsTyped(s)
  <2>1. CASE Unpublished(folder[s])
    <3>1. Nothing
      BY <2>1 DEF Unpublished, SnapshotsOf, InventoryOf
    <3> QED
      BY <1>2, <3>1
  <2>2. CASE package[s].root # "missing" /\ Publishes(folder[s], validate_balance_submission(package[s], s))
    <3>1. AcceptedAs(s, validate_balance_submission(package[s], s).rows)
      BY <1>4, <2>2, PublishedIs
    <3> QED
      BY <3>1, AcceptedTyped
  <2> QED
    BY <1>4, <2>1, <2>2 DEF SubmittedFolder, Refused, Interrupted
<1>5. ASSUME NEW d \in Assemblies, d[1] = s, AssembledFolder(folder[s], d[2])
      PROVE  InventoryTyped(s) /\ SnapshotsTyped(s)
  <2>1. /\ InventoryOf(s) = MergedInventory(d[2])
        /\ SnapshotsOf(s) = UNION {d[2][c].snapshots : c \in DOMAIN d[2]}
    BY <1>5 DEF AssembledFolder, InventoryOf, SnapshotsOf, merge_balance_snapshot_rows
  <2>2. ASSUME NEW x \in SnapshotsOf(s)
        PROVE  x.target.source = s /\ x.quantity \in Int /\ x.target.instrument.venue \in Nat
    <3>1. PICK c \in DOMAIN d[2] : x \in d[2][c].snapshots
      BY <2>1
    <3>2. d[2][c] \in Range_(d[2])
      BY DEF Range_
    <3> QED
      BY <1>5, <3>1, <3>2, CapturesAssumption, Zenon
  <2>3. InventoryTyped(s)
    BY <2>1, MergedTyped DEF InventoryTyped
  <2>4. IsFiniteSet(SnapshotsOf(s))
    <3> DEFINE p == [c \in DOMAIN d[2] |-> d[2][c].snapshots]
    <3>1. d[2] \in Seq(Range_(d[2])) /\ \A c \in DOMAIN d[2] : IsFiniteSet(d[2][c].snapshots)
      BY CapturesAssumption, Zenon DEF Range_
    <3>2. SnapshotsOf(s) = UNION {p[c] : c \in DOMAIN d[2]}
      BY <2>1
    <3>3. IsFiniteSet(DOMAIN d[2])
      BY <3>1, ListDomain
    <3>4. \A c \in DOMAIN d[2] : IsFiniteSet(p[c])
      BY <3>1
    <3> HIDE DEF p
    <3>5. IsFiniteSet({p[c] : c \in DOMAIN d[2]})
      BY <3>3, ImageIsFinite
    <3> QED
      BY <3>2, <3>4, <3>5, FS_UNION
  <2> QED
    BY <2>2, <2>3, <2>4 DEF SnapshotsTyped
<1> QED
  BY <1>1, <1>3, <1>4, <1>5 DEF FolderIs

-----------------------------------------------------------------------------
(* Corroboration: the assertions, and the balances they are about.         *)

HighPlaces(g, s) ==
  {i \in DOMAIN InventoryOf(s) : Identity(InventoryOf(s)[i]) = g /\ HighConfidence(InventoryOf(s)[i])}

LEMMA HighConfidencePlaces ==
  ASSUME NEW s \in Sources, NEW g
  PROVE  /\ high_confidence_rows(g, s) = HighPlaces(g, s)
         /\ InventoryTyped(s) => IsFiniteSet(HighPlaces(g, s))
<1>1. high_confidence_rows(g, s) = HighPlaces(g, s)
  BY DEF high_confidence_rows, group_by_source, HighPlaces
<1>2. HighPlaces(g, s) \in SUBSET DOMAIN InventoryOf(s)
  BY DEF HighPlaces
<1> QED
  BY <1>1, <1>2, FS_Subset DEF InventoryTyped

(* A source is eligible for an identity where it surely holds it.          *)
LEMMA EligibleHolds ==
  ASSUME NEW s \in Sources, NEW g, InventoryTyped(s)
  PROVE  /\ \A l : Holds(s, g, l) => s \in eligible_identities(g) /\ EligibleLocation(g, s) = l
         /\ s \in eligible_identities(g) => Holds(s, g, EligibleLocation(g, s))
<1>1. /\ high_confidence_rows(g, s) = HighPlaces(g, s)
      /\ IsFiniteSet(HighPlaces(g, s))
  BY HighConfidencePlaces
<1>2. \A l : Holds(s, g, l) <=>
        \E i \in DOMAIN InventoryOf(s) : HighPlaces(g, s) = {i} /\ InventoryOf(s)[i].location = l
  BY DEF Holds, HighPlaces
<1>3. ASSUME NEW l, Holds(s, g, l)
      PROVE  s \in eligible_identities(g) /\ EligibleLocation(g, s) = l
  <2>1. PICK i \in DOMAIN InventoryOf(s) : HighPlaces(g, s) = {i} /\ InventoryOf(s)[i].location = l
    BY <1>2, <1>3
  <2>2. Cardinality(high_confidence_rows(g, s)) = 1
    BY <1>1, <2>1, FS_Singleton
  <2>3. (CHOOSE j \in high_confidence_rows(g, s) : TRUE) = i
    BY <1>1, <2>1
  <2> QED
    BY <2>1, <2>2, <2>3 DEF eligible_identities, EligibleLocation
<1>4. ASSUME s \in eligible_identities(g) PROVE Holds(s, g, EligibleLocation(g, s))
  <2>1. Cardinality(HighPlaces(g, s)) = 1
    BY <1>1, <1>4 DEF eligible_identities
  <2>2. PICK i : HighPlaces(g, s) = {i}
    BY <1>1, <2>1, OneElement
  <2>3. i \in DOMAIN InventoryOf(s)
    BY <2>2 DEF HighPlaces
  <2>4. (CHOOSE j \in high_confidence_rows(g, s) : TRUE) = i
    BY <1>1, <2>2
  <2> QED
    BY <1>2, <2>2, <2>3, <2>4 DEF EligibleLocation
<1> QED
  BY <1>3, <1>4

(* Of several balances with one key, the one that is kept is one of them.  *)
LEMMA KeptIsOne ==
  ASSUME NEW rows, IsFiniteSet(rows),
         \A x \in rows : x.quantity \in Int /\ x.target.instrument.venue \in Nat,
         NEW k \in DOMAIN index_join_rows(rows)
  PROVE  index_join_rows(rows)[k].kept \in rows /\ JoinKey(index_join_rows(rows)[k].kept) = k
<1> DEFINE same == {x \in rows : JoinKey(x) = k}
           kept == CHOOSE x \in same : \A y \in same : Before(x, y)
           venues == {x.target.instrument.venue : x \in same}
<1>1. k \in {JoinKey(x) : x \in rows}
  BY DEF index_join_rows
<1>2. same # {} /\ \A x \in same : x.quantity \in Int /\ x.target.instrument.venue \in Nat
  BY <1>1
<1>3. index_join_rows(rows)[k] = [kept |-> kept, dropped |-> Cardinality(same) - 1]
  BY <1>1, Zenon DEF index_join_rows
<1>4. \A x \in same : x \in rows /\ JoinKey(x) = k
  OBVIOUS
<1>10. IsFiniteSet(same)
  <2>1. same \subseteq rows
    OBVIOUS
  <2> HIDE DEF same
  <2> QED
    BY <2>1, FS_Subset
<1> HIDE DEF same
<1>5. PICK v \in venues : \A w \in venues : v <= w
  <2>1. venues \in SUBSET Nat /\ venues # {}
    BY <1>2
  <2> HIDE DEF venues
  <2> QED
    BY <2>1, LeastNatural
<1> DEFINE cheapest == {x.quantity : x \in {y \in same : y.target.instrument.venue = v}}
<1>6. PICK q \in cheapest : \A w \in cheapest : q <= w
  <2>1. cheapest \in SUBSET Int /\ cheapest # {}
    BY <1>2, <1>5
  <2> DEFINE T == {y \in same : y.target.instrument.venue = v}
             f == [x \in T |-> x.quantity]
  <2>2. IsFiniteSet(T)
    BY <1>10, FS_Subset
  <2>3. cheapest = {f[x] : x \in T}
    OBVIOUS
  <2> HIDE DEF cheapest, T, f
  <2>4. IsFiniteSet(cheapest)
    BY <2>2, <2>3, ImageIsFinite
  <2> QED
    BY <2>1, <2>4, LeastInteger
<1>7. PICK x \in same : x.target.instrument.venue = v /\ x.quantity = q
  BY <1>6
<1>8. ASSUME NEW y \in same PROVE Before(x, y)
  <2>1. v <= y.target.instrument.venue /\ y.target.instrument.venue \in Nat /\ v \in Nat
    BY <1>2, <1>5, <1>7
  <2>2. y.target.instrument.venue = v => q <= y.quantity
    BY <1>6
  <2> QED
    BY <1>7, <2>1, <2>2 DEF Before
<1>9. kept \in same
  BY <1>8
<1> HIDE DEF kept
<1> QED
  BY <1>3, <1>4, <1>9

JoinKeys(g, s) == {JoinKey(x) : x \in balances_for_identity(g, s)}
KeptFor(g, s, k) == Kept(JoinRows(g, s), k)

LEMMA KeptForKey ==
  ASSUME NEW g, NEW s, SnapshotsTyped(s), NEW k
  PROVE  /\ k \notin JoinKeys(g, s) => KeptFor(g, s, k) = << >>
         /\ k \in JoinKeys(g, s) => \E x \in balances_for_identity(g, s) :
                                      KeptFor(g, s, k) = << x >> /\ JoinKey(x) = k
<1> DEFINE rows == balances_for_identity(g, s)
<1>1. DOMAIN index_join_rows(rows) = JoinKeys(g, s)
  BY DEF index_join_rows, JoinKeys
<1>2. KeptFor(g, s, k) =
        IF k \in JoinKeys(g, s) THEN << index_join_rows(rows)[k].kept >> ELSE << >>
  BY <1>1, Zenon DEF KeptFor, Kept, JoinRows
<1>3. IsFiniteSet(rows) /\ \A x \in rows : x.quantity \in Int /\ x.target.instrument.venue \in Nat
  BY FS_Subset DEF balances_for_identity, SnapshotsTyped
<1> HIDE DEF rows
<1>4. CASE k \in JoinKeys(g, s)
  <2>1. index_join_rows(rows)[k].kept \in rows /\ JoinKey(index_join_rows(rows)[k].kept) = k
    BY <1>1, <1>3, <1>4, KeptIsOne
  <2> QED
    BY <1>2, <1>4, <2>1 DEF rows
<1>5. CASE k \notin JoinKeys(g, s)
  BY <1>2, <1>5
<1> QED
  BY <1>4, <1>5

Asserted(g, s, t, k) == build_assertion(g, s, t, k, KeptFor(g, s, k), KeptFor(g, t, k))

(* Two sources that hold an identity are compared, key by key.             *)
Compared(g, s, t, k) ==
  /\ g \in IdentityGroups
  /\ s \in eligible_identities(g) /\ t \in eligible_identities(g) /\ Rank[s] < Rank[t]
  /\ k \in JoinKeys(g, s) \cup JoinKeys(g, t)

LEMMA TwoAreComparable ==
  ASSUME NEW g, NEW s \in eligible_identities(g), NEW t \in eligible_identities(g), s # t
  PROVE  Comparable(g)
<1> DEFINE E == eligible_identities(g)
<1>1. IsFiniteSet(E)
  BY SourcesAssumption, FS_Subset DEF eligible_identities
<1>2. IsFiniteSet({s}) /\ Cardinality({s}) = 1
  BY FS_Singleton
<1>3. Cardinality({s} \cup {t}) = 2
  BY <1>2, FS_AddElement
<1>4. Cardinality({s} \cup {t}) <= Cardinality(E)
  <2>1. {s} \cup {t} \in SUBSET E
    OBVIOUS
  <2> HIDE DEF E
  <2> QED
    BY <1>1, <2>1, FS_Subset
<1>5. Cardinality(E) \in Nat
  BY <1>1, FS_CardinalityType
<1> QED
  BY <1>3, <1>4, <1>5 DEF Comparable

LEMMA PairAssertionsAre ==
  ASSUME NEW g, NEW s, NEW t, NEW a
  PROVE  a \in PairAssertions(g, s, t)
           <=> \E k \in JoinKeys(g, s) \cup JoinKeys(g, t) : a = Asserted(g, s, t, k)
<1>1. DOMAIN JoinRows(g, s) = JoinKeys(g, s) /\ DOMAIN JoinRows(g, t) = JoinKeys(g, t)
  BY DEF JoinRows, index_join_rows, JoinKeys
<1>2. PairAssertions(g, s, t) =
        {Asserted(g, s, t, k) : k \in DOMAIN JoinRows(g, s) \cup DOMAIN JoinRows(g, t)}
  BY Zenon DEF PairAssertions, Asserted, KeptFor
<1> QED
  BY <1>1, <1>2

LEMMA AssertionsAre ==
  ASSUME NEW a
  PROVE  a \in build_cross_source_corroboration.assertions
           <=> \E g, s, t, k : Compared(g, s, t, k) /\ a = Asserted(g, s, t, k)
<1> DEFINE groups == {g \in IdentityGroups : Comparable(g)}
           pairs(g) == {e \in eligible_identities(g) \X eligible_identities(g) : Rank[e[1]] < Rank[e[2]]}
<1>1. build_cross_source_corroboration.assertions =
        UNION {UNION {PairAssertions(g, d[1], d[2]) : d \in pairs(g)} : g \in groups}
  BY Zenon DEF build_cross_source_corroboration
<1>2. ASSUME a \in build_cross_source_corroboration.assertions
      PROVE  \E g, s, t, k : Compared(g, s, t, k) /\ a = Asserted(g, s, t, k)
  <2>1. PICK g \in groups : a \in UNION {PairAssertions(g, d[1], d[2]) : d \in pairs(g)}
    BY <1>1, <1>2
  <2>2. PICK d \in pairs(g) : a \in PairAssertions(g, d[1], d[2])
    BY <2>1
  <2>3. PICK k \in JoinKeys(g, d[1]) \cup JoinKeys(g, d[2]) : a = Asserted(g, d[1], d[2], k)
    BY <2>2, PairAssertionsAre
  <2>4. Compared(g, d[1], d[2], k)
    BY <2>1, <2>2, <2>3 DEF Compared
  <2> QED
    BY <2>3, <2>4
<1>3. ASSUME NEW g, NEW s, NEW t, NEW k, Compared(g, s, t, k), a = Asserted(g, s, t, k)
      PROVE  a \in build_cross_source_corroboration.assertions
  <2>1. s # t
    <3>1. s \in Sources /\ t \in Sources
      BY <1>3 DEF Compared, eligible_identities
    <3>2. Rank[s] \in Nat /\ Rank[s] < Rank[t]
      BY <1>3, <3>1, SourcesAssumption DEF Compared
    <3> QED
      BY <3>2
  <2>2. g \in groups
    BY <1>3, <2>1, TwoAreComparable DEF Compared
  <2>3. << s, t >> \in pairs(g) /\ << s, t >>[1] = s /\ << s, t >>[2] = t
    BY <1>3 DEF Compared
  <2>4. a \in PairAssertions(g, s, t)
    BY <1>3, PairAssertionsAre DEF Compared
  <2> HIDE DEF groups, pairs
  <2>5. a \in UNION {PairAssertions(g, d[1], d[2]) : d \in pairs(g)}
    BY <2>3, <2>4
  <2> QED
    BY <1>1, <2>2, <2>5
<1> QED
  BY <1>2, <1>3

LEMMA IssuesAre ==
  ASSUME NEW g \in IdentityGroups, NEW i \in IdentityIssues(g)
  PROVE  i \in build_cross_source_corroboration.issues
BY DEF build_cross_source_corroboration

(* An assertion says matched of two equal balances only.                   *)
LEMMA MatchedSays ==
  ASSUME NEW g, NEW s, NEW t, NEW k, SnapshotsTyped(s), SnapshotsTyped(t),
         Asserted(g, s, t, k).status = "matched"
  PROVE  \E x \in balances_for_identity(g, s), y \in balances_for_identity(g, t) :
            JoinKey(x) = k /\ JoinKey(y) = k /\ x.quantity = y.quantity
<1>1. assertion_status(KeptFor(g, s, k), KeptFor(g, t, k)) = "matched"
  BY DEF Asserted, build_assertion
<1>2. KeptFor(g, s, k) # << >> /\ KeptFor(g, t, k) # << >>
      /\ KeptFor(g, s, k)[1].quantity = KeptFor(g, t, k)[1].quantity
  BY <1>1 DEF assertion_status
<1>3. PICK x \in balances_for_identity(g, s) : KeptFor(g, s, k) = << x >> /\ JoinKey(x) = k
  BY <1>2, KeptForKey
<1>4. PICK y \in balances_for_identity(g, t) : KeptFor(g, t, k) = << y >> /\ JoinKey(y) = k
  BY <1>2, KeptForKey
<1> QED
  BY <1>2, <1>3, <1>4

LEMMA SameKey ==
  ASSUME NEW x, NEW y
  PROVE  JoinKey(x) = JoinKey(y) <=> SameBalance(x, y)
BY DEF JoinKey, SameBalance, normalize_instrument_id

(* The only balance of a source for a key is the one that is kept.         *)
LEMMA OnlyOneIsKept ==
  ASSUME NEW g, NEW s, SnapshotsTyped(s), NEW x \in SnapshotsOf(s), OnlyOne(s, x),
         x.target.location = EligibleLocation(g, s)
  PROVE  JoinKey(x) \in JoinKeys(g, s) /\ KeptFor(g, s, JoinKey(x)) = << x >>
<1>1. x \in balances_for_identity(g, s) /\ JoinKey(x) \in JoinKeys(g, s)
  BY DEF balances_for_identity, JoinKeys
<1>2. PICK y \in balances_for_identity(g, s) :
        KeptFor(g, s, JoinKey(x)) = << y >> /\ JoinKey(y) = JoinKey(x)
  BY <1>1, KeptForKey
<1>3. y \in SnapshotsOf(s) /\ y.target.location = x.target.location /\ SameBalance(x, y)
  BY <1>2, SameKey DEF balances_for_identity
<1>4. y = x
  BY <1>3 DEF OnlyOne
<1> QED
  BY <1>1, <1>2, <1>4

LEMMA CorroborationAgreesWith ==
  ASSUME FoldersInv, last = << "check" >>
  PROVE  CorroborationAgrees
<1> DEFINE A == build_cross_source_corroboration.assertions
<1>1. sidecars.result.assertions = A
  BY DEF FoldersInv
<1>2. \A s \in Sources : InventoryTyped(s) /\ SnapshotsTyped(s)
  BY FoldersTyped
<1>3. \A a : a \in A <=> \E g, s, t, k : Compared(g, s, t, k) /\ a = Asserted(g, s, t, k)
  BY AssertionsAre
<1>4. ASSUME NEW g, NEW s, NEW t, NEW k
      PROVE  LET a == Asserted(g, s, t, k)
             IN  /\ a.left = s /\ a.right = t /\ a.group = g /\ a.key = k
                 /\ a.status = assertion_status(KeptFor(g, s, k), KeptFor(g, t, k))
  BY DEF Asserted, build_assertion
<1> HIDE DEF A
<1>5. ASSUME NEW s \in Sources, NEW t \in Sources, NEW g \in IdentityGroups,
             NEW x \in SnapshotsOf(s), NEW y \in SnapshotsOf(t),
             Rank[s] < Rank[t], SameBalance(x, y),
             Holds(s, g, x.target.location), Holds(t, g, y.target.location),
             OnlyOne(s, x), OnlyOne(t, y)
      PROVE  {a.status : a \in {b \in A : b.left = s /\ b.right = t /\ b.group = g /\ b.key = JoinKey(x)}}
               = {IF x.quantity = y.quantity THEN "matched" ELSE "drift"}
  <2> DEFINE k == JoinKey(x)
             found == {b \in A : b.left = s /\ b.right = t /\ b.group = g /\ b.key = k}
             said == IF x.quantity = y.quantity THEN "matched" ELSE "drift"
  <2>1. /\ s \in eligible_identities(g) /\ EligibleLocation(g, s) = x.target.location
        /\ t \in eligible_identities(g) /\ EligibleLocation(g, t) = y.target.location
    BY <1>2, <1>5, EligibleHolds
  <2>2. k \in JoinKeys(g, s) /\ KeptFor(g, s, k) = << x >>
    BY <1>2, <1>5, <2>1, OnlyOneIsKept
  <2>3. k = JoinKey(y)
    BY <1>5, SameKey
  <2>4. KeptFor(g, t, k) = << y >>
    BY <1>2, <1>5, <2>1, <2>3, OnlyOneIsKept
  <2> HIDE DEF k
  <2>5. Compared(g, s, t, k)
    BY <1>5, <2>1, <2>2 DEF Compared
  <2>6. Asserted(g, s, t, k) \in found
    BY <1>3, <1>4, <2>5
  <2>7. Asserted(g, s, t, k).status = said
    <3>1. Asserted(g, s, t, k).status = assertion_status(<< x >>, << y >>)
      BY <1>4, <2>2, <2>4
    <3>2. << x >> # << >> /\ << y >> # << >> /\ << x >>[1] = x /\ << y >>[1] = y
      OBVIOUS
    <3> QED
      BY <3>1, <3>2 DEF assertion_status
  <2>8. \A b \in found : b = Asserted(g, s, t, k)
    BY <1>3, <1>4
  <2> HIDE DEF found, said
  <2>9. {a.status : a \in found} = {said}
    BY <2>6, <2>7, <2>8
  <2> QED
    BY <2>9 DEF found, said, k
<1>6. ASSUME NEW a \in A, a.status = "matched"
      PROVE  \E x \in SnapshotsOf(a.left), y \in SnapshotsOf(a.right) :
                /\ SameBalance(x, y) /\ x.quantity = y.quantity
                /\ Holds(a.left, a.group, x.target.location)
                /\ Holds(a.right, a.group, y.target.location)
  <2>1. PICK g, s, t, k : Compared(g, s, t, k) /\ a = Asserted(g, s, t, k)
    BY <1>3
  <2>2. a.left = s /\ a.right = t /\ a.group = g /\ Asserted(g, s, t, k).status = "matched"
    BY <1>4, <1>6, <2>1
  <2>3. /\ s \in Sources /\ t \in Sources
        /\ s \in eligible_identities(g) /\ t \in eligible_identities(g)
    BY <2>1 DEF Compared, eligible_identities
  <2>4. PICK x \in balances_for_identity(g, s), y \in balances_for_identity(g, t) :
            JoinKey(x) = k /\ JoinKey(y) = k /\ x.quantity = y.quantity
    BY <1>2, <2>2, <2>3, MatchedSays
  <2>5. /\ x \in SnapshotsOf(s) /\ x.target.location = EligibleLocation(g, s)
        /\ y \in SnapshotsOf(t) /\ y.target.location = EligibleLocation(g, t)
    BY DEF balances_for_identity
  <2>6. Holds(s, g, x.target.location) /\ Holds(t, g, y.target.location)
    BY <1>2, <2>3, <2>5, EligibleHolds
  <2>7. SameBalance(x, y)
    BY <2>4, SameKey
  <2> QED
    BY <2>2, <2>4, <2>5, <2>6, <2>7
<1> QED
  BY <1>1, <1>5, <1>6 DEF CorroborationAgrees

(* A source that names an identity is eligible, or an issue says why not.  *)
LEMMA EligibleOrReported ==
  ASSUME NEW s \in Sources, NEW g, InventoryTyped(s),
         NEW i \in DOMAIN InventoryOf(s), Identity(InventoryOf(s)[i]) = g
  PROVE  s \in eligible_identities(g) \/ \E e \in IdentityIssues(g) : e.group = g /\ e.source = s
<1>1. group_by_source(g)[s] # {} /\ high_confidence_rows(g, s) = HighPlaces(g, s)
      /\ IsFiniteSet(HighPlaces(g, s))
  BY HighConfidencePlaces DEF group_by_source
<1>2. Cardinality(HighPlaces(g, s)) \in Nat
  BY <1>1, FS_CardinalityType
<1>3. ASSUME NEW kind, CrossSourceIssue(s, g, kind, 0) \in IdentityIssues(g)
      PROVE  \E e \in IdentityIssues(g) : e.group = g /\ e.source = s
  BY <1>3 DEF CrossSourceIssue
<1>4. CASE Cardinality(HighPlaces(g, s)) = 0
  <2>1. HighPlaces(g, s) = {}
    BY <1>1, <1>4, FS_EmptySet
  <2>2. LowConfidence(g, s)
    BY <1>1, <2>1 DEF LowConfidence
  <2>3. CrossSourceIssue(s, g, "cross_source_low_confidence_identity", 0) \in IdentityIssues(g)
    BY <2>2 DEF IdentityIssues
  <2> QED
    BY <1>3, <2>3
<1>5. CASE Cardinality(HighPlaces(g, s)) = 1
  BY <1>1, <1>5 DEF eligible_identities
<1>6. CASE Cardinality(HighPlaces(g, s)) > 1
  <2>1. AmbiguousIdentity(g, s)
    BY <1>1, <1>6 DEF AmbiguousIdentity
  <2>2. CrossSourceIssue(s, g, "cross_source_ambiguous_identity", 0) \in IdentityIssues(g)
    BY <2>1 DEF IdentityIssues
  <2> QED
    BY <1>3, <2>2
<1> QED
  BY <1>2, <1>4, <1>5, <1>6

LEMMA NothingSkipped ==
  ASSUME FoldersInv, last = << "check" >>
  PROVE  NothingSkippedSilently
<1> SUFFICES ASSUME NEW s \in Sources, NEW t \in Sources, NEW g \in IdentityGroups,
                    NEW x \in SnapshotsOf(s), s # t,
                    NEW q \in Range_(InventoryOf(s)), Identity(q) = g, HighConfidence(q),
                    q.location = x.target.location,
                    NEW r \in Range_(InventoryOf(t)), Identity(r) = g
             PROVE  \/ \E a \in sidecars.result.assertions :
                          a.group = g /\ {a.left, a.right} = {s, t} /\ a.key = JoinKey(x)
                    \/ \E i \in sidecars.result.issues : i.group = g /\ i.source \in {s, t}
  BY DEF NothingSkippedSilently
<1> DEFINE C == build_cross_source_corroboration
<1>1. sidecars.result = C
  BY DEF FoldersInv
<1>2. /\ \A e \in IdentityIssues(g) : e \in C.issues
      /\ \A a : a \in C.assertions <=> \E h, u, v, k : Compared(h, u, v, k) /\ a = Asserted(h, u, v, k)
  BY IssuesAre, AssertionsAre
<1> HIDE DEF C
<1>3. InventoryTyped(s) /\ InventoryTyped(t)
  BY FoldersTyped
<1>4. PICK i \in DOMAIN InventoryOf(s) : InventoryOf(s)[i] = q
  BY DEF Range_
<1>5. PICK j \in DOMAIN InventoryOf(t) : InventoryOf(t)[j] = r
  BY DEF Range_
<1>6. CASE s \in eligible_identities(g) /\ t \in eligible_identities(g)
  <2>1. EligibleLocation(g, s) = x.target.location
    <3>1. /\ high_confidence_rows(g, s) = HighPlaces(g, s) /\ IsFiniteSet(HighPlaces(g, s))
          /\ i \in HighPlaces(g, s)
      BY <1>3, <1>4, HighConfidencePlaces DEF HighPlaces
    <3>2. Cardinality(HighPlaces(g, s)) = 1
      BY <1>6, <3>1 DEF eligible_identities
    <3>3. PICK h : HighPlaces(g, s) = {h}
      BY <3>1, <3>2, OneElement
    <3>4. (CHOOSE p \in high_confidence_rows(g, s) : TRUE) = i
      BY <3>1, <3>3
    <3> QED
      BY <1>4, <3>4 DEF EligibleLocation
  <2>2. JoinKey(x) \in JoinKeys(g, s)
    BY <2>1 DEF JoinKeys, balances_for_identity
  <2>3. Rank[s] < Rank[t] \/ Rank[t] < Rank[s]
    <3>1. Rank[s] \in Nat /\ Rank[t] \in Nat /\ Rank[s] # Rank[t]
      BY SourcesAssumption
    <3> QED
      BY <3>1
  <2>4. Compared(g, s, t, JoinKey(x)) \/ Compared(g, t, s, JoinKey(x))
    BY <1>6, <2>2, <2>3 DEF Compared
  <2>5. ASSUME NEW u, NEW v, Compared(g, u, v, JoinKey(x)), {u, v} = {s, t}
        PROVE  \E a \in C.assertions :
                  a.group = g /\ {a.left, a.right} = {s, t} /\ a.key = JoinKey(x)
    <3> DEFINE a == Asserted(g, u, v, JoinKey(x))
    <3>1. a \in C.assertions
      BY <1>2, <2>5
    <3>2. a.group = g /\ a.left = u /\ a.right = v /\ a.key = JoinKey(x)
      BY DEF Asserted, build_assertion
    <3> HIDE DEF a
    <3> QED
      BY <2>5, <3>1, <3>2
  <2> QED
    BY <1>1, <2>4, <2>5
<1>7. CASE s \notin eligible_identities(g)
  <2>1. \E e \in IdentityIssues(g) : e.group = g /\ e.source = s
    BY <1>3, <1>4, <1>7, EligibleOrReported
  <2> QED
    BY <1>1, <1>2, <2>1
<1>8. CASE t \notin eligible_identities(g)
  <2>1. \E e \in IdentityIssues(g) : e.group = g /\ e.source = t
    BY <1>3, <1>5, <1>8, EligibleOrReported
  <2> QED
    BY <1>1, <1>2, <2>1
<1> QED
  BY <1>6, <1>7, <1>8

(* After balances check, the assertions of build_cross_source_             *)
(* corroboration say of any two sources what a reader of their datasets    *)
(* would, and no balance of an identity both name is passed over without   *)
(* an issue.                                                               *)
THEOREM CorroborationHolds == Spec => []CorroborationComplete
<1>1. FoldersInv => CorroborationComplete
  <2> SUFFICES ASSUME FoldersInv PROVE CorroborationComplete
    OBVIOUS
  <2>1. CASE last = << "check" >>
    BY <2>1, CorroborationAgreesWith, NothingSkipped DEF CorroborationComplete
  <2>2. CASE last # << "check" >>
    BY <2>2 DEF CorroborationComplete, CorroborationAgrees, NothingSkippedSilently
  <2> QED
    BY <2>1, <2>2
<1> QED
  BY <1>1, FoldersInductive, PTL

-----------------------------------------------------------------------------
(* Locations: one identity where accepted, one line where summed up.       *)

LEMMA NoConflict ==
  ASSUME NEW l, collect_location_inventory_conflicts(l) = {},
         NEW x \in Range_(l), NEW y \in Range_(l), HighConfidence(x), HighConfidence(y),
         << x.source, x.account, x.wallet >> = << y.source, y.account, y.wallet >>
  PROVE  Identifier(x) = Identifier(y)
<1> SUFFICES ASSUME Identifier(x) # Identifier(y) PROVE FALSE
  OBVIOUS
<1> DEFINE high == {r \in Range_(l) : HighConfidence(r)}
           bad == {u \in high : \E v \in high :
                        /\ << u.source, u.account, u.wallet >> = << v.source, v.account, v.wallet >>
                        /\ Identifier(u) # Identifier(v)}
<1>1. x \in bad
  OBVIOUS
<1>2. collect_location_inventory_conflicts(l) =
        {Issue("location_inventory.csv", 0, "conflicting_high_confidence_identity") : r \in bad}
  BY DEF collect_location_inventory_conflicts
<1> HIDE DEF bad
<1> QED
  BY <1>1, <1>2

LEMMA OneIdentity ==
  ASSUME FoldersInv
  PROVE  OneIdentityPerLocation
<1> SUFFICES ASSUME NEW s \in Sources, Accepted(s),
                    NEW i \in DOMAIN InventoryOf(s), NEW j \in DOMAIN InventoryOf(s),
                    HighConfidence(InventoryOf(s)[i]), HighConfidence(InventoryOf(s)[j]),
                    << read_rows(package[s].inventory)[i].account,
                       read_rows(package[s].inventory)[i].wallet >> =
                    << read_rows(package[s].inventory)[j].account,
                       read_rows(package[s].inventory)[j].wallet >>
             PROVE  Identity(InventoryOf(s)[i]) = Identity(InventoryOf(s)[j])
  BY Zenon DEF OneIdentityPerLocation
<1> DEFINE l == read_rows(package[s].inventory)
<1>1. PICK rows : AcceptedAs(s, rows)
  BY AcceptedIs
<1>2. /\ rows.inventory = l /\ InventoryOf(s) = Locations(rows)
      /\ \A k \in DOMAIN l : l[k].source = s
      /\ collect_location_inventory_conflicts(rows.inventory) = {}
  BY <1>1, Zenon DEF AcceptedAs, RowsRead, RowsAgree
<1> HIDE DEF l
<1>3. /\ DOMAIN InventoryOf(s) = DOMAIN l
      /\ \A k \in DOMAIN l : InventoryOf(s)[k] = location_inventory_record_from_row(l[k])
  BY <1>2 DEF Locations
<1>4. /\ i \in DOMAIN l /\ j \in DOMAIN l
      /\ l[i].account = l[j].account /\ l[i].wallet = l[j].wallet
  BY <1>3 DEF l
<1>5. \A k \in DOMAIN l :
        /\ InventoryOf(s)[k].confidence = l[k].confidence /\ InventoryOf(s)[k].scope = l[k].scope
        /\ InventoryOf(s)[k].id = normalized_identifier(l[k].identifier_kind, l[k].identifier_value)
  BY <1>3 DEF location_inventory_record_from_row
<1>6. l[i] \in Range_(l) /\ l[j] \in Range_(l)
  BY <1>4 DEF Range_
<1>7. HighConfidence(l[i]) /\ HighConfidence(l[j])
  BY <1>4, <1>5 DEF HighConfidence
<1>8. << l[i].source, l[i].account, l[i].wallet >> = << l[j].source, l[j].account, l[j].wallet >>
  BY <1>2, <1>4
<1>9. Identifier(l[i]) = Identifier(l[j])
  BY <1>2, <1>6, <1>7, <1>8, NoConflict
<1>10. /\ l[i].identifier_kind = l[j].identifier_kind
       /\ l[i].identifier_value = l[j].identifier_value /\ l[i].scope = l[j].scope
  BY <1>9 DEF Identifier
<1> QED
  BY <1>4, <1>5, <1>10 DEF Identity

LEMMA ImagesCount ==
  ASSUME NEW S, IsFiniteSet(S), NEW f, \A x, y \in S : f[x] = f[y] => x = y
  PROVE  Cardinality({f[x] : x \in S}) = Cardinality(S)
<1> DEFINE T == {f[x] : x \in S}
           g == [x \in S |-> f[x]]
<1>1. g \in Bijection(S, T)
  BY DEF Bijection, Injection, Surjection, IsInjective
<1> HIDE DEF g, T
<1>2. Cardinality(T) = Cardinality(S)
  BY <1>1, FS_Bijection DEF ExistsBijection
<1> QED
  BY <1>2 DEF T

(* Keeping the first of the equal rows of a list repeats none and loses    *)
(* none.                                                                   *)
FirstOf(all, i) == IF \E h \in 1 .. (i - 1) : all[h] = all[i] THEN << >> ELSE << all[i] >>
Firsts(all) == FlattenSeq([i \in DOMAIN all |-> FirstOf(all, i)])

LEMMA FirstsAre ==
  ASSUME NEW S, NEW all \in Seq(S)
  PROVE  /\ Firsts(all) \in Seq(S) /\ NoRepeats(Firsts(all)) /\ Range_(Firsts(all)) = Range_(all)
<1> DEFINE n == Len(all)
           v == [i \in DOMAIN all |-> FirstOf(all, i)]
<1>1. n \in Nat /\ DOMAIN all = 1 .. n /\ \A i \in 1 .. n : all[i] \in S
  OBVIOUS
<1>2. \A i \in 1 .. n : v[i] = FirstOf(all, i)
  BY <1>1
<1>3. ASSUME NEW i \in 1 .. n
      PROVE  \/ v[i] = << >> /\ \E h \in 1 .. (i - 1) : all[h] = all[i]
             \/ v[i] = << all[i] >> /\ ~\E h \in 1 .. (i - 1) : all[h] = all[i]
  <2> HIDE DEF v
  <2> QED
    BY <1>2 DEF FirstOf
<1>4. v = [i \in 1 .. n |-> v[i]]
  BY <1>1
<1> HIDE DEF n, v
<1>5. \A i \in 1 .. n : v[i] \in Seq(S) /\ NoRepeats(v[i]) /\ \A e \in Range_(v[i]) : e = all[i]
  <2> SUFFICES ASSUME NEW i \in 1 .. n
               PROVE  v[i] \in Seq(S) /\ NoRepeats(v[i]) /\ \A e \in Range_(v[i]) : e = all[i]
    OBVIOUS
  <2>1. CASE v[i] = << >>
    BY <2>1 DEF NoRepeats, Range_
  <2>2. CASE v[i] = << all[i] >>
    <3>1. DOMAIN << all[i] >> = {1} /\ << all[i] >>[1] = all[i] /\ << all[i] >> \in Seq(S)
      BY <1>1
    <3> QED
      BY <2>2, <3>1 DEF NoRepeats, Range_
  <2> QED
    BY <1>3, <2>1, <2>2
<1>6. v \in Seq(Seq(S)) /\ DOMAIN v = 1 .. n
  <2>1. v \in [1 .. n -> Seq(S)]
    BY <1>4, <1>5
  <2> QED
    BY <1>1, <2>1
<1>7. ASSUME NEW i \in 1 .. n, NEW j \in 1 .. n, i < j PROVE Range_(v[i]) \cap Range_(v[j]) = {}
  <2> SUFFICES ASSUME NEW e \in Range_(v[i]), e \in Range_(v[j]) PROVE FALSE
    OBVIOUS
  <2>1. e = all[i] /\ e = all[j]
    BY <1>5
  <2>2. i \in 1 .. (j - 1)
    BY <1>1, <1>7
  <2>3. v[j] = << >>
    BY <1>3, <2>1, <2>2
  <2> QED
    BY <2>3 DEF Range_
<1>8. \A i, j \in DOMAIN v : i # j => Range_(v[i]) \cap Range_(v[j]) = {}
  <2> SUFFICES ASSUME NEW i \in 1 .. n, NEW j \in 1 .. n, i # j
               PROVE  Range_(v[i]) \cap Range_(v[j]) = {}
    BY <1>6
  <2>1. i < j \/ j < i
    BY <1>1
  <2> QED
    BY <1>7, <2>1
<1>9. NoRepeats(FlattenSeq(v))
  BY <1>5, <1>6, <1>8, FlattenDistinct
<1>10. /\ FlattenSeq(v) \in Seq(S)
       /\ \A e : e \in Range_(FlattenSeq(v)) <=> \E i \in DOMAIN v : e \in Range_(v[i])
  BY <1>6, FlattenRange
<1>11. ASSUME NEW e \in Range_(all) PROVE \E i \in DOMAIN v : e \in Range_(v[i])
  <2> DEFINE I == {i \in 1 .. n : all[i] = e}
  <2>1. I \in SUBSET Nat /\ I # {}
    BY <1>1 DEF Range_
  <2> HIDE DEF I
  <2>2. PICK i \in I : \A j \in I : i <= j
    BY <2>1, LeastNatural
  <2>3. i \in 1 .. n /\ all[i] = e
    BY <2>2 DEF I
  <2>4. ASSUME NEW h \in 1 .. (i - 1), all[h] = all[i] PROVE FALSE
    <3>1. h \in 1 .. n /\ h < i
      BY <1>1, <2>3
    <3>2. h \in I
      BY <2>3, <2>4, <3>1 DEF I
    <3> QED
      BY <1>1, <2>2, <2>3, <3>1, <3>2
  <2>5. v[i] = << e >>
    BY <1>3, <2>3, <2>4
  <2>6. e \in Range_(<< e >>)
    BY DEF Range_
  <2> QED
    BY <1>6, <2>3, <2>5, <2>6
<1>12. ASSUME NEW i \in DOMAIN v, NEW e \in Range_(v[i]) PROVE e \in Range_(all)
  BY <1>1, <1>5, <1>6 DEF Range_
<1>13. Range_(FlattenSeq(v)) = Range_(all)
  BY <1>10, <1>11, <1>12
<1> QED
  BY <1>9, <1>10, <1>13 DEF Firsts, v

PublishedRows == UNION {Range_(InventoryOf(s)) : s \in Sources}

LEMMA EvidenceRows ==
  ASSUME FoldersInv
  PROVE  /\ collect_evidence_rows \in Seq(PublishedRows)
         /\ NoRepeats(collect_evidence_rows) /\ Range_(collect_evidence_rows) = PublishedRows
<1> DEFINE v == [i \in DOMAIN SourcesInOrder |-> InventoryOf(SourcesInOrder[i])]
           all == FlattenSeq(v)
<1>1. /\ SourcesInOrder \in Seq(Sources) /\ Range_(SourcesInOrder) = Sources
  <2>1. IsFiniteSet(Sources) /\ \A s \in Sources : Rank[s] \in Nat
    BY SourcesAssumption
  <2> QED
    BY <2>1, SortedLists DEF SourcesInOrder
<1>2. \A s \in Sources : InventoryOf(s) \in Seq(PublishedRows)
  <2> SUFFICES ASSUME NEW s \in Sources PROVE InventoryOf(s) \in Seq(PublishedRows)
    OBVIOUS
  <2> DEFINE f == InventoryOf(s)
  <2>1. f \in Seq(Range_(f)) /\ Range_(f) \subseteq PublishedRows
    BY FoldersTyped DEF InventoryTyped, PublishedRows
  <2> HIDE DEF f
  <2>2. f \in Seq(PublishedRows)
    BY <2>1
  <2> QED
    BY <2>2 DEF f
<1>3. v \in Seq(Seq(PublishedRows)) /\ DOMAIN v = DOMAIN SourcesInOrder
      /\ \A i \in DOMAIN SourcesInOrder : v[i] = InventoryOf(SourcesInOrder[i])
  <2>1. DOMAIN SourcesInOrder = 1 .. Len(SourcesInOrder) /\ Len(SourcesInOrder) \in Nat
        /\ \A i \in DOMAIN SourcesInOrder : SourcesInOrder[i] \in Sources
    BY <1>1
  <2>2. v \in [1 .. Len(SourcesInOrder) -> Seq(PublishedRows)]
    BY <1>2, <2>1
  <2> QED
    BY <2>1, <2>2
<1> HIDE DEF v
<1>4. /\ all \in Seq(PublishedRows)
      /\ \A e : e \in Range_(all) <=> \E i \in DOMAIN v : e \in Range_(v[i])
  BY <1>3, FlattenRange
<1>5. Range_(all) = PublishedRows
  <2>1. ASSUME NEW e \in PublishedRows PROVE e \in Range_(all)
    <3>1. PICK s \in Sources : e \in Range_(InventoryOf(s))
      BY DEF PublishedRows
    <3>2. PICK i \in DOMAIN SourcesInOrder : SourcesInOrder[i] = s
      BY <1>1 DEF Range_
    <3> QED
      BY <1>3, <1>4, <3>1, <3>2
  <2>2. ASSUME NEW e \in Range_(all) PROVE e \in PublishedRows
    <3>1. PICK i \in DOMAIN SourcesInOrder : e \in Range_(InventoryOf(SourcesInOrder[i]))
      BY <1>3, <1>4
    <3>2. SourcesInOrder[i] \in Sources
      BY <1>1
    <3> QED
      BY <3>1, <3>2 DEF PublishedRows
  <2> QED
    BY <2>1, <2>2
<1>6. collect_evidence_rows = Firsts(all)
  BY DEF collect_evidence_rows, Firsts, FirstOf, v
<1> HIDE DEF all
<1> QED
  BY <1>4, <1>5, <1>6, FirstsAre

At(rows, l) == {i \in DOMAIN rows : rows[i].location = l}
Primary(rows, l) == rows[CHOOSE i \in At(rows, l) : \A j \in At(rows, l) : i <= j]
LineOf(rows, l) ==
  [location |-> l, status |-> LocationStatus(Primary(rows, l)), id |-> Primary(rows, l).id,
   sources |-> {rows[i].source : i \in At(rows, l)}, evidence |-> Cardinality(At(rows, l))]

LEMMA LinesAre ==
  ASSUME NEW rows
  PROVE  summarize_location_inventory(rows).lines =
           {LineOf(rows, l) : l \in {r.location : r \in Range_(rows)}}
BY Zenon DEF summarize_location_inventory, LineOf, Primary, At

LEMMA PrimaryIsPublished ==
  ASSUME NEW S, NEW rows \in Seq(S), NEW l \in {r.location : r \in Range_(rows)}
  PROVE  Primary(rows, l) \in Range_(rows) /\ Primary(rows, l).location = l
<1>1. DOMAIN rows \in SUBSET Nat
  OBVIOUS
<1>2. At(rows, l) \in SUBSET Nat /\ At(rows, l) # {}
  BY <1>1 DEF At, Range_
<1>3. \E i \in At(rows, l) : \A j \in At(rows, l) : i <= j
  BY <1>2, LeastNatural
<1> DEFINE i == CHOOSE h \in At(rows, l) : \A j \in At(rows, l) : h <= j
<1>4. i \in At(rows, l)
  BY <1>3
<1>5. Primary(rows, l) = rows[i]
  BY DEF Primary
<1> HIDE DEF i
<1> QED
  BY <1>4, <1>5 DEF At, Range_

LEMMA EvidenceCounts ==
  ASSUME NEW S, NEW rows \in Seq(S), NoRepeats(rows), NEW l
  PROVE  Cardinality(At(rows, l)) = Cardinality({r \in Range_(rows) : r.location = l})
<1>1. IsFiniteSet(At(rows, l))
  BY ListDomain, FS_Subset DEF At
<1>2. \A i, j \in At(rows, l) : rows[i] = rows[j] => i = j
  BY DEF NoRepeats, At
<1>3. Cardinality({rows[i] : i \in At(rows, l)}) = Cardinality(At(rows, l))
  <2> DEFINE A == At(rows, l)
  <2> HIDE DEF A
  <2>1. IsFiniteSet(A) /\ \A i, j \in A : rows[i] = rows[j] => i = j
    BY <1>1, <1>2 DEF A
  <2>2. Cardinality({rows[i] : i \in A}) = Cardinality(A)
    BY <2>1, ImagesCount
  <2> QED
    BY <2>2 DEF A
<1>4. {rows[i] : i \in At(rows, l)} = {r \in Range_(rows) : r.location = l}
  BY DEF At, Range_
<1> QED
  BY <1>3, <1>4

LEMMA AggregateHolds ==
  ASSUME FoldersInv, last = << "rebuild" >>
  PROVE  AggregateIsSound
<1> DEFINE rows == collect_evidence_rows
           places == {r.location : r \in PublishedRows}
<1>1. rows \in Seq(PublishedRows) /\ NoRepeats(rows) /\ Range_(rows) = PublishedRows
  BY EvidenceRows
<1>2. aggregate.lines = {LineOf(rows, l) : l \in places}
  <2>1. aggregate = summarize_location_inventory(rows)
    BY DEF FoldersInv
  <2> HIDE DEF rows
  <2> QED
    BY <1>1, <2>1, LinesAre
<1> HIDE DEF rows, places
<1>3. \A l : LineOf(rows, l).location = l /\ LineOf(rows, l).evidence = Cardinality(At(rows, l))
             /\ LineOf(rows, l).status = LocationStatus(Primary(rows, l))
             /\ LineOf(rows, l).id = Primary(rows, l).id
             /\ LineOf(rows, l).sources = {rows[i].source : i \in At(rows, l)}
  BY DEF LineOf
<1>4. ASSUME NEW r \in PublishedRows
      PROVE  \E l \in aggregate.lines :
                /\ \A k \in aggregate.lines : k.location = r.location <=> k = l
                /\ r.source \in l.sources
  <2> DEFINE l == LineOf(rows, r.location)
  <2>1. l \in aggregate.lines
    BY <1>2 DEF places
  <2>2. \A k \in aggregate.lines : k.location = r.location <=> k = l
    BY <1>2, <1>3
  <2>3. r.source \in l.sources
    <3>1. PICK i \in DOMAIN rows : rows[i] = r
      BY <1>1 DEF Range_
    <3>2. i \in At(rows, r.location)
      BY <3>1 DEF At
    <3> QED
      BY <1>3, <3>1, <3>2
  <2> QED
    BY <2>1, <2>2, <2>3
<1>5. ASSUME NEW k \in aggregate.lines
      PROVE  /\ k.evidence = Cardinality({r \in PublishedRows : r.location = k.location})
             /\ k.status = "ready" => \E r \in PublishedRows :
                    r.location = k.location /\ r.kind # "address_alias"
             /\ \E r \in PublishedRows : r.location = k.location /\ r.id = k.id
  <2>1. PICK l \in places : k = LineOf(rows, l)
    BY <1>2
  <2>2. Primary(rows, l) \in PublishedRows /\ Primary(rows, l).location = l
    BY <1>1, PrimaryIsPublished DEF places
  <2>3. k.location = l /\ k.id = Primary(rows, l).id
        /\ k.status = LocationStatus(Primary(rows, l)) /\ k.evidence = Cardinality(At(rows, l))
    BY <1>3, <2>1
  <2>4. k.evidence = Cardinality({r \in PublishedRows : r.location = k.location})
    BY <1>1, <2>3, EvidenceCounts
  <2>5. k.status = "ready" => Primary(rows, l).kind # "address_alias"
    BY <2>3 DEF LocationStatus
  <2> QED
    BY <2>2, <2>3, <2>4, <2>5
<1> QED
  BY <1>4, <1>5 DEF AggregateIsSound, PublishedRows

(* An accepted package gives no location two high-confidence identities    *)
(* (collect_location_inventory_conflicts), and the rebuilt inventory has   *)
(* each location of each folder in one line, each row of evidence once,    *)
(* and ready only on more than an alias (summarize_location_inventory).    *)
THEOREM LocationsHold == Spec => []LocationsAreSound
<1>1. FoldersInv => LocationsAreSound
  <2> SUFFICES ASSUME FoldersInv PROVE LocationsAreSound
    OBVIOUS
  <2>1. OneIdentityPerLocation
    BY OneIdentity
  <2>2. CASE last = << "rebuild" >>
    BY <2>1, <2>2, AggregateHolds DEF LocationsAreSound
  <2>3. CASE last # << "rebuild" >>
    BY <2>1, <2>3 DEF LocationsAreSound, AggregateIsSound
  <2> QED
    BY <2>2, <2>3
<1> QED
  BY <1>1, FoldersInductive, PTL

-----------------------------------------------------------------------------
(* Types.                                                                  *)

LEMMA OneForEachKey ==
  ASSUME NEW S, NEW items \in Seq(S), NEW keys,
         NEW x \in LastOfKeys(items, keys), NEW y \in LastOfKeys(items, keys),
         \A i \in DOMAIN items : keys[i] = items[i].target, x.target = y.target
  PROVE  x = y
<1> DEFINE lasts == {j \in DOMAIN items : \A k \in (j + 1) .. Len(items) : keys[k] # keys[j]}
<1>1. PICK i \in lasts : x = items[i]
  BY DEF LastOfKeys
<1>2. PICK j \in lasts : y = items[j]
  BY DEF LastOfKeys
<1>3. /\ i \in 1 .. Len(items) /\ j \in 1 .. Len(items) /\ Len(items) \in Nat
      /\ keys[i] = keys[j]
  BY <1>1, <1>2
<1>4. ~(i < j)
  <2> SUFFICES ASSUME i < j PROVE FALSE
    OBVIOUS
  <2>1. j \in (i + 1) .. Len(items)
    BY <1>3
  <2> QED
    BY <1>1, <1>3, <2>1
<1>5. ~(j < i)
  <2> SUFFICES ASSUME j < i PROVE FALSE
    OBVIOUS
  <2>1. i \in (j + 1) .. Len(items)
    BY <1>3
  <2> QED
    BY <1>2, <1>3, <2>1
<1>6. i = j
  BY <1>3, <1>4, <1>5
<1> QED
  BY <1>1, <1>2, <1>6

LEMMA OneForEachTarget ==
  ASSUME NEW s, NEW rows, AcceptedAs(s, rows),
         NEW x \in SnapshotsOf(s), NEW y \in SnapshotsOf(s), x.target = y.target
  PROVE  x = y
<1> DEFINE p == package[s]
           n == Len(p.snapshots.rows)
           b == [i \in 1 .. n |-> BalanceOf(p, s, i)]
           z == [i \in 1 .. n |-> balance_snapshot_from_row(b[i])]
           keys == [i \in 1 .. n |-> balance_snapshot_semantic_key(z[i])]
<1>1. rows.balances = b /\ SnapshotsOf(s) = Balances(rows) /\ DOMAIN b = 1 .. n /\ n \in Nat
  BY DEF AcceptedAs, RowsRead, FilesRead
<1> HIDE DEF b
<1>2. Balances(rows) = merge_balance_snapshots(z)
  BY <1>1 DEF Balances
<1>3. z = [i \in 1 .. n |-> z[i]] /\ DOMAIN z = 1 .. n
  OBVIOUS
<1> HIDE DEF n, z
<1>4. SnapshotsOf(s) = LastOfKeys(z, keys)
  BY <1>1, <1>2, <1>3 DEF merge_balance_snapshots
<1>5. \A i \in DOMAIN z : keys[i] = z[i].target
  BY <1>3 DEF balance_snapshot_semantic_key
<1> DEFINE S == {z[i] : i \in 1 .. n}
<1>6. z \in Seq(S)
  <2>1. \A i \in 1 .. n : z[i] \in S
    OBVIOUS
  <2> HIDE DEF S
  <2>2. z \in [1 .. n -> S]
    BY <1>3, <2>1
  <2> QED
    BY <1>1, <2>2
<1> HIDE DEF keys, S
<1> QED
  BY <1>4, <1>5, <1>6, OneForEachKey

LEMMA Typed ==
  ASSUME FoldersInv, commands \in 0 .. MaxCommands
  PROVE  TypeOK
<1> SUFFICES ASSUME NEW s \in Sources
             PROVE  /\ folder[s].by \in {"nobody", "submit", "assemble"}
                    /\ \A x \in SnapshotsOf(s) : x.target.source = s /\ x.quantity \in Int
                    /\ folder[s].by = "submit" =>
                          \A x, y \in SnapshotsOf(s) : x.target = y.target => x = y
  BY DEF TypeOK
<1>1. FolderIs(s)
  BY DEF FoldersInv
<1>2. folder[s].by \in {"nobody", "submit", "assemble"}
  BY <1>1 DEF FolderIs, EmptyFolder, SubmittedFolder, AssembledFolder
<1>3. \A x \in SnapshotsOf(s) : x.target.source = s /\ x.quantity \in Int
  BY FoldersTyped DEF SnapshotsTyped
<1>4. ASSUME folder[s].by = "submit", NEW x \in SnapshotsOf(s), NEW y \in SnapshotsOf(s),
             x.target = y.target
      PROVE  x = y
  <2>1. PICK d \in Submissions : d[2] = package[s] /\ SubmittedFolder(folder[s], package[s], s)
    <3>1. EmptyFolder.by # "submit"
      BY DEF EmptyFolder
    <3> QED
      BY <1>1, <1>4, <3>1 DEF FolderIs, AssembledFolder
  <2>2. folder[s].snapshots # << >>
    BY <1>4 DEF SnapshotsOf
  <2>3. package[s].root # "missing" /\ Publishes(folder[s], validate_balance_submission(package[s], s))
    BY <2>1, <2>2 DEF SubmittedFolder, Refused, Interrupted, Unpublished
  <2>4. AcceptedAs(s, validate_balance_submission(package[s], s).rows)
    BY <2>1, <2>3, PublishedIs
  <2> QED
    BY <1>4, <2>4, OneForEachTarget
<1> QED
  BY <1>2, <1>3, <1>4

CommandsBounded == commands \in 0 .. MaxCommands

(* A folder holds balances of its own source only, whoever wrote it, and   *)
(* one for each target when submit_balances did.                           *)
THEOREM SubmissionsTyped == Spec => []TypeOK
<1>1. Init => CommandsBounded
  BY SourcesAssumption DEF Init, CommandsBounded
<1>2. CommandsBounded /\ [Next]_vars => CommandsBounded'
  BY SourcesAssumption DEF Next, SubmitBalances, AssembleSource, CorroborateSources,
    RebuildLocationInventory, Command, vars, CommandsBounded
<1>3. Spec => []CommandsBounded
  BY <1>1, <1>2, PTL DEF Spec
<1>4. FoldersInv /\ CommandsBounded => TypeOK
  BY Typed DEF CommandsBounded
<1> QED
  BY <1>3, <1>4, FoldersInductive, PTL
=============================================================================
