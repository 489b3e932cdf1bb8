------------------------ MODULE EvidenceSelectionProofs ------------------------
(***************************************************************************)
(* Theorems of EvidenceSelection: for every set of exports and documents,  *)
(* however many files a capture holds, no activity is translated twice,    *)
(* none is lost, and the plan that is published is the one executed.       *)
(***************************************************************************)
EXTENDS EvidenceSelection, FiniteSetTheorems, TLAPS

-----------------------------------------------------------------------------
(* Finite sets in order *)

StrictOrder(S, R) ==
    /\ \A x \in S : << x, x >> \notin R
    /\ \A x, y, z \in S : << x, y >> \in R /\ << y, z >> \in R => << x, z >> \in R

TotalOrder(S, R) ==
    StrictOrder(S, R) /\ \A x, y \in S : x = y \/ << x, y >> \in R \/ << y, x >> \in R

Below(S, R, x) == { y \in S : << y, x >> \in R }

LEMMA BelowIsFinite ==
  ASSUME NEW S, IsFiniteSet(S), NEW R, NEW x \in S, StrictOrder(S, R)
  PROVE  /\ IsFiniteSet(Below(S, R, x)) /\ Cardinality(Below(S, R, x)) \in Nat
         /\ Cardinality(Below(S, R, x)) < Cardinality(S)
<1>1. Below(S, R, x) \in SUBSET S /\ x \notin Below(S, R, x)
  BY DEF Below, StrictOrder
<1>2. /\ IsFiniteSet(Below(S, R, x))
      /\ Cardinality(Below(S, R, x)) <= Cardinality(S)
      /\ Cardinality(S) = Cardinality(Below(S, R, x)) => S = Below(S, R, x)
  BY ONLY <1>1, IsFiniteSet(S), FS_Subset
<1>3. Cardinality(Below(S, R, x)) \in Nat /\ Cardinality(S) \in Nat
  BY <1>2, FS_CardinalityType
<1> QED
  BY <1>1, <1>2, <1>3

(* What precedes an element has fewer predecessors than it.                *)
LEMMA BelowGrows ==
  ASSUME NEW S, IsFiniteSet(S), NEW R, StrictOrder(S, R), NEW x \in S, NEW y \in S,
         << y, x >> \in R
  PROVE  Cardinality(Below(S, R, y)) < Cardinality(Below(S, R, x))
<1>1. IsFiniteSet(Below(S, R, x)) /\ Cardinality(Below(S, R, x)) \in Nat
  BY BelowIsFinite
<1>2. Below(S, R, y) \in SUBSET Below(S, R, x)
  BY DEF Below, StrictOrder
<1>3. y \in Below(S, R, x) /\ y \notin Below(S, R, y)
  BY DEF Below, StrictOrder
<1>4. /\ Cardinality(Below(S, R, y)) <= Cardinality(Below(S, R, x))
      /\ Cardinality(Below(S, R, x)) = Cardinality(Below(S, R, y))
            => Below(S, R, x) = Below(S, R, y)
  BY ONLY <1>1, <1>2, FS_Subset
<1>5. Cardinality(Below(S, R, y)) \in Nat
  BY BelowIsFinite
<1> QED
  BY <1>1, <1>3, <1>4, <1>5

(* A non-empty finite set has a first element.                             *)
LEMMA FirstExists ==
  ASSUME NEW S, IsFiniteSet(S), S # {}, NEW R, StrictOrder(S, R)
  PROVE  \E x \in S : \A y \in S : << y, x >> \notin R
<1> DEFINE T == { Cardinality(Below(S, R, x)) : x \in S }
           Less == OpToRel(<, Nat)
<1>1. T \subseteq Nat /\ T # {}
  BY BelowIsFinite
<1>2. Less = { pair \in Nat \X Nat : pair[1] < pair[2] }
  BY DEF OpToRel
<1>3. IsWellFoundedOn(Less, Nat)
  BY NatLessThanWellFounded
<1> HIDE DEF Less
<1>4. \E n \in T : \A m \in T : ~ (<< m, n >> \in Less)
  <2> HIDE DEF T
  <2> QED
    BY <1>1, <1>3, WFMin
<1>5. PICK x \in S : \A m \in T : ~ (<< m, Cardinality(Below(S, R, x)) >> \in Less)
  BY <1>4
<1>6. ASSUME NEW y \in S, << y, x >> \in R PROVE FALSE
  <2>1. Cardinality(Below(S, R, y)) < Cardinality(Below(S, R, x))
    BY <1>6, BelowGrows
  <2>2. Cardinality(Below(S, R, y)) \in T /\ Cardinality(Below(S, R, x)) \in T
    OBVIOUS
  <2> HIDE DEF T
  <2>3. << Cardinality(Below(S, R, y)), Cardinality(Below(S, R, x)) >> \in Less
    BY <1>1, <1>2, <2>1, <2>2
  <2> QED
    BY <1>5, <2>2, <2>3
<1> QED
  BY <1>6

(* Counting predecessors numbers the elements of a total order.            *)
LEMMA RankNumbers ==
  ASSUME NEW S, IsFiniteSet(S), NEW R, TotalOrder(S, R)
  PROVE  /\ \A x, y \in S : Cardinality(Below(S, R, x)) = Cardinality(Below(S, R, y)) => x = y
         /\ \A i \in 1..Cardinality(S) : \E x \in S : Cardinality(Below(S, R, x)) = i - 1
<1> DEFINE n == Cardinality(S)
           f == [x \in S |-> Cardinality(Below(S, R, x))]
<1>1. StrictOrder(S, R) /\ n \in Nat
  BY FS_CardinalityType DEF TotalOrder
<1>2. ASSUME NEW x \in S, NEW y \in S,
             Cardinality(Below(S, R, x)) = Cardinality(Below(S, R, y)), x # y
      PROVE  FALSE
  <2>1. << x, y >> \in R \/ << y, x >> \in R
    BY <1>2 DEF TotalOrder
  <2>2. Cardinality(Below(S, R, x)) \in Nat /\ Cardinality(Below(S, R, y)) \in Nat
    BY <1>1, BelowIsFinite
  <2> QED
    BY <1>1, <1>2, <2>1, <2>2, BelowGrows
<1>3. \A x \in S : Cardinality(Below(S, R, x)) \in 0..(n - 1)
  <2> TAKE x \in S
  <2>1. Cardinality(Below(S, R, x)) \in Nat /\ Cardinality(Below(S, R, x)) < n
    BY <1>1, BelowIsFinite
  <2> QED
    BY <1>1, <2>1
<1>4. f \in Injection(S, 0..(n - 1))
  <2>1. f \in [S -> 0..(n - 1)]
    BY <1>3
  <2>2. IsInjective(f)
    BY <1>2 DEF IsInjective
  <2> QED
    BY <2>1, <2>2 DEF Injection
<1>5. IsFiniteSet(0..(n - 1)) /\ Cardinality(0..(n - 1)) = n
  <2>1. /\ IsFiniteSet(0..(n - 1))
        /\ Cardinality(0..(n - 1)) = IF 0 > n - 1 THEN 0 ELSE (n - 1) - 0 + 1
    BY <1>1, FS_Interval
  <2> QED
    BY <1>1, <2>1
<1>6. f \in Surjection(S, 0..(n - 1))
  <2> HIDE DEF f
  <2> QED
    BY <1>4, <1>5, FS_Injection
<1>7. ASSUME NEW i \in 1..n PROVE \E x \in S : Cardinality(Below(S, R, x)) = i - 1
  <2>1. i - 1 \in 0..(n - 1)
    BY <1>1
  <2>2. PICK x \in S : f[x] = i - 1
    <3> HIDE DEF f
    <3> QED
      BY <1>6, <2>1 DEF Surjection
  <2> QED
    BY <2>2
<1> QED
  BY <1>2, <1>7


-----------------------------------------------------------------------------
(* Candidates and their orders *)

Candidates(cs) ==
    /\ IsFiniteSet(cs)
    /\ \A c \in cs :
        /\ c.id \in Nat /\ c.rank \in Nat
        /\ c.kind \in {"unknown", "adapter_rank", "capture_completed_at", "export_timestamp"}
        /\ c.coverage.start \in 0..Horizon /\ c.coverage.end \in 0..Horizon
    /\ \A c, d \in cs : c.id = d.id => c = d

LEMMA SomeCandidates ==
  ASSUME NEW cs, Candidates(cs), NEW s \in SUBSET cs
  PROVE  Candidates(s)
<1>1. IsFiniteSet(s)
  BY FS_Subset DEF Candidates
<1> QED
  BY <1>1 DEF Candidates

(* What the two orders of candidates compare.                              *)
Kind(c) == FreshnessKey(c)[1]
Rank(c) == FreshnessKey(c)[2]
Opens(c) == Bounds(c)[1]
Closes(c) == Bounds(c)[2]

LEMMA KeysAreNumbers ==
  ASSUME NEW cs, Candidates(cs), NEW c \in cs
  PROVE  /\ Kind(c) \in Nat /\ Rank(c) \in Nat /\ c.id \in Nat
         /\ Opens(c) = c.coverage.start /\ Opens(c) \in Nat
         /\ Closes(c) \in 0..(Horizon + 1)
<1>1. Horizon \in Nat
  BY BoundAssumption
<1>2. Kind(c) \in Nat /\ Rank(c) \in Nat /\ c.id \in Nat
  BY DEF Candidates, Kind, Rank, FreshnessKey, FreshnessKinds
<1>3. Opens(c) = c.coverage.start /\ Opens(c) \in Nat /\ Closes(c) \in 0..(Horizon + 1)
  BY <1>1 DEF Candidates, Opens, Closes, Bounds
<1> QED
  BY <1>2, <1>3

LEMMA FresherByKey ==
  ASSUME NEW a, NEW b
  PROVE  Fresher(a, b) <=> Kind(a) > Kind(b) \/ (Kind(a) = Kind(b) /\ Rank(a) > Rank(b))
BY DEF Fresher, Kind, Rank

LEMMA BeforeByKey ==
  ASSUME NEW cs, Candidates(cs), NEW a \in cs, NEW b \in cs
  PROVE  SelectedBefore(a, b) <=>
            \/ Opens(a) < Opens(b)
            \/ /\ Opens(a) = Opens(b)
               /\ \/ Closes(a) < Closes(b)
                  \/ /\ Closes(a) = Closes(b)
                     /\ Fresher(a, b) \/ (~ Fresher(b, a) /\ a.id < b.id)
BY KeysAreNumbers DEF SelectedBefore, Closes

Order(cs) == { pair \in cs \X cs : SelectedBefore(pair[1], pair[2]) }

(* The sort key of a plan separates every two candidates.                  *)
LEMMA OrderIsTotal ==
  ASSUME NEW cs, Candidates(cs)
  PROVE  TotalOrder(cs, Order(cs))
<1>1. \A a, b \in cs : << a, b >> \in Order(cs) <=> SelectedBefore(a, b)
  BY DEF Order
<1>2. \A a \in cs : /\ Kind(a) \in Nat /\ Rank(a) \in Nat /\ a.id \in Nat
                    /\ Opens(a) \in Nat /\ Closes(a) \in Nat
  <2>1. Horizon \in Nat
    BY BoundAssumption
  <2> QED
    BY <2>1, KeysAreNumbers
<1>3. \A a, b \in cs : SelectedBefore(a, b) <=>
         \/ Opens(a) < Opens(b)
         \/ /\ Opens(a) = Opens(b)
            /\ \/ Closes(a) < Closes(b)
               \/ /\ Closes(a) = Closes(b)
                  /\ \/ Kind(a) > Kind(b)
                     \/ /\ Kind(a) = Kind(b)
                        /\ Rank(a) > Rank(b) \/ (Rank(a) = Rank(b) /\ a.id < b.id)
  <2> TAKE a \in cs, b \in cs
  <2> QED
    BY <1>2, BeforeByKey, FresherByKey
<1>4. \A a, b \in cs : a.id = b.id => a = b
  BY DEF Candidates
<1>5. \A x \in cs : << x, x >> \notin Order(cs)
  BY <1>1, <1>2, <1>3
<1>6. \A x, y, z \in cs : << x, y >> \in Order(cs) /\ << y, z >> \in Order(cs)
                            => << x, z >> \in Order(cs)
  <2> TAKE x \in cs, y \in cs, z \in cs
  <2>1. SelectedBefore(x, y) /\ SelectedBefore(y, z) => SelectedBefore(x, z)
    BY <1>2, <1>3
  <2> QED
    BY <1>1, <2>1
<1>7. \A x, y \in cs : x = y \/ << x, y >> \in Order(cs) \/ << y, x >> \in Order(cs)
  <2> TAKE x \in cs, y \in cs
  <2>1. x.id = y.id \/ SelectedBefore(x, y) \/ SelectedBefore(y, x)
    BY <1>2, <1>3
  <2> QED
    BY <1>1, <1>4, <2>1
<1> QED
  BY <1>5, <1>6, <1>7 DEF StrictOrder, TotalOrder

(* The selected candidates in order: each of them, and each once.          *)
LEMMA SelectionOrderLists ==
  ASSUME NEW cs, Candidates(cs)
  PROVE  /\ Cardinality(cs) \in Nat
         /\ SelectionOrder(cs) \in [1..Cardinality(cs) -> cs]
         /\ \A c \in cs : \E i \in 1..Cardinality(cs) : SelectionOrder(cs)[i] = c
         /\ \A i, j \in 1..Cardinality(cs) :
                SelectionOrder(cs)[i] = SelectionOrder(cs)[j] => i = j
<1> DEFINE n == Cardinality(cs)
           rank(c) == Cardinality(Below(cs, Order(cs), c))
<1>1. IsFiniteSet(cs) /\ n \in Nat /\ TotalOrder(cs, Order(cs))
  BY OrderIsTotal, FS_CardinalityType DEF Candidates
<1>2. \A c \in cs : { d \in cs : SelectedBefore(d, c) } = Below(cs, Order(cs), c)
  BY DEF Below, Order
<1>3. /\ \A x, y \in cs : rank(x) = rank(y) => x = y
      /\ \A i \in 1..n : \E x \in cs : rank(x) = i - 1
  BY <1>1, RankNumbers
<1>4. \A c \in cs : rank(c) \in Nat /\ rank(c) < n
  BY <1>1, BelowIsFinite DEF TotalOrder
<1>5. \A i \in 1..n : \E c \in cs : Cardinality({ d \in cs : SelectedBefore(d, c) }) = i - 1
  BY <1>2, <1>3
<1>6. /\ DOMAIN SelectionOrder(cs) = 1..n
      /\ SelectionOrder(cs) = [i \in 1..n |-> SelectionOrder(cs)[i]]
      /\ \A i \in 1..n : SelectionOrder(cs)[i] \in cs /\ rank(SelectionOrder(cs)[i]) = i - 1
  <2>1. \A i \in 1..n :
            /\ SelectionOrder(cs)[i] \in cs
            /\ Cardinality({ d \in cs : SelectedBefore(d, SelectionOrder(cs)[i]) }) = i - 1
    BY <1>5 DEF SelectionOrder, InPosition
  <2>2. /\ DOMAIN SelectionOrder(cs) = 1..n
        /\ SelectionOrder(cs) = [i \in 1..n |-> SelectionOrder(cs)[i]]
    BY DEF SelectionOrder
  <2> QED
    BY <1>2, <2>1, <2>2
<1> HIDE DEF rank
<1>7. SelectionOrder(cs) \in [1..n -> cs]
  BY <1>6
<1>8. ASSUME NEW c \in cs PROVE \E i \in 1..n : SelectionOrder(cs)[i] = c
  <2>1. rank(c) + 1 \in 1..n /\ (rank(c) + 1) - 1 = rank(c)
    BY <1>1, <1>4
  <2>2. SelectionOrder(cs)[rank(c) + 1] = c
    BY <1>3, <1>6, <2>1
  <2> QED
    BY <2>1, <2>2
<1>9. \A i, j \in 1..n : SelectionOrder(cs)[i] = SelectionOrder(cs)[j] => i = j
  BY <1>1, <1>6
<1> QED
  BY <1>1, <1>7, <1>8, <1>9

(* The winner of candidates is one that none is fresher than.              *)
LEMMA WinnerIsFreshest ==
  ASSUME NEW cs, Candidates(cs), cs # {}
  PROVE  /\ deterministic_duplicate_winner(cs) \in cs
         /\ \A c \in cs : ~ Fresher(c, deterministic_duplicate_winner(cs))
<1> DEFINE R == { pair \in cs \X cs :
                    \/ Fresher(pair[1], pair[2])
                    \/ ~ Fresher(pair[2], pair[1]) /\ pair[1].id < pair[2].id }
<1>1. \A a \in cs : Kind(a) \in Nat /\ Rank(a) \in Nat /\ a.id \in Nat
  BY KeysAreNumbers
<1>2. \A a, b \in cs : << a, b >> \in R <=>
        \/ Kind(a) > Kind(b)
        \/ /\ Kind(a) = Kind(b)
           /\ Rank(a) > Rank(b) \/ (Rank(a) = Rank(b) /\ a.id < b.id)
  <2> TAKE a \in cs, b \in cs
  <2>1. << a, b >> \in R <=> Fresher(a, b) \/ (~ Fresher(b, a) /\ a.id < b.id)
    OBVIOUS
  <2> QED
    BY <1>1, <2>1, FresherByKey
<1> HIDE DEF R
<1>3. StrictOrder(cs, R)
  <2>1. \A x \in cs : << x, x >> \notin R
    BY <1>1, <1>2
  <2>2. \A x, y, z \in cs : << x, y >> \in R /\ << y, z >> \in R => << x, z >> \in R
    BY <1>1, <1>2
  <2> QED
    BY <2>1, <2>2 DEF StrictOrder
<1>4. PICK x \in cs : \A y \in cs : << y, x >> \notin R
  BY <1>3, FirstExists DEF Candidates
<1>5. x \in freshest_candidates(cs)
  BY <1>1, <1>2, <1>4, FresherByKey DEF freshest_candidates
<1>6. \A d \in freshest_candidates(cs) : x.id <= d.id
  <2> TAKE d \in freshest_candidates(cs)
  <2>1. d \in cs /\ ~ Fresher(x, d)
    BY DEF freshest_candidates
  <2>2. Kind(x) <= Kind(d) /\ (Kind(x) = Kind(d) => Rank(x) <= Rank(d))
    BY <1>1, <2>1, FresherByKey
  <2>3. << d, x >> \notin R
    BY <1>4, <2>1
  <2>4. ~ (Kind(d) > Kind(x)) /\ ~ (Kind(d) = Kind(x) /\ Rank(d) = Rank(x) /\ d.id < x.id)
        /\ ~ (Kind(d) = Kind(x) /\ Rank(d) > Rank(x))
    BY <1>2, <2>1, <2>3
  <2> QED
    BY <1>1, <2>1, <2>2, <2>4
<1>7. deterministic_duplicate_winner(cs) \in freshest_candidates(cs)
  BY <1>5, <1>6 DEF deterministic_duplicate_winner
<1> QED
  BY <1>7 DEF freshest_candidates

-----------------------------------------------------------------------------
(* Coverage and overlap components *)

LEMMA DisjointByBounds ==
  ASSUME NEW a, NEW b
  PROVE  coverage_relation(a, b) = "disjoint" <=>
            /\ a.coverage.mode # "unknown" /\ b.coverage.mode # "unknown"
            /\ Closes(a) < Opens(b) \/ Closes(b) < Opens(a)
BY DEF coverage_relation, Opens, Closes

LEMMA DisjointIsMutual ==
  ASSUME NEW a, NEW b, coverage_relation(a, b) = "disjoint"
  PROVE  coverage_relation(b, a) = "disjoint"
BY DisjointByBounds

(* Disjoint candidates cover no common instant.                            *)
LEMMA DisjointIsApart ==
  ASSUME NEW cs, Candidates(cs), NEW a \in cs, NEW b \in cs,
         coverage_relation(a, b) = "disjoint", NEW t \in Nat
  PROVE  ~ (Covers(a, t) /\ Covers(b, t))
<1>1. Closes(a) < Opens(b) \/ Closes(b) < Opens(a)
  BY DisjointByBounds
<1>2. /\ Opens(a) \in Nat /\ Opens(b) \in Nat
      /\ Closes(a) \in Nat /\ Closes(b) \in Nat
  <2>1. Horizon \in Nat
    BY BoundAssumption
  <2> QED
    BY <2>1, KeysAreNumbers
<1> QED
  BY <1>1, <1>2 DEF Covers, Opens, Closes

LEMMA ComponentIsClosed ==
  ASSUME NEW cs, NEW c \in cs
  PROVE  /\ c \in overlap_component(cs, c)
         /\ overlap_component(cs, c) \in SUBSET cs
         /\ OverlapClosed(cs, overlap_component(cs, c))
<1>1. c \in overlap_component(cs, c) /\ overlap_component(cs, c) \in SUBSET cs
  BY DEF overlap_component
<1>2. ASSUME NEW x \in cs, NEW y \in overlap_component(cs, c),
             coverage_relation(x, y) # "disjoint"
      PROVE  x \in overlap_component(cs, c)
  <2>1. ASSUME NEW s \in SUBSET cs, c \in s, OverlapClosed(cs, s) PROVE x \in s
    <3>1. y \in s
      BY <2>1 DEF overlap_component
    <3> QED
      BY <1>2, <2>1, <3>1 DEF OverlapClosed
  <2> QED
    BY <2>1 DEF overlap_component
<1> QED
  BY <1>1, <1>2 DEF OverlapClosed

LEMMA ComponentIsSmallest ==
  ASSUME NEW cs, NEW c \in cs, NEW s \in SUBSET cs, c \in s, OverlapClosed(cs, s)
  PROVE  overlap_component(cs, c) \subseteq s
BY DEF overlap_component

(* Every member of a component has that component for its own.             *)
LEMMA ComponentOfMember ==
  ASSUME NEW cs, NEW c \in cs, NEW d \in overlap_component(cs, c)
  PROVE  overlap_component(cs, d) = overlap_component(cs, c)
<1>1. d \in cs
  BY ComponentIsClosed
<1>2. overlap_component(cs, d) \subseteq overlap_component(cs, c)
  BY <1>1, ComponentIsClosed, ComponentIsSmallest
<1>3. c \in overlap_component(cs, d)
  <2> SUFFICES ASSUME c \notin overlap_component(cs, d) PROVE FALSE
    OBVIOUS
  <2> DEFINE rest == cs \ overlap_component(cs, d)
  <2>1. ASSUME NEW x \in cs, NEW y \in rest, coverage_relation(x, y) # "disjoint"
        PROVE  x \in rest
    <3>1. x \in overlap_component(cs, d) => y \in overlap_component(cs, d)
      BY <1>1, <2>1, ComponentIsClosed, DisjointIsMutual DEF OverlapClosed
    <3> QED
      BY <2>1, <3>1
  <2>2. OverlapClosed(cs, rest) /\ rest \in SUBSET cs /\ c \in rest
    BY <2>1 DEF OverlapClosed
  <2> HIDE DEF rest
  <2>3. d \in rest
    BY <2>2, ComponentIsSmallest
  <2> QED
    BY <1>1, <2>3, ComponentIsClosed DEF rest
<1>4. overlap_component(cs, c) \subseteq overlap_component(cs, d)
  BY <1>1, <1>3, ComponentIsClosed, ComponentIsSmallest
<1> QED
  BY <1>2, <1>4

(* The components part the candidates, and members of two never meet.      *)
LEMMA ComponentsPart ==
  ASSUME NEW cs
  PROVE  /\ \A k \in overlap_components(cs) : k \in SUBSET cs /\ k # {}
         /\ \A c \in cs : \E k \in overlap_components(cs) : c \in k
         /\ \A k, l \in overlap_components(cs) : k \cap l # {} => k = l
         /\ \A k, l \in overlap_components(cs) : \A c \in k, d \in l :
                k # l => coverage_relation(c, d) = "disjoint"
<1>1. ASSUME NEW k \in overlap_components(cs) PROVE k \in SUBSET cs /\ k # {}
  <2>1. PICK c \in cs : k = overlap_component(cs, c)
    BY DEF overlap_components
  <2> QED
    BY <2>1, ComponentIsClosed
<1>2. ASSUME NEW c \in cs PROVE \E k \in overlap_components(cs) : c \in k
  BY ComponentIsClosed DEF overlap_components
<1>3. ASSUME NEW k \in overlap_components(cs), NEW x \in k
      PROVE  k = overlap_component(cs, x) /\ x \in cs
  <2>1. PICK c \in cs : k = overlap_component(cs, c)
    BY DEF overlap_components
  <2> QED
    BY <1>1, <2>1, ComponentOfMember
<1>4. \A k, l \in overlap_components(cs) : k \cap l # {} => k = l
  BY <1>3
<1>5. ASSUME NEW k \in overlap_components(cs), NEW l \in overlap_components(cs),
             NEW c \in k, NEW d \in l, k # l
      PROVE  coverage_relation(c, d) = "disjoint"
  <2>1. l = overlap_component(cs, d) /\ d \in cs /\ c \in cs
    BY <1>3
  <2>2. OverlapClosed(cs, l)
    BY <2>1, ComponentIsClosed
  <2>3. c \notin l
    BY <1>4, <1>5
  <2> QED
    BY <2>1, <2>2, <2>3 DEF OverlapClosed
<1> QED
  BY <1>1, <1>2, <1>4, <1>5

-----------------------------------------------------------------------------
(* Decisions *)

Ids(cs) == { c.id : c \in cs }

\* the decisions of a set of candidates: one for each
DecisionsOf(cs, D) == D = [i \in Ids(cs) |-> D[i]]

Chosen(cs, D) == { c \in cs : D[c.id].status = "selected" }

Held(D) == \E i \in DOMAIN D : Blocked(D[i].status)

LEMMA DecisionsDomain ==
  ASSUME NEW cs, NEW D, DecisionsOf(cs, D)
  PROVE  DOMAIN D = Ids(cs)
BY DEF DecisionsOf

LEMMA BlockedGroupHolds ==
  ASSUME NEW cs, cs # {}, NEW status, Blocked(status)
  PROVE  /\ DecisionsOf(cs, blocked_group(cs, status))
         /\ Chosen(cs, blocked_group(cs, status)) = {}
         /\ Held(blocked_group(cs, status))
<1> DEFINE D == blocked_group(cs, status)
<1>1. DOMAIN D = Ids(cs) /\ \A i \in Ids(cs) : D[i].status = status
  BY DEF blocked_group, Ids
<1>2. DecisionsOf(cs, D)
  BY DEF DecisionsOf, blocked_group, Ids
<1>3. \A c \in cs : c.id \in Ids(cs)
  BY DEF Ids
<1>4. status # "selected"
  BY DEF Blocked
<1> QED
  BY <1>1, <1>2, <1>3, <1>4 DEF Chosen, Held

LEMMA SupersessionSelectsOne ==
  ASSUME NEW cs, Candidates(cs), NEW w \in cs
  PROVE  /\ DecisionsOf(cs, build_supersession_plan(cs, w))
         /\ Chosen(cs, build_supersession_plan(cs, w)) = {w}
<1> DEFINE D == build_supersession_plan(cs, w)
<1>1. DecisionsOf(cs, D)
  BY DEF DecisionsOf, build_supersession_plan, Ids
<1>2. \A i \in Ids(cs) : D[i].status = "selected" <=> i = w.id
  BY DEF build_supersession_plan, Ids, superseded_status
<1>3. \A c \in cs : c.id \in Ids(cs) /\ (c.id = w.id <=> c = w)
  BY DEF Ids, Candidates
<1> HIDE DEF D
<1>4. Chosen(cs, D) = {w}
  BY <1>2, <1>3 DEF Chosen
<1> QED
  BY <1>1, <1>4 DEF D

(* The decisions of parts that have no candidate in common, put together.  *)
LEMMA JoinedParts ==
  ASSUME NEW cs, Candidates(cs),
         NEW K, \A k \in K : k \in SUBSET cs, \A c \in cs : \E k \in K : c \in k,
         \A k, l \in K : k \cap l # {} => k = l,
         NEW P, \A k \in K : DecisionsOf(k, P[k]),
         NEW F, \A k \in K : P[k] \in F, \A f \in F : \E k \in K : f = P[k]
  PROVE  /\ DecisionsOf(cs, Joined(F))
         /\ \A k \in K : \A c \in k : Joined(F)[c.id] = P[k][c.id]
<1> DEFINE D == Joined(F)
<1>1. \A k \in K : DOMAIN P[k] = Ids(k)
  BY DecisionsDomain
<1>2. D = [i \in UNION { DOMAIN f : f \in F } |-> D[i]]
  BY DEF Joined
<1>3. UNION { DOMAIN f : f \in F } = Ids(cs)
  <2>1. ASSUME NEW i \in Ids(cs) PROVE i \in UNION { DOMAIN f : f \in F }
    <3>1. PICK c \in cs : i = c.id
      BY DEF Ids
    <3>2. PICK k \in K : c \in k
      OBVIOUS
    <3>3. i \in DOMAIN P[k]
      BY <1>1, <3>1, <3>2 DEF Ids
    <3> QED
      BY <3>3
  <2>2. ASSUME NEW k \in K, NEW i \in DOMAIN P[k] PROVE i \in Ids(cs)
    BY <1>1, <2>2 DEF Ids
  <2> QED
    BY <2>1, <2>2
<1>4. DecisionsOf(cs, D)
  BY <1>2, <1>3 DEF DecisionsOf
<1>5. ASSUME NEW k \in K, NEW c \in k PROVE D[c.id] = P[k][c.id]
  <2>1. c.id \in DOMAIN P[k] /\ c.id \in Ids(cs)
    BY <1>1 DEF Ids
  <2>2. ASSUME NEW f \in F, c.id \in DOMAIN f PROVE f = P[k]
    <3>1. PICK l \in K : f = P[l]
      OBVIOUS
    <3>2. PICK d \in l : d.id = c.id
      BY <1>1, <2>2, <3>1 DEF Ids
    <3>3. d = c
      BY <3>2 DEF Candidates
    <3> QED
      BY <3>1, <3>3
  <2>3. (CHOOSE f \in F : c.id \in DOMAIN f) = P[k]
    <3>1. P[k] \in F
      OBVIOUS
    <3> QED
      BY ONLY <2>1, <2>2, <3>1
  <2>4. c.id \in UNION { DOMAIN f : f \in F }
    BY <1>3, <2>1
  <2>5. D[c.id] = (CHOOSE f \in F : c.id \in DOMAIN f)[c.id]
    BY ONLY <2>4 DEF Joined
  <2> QED
    BY <2>3, <2>5
<1> QED
  BY <1>4, <1>5

-----------------------------------------------------------------------------
(* What the planner selects *)

\* w may speak for c: it is no staler or has the same bytes; it covers what c covers
StandsFor(w, c) == ~ Fresher(c, w) \/ c.fingerprint = w.fingerprint
CoversWhole(w, c) == winner_contains_all_candidates(w, {c})

LEMMA ContainsAll ==
  ASSUME NEW w, NEW cs
  PROVE  winner_contains_all_candidates(w, cs) <=> \A c \in cs : CoversWhole(w, c)
BY DEF winner_contains_all_candidates, CoversWhole

LEMMA IdenticalStandsFor ==
  ASSUME NEW cs, Candidates(cs), all_identical_candidates(cs), NEW w \in cs, NEW c \in cs
  PROVE  StandsFor(w, c) /\ CoversWhole(w, c)
<1>1. c.coverage = w.coverage /\ c.fingerprint = w.fingerprint
  BY DEF all_identical_candidates
<1>2. Bounds(c) = Bounds(w)
  BY <1>1 DEF Bounds
<1>3. Opens(c) \in Nat /\ Closes(c) \in Nat
  <2>1. Horizon \in Nat
    BY BoundAssumption
  <2> QED
    BY <2>1, KeysAreNumbers
<1>4. CoversWhole(w, c)
  BY <1>2, <1>3 DEF CoversWhole, winner_contains_all_candidates, Opens, Closes
<1> QED
  BY <1>1, <1>4 DEF StandsFor

(* An overlap component is held, or one candidate stands for all of it.    *)
LEMMA ComponentDecides ==
  ASSUME NEW cs, Candidates(cs), cs # {}, NEW mode
  PROVE  LET D == plan_overlap_component(cs, mode)
         IN  /\ DecisionsOf(cs, D)
             /\ \/ Chosen(cs, D) = {} /\ Held(D)
                \/ \E w \in cs : /\ Chosen(cs, D) = {w}
                                 /\ \A c \in cs : StandsFor(w, c) /\ CoversWhole(w, c)
<1> DEFINE D == plan_overlap_component(cs, mode)
           w == deterministic_duplicate_winner(cs)
<1>1. w \in cs /\ \A c \in cs : ~ Fresher(c, w)
  BY WinnerIsFreshest
<1> HIDE DEF w
<1>2. ASSUME NEW status, Blocked(status), D = blocked_group(cs, status)
      PROVE  DecisionsOf(cs, D) /\ Chosen(cs, D) = {} /\ Held(D)
  <2> HIDE DEF D
  <2> QED
    BY <1>2, BlockedGroupHolds
<1>3. ASSUME NEW v \in cs, D = build_supersession_plan(cs, v)
      PROVE  DecisionsOf(cs, D) /\ Chosen(cs, D) = {v}
  <2> HIDE DEF D
  <2> QED
    BY <1>3, SupersessionSelectsOne
<1>4. Cardinality(cs) \in Nat /\ Cardinality(cs) # 0
  BY FS_CardinalityType, FS_EmptySet DEF Candidates
<1>5. CASE Cardinality(cs) = 1
  <2>1. PICK v : cs = {v}
    BY <1>5, FS_Singleton DEF Candidates
  <2>2. D = build_supersession_plan(cs, v) /\ v \in cs
    <3>1. (CHOOSE c \in cs : TRUE) = v
      BY <2>1
    <3> QED
      BY <1>5, <2>1, <3>1 DEF plan_overlap_component
  <2>3. all_identical_candidates(cs)
    BY <2>1 DEF all_identical_candidates
  <2> QED
    BY <1>3, <2>2, <2>3, IdenticalStandsFor
<1>6. CASE Cardinality(cs) > 1 /\ incomparable(cs)
  <2>1. D = blocked_group(cs, "blocked_incomparable_candidates")
    BY <1>4, <1>6 DEF plan_overlap_component
  <2>2. Blocked("blocked_incomparable_candidates")
    BY DEF Blocked
  <2> QED
    BY <1>2, <2>1, <2>2
<1>7. CASE Cardinality(cs) > 1 /\ ~ incomparable(cs) /\ mode = "appendable_range"
  <2>1. D = plan_appendable_component(cs)
    BY <1>4, <1>7 DEF plan_overlap_component
  <2>2. CASE all_identical_candidates(cs)
    <3>1. D = build_supersession_plan(cs, w)
      BY <2>1, <2>2 DEF plan_appendable_component, w
    <3> QED
      BY <1>1, <1>3, <2>2, <3>1, IdenticalStandsFor
  <2>3. CASE ~ all_identical_candidates(cs)
    <3>1. D = blocked_group(cs, "blocked_partial_overlap")
      BY <2>1, <2>3 DEF plan_appendable_component
    <3>2. Blocked("blocked_partial_overlap")
      BY DEF Blocked
    <3> QED
      BY <1>2, <3>1, <3>2
  <2> QED
    BY <2>2, <2>3
<1>8. CASE Cardinality(cs) > 1 /\ ~ incomparable(cs) /\ mode # "appendable_range"
  <2>1. D = plan_replaceable_component(cs)
    BY <1>4, <1>8 DEF plan_overlap_component
  <2>2. CASE NoUniqueFreshest(cs)
    <3>1. D = blocked_group(cs, "blocked_ambiguous_freshness")
      BY <2>1, <2>2 DEF plan_replaceable_component
    <3>2. Blocked("blocked_ambiguous_freshness")
      BY DEF Blocked
    <3> QED
      BY <1>2, <3>1, <3>2
  <2>3. CASE ~ NoUniqueFreshest(cs) /\ ~ winner_contains_all_candidates(w, cs)
    <3>1. D = blocked_group(cs, "blocked_partial_overlap")
      BY <2>1, <2>3 DEF plan_replaceable_component, w
    <3>2. Blocked("blocked_partial_overlap")
      BY DEF Blocked
    <3> QED
      BY <1>2, <3>1, <3>2
  <2>4. CASE ~ NoUniqueFreshest(cs) /\ winner_contains_all_candidates(w, cs)
    <3>1. D = build_supersession_plan(cs, w)
      BY <2>1, <2>4 DEF plan_replaceable_component, w
    <3> QED
      BY <1>1, <1>3, <2>4, <3>1, ContainsAll DEF StandsFor
  <2> QED
    BY <2>2, <2>3, <2>4
<1> QED
  BY <1>4, <1>5, <1>6, <1>7, <1>8

Ranged(cs) == \A c \in cs : c.mode # "exclusive_snapshot"

\* what the decisions of a selection group promise
GroupSound(cs, D) ==
    /\ DecisionsOf(cs, D)
    /\ \A c, d \in Chosen(cs, D) : c # d => coverage_relation(c, d) = "disjoint"
    /\ ~ Held(D) => \A c \in cs : \E w \in Chosen(cs, D) :
                        StandsFor(w, c) /\ (Ranged(cs) => CoversWhole(w, c))

LEMMA BlockedIsSound ==
  ASSUME NEW cs, cs # {}, NEW status, Blocked(status)
  PROVE  GroupSound(cs, blocked_group(cs, status))
BY BlockedGroupHolds DEF GroupSound

(* The planner holds a selection group, or selects exports that never meet *)
(* and stand for the whole of it.                                          *)
LEMMA GroupDecides ==
  ASSUME NEW cs, Candidates(cs), cs # {}
  PROVE  GroupSound(cs, plan_group(cs))
<1>1. CASE group_failures(cs) # "none"
  <2>1. plan_group(cs) = blocked_group(cs, group_failures(cs))
    BY <1>1 DEF plan_group
  <2>2. Blocked(group_failures(cs))
    BY <1>1 DEF group_failures, Blocked
  <2> QED
    BY <2>1, <2>2, BlockedIsSound
<1>2. CASE group_failures(cs) = "none" /\ group_policy(cs) = "none"
  <2>1. plan_group(cs) = blocked_group(cs, "blocked_invalid_candidate")
    BY <1>2 DEF plan_group
  <2>2. Blocked("blocked_invalid_candidate")
    BY DEF Blocked
  <2> QED
    BY <2>1, <2>2, BlockedIsSound
<1>3. CASE group_failures(cs) = "none" /\ group_policy(cs) = "exclusive_snapshot"
  <2> DEFINE w == deterministic_duplicate_winner(cs)
  <2>1. plan_group(cs) = plan_exclusive_group(cs)
    BY <1>3 DEF plan_group
  <2>2. CASE NoUniqueFreshest(cs)
    <3>1. plan_group(cs) = blocked_group(cs, "blocked_ambiguous_freshness")
      BY <2>1, <2>2 DEF plan_exclusive_group
    <3>2. Blocked("blocked_ambiguous_freshness")
      BY DEF Blocked
    <3> QED
      BY <3>1, <3>2, BlockedIsSound
  <2>3. CASE ~ NoUniqueFreshest(cs)
    <3>1. plan_group(cs) = build_supersession_plan(cs, w)
      BY <2>1, <2>3 DEF plan_exclusive_group
    <3>2. w \in cs /\ \A c \in cs : ~ Fresher(c, w)
      BY WinnerIsFreshest
    <3> HIDE DEF w
    <3>3. DecisionsOf(cs, plan_group(cs)) /\ Chosen(cs, plan_group(cs)) = {w}
      BY <3>1, <3>2, SupersessionSelectsOne
    <3>4. ~ Ranged(cs)
      <4> DEFINE modes == { c.mode : c \in cs }
      <4>1. "exclusive_snapshot" \in modes
        <5>1. CASE "exclusive_snapshot" \notin modes /\ Cardinality(modes) = 1
          <6>1. group_policy(cs) = CHOOSE m \in modes : TRUE
            BY <5>1 DEF group_policy
          <6>2. modes # {}
            OBVIOUS
          <6>3. (CHOOSE m \in modes : TRUE) \in modes
            BY <6>2
          <6> QED
            BY <1>3, <6>1, <6>3
        <5>2. CASE "exclusive_snapshot" \notin modes /\ Cardinality(modes) # 1
          BY <1>3, <5>2 DEF group_policy
        <5> QED
          BY <5>1, <5>2
      <4> QED
        BY <4>1 DEF Ranged
    <3> QED
      BY <3>2, <3>3, <3>4 DEF GroupSound, StandsFor
  <2> QED
    BY <2>2, <2>3
<1>4. CASE group_failures(cs) = "none" /\ group_policy(cs) \notin {"none", "exclusive_snapshot"}
  <2> DEFINE K == overlap_components(cs)
             P == [k \in K |-> plan_overlap_component(k, group_policy(cs))]
             F == { P[k] : k \in K }
             D == Joined(F)
  <2>1. plan_group(cs) = D
    <3>1. plan_group(cs) = Joined({ plan_overlap_component(k, group_policy(cs)) : k \in K })
      BY <1>4 DEF plan_group
    <3>2. { plan_overlap_component(k, group_policy(cs)) : k \in K } = { P[k] : k \in K }
      OBVIOUS
    <3> QED
      BY <3>1, <3>2
  <2>2. \A k \in K : P[k] = plan_overlap_component(k, group_policy(cs))
    OBVIOUS
  <2>3. /\ \A k \in K : k \in SUBSET cs /\ k # {}
        /\ \A c \in cs : \E k \in K : c \in k
        /\ \A k, l \in K : k \cap l # {} => k = l
        /\ \A k, l \in K : \A c \in k, d \in l :
               k # l => coverage_relation(c, d) = "disjoint"
    BY ComponentsPart
  <2>9. (\A k \in K : P[k] \in F) /\ (\A f \in F : \E k \in K : f = P[k])
    OBVIOUS
  <2> HIDE DEF P, K, F
  <2>4. \A k \in K :
            /\ DecisionsOf(k, P[k])
            /\ \/ Chosen(k, P[k]) = {} /\ Held(P[k])
               \/ \E w \in k : /\ Chosen(k, P[k]) = {w}
                               /\ \A c \in k : StandsFor(w, c) /\ CoversWhole(w, c)
    <3> TAKE k \in K
    <3>1. Candidates(k) /\ k # {}
      BY <2>3, SomeCandidates
    <3> QED
      BY <2>2, <3>1, ComponentDecides
  <2>5. DecisionsOf(cs, D) /\ \A k \in K : \A c \in k : D[c.id] = P[k][c.id]
    <3>1. \A k \in K : DecisionsOf(k, P[k])
      BY <2>4
    <3> QED
      BY <2>3, <2>9, <3>1, JoinedParts
  <2> HIDE DEF D
  <2>10. DOMAIN D = Ids(cs) /\ \A k \in K : DOMAIN P[k] = Ids(k)
    BY <2>4, <2>5, DecisionsDomain
  <2>6. ASSUME NEW c \in Chosen(cs, D), NEW d \in Chosen(cs, D), c # d
        PROVE  coverage_relation(c, d) = "disjoint"
    <3>1. PICK k \in K : c \in k
      BY <2>3 DEF Chosen
    <3>2. PICK l \in K : d \in l
      BY <2>3 DEF Chosen
    <3>3. c \in Chosen(k, P[k]) /\ d \in Chosen(l, P[l])
      BY <2>5, <3>1, <3>2 DEF Chosen
    <3>4. k # l
      BY <2>4, <2>6, <3>3
    <3> QED
      BY <2>3, <3>1, <3>2, <3>4
  <2>7. ASSUME ~ Held(D), NEW c \in cs
        PROVE  \E w \in Chosen(cs, D) : StandsFor(w, c) /\ CoversWhole(w, c)
    <3>1. PICK k \in K : c \in k
      BY <2>3
    <3>2. ~ Held(P[k])
      <4>1. ASSUME NEW i \in DOMAIN P[k] PROVE ~ Blocked(P[k][i].status)
        <5>1. PICK e \in k : e.id = i
          BY <2>10, <4>1 DEF Ids
        <5>2. i \in DOMAIN D
          BY <2>3, <2>10, <5>1 DEF Ids
        <5> QED
          BY <2>5, <2>7, <5>1, <5>2 DEF Held
      <4> QED
        BY <4>1 DEF Held
    <3>3. PICK w \in k : Chosen(k, P[k]) = {w} /\ StandsFor(w, c) /\ CoversWhole(w, c)
      BY <2>4, <3>1, <3>2
    <3>4. w \in Chosen(cs, D)
      <4>1. P[k][w.id].status = "selected"
        BY <3>3 DEF Chosen
      <4> QED
        BY <2>3, <2>5, <4>1 DEF Chosen
    <3> QED
      BY <3>3, <3>4
  <2> QED
    BY <2>1, <2>5, <2>6, <2>7 DEF GroupSound
<1> QED
  BY <1>1, <1>2, <1>3, <1>4

GroupOf(cs, g) == { c \in cs : c.group = g }

(* The plan of a capture: its selected candidates in order, never two of a *)
(* group that meet, and, unless it is blocked, one to stand for each.      *)
LEMMA PlanDecides ==
  ASSUME NEW cs, Candidates(cs)
  PROVE  LET D == plan_translation_inputs(cs).decisions
         IN  /\ DecisionsOf(cs, D)
             /\ plan_translation_inputs(cs) =
                    [selected |-> SelectionOrder(Chosen(cs, D)), decisions |-> D,
                     blocked |-> Held(D)]
             /\ \A c, d \in Chosen(cs, D) :
                    c # d /\ c.group = d.group => coverage_relation(c, d) = "disjoint"
             /\ ~ Held(D) => \A c \in cs : \E w \in Chosen(cs, D) :
                    /\ w.group = c.group /\ StandsFor(w, c)
                    /\ Ranged(GroupOf(cs, c.group)) => CoversWhole(w, c)
<1> DEFINE K == { GroupOf(cs, g) : g \in { c.group : c \in cs } }
           P == [k \in K |-> plan_group(k)]
           F == { plan_group({ c \in cs : c.group = g }) : g \in { c.group : c \in cs } }
           D == Joined(F)
<1>1. plan_translation_inputs(cs) = build_translation_plan(cs, D)
  BY DEF plan_translation_inputs
<1>2. plan_translation_inputs(cs) =
        [selected |-> SelectionOrder(Chosen(cs, D)), decisions |-> D, blocked |-> Held(D)]
  <2> HIDE DEF D
  <2> QED
    BY <1>1 DEF build_translation_plan, Chosen, Held
<1>3. \A k \in K : P[k] = plan_group(k)
  OBVIOUS
<1>4. (\A k \in K : P[k] \in F) /\ (\A f \in F : \E k \in K : f = P[k])
  <2>1. ASSUME NEW k \in K PROVE P[k] \in F
    <3>1. PICK g \in { c.group : c \in cs } : k = GroupOf(cs, g)
      OBVIOUS
    <3>2. k = { c \in cs : c.group = g }
      BY <3>1 DEF GroupOf
    <3>3. plan_group({ c \in cs : c.group = g }) \in F
      OBVIOUS
    <3> QED
      BY <1>3, <3>2, <3>3
  <2>2. ASSUME NEW f \in F PROVE \E k \in K : f = P[k]
    <3>1. PICK g \in { c.group : c \in cs } : f = plan_group({ c \in cs : c.group = g })
      OBVIOUS
    <3>2. GroupOf(cs, g) \in K /\ GroupOf(cs, g) = { c \in cs : c.group = g }
      BY DEF GroupOf
    <3>3. f = P[GroupOf(cs, g)]
      BY <1>3, <3>1, <3>2
    <3> QED
      BY <3>2, <3>3
  <2> QED
    BY <2>1, <2>2
<1>5. /\ \A k \in K : k \in SUBSET cs /\ k # {}
      /\ \A c \in cs : GroupOf(cs, c.group) \in K /\ c \in GroupOf(cs, c.group)
      /\ \A k \in K : \A c \in k : k = GroupOf(cs, c.group)
  BY DEF GroupOf
<1> HIDE DEF K, P, F
<1>6. \A k \in K : GroupSound(k, P[k])
  <2> TAKE k \in K
  <2>1. Candidates(k) /\ k # {}
    BY <1>5, SomeCandidates
  <2> QED
    BY <1>3, <2>1, GroupDecides
<1>7. DecisionsOf(cs, D) /\ \A k \in K : \A c \in k : D[c.id] = P[k][c.id]
  <2>1. \A k \in K : DecisionsOf(k, P[k])
    BY <1>6 DEF GroupSound
  <2>2. \A k, l \in K : k \cap l # {} => k = l
    BY <1>5
  <2>3. (\A k \in K : k \in SUBSET cs) /\ (\A c \in cs : \E k \in K : c \in k)
    BY <1>5
  <2> QED
    BY <1>4, <2>1, <2>2, <2>3, JoinedParts
<1> HIDE DEF D
<1>8. DOMAIN D = Ids(cs) /\ \A k \in K : DOMAIN P[k] = Ids(k)
  BY <1>6, <1>7, DecisionsDomain DEF GroupSound
<1>9. ASSUME NEW c \in Chosen(cs, D), NEW d \in Chosen(cs, D), c # d, c.group = d.group
      PROVE  coverage_relation(c, d) = "disjoint"
  <2> DEFINE k == GroupOf(cs, c.group)
  <2>1. k \in K /\ c \in k /\ d \in k
    BY <1>5, <1>9 DEF Chosen, GroupOf
  <2> HIDE DEF k
  <2>2. c \in Chosen(k, P[k]) /\ d \in Chosen(k, P[k])
    BY <1>7, <2>1 DEF Chosen
  <2> QED
    BY <1>6, <1>9, <2>1, <2>2 DEF GroupSound
<1>10. ASSUME ~ Held(D), NEW c \in cs
       PROVE  \E w \in Chosen(cs, D) :
                /\ w.group = c.group /\ StandsFor(w, c)
                /\ Ranged(GroupOf(cs, c.group)) => CoversWhole(w, c)
  <2> DEFINE k == GroupOf(cs, c.group)
  <2>1. k \in K /\ c \in k /\ k \in SUBSET cs /\ \A w \in k : w.group = c.group
    BY <1>5 DEF GroupOf
  <2>2. k = GroupOf(cs, c.group)
    OBVIOUS
  <2> HIDE DEF k
  <2>3. ~ Held(P[k])
    <3>1. ASSUME NEW i \in DOMAIN P[k] PROVE ~ Blocked(P[k][i].status)
      <4>1. PICK e \in k : e.id = i
        BY <1>8, <2>1, <3>1 DEF Ids
      <4>2. i \in DOMAIN D
        BY <1>8, <2>1, <4>1 DEF Ids
      <4> QED
        BY <1>7, <1>10, <2>1, <4>1, <4>2 DEF Held
    <3> QED
      BY <3>1 DEF Held
  <2>4. PICK w \in Chosen(k, P[k]) : StandsFor(w, c) /\ (Ranged(k) => CoversWhole(w, c))
    BY <1>6, <2>1, <2>3 DEF GroupSound
  <2>5. w \in Chosen(cs, D)
    BY <1>7, <2>1, <2>4 DEF Chosen
  <2>6. w.group = c.group
    BY <2>1, <2>4 DEF Chosen
  <2> QED
    BY <2>2, <2>4, <2>5, <2>6
<1> QED
  BY <1>2, <1>7, <1>9, <1>10

(* The rows of a plan are those of its selected candidates.                *)
LEMMA PlanLists ==
  ASSUME NEW cs, Candidates(cs)
  PROVE  LET p == plan_translation_inputs(cs)
         IN  /\ Cardinality(Chosen(cs, p.decisions)) \in Nat
             /\ DOMAIN p.selected = 1..Cardinality(Chosen(cs, p.decisions))
             /\ \A i \in DOMAIN p.selected : p.selected[i] \in Chosen(cs, p.decisions)
             /\ \A i, j \in DOMAIN p.selected : p.selected[i] = p.selected[j] => i = j
             /\ \A c \in Chosen(cs, p.decisions) :
                    \E i \in DOMAIN p.selected : p.selected[i] = c
<1> DEFINE p == plan_translation_inputs(cs)
           S == Chosen(cs, p.decisions)
<1>1. p.selected = SelectionOrder(S)
  BY PlanDecides
<1>2. Candidates(S)
  BY SomeCandidates DEF Chosen
<1> HIDE DEF p, S
<1>3. /\ Cardinality(S) \in Nat
      /\ SelectionOrder(S) \in [1..Cardinality(S) -> S]
      /\ \A c \in S : \E i \in 1..Cardinality(S) : SelectionOrder(S)[i] = c
      /\ \A i, j \in 1..Cardinality(S) : SelectionOrder(S)[i] = SelectionOrder(S)[j] => i = j
  BY <1>2, SelectionOrderLists
<1>4. DOMAIN SelectionOrder(S) = 1..Cardinality(S)
  BY <1>3
<1> QED
  BY <1>1, <1>3, <1>4 DEF p, S

-----------------------------------------------------------------------------
(* The plan rebuilt from the evidence set *)

LEMMA MemberStatusMatches ==
  ASSUME NEW s
  PROVE  /\ planner_status_matches_member(retail_member_status(s), s)
         /\ retail_member_status(s) = "selected" <=> s = "selected"
BY DEF planner_status_matches_member, retail_member_status, Blocked

RetailMembers(set) == { m \in set.members : m.kind = "retail" }

(* The evidence set has one retail member for each candidate: what the     *)
(* planner decided of it.                                                  *)
LEMMA EvidenceHasMembers ==
  ASSUME NEW cs, NEW p, NEW status, build_evidence_set(cs, p, status) # NoEvidence
  PROVE  LET retail == RetailMembers(build_evidence_set(cs, p, status))
         IN  /\ \A m \in retail : \E c \in cs :
                    /\ m.locator = c.id
                    /\ m.status = retail_member_status(p.decisions[c.id].status)
             /\ \A c \in cs : \E m \in retail : m.locator = c.id
<1> DEFINE content == EvidenceContent(cs, p, status)
           E == build_evidence_set(cs, p, status)
<1>1. E.members = { [set |-> content, selection |-> << content, m.key >>,
                     id |-> << content, m.kind, m.locator >>, kind |-> m.kind,
                     locator |-> m.locator, status |-> m.status] : m \in content.members }
  <2> HIDE DEF content
  <2>1. E = IF content.selections = {} THEN NoEvidence
            ELSE [id |-> content,
                  selections |-> { [set |-> content, id |-> << content, s.key >>,
                                    basis |-> s.basis, gaps |-> s.gaps, key |-> s.key] :
                                        s \in content.selections },
                  members |-> { [set |-> content, selection |-> << content, m.key >>,
                                 id |-> << content, m.kind, m.locator >>, kind |-> m.kind,
                                 locator |-> m.locator, status |-> m.status] :
                                    m \in content.members },
                  observations |-> { [set |-> content,
                                      member |-> << content, "statement", o[1] >>,
                                      id |-> << content, o >>] : o \in content.observations }]
    BY DEF build_evidence_set, content
  <2>2. content.selections # {}
    BY <2>1
  <2> HIDE DEF E
  <2> QED
    BY <2>1, <2>2
<1>2. content.members = retail_member_records(cs, p) \cup
        { [kind |-> "statement", locator |-> d.path, key |-> StatementSelection(d.path),
           status |-> status[d]] : d \in DOMAIN status }
  BY DEF EvidenceContent
<1> HIDE DEF content, E
<1>3. ASSUME NEW m \in RetailMembers(E)
      PROVE  \E c \in cs : /\ m.locator = c.id
                           /\ m.status = retail_member_status(p.decisions[c.id].status)
  <2>1. PICK q \in content.members : q.kind = "retail" /\ m.locator = q.locator
                                        /\ m.status = q.status
    BY <1>1 DEF RetailMembers
  <2>2. q \in retail_member_records(cs, p)
    BY <1>2, <2>1
  <2> QED
    BY <2>1, <2>2 DEF retail_member_records
<1>4. ASSUME NEW c \in cs PROVE \E m \in RetailMembers(E) : m.locator = c.id
  <2>1. PICK q \in content.members : q.kind = "retail" /\ q.locator = c.id
    <3> DEFINE q == [kind |-> "retail", locator |-> c.id, key |-> RetailSelection,
                     status |-> retail_member_status(p.decisions[c.id].status)]
    <3>1. q \in retail_member_records(cs, p)
      BY DEF retail_member_records
    <3>2. q.kind = "retail" /\ q.locator = c.id
      OBVIOUS
    <3> HIDE DEF q
    <3> QED
      BY <1>2, <3>1, <3>2
  <2> DEFINE m == [set |-> content, selection |-> << content, q.key >>,
                   id |-> << content, q.kind, q.locator >>, kind |-> q.kind,
                   locator |-> q.locator, status |-> q.status]
  <2>2. m \in E.members /\ m.kind = "retail" /\ m.locator = c.id
    BY <1>1, <2>1
  <2> HIDE DEF m
  <2> QED
    BY <2>2 DEF RetailMembers
<1> QED
  BY <1>3, <1>4 DEF E

(* Whatever evidence set is written, the plan rebuilt from it is the plan  *)
(* it was written from.                                                    *)
LEMMA RebuiltPlanAgrees ==
  ASSUME NEW cs, Candidates(cs), NEW status,
         build_evidence_set(cs, plan_translation_inputs(cs), status) # NoEvidence
  PROVE  reconstruct_translation_input_plan(
            build_evidence_set(cs, plan_translation_inputs(cs), status), cs,
            plan_translation_inputs(cs)) = plan_translation_inputs(cs)
<1> DEFINE p == plan_translation_inputs(cs)
           D == p.decisions
           E == build_evidence_set(cs, p, status)
           retail == RetailMembers(E)
<1>1. /\ \A m \in retail : \E c \in cs :
            m.locator = c.id /\ m.status = retail_member_status(D[c.id].status)
      /\ \A c \in cs : \E m \in retail : m.locator = c.id
  BY EvidenceHasMembers
<1>2. /\ DecisionsOf(cs, D)
      /\ p = [selected |-> SelectionOrder(Chosen(cs, D)), decisions |-> D, blocked |-> Held(D)]
  BY PlanDecides
<1> HIDE DEF p, E
<1>3. \A m \in retail : m.status = retail_member_status(D[m.locator].status)
  BY <1>1
<1>4. { m.locator : m \in retail } = Ids(cs)
  BY <1>1 DEF Ids
<1> DEFINE selection == CHOOSE s \in E.selections : s.key = RetailSelection
           Decision(m) == IF planner_status_matches_member(m.status, D[m.locator].status)
                          THEN D[m.locator] ELSE inferred_decision(selection, m.status)
           member(i) == CHOOSE m \in retail : m.locator = i
           decisions == [i \in { m.locator : m \in retail } |-> Decision(member(i))]
<1>5. reconstruct_translation_input_plan(E, cs, p) =
        [selected |-> selected_candidate_ids(retail, cs, p), decisions |-> decisions,
         blocked |-> Held(decisions)]
  BY DEF reconstruct_translation_input_plan, RetailMembers, Held
<1>6. \A m \in retail : Decision(m) = D[m.locator]
  BY <1>3, MemberStatusMatches
<1>7. \A i \in Ids(cs) : member(i) \in retail /\ member(i).locator = i
  BY <1>4
<1>8. decisions = D
  <2>1. \A i \in Ids(cs) : Decision(member(i)) = D[i]
    BY <1>6, <1>7
  <2> HIDE DEF Decision, member
  <2>2. decisions = [i \in Ids(cs) |-> D[i]]
    BY <1>4, <2>1
  <2> QED
    BY <1>2, <2>2 DEF DecisionsOf
<1> HIDE DEF decisions
<1>9. selected_candidate_ids(retail, cs, p) = p.selected
  <2> DEFINE chosen == { c \in cs : \E m \in retail : m.locator = c.id /\ m.status = "selected" }
  <2>1. \A c \in cs : (\E m \in retail : m.locator = c.id /\ m.status = "selected")
                        <=> D[c.id].status = "selected"
    BY <1>1, <1>3, MemberStatusMatches
  <2>2. chosen = Chosen(cs, D)
    BY <2>1 DEF Chosen
  <2>3. selected_candidate_ids(retail, cs, p) =
            IF Range(p.selected) = chosen THEN p.selected ELSE SelectionOrder(chosen)
    BY DEF selected_candidate_ids
  <2> HIDE DEF chosen
  <2>4. p.selected = SelectionOrder(chosen)
    BY <1>2, <2>2
  <2> QED
    BY <2>3, <2>4
<1>10. reconstruct_translation_input_plan(E, cs, p) = p
  <2>1. p.selected = SelectionOrder(Chosen(cs, D))
    BY <1>2
  <2> HIDE DEF D, retail
  <2> QED
    BY <1>2, <1>5, <1>8, <1>9, <2>1
<1> QED
  BY <1>10 DEF p, E

-----------------------------------------------------------------------------
(* Statement documents *)

LEMMA StatusesOfDocuments ==
  ASSUME NEW ds
  PROVE  collect_statement_documents(ds)
            \in [Usable(ds) -> {"selected", "superseded", "blocked"}]
<1> DEFINE usable == Usable(ds)
           latest == latest_recognized_documents(usable)
           one == CHOOSE l \in latest : TRUE
           status(d) ==
             CASE latest = {} -> "blocked"
               [] latest # {} /\ Cardinality(latest) > 1 ->
                    IF d \in latest THEN "blocked" ELSE "superseded"
               [] OTHER ->
                    IF d \in evidence_documents_for_latest_snapshot(usable, one)
                    THEN "selected" ELSE "superseded"
<1>1. collect_statement_documents(ds) = [d \in usable |-> status(d)]
  BY DEF collect_statement_documents
<1> HIDE DEF usable, latest, one
<1>2. \A d : status(d) \in {"selected", "superseded", "blocked"}
  <2> TAKE d
  <2>1. CASE latest = {}
    BY <2>1
  <2>2. CASE latest # {} /\ Cardinality(latest) > 1
    BY <2>2
  <2>3. CASE latest # {} /\ ~ (Cardinality(latest) > 1)
    BY <2>3
  <2> QED
    BY <2>1, <2>2, <2>3
<1> HIDE DEF status
<1> QED
  BY <1>1, <1>2 DEF usable

\* documents as a capture holds them
Statements(ds) ==
    ds \subseteq Documents /\ \A d, e \in ds : d.path = e.path => d = e

(* Of two documents one precedes the other.                                *)
LEMMA PrecedenceIsTotal ==
  ASSUME NEW ds, Statements(ds), NEW d \in ds, NEW e \in ds, d # e
  PROVE  Precedes(d, e) \/ Precedes(e, d)
<1>1. d \in Documents /\ e \in Documents /\ d.path # e.path
  BY DEF Statements
<1>2. /\ d.path \in Nat /\ e.path \in Nat
      /\ PrecedenceValue(d) \in Nat /\ PrecedenceValue(e) \in Nat
  BY <1>1, DocumentAssumption DEF PrecedenceValue
<1> QED
  BY <1>1, <1>2 DEF Precedes

(* What one position adds up to is what its row says.                      *)
LEMMA TotalOfOne ==
  ASSUME NEW d, NEW p, d.rows[p].qty \in Int
  PROVE  Total(d, {p}) = d.rows[p].qty
<1> DEFINE n == d.rows[p].qty
           Step(f) == [s \in SUBSET {p} |->
                IF s = {} THEN 0
                ELSE d.rows[CHOOSE i \in s : TRUE].qty + f[s \ {CHOOSE i \in s : TRUE}]]
           g == [s \in SUBSET {p} |-> IF s = {} THEN 0 ELSE n]
           sum == CHOOSE f : f = Step(f)
<1>1. Total(d, {p}) = sum[{p}]
  BY DEF Total
<1>2. SUBSET {p} = {{}, {p}}
  OBVIOUS
<1>3. (CHOOSE i \in {p} : TRUE) = p
  OBVIOUS
<1>4. {p} \ {p} = {}
  OBVIOUS
<1>5. ASSUME NEW f, f = Step(f) PROVE f[{}] = 0 /\ f[{p}] = n + 0
  <2>1. f[{}] = 0
    BY <1>2, <1>5
  <2>2. f[{p}] = d.rows[p].qty + f[{}]
    BY <1>2, <1>3, <1>4, <1>5
  <2> QED
    BY <2>1, <2>2
<1>6. g = Step(g)
  <2>1. g[{}] = 0 /\ g[{p}] = n
    BY <1>2
  <2>2. ASSUME NEW s \in SUBSET {p} PROVE g[s] = Step(g)[s]
    <3>1. CASE s = {}
      BY <3>1
    <3>2. CASE s = {p}
      BY <1>3, <1>4, <2>1, <3>2
    <3> QED
      BY <1>2, <3>1, <3>2
  <2> QED
    BY <2>2
<1> HIDE DEF Step, g
<1>7. sum = Step(sum)
  BY <1>6
<1> HIDE DEF sum
<1>8. sum[{p}] = n + 0
  BY <1>5, <1>7
<1> QED
  BY <1>1, <1>8

(* Every reference is given by a document, for the target of a row that no *)
(* row read before it is on.                                               *)
LEMMA ReferencesOfRows ==
  ASSUME NEW ds, NEW x
  PROVE  x \in statement_references(ds) <=>
            \E d \in ds : \E i \in StatedRows(ds, d) :
                x = statement_reference(ds, d, RowTarget(d.rows[i]))
BY DEF statement_references

(* Rows of one document have positions, and quantities.                    *)
LEMMA RowsHavePositions ==
  ASSUME NEW ds, Statements(ds), NEW d \in ds, NEW i \in DOMAIN d.rows
  PROVE  i \in Nat /\ d.rows[i].qty \in Int /\ d.rows[i] \in Range(d.rows)
<1>1. d \in Documents
  BY DEF Statements
<1>2. DOMAIN d.rows \subseteq Nat /\ d.rows[i].qty \in Int
  BY <1>1, DocumentAssumption
<1>3. d.rows[i] \in Range(d.rows)
  BY DEF Range
<1> QED
  BY <1>2, <1>3

(* Of the rows of one key one is spoken, in one document.                  *)
LEMMA SpokenOnce ==
  ASSUME NEW ds, Statements(ds), NEW d \in ds, NEW e \in ds,
         NEW i \in SpokenRows(ds, d), NEW k \in SpokenRows(ds, e),
         RowKey(d.rows[i]) = RowKey(e.rows[k])
  PROVE  d = e /\ i = k
<1>1. i \in DOMAIN d.rows /\ k \in DOMAIN e.rows
  BY DEF SpokenRows
<1>2. ~ Precedes(e, d) /\ ~ Precedes(d, e)
  BY <1>1 DEF SpokenRows, Silent
<1>3. d = e
  BY <1>2, PrecedenceIsTotal
<1>4. FirstOfKey(d, i) /\ FirstOfKey(d, k)
  BY <1>3 DEF SpokenRows
<1>5. ~ (k < i) /\ ~ (i < k)
  BY <1>1, <1>3, <1>4 DEF FirstOfKey
<1>6. i \in Nat /\ k \in Nat
  BY <1>1, <1>3, RowsHavePositions
<1> QED
  BY <1>3, <1>5, <1>6

(* Rows that give references for one location, instrument, kind and date   *)
(* are of one key: a place is given in one of the kinds that mean the same.*)
LEMMA TargetNamesKey ==
  ASSUME NEW ds, Statements(ds), NEW d \in ds, NEW e \in ds,
         NEW i \in DOMAIN d.rows, NEW k \in DOMAIN e.rows,
         statement_row_location(d.rows[i]) = statement_row_location(e.rows[k]),
         d.rows[i].asset = e.rows[k].asset,
         reference_balance_kind(d.rows[i].kind) = reference_balance_kind(e.rows[k].kind),
         d.rows[i].asof = e.rows[k].asof
  PROVE  RowKey(d.rows[i]) = RowKey(e.rows[k]) /\ RowTarget(d.rows[i]) = RowTarget(e.rows[k])
<1> DEFINE r == d.rows[i]
           q == e.rows[k]
<1>1. /\ d \in Documents /\ e \in Documents
      /\ r \in Range(d.rows) /\ q \in Range(e.rows)
  BY RowsHavePositions DEF Statements
<1>2. r.place # "root" /\ q.place # "root"
  BY <1>1, DocumentAssumption
<1>3. r.place = q.place
  BY <1>2 DEF statement_row_location
<1>4. reference_balance_kind(r.kind) = reference_balance_kind(q.kind)
  OBVIOUS
<1>5. r.asset = q.asset /\ r.asof = q.asof
  OBVIOUS
<1> HIDE DEF r, q
<1>6. r.kind = q.kind
  BY ONLY <1>1, <1>3, <1>4, DocumentAssumption
<1>7. RowKey(r) = RowKey(q) /\ RowTarget(r) = RowTarget(q)
  BY <1>3, <1>5, <1>6 DEF RowKey, RowTarget, statement_row_location
<1> QED
  BY <1>7 DEF r, q

(* A reference quotes the row it is for.                                   *)
LEMMA ReferenceQuotes ==
  ASSUME NEW ds, Statements(ds), NEW d \in ds, NEW i \in StatedRows(ds, d)
  PROVE  LET x == statement_reference(ds, d, RowTarget(d.rows[i]))
         IN  /\ x.document = d.path /\ x.quantity = d.rows[i].qty
             /\ x.location = statement_row_location(d.rows[i]) /\ x.asset = d.rows[i].asset
             /\ x.kind = reference_balance_kind(d.rows[i].kind) /\ x.asof = d.rows[i].asof
<1> DEFINE t == RowTarget(d.rows[i])
           ps == { k \in StatedRows(ds, d) : RowTarget(d.rows[k]) = t }
           x == statement_reference(ds, d, t)
<1>1. /\ x.document = d.path /\ x.quantity = Total(d, ps)
      /\ x.location = t[1] /\ x.asset = t[2] /\ x.asof = t[4]
      /\ x.kind = reference_balance_kind(t[3])
  BY DEF statement_reference
<1>2. /\ t[1] = statement_row_location(d.rows[i]) /\ t[2] = d.rows[i].asset
      /\ t[3] = d.rows[i].kind /\ t[4] = d.rows[i].asof
  BY DEF RowTarget
<1>3. i \in SpokenRows(ds, d) /\ i \in DOMAIN d.rows
  BY DEF StatedRows, SpokenRows
<1>4. ASSUME NEW k \in ps PROVE k = i
  <2>1. k \in SpokenRows(ds, d) /\ k \in DOMAIN d.rows /\ RowTarget(d.rows[k]) = t
    BY DEF StatedRows, SpokenRows
  <2>2. /\ statement_row_location(d.rows[k]) = t[1] /\ d.rows[k].asset = t[2]
        /\ d.rows[k].kind = t[3] /\ d.rows[k].asof = t[4]
    BY <2>1 DEF RowTarget
  <2> HIDE DEF t, ps
  <2>3. RowKey(d.rows[k]) = RowKey(d.rows[i])
    BY <1>2, <1>3, <2>1, <2>2, TargetNamesKey
  <2> QED
    BY <1>3, <2>1, <2>3, SpokenOnce
<1>5. ps = {i}
  BY <1>4
<1>6. d.rows[i].qty \in Int
  BY <1>3, RowsHavePositions
<1> HIDE DEF t, ps, x
<1>7. x.quantity = d.rows[i].qty
  BY <1>1, <1>5, <1>6, TotalOfOne
<1> QED
  BY <1>1, <1>2, <1>7 DEF x, t

LEMMA OneReference ==
  ASSUME NEW ds, Statements(ds),
         NEW x \in statement_references(ds), NEW y \in statement_references(ds),
         << x.location, x.asset, x.kind, x.asof >> = << y.location, y.asset, y.kind, y.asof >>
  PROVE  x = y
<1>1. PICK d \in ds : \E i \in StatedRows(ds, d) :
            x = statement_reference(ds, d, RowTarget(d.rows[i]))
  BY ReferencesOfRows
<1>2. PICK i \in StatedRows(ds, d) : x = statement_reference(ds, d, RowTarget(d.rows[i]))
  BY <1>1
<1>3. PICK e \in ds : \E k \in StatedRows(ds, e) :
            y = statement_reference(ds, e, RowTarget(e.rows[k]))
  BY ReferencesOfRows
<1>4. PICK k \in StatedRows(ds, e) : y = statement_reference(ds, e, RowTarget(e.rows[k]))
  BY <1>3
<1>5. /\ i \in SpokenRows(ds, d) /\ i \in DOMAIN d.rows
      /\ k \in SpokenRows(ds, e) /\ k \in DOMAIN e.rows
  BY DEF StatedRows, SpokenRows
<1>6. /\ x.location = statement_row_location(d.rows[i]) /\ x.asset = d.rows[i].asset
      /\ x.kind = reference_balance_kind(d.rows[i].kind) /\ x.asof = d.rows[i].asof
  BY <1>2, ReferenceQuotes
<1>7. /\ y.location = statement_row_location(e.rows[k]) /\ y.asset = e.rows[k].asset
      /\ y.kind = reference_balance_kind(e.rows[k].kind) /\ y.asof = e.rows[k].asof
  BY <1>4, ReferenceQuotes
<1>8. RowKey(d.rows[i]) = RowKey(e.rows[k])
  <2>1. /\ statement_row_location(d.rows[i]) = statement_row_location(e.rows[k])
        /\ d.rows[i].asset = e.rows[k].asset /\ d.rows[i].asof = e.rows[k].asof
        /\ reference_balance_kind(d.rows[i].kind) = reference_balance_kind(e.rows[k].kind)
    BY <1>6, <1>7
  <2> QED
    BY ONLY Statements(ds), d \in ds, e \in ds, <1>5, <2>1, TargetNamesKey
<1>9. d = e /\ i = k
  BY <1>5, <1>8, SpokenOnce
<1> QED
  BY <1>2, <1>4, <1>9

(* Of the rows of one key the first of a document that none precedes is    *)
(* quoted, if it states anything, and no other.                            *)
LEMMA FirstIsQuoted ==
  ASSUME NEW ds, Statements(ds), NEW d \in ds, \A e \in ds : ~ Precedes(e, d),
         NEW i \in DOMAIN d.rows, FirstOfKey(d, i)
  PROVE  Quoted(ReferencesFor(ds, d.rows[i])) =
            IF States(d.rows[i]) THEN {<< d.path, d.rows[i].qty >>} ELSE {}
<1> DEFINE r == d.rows[i]
           x == statement_reference(ds, d, RowTarget(r))
<1>1. i \in SpokenRows(ds, d)
  BY DEF SpokenRows
<1>2. ASSUME NEW y \in ReferencesFor(ds, r)
      PROVE  States(r) /\ y = x
  <2>1. /\ y \in statement_references(ds)
        /\ y.location = statement_row_location(r) /\ y.asset = r.asset
        /\ y.kind = reference_balance_kind(r.kind) /\ y.asof = r.asof
    BY <1>2 DEF ReferencesFor
  <2> HIDE DEF x
  <2>2. PICK e \in ds : \E k \in StatedRows(ds, e) :
            y = statement_reference(ds, e, RowTarget(e.rows[k]))
    BY <2>1, ReferencesOfRows
  <2>3. PICK k \in StatedRows(ds, e) : y = statement_reference(ds, e, RowTarget(e.rows[k]))
    BY <2>2
  <2>4. k \in SpokenRows(ds, e) /\ k \in DOMAIN e.rows /\ States(e.rows[k])
    BY DEF StatedRows, SpokenRows
  <2>5. /\ y.location = statement_row_location(e.rows[k]) /\ y.asset = e.rows[k].asset
        /\ y.kind = reference_balance_kind(e.rows[k].kind) /\ y.asof = e.rows[k].asof
    BY <2>3, ReferenceQuotes
  <2>6. RowKey(e.rows[k]) = RowKey(d.rows[i])
    <3>1. /\ statement_row_location(e.rows[k]) = statement_row_location(d.rows[i])
          /\ e.rows[k].asset = d.rows[i].asset /\ e.rows[k].asof = d.rows[i].asof
          /\ reference_balance_kind(e.rows[k].kind) = reference_balance_kind(d.rows[i].kind)
      BY <2>1, <2>5
    <3> QED
      BY ONLY Statements(ds), d \in ds, e \in ds, i \in DOMAIN d.rows, <2>4, <3>1,
              TargetNamesKey
  <2>7. e = d /\ k = i
    BY <1>1, <2>4, <2>6, SpokenOnce
  <2> QED
    BY <2>3, <2>4, <2>7 DEF x
<1>3. CASE ~ States(r)
  <2>1. ReferencesFor(ds, r) = {}
    BY <1>2, <1>3
  <2> QED
    BY <1>3, <2>1 DEF Quoted
<1>4. CASE States(r)
  <2>1. i \in StatedRows(ds, d)
    BY <1>1, <1>4 DEF StatedRows
  <2>2. x \in statement_references(ds)
    BY <2>1, ReferencesOfRows
  <2>3. /\ x.document = d.path /\ x.quantity = r.qty
        /\ x.location = statement_row_location(r) /\ x.asset = r.asset
        /\ x.kind = reference_balance_kind(r.kind) /\ x.asof = r.asof
    BY <2>1, ReferenceQuotes
  <2> HIDE DEF x
  <2>4. x \in ReferencesFor(ds, r)
    BY <2>2, <2>3 DEF ReferencesFor
  <2>5. ReferencesFor(ds, r) = {x}
    BY <1>2, <2>4
  <2>6. Quoted({x}) = {<< x.document, x.quantity >>}
    BY DEF Quoted
  <2> QED
    BY <1>4, <2>3, <2>5, <2>6
<1> QED
  BY <1>3, <1>4

-----------------------------------------------------------------------------
(* The invariant of the specification *)

CaptureInv ==
    /\ files \subseteq Exports /\ IsFiniteSet(files)
    /\ \A f, g \in files : f.path = g.path => f = g
    /\ documents \subseteq Documents /\ stage \in Stages
    /\ \A d, e \in documents : d.path = e.path => d = e

\* what has been decided is what the files of the capture give
DecidedInv ==
    /\ stage # "capture" => collected = collect_statement_documents(documents)
    /\ stage \notin {"capture", "collected"} =>
            plan = plan_translation_inputs(describe_translation_inputs(files))
    /\ stage \in {"published", "stopped", "translated"} => compat = plan
    /\ stage \in {"published", "translated"} => ~ plan.blocked
    /\ translated = IF stage = "translated" THEN plan.selected ELSE <<>>

SelectionInv == CaptureInv /\ DecidedInv

(* What a capture holds are candidates, one for each export.               *)
LEMMA FilesAreCandidates ==
  ASSUME CaptureInv
  PROVE  Candidates(describe_translation_inputs(files))
<1> DEFINE cs == describe_translation_inputs(files)
           d == [f \in files |-> Describe(f)]
<1>1. IsFiniteSet(cs)
  <2>1. d \in Surjection(files, cs)
    BY DEF Surjection, describe_translation_inputs
  <2> HIDE DEF d, cs
  <2> QED
    BY <2>1, FS_Surjection DEF CaptureInv
<1>2. ASSUME NEW c \in cs
      PROVE  /\ c.id \in Nat /\ c.rank \in Nat
             /\ c.kind \in {"unknown", "adapter_rank", "capture_completed_at",
                            "export_timestamp"}
             /\ c.coverage.start \in 0..Horizon /\ c.coverage.end \in 0..Horizon
  <2>1. PICK f \in files : c = Describe(f)
    BY DEF describe_translation_inputs
  <2>2. f \in Exports
    BY DEF CaptureInv
  <2> QED
    BY <2>1, <2>2, ExportAssumption DEF Describe, Coverage
<1>3. ASSUME NEW c \in cs, NEW e \in cs, c.id = e.id PROVE c = e
  <2>1. PICK f \in files : c = Describe(f)
    BY DEF describe_translation_inputs
  <2>2. PICK g \in files : e = Describe(g)
    BY DEF describe_translation_inputs
  <2>3. c.id = f.path /\ e.id = g.path
    BY <2>1, <2>2 DEF Describe
  <2> QED
    BY <1>3, <2>1, <2>2, <2>3 DEF CaptureInv
<1> QED
  BY <1>1, <1>2, <1>3 DEF Candidates

LEMMA SelectionInit ==
  ASSUME Init
  PROVE  SelectionInv
BY FS_EmptySet DEF Init, SelectionInv, CaptureInv, DecidedInv, Stages

LEMMA SelectionNext ==
  ASSUME SelectionInv, [Next]_vars
  PROVE  SelectionInv'
<1> USE DEF SelectionInv
<1>1. ASSUME NEW f \in Exports, AddFile(f) PROVE SelectionInv'
  <2>1. IsFiniteSet(files')
    BY <1>1, FS_AddElement DEF AddFile, CaptureInv
  <2>2. CaptureInv'
    BY <1>1, <2>1 DEF AddFile, CaptureInv
  <2>3. DecidedInv'
    BY <1>1 DEF AddFile, DecidedInv
  <2> QED
    BY <2>2, <2>3
<1>2. ASSUME NEW d \in Documents, AddDocument(d) PROVE SelectionInv'
  BY <1>2 DEF AddDocument, CaptureInv, DecidedInv
<1>3. CASE CollectStatements
  BY <1>3 DEF CollectStatements, CaptureInv, DecidedInv, Stages
<1>4. CASE PlanInputs
  BY <1>4 DEF PlanInputs, CaptureInv, DecidedInv, Stages
<1>5. CASE PublishPlan
  <2> DEFINE cs == describe_translation_inputs(files)
  <2>1. CaptureInv'
    BY <1>5 DEF PublishPlan, CaptureInv, Stages
  <2>2. plan = plan_translation_inputs(cs) /\ translated = <<>>
    BY <1>5 DEF PublishPlan, DecidedInv
  <2>3. Candidates(cs)
    BY FilesAreCandidates
  <2> HIDE DEF cs
  <2>4. /\ evidence' = build_evidence_set(cs, plan, collected)
        /\ compat' = IF evidence' = NoEvidence THEN plan
                     ELSE reconstruct_translation_input_plan(evidence', cs, plan)
    BY <1>5 DEF PublishPlan, cs
  <2>5. compat' = plan
    BY <2>2, <2>3, <2>4, RebuiltPlanAgrees
  <2>6. /\ files' = files /\ documents' = documents /\ plan' = plan
        /\ collected' = collected /\ translated' = translated
        /\ stage' = IF plan.blocked THEN "stopped" ELSE "published"
    BY <1>5, <2>5 DEF PublishPlan
  <2>7. DecidedInv'
    BY <1>5, <2>2, <2>5, <2>6 DEF PublishPlan, DecidedInv, cs
  <2> QED
    BY <2>1, <2>7
<1>6. CASE TranslateSelected
  BY <1>6 DEF TranslateSelected, CaptureInv, DecidedInv, Stages
<1>7. CASE NextCapture
  BY <1>7, FS_EmptySet DEF NextCapture, CaptureInv, DecidedInv, Stages
<1>8. CASE UNCHANGED vars
  BY <1>8 DEF vars, CaptureInv, DecidedInv
<1> QED
  BY <1>1, <1>2, <1>3, <1>4, <1>5, <1>6, <1>7, <1>8 DEF Next

LEMMA SelectionAlways == Spec => []SelectionInv
<1>1. Init => SelectionInv
  BY SelectionInit
<1>2. SelectionInv /\ [Next]_vars => SelectionInv'
  BY SelectionNext
<1> QED
  BY <1>1, <1>2, PTL DEF Spec

-----------------------------------------------------------------------------
(* Theorems *)

(* Every stage has what the stages before it leave: a status for every     *)
(* usable statement, a decision for every export, rows of exports of the   *)
(* capture (planner.py:26-143).                                            *)
THEOREM SelectionTypes == Spec => []TypeOK
<1>1. ASSUME SelectionInv PROVE TypeOK
  <2> DEFINE cs == describe_translation_inputs(files)
  <2>1. Candidates(cs)
    BY <1>1, FilesAreCandidates DEF SelectionInv
  <2>2. files \subseteq Exports /\ documents \subseteq Documents /\ stage \in Stages
    BY <1>1 DEF SelectionInv, CaptureInv
  <2>3. collect_statement_documents(documents)
            \in [Usable(documents) -> {"selected", "superseded", "blocked"}]
    BY StatusesOfDocuments
  <2>4. Ids(cs) = { f.path : f \in files }
    <3>1. \A f \in files : Describe(f) \in cs /\ Describe(f).id = f.path
      BY DEF describe_translation_inputs, Describe
    <3>2. \A c \in cs : \E f \in files : c = Describe(f)
      BY DEF describe_translation_inputs
    <3> HIDE DEF cs
    <3>3. \A f \in files : f.path \in Ids(cs)
      BY <3>1 DEF Ids
    <3>4. \A i \in Ids(cs) : \E f \in files : i = f.path
      BY <3>1, <3>2 DEF Ids
    <3> QED
      BY <3>3, <3>4
  <2> HIDE DEF cs
  <2>5. ASSUME stage \notin {"capture", "collected"}
        PROVE  DOMAIN plan.decisions = { f.path : f \in files }
    <3>1. plan = plan_translation_inputs(cs)
      BY <1>1, <2>5 DEF SelectionInv, DecidedInv, cs
    <3>2. DecisionsOf(cs, plan.decisions)
      BY <2>1, <3>1, PlanDecides
    <3> QED
      BY <2>4, <3>2, DecisionsDomain
  <2>6. translated \in Seq(cs)
    <3>1. CASE stage # "translated"
      BY <1>1, <3>1 DEF SelectionInv, DecidedInv
    <3>2. CASE stage = "translated"
      <4> DEFINE S == Chosen(cs, plan_translation_inputs(cs).decisions)
      <4>1. translated = SelectionOrder(S)
        BY <1>1, <2>1, <3>2, PlanDecides DEF SelectionInv, DecidedInv, cs
      <4>2. S \in SUBSET cs
        BY DEF Chosen
      <4> HIDE DEF S
      <4>3. /\ Cardinality(S) \in Nat
            /\ SelectionOrder(S) \in [1..Cardinality(S) -> S]
        BY <2>1, <4>2, SomeCandidates, SelectionOrderLists
      <4>4. translated \in [1..Cardinality(S) -> cs]
        BY <4>1, <4>2, <4>3
      <4> QED
        BY <4>3, <4>4
    <3> QED
      BY <3>1, <3>2
  <2> QED
    BY <1>1, <2>2, <2>3, <2>5, <2>6 DEF SelectionInv, DecidedInv, TypeOK, cs
<1> QED
  BY <1>1, SelectionAlways, PTL

(* The plan rebuilt from the persisted evidence set, whose verdict lets    *)
(* the translation go on, is the planner's, which is executed: whatever    *)
(* exports and statements the capture holds                                *)
(* (compatibility/translation_inputs.py:31-134).                           *)
THEOREM ExecutedPlanWasPublished == Spec => []PublishedPlanIsExecuted
<1>1. SelectionInv => PublishedPlanIsExecuted
  BY DEF SelectionInv, DecidedInv, PublishedPlanIsExecuted
<1> QED
  BY <1>1, SelectionAlways, PTL

(* Two exports of one selection group whose rows are translated cover no   *)
(* common instant, so nothing that happened is booked from both            *)
(* (overlap.py:34-90, selection.py:40-51).                                 *)
THEOREM ActivityIsCountedOnce == Spec => []NoActivityCountedTwice
<1>1. ASSUME SelectionInv PROVE NoActivityCountedTwice
  <2> DEFINE cs == describe_translation_inputs(files)
             D == plan_translation_inputs(cs).decisions
  <2>1. Candidates(cs)
    BY <1>1, FilesAreCandidates DEF SelectionInv
  <2>2. CASE stage # "translated"
    BY <1>1, <2>2 DEF SelectionInv, DecidedInv, NoActivityCountedTwice
  <2>3. CASE stage = "translated"
    <3>1. translated = plan_translation_inputs(cs).selected
      BY <1>1, <2>3 DEF SelectionInv, DecidedInv
    <3> HIDE DEF cs
    <3>2. /\ \A i \in DOMAIN translated : translated[i] \in Chosen(cs, D)
          /\ \A i, j \in DOMAIN translated : translated[i] = translated[j] => i = j
      BY <2>1, <3>1, PlanLists
    <3>3. \A c, d \in Chosen(cs, D) :
            c # d /\ c.group = d.group => coverage_relation(c, d) = "disjoint"
      BY <2>1, PlanDecides
    <3>4. Chosen(cs, D) \in SUBSET cs
      BY DEF Chosen
    <3> HIDE DEF D
    <3>5. ASSUME NEW i \in DOMAIN translated, NEW j \in DOMAIN translated, i # j,
                 translated[i].group = translated[j].group, NEW t \in 0..(Horizon + 1)
          PROVE  ~ (Covers(translated[i], t) /\ Covers(translated[j], t))
      <4>1. coverage_relation(translated[i], translated[j]) = "disjoint"
        BY <3>2, <3>3, <3>5
      <4>2. translated[i] \in cs /\ translated[j] \in cs /\ t \in Nat
        BY <3>2, <3>4, BoundAssumption
      <4> QED
        BY <2>1, <4>1, <4>2, DisjointIsApart
    <3> QED
      BY <3>5 DEF NoActivityCountedTwice
  <2> QED
    BY <2>2, <2>3
<1> QED
  BY <1>1, SelectionAlways, PTL

(* When a capture is translated, every export is represented by one that   *)
(* is: of its group, no staler or with the same bytes, and, where the      *)
(* group's exports are ranges, covering whatever it covers                 *)
(* (selection.py:40-190).                                                  *)
THEOREM NothingTranslatedIsLost == Spec => []NoActivityLost
<1>1. ASSUME SelectionInv, stage = "translated",
             NEW c \in describe_translation_inputs(files)
      PROVE  \E i \in DOMAIN translated :
                LET w == translated[i]
                IN  /\ w.group = c.group
                    /\ ~ Fresher(c, w) \/ c.fingerprint = w.fingerprint
                    /\ RangeGroup(c) => winner_contains_all_candidates(w, {c})
  <2> DEFINE cs == describe_translation_inputs(files)
             D == plan_translation_inputs(cs).decisions
  <2>1. Candidates(cs)
    BY <1>1, FilesAreCandidates DEF SelectionInv
  <2>2. /\ translated = plan_translation_inputs(cs).selected
        /\ ~ plan_translation_inputs(cs).blocked
    BY <1>1 DEF SelectionInv, DecidedInv
  <2>3. RangeGroup(c) => Ranged(GroupOf(cs, c.group))
    <3>1. ASSUME RangeGroup(c), NEW e \in GroupOf(cs, c.group)
          PROVE  e.mode # "exclusive_snapshot"
      <4>1. PICK f \in files : e = Describe(f)
        BY DEF GroupOf, describe_translation_inputs
      <4>2. e.mode = f.mode /\ e.group = f.group /\ e.group = c.group
        BY <4>1 DEF Describe, GroupOf
      <4> QED
        BY <3>1, <4>2 DEF RangeGroup
    <3> QED
      BY <3>1 DEF Ranged
  <2>4. c \in cs
    OBVIOUS
  <2> HIDE DEF cs
  <2>5. ~ Held(D)
    BY <2>1, <2>2, PlanDecides
  <2>6. PICK w \in Chosen(cs, D) :
            /\ w.group = c.group /\ StandsFor(w, c)
            /\ Ranged(GroupOf(cs, c.group)) => CoversWhole(w, c)
    BY <2>1, <2>4, <2>5, PlanDecides
  <2>7. PICK i \in DOMAIN translated : translated[i] = w
    BY <2>1, <2>2, PlanLists
  <2> QED
    BY <2>3, <2>6, <2>7 DEF StandsFor, CoversWhole
<1>2. SelectionInv => NoActivityLost
  BY <1>1 DEF NoActivityLost
<1> QED
  BY <1>2, SelectionAlways, PTL

(* Whatever statements are selected, no two references speak of one        *)
(* location, instrument, kind and date, and of the rows that do the first  *)
(* of the statement of highest precedence is what the references say, to   *)
(* the quantity (source_evidence.py:101-245).                              *)
THEOREM NewestStatementIsTaken == Spec => []NewestStatementDecides
<1>1. ASSUME SelectionInv, stage # "capture" PROVE Statements(SelectedDocuments)
  <2>1. collected \in [Usable(documents) -> {"selected", "superseded", "blocked"}]
    BY <1>1, StatusesOfDocuments DEF SelectionInv, DecidedInv
  <2>2. SelectedDocuments \subseteq documents
    BY <2>1 DEF SelectedDocuments, Usable
  <2> QED
    BY <1>1, <2>2 DEF SelectionInv, CaptureInv, Statements
<1>2. SelectionInv => OneReferencePerTarget
  BY <1>1, OneReference DEF OneReferencePerTarget
<1>3. ASSUME SelectionInv PROVE NewestStatementSpeaks
  BY <1>1, <1>3, FirstIsQuoted DEF NewestStatementSpeaks
<1>4. SelectionInv => NewestStatementDecides
  BY <1>2, <1>3 DEF NewestStatementDecides
<1> QED
  BY <1>4, SelectionAlways, PTL
=============================================================================
